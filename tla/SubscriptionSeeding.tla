------------------------- MODULE SubscriptionSeeding -------------------------
(***************************************************************************)
(* subscription-service: its three tables and the start of a replica.      *)
(* `seed` of schema.go runs one statement at a time and in no transaction, *)
(* each guarded by a count made before; any failure ends the process and   *)
(* the platform starts it again.  Postgres is external: a statement is     *)
(* atomic, primary and foreign keys are enforced.                          *)
(***************************************************************************)
EXTENDS Naturals, Sequences

CONSTANTS
  Replicas,      \* copies of the service there may be
  Deployed,      \* those that are started from the beginning
  Plans, Customers,
  Fields,        \* what a plan says: name, dataGb, priceCents
  Values,
  SeedPlans,     \* ids of the demo plans, in the order they are inserted
  SeedDetails,   \* what they say
  SeedCustomers, \* ids of the demo customers, in order
  SeedPlanOf,    \* subs: the plan of each demo customer
  MaxFaults      \* bound: crashes, failed statements and lost answers

Details == [Fields -> Values]

SeqOf(set, s) == s \in Seq(set) /\ \A i, j \in 1..Len(s) : s[i] = s[j] => i = j

ASSUME SeedAssumption ==
  /\ Deployed \subseteq Replicas
  /\ SeqOf(Plans, SeedPlans) /\ SeqOf(Customers, SeedCustomers)
  /\ SeedDetails \in [Plans -> Details]
  /\ SeedPlanOf \in [Customers -> Plans]
  /\ MaxFaults \in Nat

VARIABLES
  plans,      \* rows of plans: id -> [details, active]
  customers,  \* rows of customers: ids
  subs,       \* rows of subscriptions: customer id -> plan id
  boot,       \* boot[r]: [step, todo], the statement replica r is at
  faults      \* faults so far

tables == <<plans, customers, subs>>
seedVars == <<tables, boot, faults>>

SeedInit ==
  /\ plans = [p \in {} |-> 0] /\ customers = {} /\ subs = [c \in {} |-> 0]
  /\ boot = [r \in Replicas |-> [step |-> IF r \in Deployed THEN "down" ELSE "absent", todo |-> {}]]
  /\ faults = 0

\* A row is added, or the row with that key is replaced.
Put(table, key, row) ==
  [k \in DOMAIN table \cup {key} |-> IF k = key THEN row ELSE table[k]]

GoTo(r, step, todo) == boot' = [boot EXCEPT ![r] = [step |-> step, todo |-> todo]]
Die(r) == GoTo(r, "down", {})
At(r, step) == boot[r].step = step

\* The demo rows are inserted in the order of the program.
First(s, todo) == s[CHOOSE i \in DOMAIN s : s[i] \in todo /\ \A j \in 1..(i - 1) : s[j] \notin todo]
IdsOf(s) == {s[i] : i \in DOMAIN s}

\* The process starts, connects and migrates; the tables are there already.
Start(r) ==
  /\ At(r, "down") /\ GoTo(r, "count plans", {})
  /\ UNCHANGED <<tables, faults>>

CountPlans(r) ==
  /\ At(r, "count plans")
  /\ IF DOMAIN plans = {} THEN GoTo(r, "plans", IdsOf(SeedPlans))
                          ELSE GoTo(r, "count customers", {})
  /\ UNCHANGED <<tables, faults>>

\* Mutant of SeedPlan: demo data is written over what is there.
SeedPlanOver(r) ==
  /\ At(r, "plans") /\ boot[r].todo # {}
  /\ LET id == First(SeedPlans, boot[r].todo) IN
       /\ plans' = Put(plans, id, [details |-> SeedDetails[id], active |-> TRUE])
       /\ GoTo(r, "plans", boot[r].todo \ {id})
  /\ UNCHANGED <<customers, subs, faults>>

\* A row that another replica has inserted meanwhile is fatal.
SeedPlan(r) ==
  /\ At(r, "plans") /\ boot[r].todo # {}
  /\ LET id == First(SeedPlans, boot[r].todo) IN
       \/ /\ id \notin DOMAIN plans
          /\ plans' = Put(plans, id, [details |-> SeedDetails[id], active |-> TRUE])
          /\ GoTo(r, "plans", boot[r].todo \ {id})
       \/ /\ id \in DOMAIN plans
          /\ Die(r) /\ UNCHANGED plans
  /\ UNCHANGED <<customers, subs, faults>>

PlansSeeded(r) ==
  /\ At(r, "plans") /\ boot[r].todo = {} /\ GoTo(r, "count customers", {})
  /\ UNCHANGED <<tables, faults>>

\* Mutant of CountCustomers: the subscriptions get a guard of their own.
CountSubscriptions(r) ==
  /\ At(r, "count customers")
  /\ IF customers = {} THEN GoTo(r, "customers", IdsOf(SeedCustomers))
     ELSE IF DOMAIN subs = {} THEN GoTo(r, "subscriptions", IdsOf(SeedCustomers))
     ELSE GoTo(r, "serving", {})
  /\ UNCHANGED <<tables, faults>>

CountCustomers(r) ==
  /\ At(r, "count customers")
  /\ IF customers = {} THEN GoTo(r, "customers", IdsOf(SeedCustomers))
                       ELSE GoTo(r, "serving", {})
  /\ UNCHANGED <<tables, faults>>

SeedCustomer(r) ==
  /\ At(r, "customers") /\ boot[r].todo # {}
  /\ LET id == First(SeedCustomers, boot[r].todo) IN
       \/ /\ id \notin customers /\ customers' = customers \cup {id}
          /\ GoTo(r, "customers", boot[r].todo \ {id})
       \/ id \in customers /\ Die(r) /\ UNCHANGED customers
  /\ UNCHANGED <<plans, subs, faults>>

CustomersSeeded(r) ==
  /\ At(r, "customers") /\ boot[r].todo = {}
  /\ GoTo(r, "subscriptions", IdsOf(SeedCustomers))
  /\ UNCHANGED <<tables, faults>>

\* The subscriptions are ranged over as a map, in any order.
SeedSubscription(r) ==
  /\ At(r, "subscriptions")
  /\ \E c \in boot[r].todo :
       LET keysHold == c \notin DOMAIN subs /\ c \in customers
                       /\ SeedPlanOf[c] \in DOMAIN plans
       IN  \/ /\ keysHold
              /\ subs' = Put(subs, c, SeedPlanOf[c])
              /\ GoTo(r, "subscriptions", boot[r].todo \ {c})
           \/ ~keysHold /\ Die(r) /\ UNCHANGED subs
  /\ UNCHANGED <<plans, customers, faults>>

SubscriptionsSeeded(r) ==
  /\ At(r, "subscriptions") /\ boot[r].todo = {} /\ GoTo(r, "serving", {})
  /\ UNCHANGED <<tables, faults>>

\* A failed statement is fatal during the start; a crash may come any time.
Crash(r) ==
  /\ boot[r].step \notin {"absent", "down"} /\ faults < MaxFaults /\ faults' = faults + 1
  /\ Die(r) /\ UNCHANGED tables

Boot(r) ==
  \/ Start(r)
  \/ CountPlans(r) \/ SeedPlan(r) \/ PlansSeeded(r)
  \/ CountCustomers(r) \/ SeedCustomer(r) \/ CustomersSeeded(r)
  \/ SeedSubscription(r) \/ SubscriptionsSeeded(r)
=============================================================================
