------------------------- MODULE SubscriptionProofs -------------------------
(***************************************************************************)
(* Proofs about SubscriptionService, for any number of replicas, callers,  *)
(* plans, customers, calls and faults: every field of a plan was asked     *)
(* for, a withdrawn plan stays withdrawn, nobody is moved to a plan        *)
(* withdrawn before the request began, a starting replica takes nothing    *)
(* back, and an answer shows the plan in force.                            *)
(***************************************************************************)
EXTENDS SubscriptionService, WellFoundedInduction, TLAPS

(***************************************************************************)
(* The inductive invariant.  Rows of the catalog and calls are records, so *)
(* that EXCEPT leaves their other fields alone.                            *)
(***************************************************************************)
Row(details, active) == [details |-> details, active |-> active]

PlanRows == \A p \in DOMAIN plans : DOMAIN plans[p] = {"details", "active"}

CallFields == {"tool", "step", "on", "plan", "customer", "wants", "shown", "born", "moved"}

CallTyped ==
  /\ DOMAIN call = Callers
  /\ \A c \in Callers : /\ DOMAIN call[c] = CallFields
                        /\ call[c].born \in Nat /\ call[c].born <= calls
  /\ calls \in Nat /\ calls <= MaxCalls

\* What a call is about to write has been asked for.
WantsAsked ==
  \A c \in Callers :
    /\ AtStep(c, "insert plan") => call[c].wants \in Details
    /\ AtStep(c, "put plan") =>
         \A f \in Fields : <<call[c].plan, f, call[c].wants[f]>> \in asked

\* A plan that is offered, or not there yet, has not been withdrawn; whoever
\* has been moved, or has found the plan offered and is about to be, began
\* before it was withdrawn.
Timely ==
  /\ retired \in [Plans -> Nat]
  /\ \A p \in Plans : p \notin DOMAIN plans \/ plans[p].active => retired[p] = MaxCalls + 1
  /\ moves \in Seq([customer : Customers, plan : Plans, born : Nat])
  /\ \A i \in 1..Len(moves) : moves[i].born <= calls
  /\ \A c \in Callers : AtStep(c, "upsert") => call[c].born <= retired[call[c].plan]

\* Only a change of plan moves a customer.
Changing ==
  \A c \in Callers :
    /\ call[c].tool = "change" => call[c].plan \in Plans /\ call[c].customer \in Customers
    /\ call[c].step \in {"check plan", "upsert"} => call[c].tool = "change"
    /\ AtStep(c, "exists") => call[c].tool \in {"change", "show"}

CatalogInv == PlanRows /\ ValuesAsked /\ CallTyped /\ WantsAsked
MovesInv == CallTyped /\ Timely /\ Changing /\ NoMoveToWithdrawn /\ PlanRows

-----------------------------------------------------------------------------
(* A starting replica adds demo plans and nothing else to the catalog. *)
LEMMA BootPlans ==
  ASSUME NEW r, Boot(r)
  PROVE  \/ plans' = plans
         \/ \E p : /\ p \notin DOMAIN plans
                   /\ plans' = Put(plans, p, Row(SeedDetails[p], TRUE))
<1>1. CASE SeedPlan(r)
  <2> DEFINE id == First(SeedPlans, boot[r].todo)
  <2>1. \/ UNCHANGED plans
        \/ id \notin DOMAIN plans /\ plans' = Put(plans, id, Row(SeedDetails[id], TRUE))
    BY <1>1 DEF SeedPlan, Row
  <2> QED
    BY <2>1
<1>2. CASE ~SeedPlan(r)
  BY <1>2 DEF Boot, Start, CountPlans, PlansSeeded, CountCustomers, SeedCustomer,
              CustomersSeeded, SeedSubscription, SubscriptionsSeeded, tables
<1> QED
  BY <1>1, <1>2

(* No call: nothing is about to be written. *)
LEMMA IdleIs ==
  /\ DOMAIN Idle = CallFields
  /\ Idle.born = 0 /\ Idle.step = "done" /\ Idle.tool = "none"
BY DEF Idle, CallFields

(* One call changes and stays a record; the others are left alone. *)
LEMMA CallIs ==
  ASSUME CallTyped, NEW c \in Callers, NEW record,
         call' = [call EXCEPT ![c] = record], DOMAIN record = CallFields,
         calls' \in Nat, calls <= calls', calls' <= MaxCalls,
         record.born \in Nat, record.born <= calls'
  PROVE  CallTyped'
<1>1. DOMAIN call' = Callers /\ \A d \in Callers : call'[d] = IF d = c THEN record ELSE call[d]
  BY DEF CallTyped
<1>2. \A d \in Callers : DOMAIN call'[d] = CallFields
  BY <1>1 DEF CallTyped
<1>3. \A d \in Callers : call'[d].born \in Nat /\ call'[d].born <= calls'
  BY <1>1, CallsAssumption DEF CallTyped
<1> QED
  BY <1>1, <1>2, <1>3 DEF CallTyped

(* It ends, or goes on to another statement. *)
LEMMA CallEnds ==
  ASSUME CallTyped, NEW c \in Callers, Ends(c), UNCHANGED calls
  PROVE  CallTyped'
BY CallIs, IdleIs DEF Ends, CallTyped

(* Going on changes the statement only. *)
LEMMA CallGoes ==
  ASSUME CallTyped, NEW c \in Callers, NEW step, Goes(c, step), UNCHANGED calls
  PROVE  CallTyped'
<1> DEFINE record == [call[c] EXCEPT !.step = step]
<1>1. DOMAIN record = CallFields /\ record.born = call[c].born
  BY DEF CallTyped, CallFields
<1>2. call' = [call EXCEPT ![c] = record]
  BY DEF Goes
<1> HIDE DEF record
<1> QED
  BY <1>1, <1>2, CallIs DEF CallTyped

(***************************************************************************)
(* A call stays a record with these fields, and its number is one of those *)
(* given so far.                                                           *)
(***************************************************************************)
LEMMA TypedStep == CallTyped /\ [Next]_vars => CallTyped'
<1> SUFFICES ASSUME CallTyped, [Next]_vars PROVE CallTyped'
  OBVIOUS
<1> USE DEF history
<1>1. ASSUME NEW r \in Replicas, ScaleUp(r) \/ BootStep(r) PROVE CallTyped'
  BY <1>1, CallsAssumption DEF ScaleUp, BootStep, CallTyped
<1>2. ASSUME NEW r \in Replicas, ReplicaCrash(r) PROVE CallTyped'
  BY <1>2, IdleIs DEF ReplicaCrash, CallTyped
<1>3. ASSUME NEW c \in Callers, CreatePlan(c) \/ PutRefused(c) \/ PutPlan(c) \/ DeletePlan(c)
                                 \/ CallFails(c)
      PROVE  CallTyped'
  BY <1>3, CallEnds DEF CreatePlan, PutRefused, PutPlan, DeletePlan, CallFails
<1>4. ASSUME NEW c \in Callers, CustomerExists(c) \/ CheckPlan(c) PROVE CallTyped'
  BY <1>4, CallEnds, CallGoes DEF CustomerExists, CheckPlan
<1>5. ASSUME NEW c \in Callers, GetPlans(c) PROVE CallTyped'
  <2> DEFINE record == [call[c] EXCEPT !.step = "put plan", !.on = "none",
                          !.wants = Merged(@, plans[call[c].plan].details)]
  <2>1. DOMAIN record = CallFields /\ record.born = call[c].born
    BY DEF CallTyped, CallFields
  <2>2. Ends(c) \/ call' = [call EXCEPT ![c] = record]
    BY <1>5 DEF GetPlans
  <2>3. UNCHANGED calls
    BY <1>5 DEF GetPlans
  <2> HIDE DEF record
  <2> QED
    BY <2>1, <2>2, <2>3, CallIs, CallEnds DEF CallTyped
<1>6. ASSUME NEW c \in Callers, Upsert(c) PROVE CallTyped'
  <2> DEFINE record == [call[c] EXCEPT !.step = "fetch", !.moved = Len(moves')]
  <2>1. DOMAIN record = CallFields /\ record.born = call[c].born
    BY DEF CallTyped, CallFields
  <2>2. call' = [call EXCEPT ![c] = record] /\ UNCHANGED calls
    BY <1>6 DEF Upsert
  <2> HIDE DEF record
  <2> QED
    BY <2>1, <2>2, CallIs DEF CallTyped
<1>7. ASSUME NEW c \in Callers, Fetch(c) PROVE CallTyped'
  <2> DEFINE record == [Idle EXCEPT !.customer = call[c].customer, !.moved = call[c].moved,
                                    !.shown = subs[call[c].customer]]
  <2>1. DOMAIN record = CallFields /\ record.born = 0
    BY IdleIs DEF CallFields
  <2>2. Ends(c) \/ call' = [call EXCEPT ![c] = record]
    BY <1>7 DEF Fetch
  <2>3. UNCHANGED calls
    BY <1>7 DEF Fetch
  <2> HIDE DEF record
  <2> QED
    BY <2>1, <2>2, <2>3, CallIs, CallEnds DEF CallTyped
<1>8. ASSUME NEW c \in Callers, NEW r \in Replicas, NEW request \in Requests,
             Begin(c, r, request)
      PROVE  CallTyped'
  <2> DEFINE record == [Idle EXCEPT !.tool = request.tool, !.step = request.step, !.on = r,
                          !.plan = request.plan, !.customer = request.customer,
                          !.wants = request.wants, !.born = calls',
                          !.moved = IF request.tool = "show" THEN Len(moves) ELSE 0]
  <2>1. DOMAIN record = CallFields /\ record.born = calls'
    BY IdleIs DEF CallFields
  <2>2. call' = [call EXCEPT ![c] = record] /\ calls' = calls + 1 /\ calls < MaxCalls
    BY <1>8 DEF Begin
  <2> HIDE DEF record
  <2> QED
    BY <2>1, <2>2, CallIs, CallsAssumption DEF CallTyped
<1>9. CASE UNCHANGED vars
  BY <1>9 DEF vars, CallTyped
<1> QED
  BY <1>1, <1>2, <1>3, <1>4, <1>5, <1>6, <1>7, <1>8, <1>9 DEF Next, CallStep

-----------------------------------------------------------------------------
(* At first there is no plan and no call. *)
LEMMA InitCatalog == Init => CatalogInv
<1> SUFFICES ASSUME Init PROVE CatalogInv
  OBVIOUS
<1>1. DOMAIN plans = {}
  BY DEF Init, SeedInit
<1>2. DOMAIN call = Callers /\ \A c \in Callers : call[c] = Idle
  BY DEF Init
<1>3. CallTyped
  BY <1>2, IdleIs, CallsAssumption DEF Init, CallTyped
<1> QED
  BY <1>1, <1>2, <1>3, IdleIs DEF CatalogInv, PlanRows, ValuesAsked, WantsAsked, AtStep

(***************************************************************************)
(* A step that asks for nothing back, and leaves the catalog and what      *)
(* other calls are about to write alone.                                   *)
(***************************************************************************)
LEMMA OthersKeepWants ==
  ASSUME CatalogInv, NEW c \in Callers, asked \subseteq asked',
         \A d \in Callers \ {c} : call'[d] = call[d],
         call'[c].step \notin {"insert plan", "put plan"}
  PROVE  WantsAsked'
BY DEF CatalogInv, WantsAsked, AtStep

(* What was asked for stays asked for. *)
LEMMA AskedOnly ==
  ASSUME CatalogInv, UNCHANGED plans, asked \subseteq asked'
  PROVE  PlanRows' /\ ValuesAsked'
BY DEF CatalogInv, PlanRows, ValuesAsked

(* A call that ends writes nothing more, and is the only one that changes. *)
LEMMA EndedCall ==
  ASSUME CallTyped, NEW c \in Callers, Ends(c)
  PROVE  /\ \A d \in Callers \ {c} : call'[d] = call[d]
         /\ call'[c].step \notin {"insert plan", "put plan"}
BY IdleIs DEF CallTyped, Ends

(* A call that goes on is the only one that changes. *)
LEMMA GoneCall ==
  ASSUME CallTyped, NEW c \in Callers, NEW step, Goes(c, step)
  PROVE  /\ \A d \in Callers \ {c} : call'[d] = call[d]
         /\ call'[c].step = step
BY DEF CallTyped, Goes, CallFields

(***************************************************************************)
(* A create adds a plan that says what it asked for, a PUT replaces what a *)
(* plan says by fields that were asked for, by the tool or, as far as it   *)
(* had read them, by somebody before it; the demo data asks for itself.    *)
(***************************************************************************)
LEMMA CatalogStep == CatalogInv /\ [Next]_vars => CatalogInv'
<1> SUFFICES ASSUME CatalogInv, [Next]_vars PROVE PlanRows' /\ ValuesAsked' /\ WantsAsked'
  BY TypedStep DEF CatalogInv
<1>0. PlanRows /\ ValuesAsked /\ CallTyped /\ WantsAsked
  BY DEF CatalogInv
<1>1. ASSUME NEW r \in Replicas, ScaleUp(r) PROVE PlanRows' /\ ValuesAsked' /\ WantsAsked'
  BY <1>0, <1>1 DEF ScaleUp, tables, PlanRows, ValuesAsked, WantsAsked, AtStep
<1>2. ASSUME NEW r \in Replicas, BootStep(r) PROVE PlanRows' /\ ValuesAsked' /\ WantsAsked'
  <2>1. UNCHANGED call /\ asked \subseteq asked'
    BY <1>2 DEF BootStep
  <2>2. WantsAsked'
    BY <1>0, <2>1 DEF WantsAsked, AtStep
  <2>3. CASE UNCHANGED plans
    BY <2>1, <2>2, <2>3, AskedOnly
  <2>4. ASSUME NEW p, p \notin DOMAIN plans, plans' = Put(plans, p, Row(SeedDetails[p], TRUE))
        PROVE  PlanRows' /\ ValuesAsked'
    <3>1. DOMAIN plans' = DOMAIN plans \cup {p} /\ plans'[p] = Row(SeedDetails[p], TRUE)
          /\ \A q \in DOMAIN plans : plans'[q] = plans[q]
      BY <2>4 DEF Put
    <3>2. \A f \in Fields : <<p, f, SeedDetails[p][f]>> \in asked'
      <4>1. asked' = asked \cup {<<q, f, SeedDetails[q][f]>> :
                                   q \in DOMAIN plans' \ DOMAIN plans, f \in Fields}
        BY <1>2 DEF BootStep
      <4>2. p \in DOMAIN plans' \ DOMAIN plans
        BY <2>4, <3>1
      <4> QED
        BY <4>1, <4>2
    <3> QED
      BY <1>0, <2>1, <3>1, <3>2 DEF PlanRows, ValuesAsked, Row
  <2> QED
    BY <1>2, <2>2, <2>3, <2>4, BootPlans DEF BootStep
<1>3. ASSUME NEW r \in Replicas, ReplicaCrash(r) PROVE PlanRows' /\ ValuesAsked' /\ WantsAsked'
  <2>1. UNCHANGED <<plans, asked>>
    BY <1>3 DEF ReplicaCrash, Crash, tables, history
  <2>2. \A c \in Callers : call'[c] = call[c] \/ call'[c] = Idle
    BY <1>3 DEF ReplicaCrash
  <2> QED
    BY <1>0, <2>1, <2>2, IdleIs, AskedOnly DEF WantsAsked, AtStep
<1>4. ASSUME NEW c \in Callers, CreatePlan(c) PROVE PlanRows' /\ ValuesAsked' /\ WantsAsked'
  <2> DEFINE p == call[c].plan
  <2>1. Ends(c) /\ asked \subseteq asked'
    BY <1>4 DEF CreatePlan, Asks
  <2>2. WantsAsked'
    BY <1>0, <2>1, EndedCall, OthersKeepWants
  <2>3. CASE p \in DOMAIN plans
    BY <1>4, <2>1, <2>2, <2>3, AskedOnly DEF CreatePlan
  <2>4. CASE p \notin DOMAIN plans
    <3>1. plans' = Put(plans, p, Row(call[c].wants, TRUE)) /\ Asks(p, call[c].wants)
      BY <1>4, <2>4 DEF CreatePlan, Row
    <3>2. DOMAIN plans' = DOMAIN plans \cup {p} /\ plans'[p] = Row(call[c].wants, TRUE)
          /\ \A q \in DOMAIN plans : plans'[q] = plans[q]
      BY <3>1, <2>4 DEF Put
    <3>3. call[c].wants \in Details
      BY <1>0, <1>4 DEF WantsAsked, CreatePlan
    <3>4. \A f \in Fields : <<p, f, call[c].wants[f]>> \in asked'
      BY <3>1, <3>3 DEF Asks, Details
    <3> QED
      BY <1>0, <2>1, <2>2, <3>2, <3>4 DEF PlanRows, ValuesAsked, Row
  <2> QED
    BY <2>3, <2>4
<1>5. ASSUME NEW c \in Callers, GetPlans(c) PROVE PlanRows' /\ ValuesAsked' /\ WantsAsked'
  <2> DEFINE p == call[c].plan
             record == [call[c] EXCEPT !.step = "put plan", !.on = "none",
                          !.wants = Merged(@, plans[p].details)]
  <2>1. UNCHANGED plans /\ asked \subseteq asked'
    BY <1>5 DEF GetPlans, Asks, seedVars, tables
  <2>2. CASE Ends(c)
    BY <1>0, <2>1, <2>2, AskedOnly, EndedCall, OthersKeepWants
  <2>3. CASE p \in Active
    <3>1. call' = [call EXCEPT ![c] = record] /\ Asks(p, call[c].wants)
      BY <1>5, <2>3 DEF GetPlans
    <3>2. record.step = "put plan" /\ record.plan = p
          /\ record.wants = Merged(call[c].wants, plans[p].details)
      BY <1>0 DEF CallTyped, CallFields
    <3>3. \A f \in Fields : <<p, f, record.wants[f]>> \in asked'
      BY <1>0, <2>1, <2>3, <3>1, <3>2 DEF Merged, Asks, Active, ValuesAsked
    <3> HIDE DEF record
    <3>4. call'[c] = record /\ \A d \in Callers \ {c} : call'[d] = call[d]
      BY <1>0, <3>1 DEF CallTyped
    <3>5. WantsAsked'
      BY <1>0, <2>1, <3>2, <3>3, <3>4 DEF WantsAsked, AtStep
    <3> QED
      BY <2>1, <3>5, AskedOnly
  <2> QED
    BY <1>5, <2>2, <2>3 DEF GetPlans
<1>6. ASSUME NEW c \in Callers, PutRefused(c) \/ CallFails(c)
      PROVE  PlanRows' /\ ValuesAsked' /\ WantsAsked'
  BY <1>0, <1>6, AskedOnly, EndedCall, OthersKeepWants
     DEF PutRefused, CallFails, seedVars, tables, history
<1>7. ASSUME NEW c \in Callers, PutPlan(c) PROVE PlanRows' /\ ValuesAsked' /\ WantsAsked'
  <2> DEFINE p == call[c].plan
  <2>1. plans' = [plans EXCEPT ![p].details = call[c].wants] /\ Ends(c) /\ UNCHANGED asked
    BY <1>7 DEF PutPlan, history
  <2>2. WantsAsked'
    BY <1>0, <2>1, EndedCall, OthersKeepWants
  <2>3. \A f \in Fields : <<p, f, call[c].wants[f]>> \in asked
    BY <1>0, <1>7 DEF WantsAsked, PutPlan
  <2>4. DOMAIN plans' = DOMAIN plans /\ (\A q \in DOMAIN plans : q # p => plans'[q] = plans[q])
    BY <2>1
  <2>5. p \in DOMAIN plans => plans'[p].details = call[c].wants
                               /\ DOMAIN plans'[p] = {"details", "active"}
    BY <1>0, <2>1 DEF PlanRows
  <2> QED
    BY <1>0, <2>1, <2>2, <2>3, <2>4, <2>5 DEF PlanRows, ValuesAsked
<1>8. ASSUME NEW c \in Callers, DeletePlan(c) PROVE PlanRows' /\ ValuesAsked' /\ WantsAsked'
  <2> DEFINE p == call[c].plan
  <2>1. Ends(c) /\ UNCHANGED asked
    BY <1>8 DEF DeletePlan
  <2>2. WantsAsked'
    BY <1>0, <2>1, EndedCall, OthersKeepWants
  <2>3. UNCHANGED plans \/ plans' = [plans EXCEPT ![p].active = FALSE]
    BY <1>8 DEF DeletePlan
  <2>4. DOMAIN plans' = DOMAIN plans
        /\ \A q \in DOMAIN plans : plans'[q].details = plans[q].details
                                    /\ DOMAIN plans'[q] = {"details", "active"}
    BY <1>0, <2>3 DEF PlanRows
  <2> QED
    BY <1>0, <2>1, <2>2, <2>4 DEF PlanRows, ValuesAsked
<1>9. ASSUME NEW c \in Callers, CustomerExists(c) \/ CheckPlan(c)
      PROVE  PlanRows' /\ ValuesAsked' /\ WantsAsked'
  <2>1. UNCHANGED <<plans, asked>>
    BY <1>9 DEF CustomerExists, CheckPlan, seedVars, tables, history
  <2>2. Ends(c) \/ \E step \in {"fetch", "check plan", "upsert"} : Goes(c, step)
    BY <1>9 DEF CustomerExists, CheckPlan
  <2>3. /\ \A d \in Callers \ {c} : call'[d] = call[d]
        /\ call'[c].step \notin {"insert plan", "put plan"}
    BY <1>0, <2>2, EndedCall, GoneCall
  <2> QED
    BY <2>1, <2>3, AskedOnly, OthersKeepWants
<1>10. ASSUME NEW c \in Callers, Upsert(c) \/ Fetch(c)
       PROVE  PlanRows' /\ ValuesAsked' /\ WantsAsked'
  <2>1. UNCHANGED <<plans, asked>>
    BY <1>10 DEF Upsert, Fetch, seedVars, tables, history
  <2>2. /\ \A d \in Callers \ {c} : call'[d] = call[d]
        /\ call'[c].step \in {"fetch", "done"}
    <3>1. CASE Upsert(c)
      BY <1>0, <3>1 DEF Upsert, CallTyped, CallFields
    <3>2. CASE Fetch(c)
      BY <1>0, <3>2, IdleIs DEF Fetch, Ends, CallTyped, CallFields
    <3> QED
      BY <1>10, <3>1, <3>2
  <2> QED
    BY <2>1, <2>2, AskedOnly, OthersKeepWants
<1>11. ASSUME NEW c \in Callers, NEW r \in Replicas, NEW request \in Requests,
              Begin(c, r, request)
       PROVE  PlanRows' /\ ValuesAsked' /\ WantsAsked'
  <2>1. UNCHANGED <<plans, asked>> /\ \A d \in Callers \ {c} : call'[d] = call[d]
    BY <1>0, <1>11 DEF Begin, seedVars, tables, CallTyped
  <2>2. call'[c].step = request.step /\ call'[c].wants = request.wants
    BY <1>0, <1>11, IdleIs DEF Begin, CallTyped, CallFields
  <2>3. /\ request.step # "put plan"
        /\ request.step = "insert plan" => request.wants \in Details
    BY CallsAssumption DEF Requests
  <2> QED
    BY <1>0, <2>1, <2>2, <2>3, AskedOnly DEF WantsAsked, AtStep
<1>12. CASE UNCHANGED vars
  BY <1>0, <1>12 DEF vars, seedVars, tables, PlanRows, ValuesAsked, WantsAsked, AtStep
<1> QED
  BY <1>1, <1>2, <1>3, <1>4, <1>5, <1>6, <1>7, <1>8, <1>9, <1>10, <1>11, <1>12
     DEF Next, CallStep

(***************************************************************************)
(* Nothing in the catalog is there that nobody asked for: the demo data,   *)
(* creates and updates account for every field of every plan.              *)
(***************************************************************************)
THEOREM ValuesTraced == Spec => []ValuesAsked
<1>1. CatalogInv => ValuesAsked
  BY DEF CatalogInv
<1> QED
  BY InitCatalog, CatalogStep, <1>1, PTL DEF Spec
-----------------------------------------------------------------------------
(***************************************************************************)
(* What a step does to the catalog: it adds a plan, says something else of *)
(* one, or withdraws one and notes when.                                   *)
(***************************************************************************)
Added(p) == p \notin DOMAIN plans /\ \E details : plans' = Put(plans, p, Row(details, TRUE))
Reworded(p) == \E details : plans' = [plans EXCEPT ![p].details = details]
Withdrawn(p) ==
  /\ plans' = [plans EXCEPT ![p].active = FALSE]
  /\ retired' = [retired EXCEPT ![p] = IF plans[p].active THEN calls ELSE @]
  /\ UNCHANGED <<calls, moves>>

(* Every step does at most one of these, and only a withdrawal is noted. *)
LEMMA CatalogMoves ==
  ASSUME [Next]_vars
  PROVE  \/ UNCHANGED <<plans, retired>>
         \/ UNCHANGED retired /\ \E p : Added(p) \/ Reworded(p)
         \/ \E p \in DOMAIN plans : Withdrawn(p)
<1>1. ASSUME NEW r \in Replicas, ScaleUp(r) \/ ReplicaCrash(r)
      PROVE  UNCHANGED <<plans, retired>>
  BY <1>1 DEF ScaleUp, ReplicaCrash, Crash, tables, history
<1>2. ASSUME NEW r \in Replicas, BootStep(r)
      PROVE  UNCHANGED retired /\ (UNCHANGED plans \/ \E p : Added(p))
  BY <1>2, BootPlans DEF BootStep, Added
<1>3. ASSUME NEW c \in Callers, CreatePlan(c)
      PROVE  UNCHANGED retired /\ (UNCHANGED plans \/ \E p : Added(p))
  BY <1>3 DEF CreatePlan, Added, Row
<1>4. ASSUME NEW c \in Callers, PutPlan(c)
      PROVE  UNCHANGED retired /\ \E p : Reworded(p)
  BY <1>4 DEF PutPlan, Reworded, history
<1>5. ASSUME NEW c \in Callers, DeletePlan(c)
      PROVE  UNCHANGED <<plans, retired>> \/ \E p \in DOMAIN plans : Withdrawn(p)
  BY <1>5 DEF DeletePlan, Withdrawn
<1>6. ASSUME NEW c \in Callers, GetPlans(c) \/ PutRefused(c) \/ CallFails(c) \/ CustomerExists(c)
                                 \/ CheckPlan(c) \/ Upsert(c) \/ Fetch(c)
      PROVE  UNCHANGED <<plans, retired>>
  BY <1>6 DEF GetPlans, PutRefused, CallFails, CustomerExists, CheckPlan, Upsert, Fetch,
              seedVars, tables, history
<1>7. ASSUME NEW c \in Callers, NEW r \in Replicas, NEW request \in Requests,
             Begin(c, r, request)
      PROVE  UNCHANGED <<plans, retired>>
  BY <1>7 DEF Begin, seedVars, tables
<1>8. CASE UNCHANGED vars
  BY <1>8 DEF vars, seedVars, tables
<1> QED
  BY <1>1, <1>2, <1>3, <1>4, <1>5, <1>6, <1>7, <1>8 DEF Next, CallStep

(***************************************************************************)
(* A plan that is withdrawn stays so: no step takes a plan out of the      *)
(* table, and none but its insertion makes one active.                     *)
(***************************************************************************)
LEMMA PlansKept ==
  ASSUME PlanRows, [Next]_vars, NEW p \in DOMAIN plans
  PROVE  /\ p \in DOMAIN plans'
         /\ plans'[p].active = plans[p].active \/ plans'[p].active = FALSE
<1>1. ASSUME NEW q, Added(q) PROVE p \in DOMAIN plans' /\ plans'[p] = plans[p]
  BY <1>1 DEF Added, Put
<1>2. ASSUME NEW q, Reworded(q)
      PROVE  p \in DOMAIN plans' /\ plans'[p].active = plans[p].active
  BY <1>2 DEF Reworded, PlanRows
<1>3. ASSUME NEW q \in DOMAIN plans, Withdrawn(q)
      PROVE  p \in DOMAIN plans' /\ (plans'[p] = plans[p] \/ plans'[p].active = FALSE)
  BY <1>3 DEF Withdrawn, PlanRows
<1> QED
  BY <1>1, <1>2, <1>3, CatalogMoves

(* Plans stay records, too. *)
LEMMA RowsStep ==
  ASSUME PlanRows, [Next]_vars
  PROVE  PlanRows'
<1>1. ASSUME NEW q, Added(q) PROVE PlanRows'
  BY <1>1 DEF Added, Put, PlanRows, Row
<1>2. ASSUME NEW q, Reworded(q) PROVE PlanRows'
  BY <1>2 DEF Reworded, PlanRows
<1>3. ASSUME NEW q \in DOMAIN plans, Withdrawn(q) PROVE PlanRows'
  BY <1>3 DEF Withdrawn, PlanRows
<1>4. CASE UNCHANGED plans
  BY <1>4 DEF PlanRows
<1> QED
  BY <1>1, <1>2, <1>3, <1>4, CatalogMoves

(* Withdrawn for good, whatever PUTs were under way. *)
THEOREM WithdrawnStays == Spec => WithdrawnForGood
<1>1. CatalogInv /\ [Next]_vars =>
        [\A p \in DOMAIN plans : ~plans[p].active => p \in DOMAIN plans' /\ ~plans'[p].active]_vars
  BY PlansKept DEF CatalogInv
<1> QED
  BY InitCatalog, CatalogStep, <1>1, PTL DEF Spec, WithdrawnForGood
-----------------------------------------------------------------------------
(***************************************************************************)
(* What a step does to one call: nothing, it ends it, takes it on to a     *)
(* statement that moves nobody, or one of the steps of a change.           *)
(***************************************************************************)
Same(c) ==
  /\ call'[c].tool = call[c].tool /\ call'[c].plan = call[c].plan
  /\ call'[c].customer = call[c].customer /\ call'[c].born = call[c].born
Quiet(c) ==
  \/ call'[c] = call[c]
  \/ call'[c].tool = "none" /\ call'[c].step = "done"
  \/ Same(c) /\ call'[c].step \in {"put plan", "fetch"}
Checks(c) ==
  Same(c) /\ AtStep(c, "exists") /\ call[c].tool # "show" /\ call'[c].step = "check plan"
Finds(c) ==
  Same(c) /\ AtStep(c, "check plan") /\ call[c].plan \in Active /\ call'[c].step = "upsert"
Begins(c) ==
  \E request \in Requests :
    /\ call'[c].tool = request.tool /\ call'[c].step = request.step
    /\ call'[c].plan = request.plan /\ call'[c].customer = request.customer
CallMoves(c) == Quiet(c) \/ Checks(c) \/ Finds(c) \/ Begins(c)

\* Every step does one of these four things to a call.
LEMMA OneCallMoves ==
  ASSUME CallTyped, [Next]_vars
  PROVE  \A c \in Callers : CallMoves(c)
<1> USE DEF CallMoves
<1>0. CallTyped
  OBVIOUS
<1>1. ASSUME NEW r \in Replicas, ScaleUp(r) \/ BootStep(r) PROVE \A c \in Callers : CallMoves(c)
  <2>1. UNCHANGED call
    BY <1>1 DEF ScaleUp, BootStep
  <2> QED
    BY <2>1 DEF Quiet
<1>2. ASSUME NEW r \in Replicas, ReplicaCrash(r) PROVE \A c \in Callers : CallMoves(c)
  BY <1>2, IdleIs DEF ReplicaCrash, Quiet
<1>3. ASSUME NEW d \in Callers, Ends(d) PROVE \A c \in Callers : CallMoves(c)
  BY <1>0, <1>3, IdleIs DEF Ends, CallTyped, Quiet
<1>4. ASSUME NEW d \in Callers, NEW step, Goes(d, step)
      PROVE  /\ Same(d) /\ call'[d].step = step
             /\ \A c \in Callers \ {d} : call'[c] = call[c]
  BY <1>0, <1>4 DEF Goes, CallTyped, CallFields, Same
<1>5. ASSUME NEW d \in Callers, CustomerExists(d) PROVE \A c \in Callers : CallMoves(c)
  <2>1. CASE Ends(d)
    BY <1>3, <2>1
  <2>2. CASE Goes(d, "fetch")
    BY <1>4, <2>2 DEF Quiet
  <2>3. CASE Goes(d, "check plan") /\ call[d].tool # "show"
    BY <1>4, <1>5, <2>3 DEF Quiet, Checks, CustomerExists
  <2> QED
    BY <1>5, <2>1, <2>2, <2>3 DEF CustomerExists
<1>6. ASSUME NEW d \in Callers, CheckPlan(d) PROVE \A c \in Callers : CallMoves(c)
  <2>1. CASE Ends(d)
    BY <1>3, <2>1
  <2>2. CASE Goes(d, "upsert") /\ call[d].plan \in Active
    BY <1>4, <1>6, <2>2 DEF Quiet, Finds, CheckPlan
  <2> QED
    BY <1>6, <2>1, <2>2 DEF CheckPlan
<1>7. ASSUME NEW d \in Callers, GetPlans(d) PROVE \A c \in Callers : CallMoves(c)
  <2>1. CASE Ends(d)
    BY <1>3, <2>1
  <2>2. CASE ~Ends(d)
    <3> DEFINE record == [call[d] EXCEPT !.step = "put plan", !.on = "none",
                            !.wants = Merged(@, plans[call[d].plan].details)]
    <3>1. call' = [call EXCEPT ![d] = record]
      BY <1>7, <2>2 DEF GetPlans
    <3>2. /\ record.step = "put plan" /\ record.tool = call[d].tool /\ record.plan = call[d].plan
          /\ record.customer = call[d].customer /\ record.born = call[d].born
      BY <1>0 DEF CallTyped, CallFields
    <3> HIDE DEF record
    <3>3. call'[d] = record /\ \A c \in Callers \ {d} : call'[c] = call[c]
      BY <1>0, <3>1 DEF CallTyped
    <3> QED
      BY <3>2, <3>3 DEF Quiet, Same
  <2> QED
    BY <2>1, <2>2
<1>8. ASSUME NEW d \in Callers, Upsert(d) PROVE \A c \in Callers : CallMoves(c)
  <2>1. Same(d) /\ call'[d].step = "fetch" /\ \A c \in Callers \ {d} : call'[c] = call[c]
    BY <1>0, <1>8 DEF Upsert, CallTyped, CallFields, Same
  <2> QED
    BY <2>1 DEF Quiet
<1>9. ASSUME NEW d \in Callers, Fetch(d) PROVE \A c \in Callers : CallMoves(c)
  <2>1. /\ call'[d].tool = "none" /\ call'[d].step = "done"
        /\ \A c \in Callers \ {d} : call'[c] = call[c]
    <3>1. CASE call[d].customer \in DOMAIN subs
      <4> DEFINE shown == [Idle EXCEPT !.customer = call[d].customer, !.moved = call[d].moved,
                                       !.shown = subs[call[d].customer]]
      <4>1. call' = [call EXCEPT ![d] = shown]
        BY <1>9, <3>1 DEF Fetch
      <4>2. shown.tool = "none" /\ shown.step = "done"
        BY IdleIs DEF CallFields
      <4> HIDE DEF shown
      <4> QED
        BY <1>0, <4>1, <4>2 DEF CallTyped
    <3>2. CASE call[d].customer \notin DOMAIN subs
      BY <1>0, <1>9, <3>2, IdleIs DEF Fetch, Ends, CallTyped
    <3> QED
      BY <3>1, <3>2
  <2> QED
    BY <2>1 DEF Quiet
<1>10. ASSUME NEW d \in Callers, NEW r \in Replicas, NEW request \in Requests,
              Begin(d, r, request)
       PROVE  \A c \in Callers : CallMoves(c)
  <2>1. /\ call'[d].tool = request.tool /\ call'[d].step = request.step
        /\ call'[d].plan = request.plan /\ call'[d].customer = request.customer
        /\ \A c \in Callers \ {d} : call'[c] = call[c]
    BY <1>0, <1>10, IdleIs DEF Begin, CallTyped, CallFields
  <2> QED
    BY <2>1 DEF Quiet, Begins
<1>11. ASSUME NEW d \in Callers,
              CreatePlan(d) \/ PutRefused(d) \/ PutPlan(d) \/ DeletePlan(d) \/ CallFails(d)
       PROVE  \A c \in Callers : CallMoves(c)
  BY <1>3, <1>11 DEF CreatePlan, PutRefused, PutPlan, DeletePlan, CallFails
<1>12. CASE UNCHANGED vars
  BY <1>12 DEF vars, Quiet
<1> QED
  BY <1>1, <1>2, <1>5, <1>6, <1>7, <1>8, <1>9, <1>10, <1>11, <1>12 DEF Next, CallStep

(* Customers are moved one at a time, by a call at its upsert. *)
LEMMA OneMove ==
  ASSUME [Next]_vars
  PROVE  \/ UNCHANGED moves
         \/ \E c \in Callers : AtStep(c, "upsert") /\ moves' = Append(moves, Move(c))
                               /\ UNCHANGED <<plans, retired, calls>>
<1>1. ASSUME NEW r \in Replicas, ScaleUp(r) \/ BootStep(r) \/ ReplicaCrash(r)
      PROVE  UNCHANGED moves
  BY <1>1 DEF ScaleUp, BootStep, ReplicaCrash, history
<1>2. ASSUME NEW c \in Callers, ~Upsert(c), CallStep(c) \/ CallFails(c) PROVE UNCHANGED moves
  BY <1>2 DEF CallStep, CreatePlan, GetPlans, PutRefused, PutPlan, DeletePlan, CustomerExists,
              CheckPlan, Fetch, CallFails, history
<1>3. ASSUME NEW c \in Callers, NEW r \in Replicas, NEW request \in Requests,
             Begin(c, r, request)
      PROVE  UNCHANGED moves
  BY <1>3 DEF Begin
<1>4. CASE UNCHANGED vars
  BY <1>4 DEF vars
<1>5. ASSUME NEW c \in Callers, Upsert(c)
      PROVE  AtStep(c, "upsert") /\ moves' = Append(moves, Move(c))
             /\ UNCHANGED <<plans, retired, calls>>
  BY <1>5 DEF Upsert
<1> QED
  BY <1>1, <1>2, <1>3, <1>4, <1>5 DEF Next

(* The number of calls only grows. *)
LEMMA CallsGrow == CallTyped /\ [Next]_vars => calls <= calls'
<1> SUFFICES ASSUME CallTyped, [Next]_vars PROVE calls' = calls \/ calls' = calls + 1
  BY DEF CallTyped
<1>1. ASSUME NEW r \in Replicas, ScaleUp(r) \/ BootStep(r) \/ ReplicaCrash(r)
      PROVE  calls' = calls \/ calls' = calls + 1
  BY <1>1 DEF ScaleUp, BootStep, ReplicaCrash, history
<1>2. ASSUME NEW c \in Callers, CallStep(c) \/ CallFails(c) PROVE calls' = calls
  BY <1>2 DEF CallStep, CreatePlan, GetPlans, PutRefused, PutPlan, DeletePlan, CustomerExists,
              CheckPlan, Upsert, Fetch, CallFails, history
<1>3. ASSUME NEW c \in Callers, NEW r \in Replicas, NEW request \in Requests,
             Begin(c, r, request)
      PROVE  calls' = calls + 1
  BY <1>3 DEF Begin
<1>4. CASE UNCHANGED vars
  BY <1>4 DEF vars
<1> QED
  BY <1>1, <1>2, <1>3, <1>4 DEF Next
-----------------------------------------------------------------------------
(* At first nobody has been moved and nothing withdrawn. *)
LEMMA InitMoves == Init => MovesInv
<1> SUFFICES ASSUME Init PROVE MovesInv
  OBVIOUS
<1>1. CatalogInv
  BY InitCatalog
<1>2. /\ DOMAIN plans = {} /\ retired = [p \in Plans |-> MaxCalls + 1] /\ moves = <<>>
      /\ \A c \in Callers : call[c].step = "done" /\ call[c].tool = "none"
  BY IdleIs DEF Init, SeedInit
<1>3. Timely
  BY <1>2, CallsAssumption DEF Timely, AtStep
<1>4. Changing
  BY <1>2 DEF Changing, AtStep
<1>5. NoMoveToWithdrawn
  BY <1>2 DEF NoMoveToWithdrawn
<1> QED
  BY <1>1, <1>3, <1>4, <1>5 DEF MovesInv, CatalogInv

(* A change of plan stays one until its upsert. *)
LEMMA ChangingStep ==
  ASSUME CallTyped, Changing, [Next]_vars
  PROVE  Changing'
<1>1. SUFFICES ASSUME NEW c \in Callers
      PROVE  /\ call'[c].tool = "change" => call'[c].plan \in Plans /\ call'[c].customer \in Customers
             /\ call'[c].step \in {"check plan", "upsert"} => call'[c].tool = "change"
             /\ call'[c].step = "exists" => call'[c].tool \in {"change", "show"}
  BY DEF Changing, AtStep
<1>2. CallMoves(c)
  BY OneCallMoves
<1>3. CASE Quiet(c)
  BY <1>3 DEF Quiet, Same, Changing, AtStep
<1>4. CASE Checks(c) \/ Finds(c)
  BY <1>4 DEF Checks, Finds, Same, Changing, AtStep
<1>5. CASE Begins(c)
  <2>1. PICK request \in Requests :
          /\ call'[c].tool = request.tool /\ call'[c].step = request.step
          /\ call'[c].plan = request.plan /\ call'[c].customer = request.customer
    BY <1>5 DEF Begins
  <2>2. /\ request.tool = "change" => request.plan \in Plans /\ request.customer \in Customers
        /\ request.step \notin {"check plan", "upsert"}
        /\ request.step = "exists" => request.tool \in {"change", "show"}
    BY DEF Requests
  <2> QED
    BY <2>1, <2>2
<1> QED
  BY <1>2, <1>3, <1>4, <1>5 DEF CallMoves

(***************************************************************************)
(* A withdrawal is noted once, and not before any call that has begun.     *)
(***************************************************************************)
LEMMA RetiredStep ==
  ASSUME CallTyped, PlanRows, Timely, [Next]_vars
  PROVE  /\ retired' \in [Plans -> Nat]
         /\ \A p \in Plans : /\ p \notin DOMAIN plans' \/ plans'[p].active => retired'[p] = MaxCalls + 1
                             /\ retired'[p] = retired[p] \/ retired'[p] = calls
<1>1. CASE UNCHANGED retired
  <2>1. SUFFICES ASSUME NEW p \in Plans, p \notin DOMAIN plans' \/ plans'[p].active
        PROVE  p \notin DOMAIN plans \/ plans[p].active
    BY <1>1 DEF Timely
  <2> QED
    BY <2>1, PlansKept
<1>2. ASSUME NEW q \in DOMAIN plans, Withdrawn(q)
      PROVE  /\ retired' \in [Plans -> Nat]
             /\ \A p \in Plans : /\ p \notin DOMAIN plans' \/ plans'[p].active => retired'[p] = MaxCalls + 1
                                 /\ retired'[p] = retired[p] \/ retired'[p] = calls
  <2>1. /\ DOMAIN plans' = DOMAIN plans /\ ~plans'[q].active
        /\ \A p \in DOMAIN plans : p # q => plans'[p] = plans[p]
    BY <1>2 DEF Withdrawn, PlanRows
  <2>2. retired' \in [Plans -> Nat]
        /\ \A p \in Plans : /\ retired'[p] = retired[p] \/ retired'[p] = calls
                            /\ p # q => retired'[p] = retired[p]
    BY <1>2 DEF Withdrawn, Timely, CallTyped
  <2> QED
    BY <2>1, <2>2 DEF Timely
<1> QED
  BY <1>1, <1>2, CatalogMoves

(***************************************************************************)
(* Whoever finds a plan offered began before its withdrawal, which comes   *)
(* later if at all; and only those are moved to it.                        *)
(***************************************************************************)
LEMMA MovesStep == MovesInv /\ [Next]_vars => MovesInv'
<1> SUFFICES ASSUME MovesInv, [Next]_vars PROVE MovesInv'
  OBVIOUS
<1>0. CallTyped /\ Timely /\ Changing /\ NoMoveToWithdrawn /\ PlanRows
  BY DEF MovesInv
<1>1. CallTyped' /\ Changing' /\ calls <= calls'
  BY <1>0, TypedStep, ChangingStep, CallsGrow
<1>2. PlanRows'
  BY <1>0, RowsStep
<1>3. /\ retired' \in [Plans -> Nat]
      /\ \A p \in Plans : /\ p \notin DOMAIN plans' \/ plans'[p].active => retired'[p] = MaxCalls + 1
                          /\ retired'[p] = retired[p] \/ retired'[p] = calls
  BY <1>0, RetiredStep
<1>4. ASSUME NEW c \in Callers, call'[c].step = "upsert"
      PROVE  call'[c].born <= retired'[call'[c].plan]
  <2>1. call[c].plan \in Plans /\ call[c].born \in Nat /\ call[c].born <= calls /\ Same(c)
        /\ (AtStep(c, "upsert") \/ call[c].plan \in Active)
    <3>1. CASE Quiet(c)
      <4>1. call'[c] = call[c]
        BY <1>4, <3>1 DEF Quiet
      <4> QED
        BY <1>0, <1>4, <4>1 DEF Changing, CallTyped, Same, AtStep
    <3>2. CASE Finds(c)
      BY <1>0, <3>2 DEF Finds, Changing, CallTyped, AtStep
    <3>3. CASE Checks(c)
      BY <1>4, <3>3 DEF Checks
    <3>4. CASE Begins(c)
      BY <1>4, <3>4 DEF Begins, Requests
    <3> QED
      BY <1>0, <3>1, <3>2, <3>3, <3>4, OneCallMoves DEF CallMoves
  <2>2. call[c].born <= retired[call[c].plan]
    BY <1>0, <2>1, CallsAssumption DEF Timely, Active, CallTyped
  <2> QED
    BY <1>0, <1>3, <2>1, <2>2 DEF Same, Timely, CallTyped
<1>5. /\ moves' \in Seq([customer : Customers, plan : Plans, born : Nat])
      /\ \A i \in 1..Len(moves') : moves'[i].born <= calls' /\ moves'[i].born <= retired'[moves'[i].plan]
  <2> DEFINE M == [customer : Customers, plan : Plans, born : Nat]
  <2>1. moves \in Seq(M) /\ \A i \in 1..Len(moves) : moves[i] \in M /\ moves[i].born \in Nat
                              /\ moves[i].plan \in Plans
                              /\ moves[i].born <= calls /\ moves[i].born <= retired[moves[i].plan]
    <3>1. moves \in Seq(M) /\ \A i \in 1..Len(moves) : moves[i].born <= calls
                                                      /\ moves[i].born <= retired[moves[i].plan]
      BY <1>0 DEF Timely, NoMoveToWithdrawn
    <3>2. \A move \in M : move.born \in Nat /\ move.plan \in Plans
      OBVIOUS
    <3> HIDE DEF M
    <3>3. \A i \in 1..Len(moves) : moves[i] \in M
      <4>1. moves \in Seq(M)
        BY <3>1
      <4> QED
        BY <4>1
    <3> QED
      BY <3>1, <3>2, <3>3
  <2>2. CASE UNCHANGED moves
    <3>1. ASSUME NEW i \in 1..Len(moves)
          PROVE  moves[i].born <= calls' /\ moves[i].born <= retired'[moves[i].plan]
      <4> DEFINE n == moves[i].born
                 p == moves[i].plan
      <4>1. n \in Nat /\ p \in Plans /\ n <= calls /\ n <= retired[p]
        BY <2>1
      <4>2. calls \in Nat /\ calls' \in Nat /\ calls <= calls'
        BY <1>0, <1>1 DEF CallTyped
      <4>3. retired'[p] = retired[p] \/ retired'[p] = calls
        BY <1>3, <4>1
      <4> HIDE DEF n, p
      <4>4. n <= calls' /\ n <= retired'[p]
        BY <4>1, <4>2, <4>3
      <4> QED
        BY <4>4 DEF n, p
    <3> QED
      BY <2>1, <2>2, <3>1
  <2>3. ASSUME NEW c \in Callers, AtStep(c, "upsert"), moves' = Append(moves, Move(c)),
               UNCHANGED <<plans, retired, calls>>
        PROVE  /\ moves' \in Seq(M)
               /\ \A i \in 1..Len(moves') : moves'[i].born <= calls'
                                            /\ moves'[i].born <= retired'[moves'[i].plan]
    <3>1. call[c].plan \in Plans /\ call[c].customer \in Customers
          /\ call[c].born \in Nat /\ call[c].born <= calls
          /\ call[c].born <= retired[call[c].plan]
      BY <1>0, <2>3 DEF Changing, CallTyped, Timely, AtStep
    <3>2. Move(c) \in M /\ Move(c).born = call[c].born /\ Move(c).plan = call[c].plan
      BY <3>1 DEF Move
    <3> HIDE DEF M
    <3>3. /\ moves' \in Seq(M)
          /\ \A i \in 1..Len(moves') : (i \in 1..Len(moves) /\ moves'[i] = moves[i])
                                       \/ moves'[i] = Move(c)
      <4>1. moves \in Seq(M) /\ moves' = Append(moves, Move(c))
        BY <2>1, <2>3
      <4> QED
        BY <3>2, <4>1
    <3>4. ASSUME NEW i \in 1..Len(moves')
          PROVE  moves'[i].born <= calls' /\ moves'[i].born <= retired'[moves'[i].plan]
      <4>1. calls' = calls /\ retired' = retired
        BY <2>3
      <4>2. CASE i \in 1..Len(moves) /\ moves'[i] = moves[i]
        BY <2>1, <4>1, <4>2
      <4>3. CASE moves'[i] = Move(c)
        BY <3>1, <3>2, <4>1, <4>3
      <4> QED
        BY <3>3, <4>2, <4>3
    <3> QED
      BY <3>3, <3>4
  <2> QED
    BY <2>2, <2>3, OneMove
<1>6. Timely' /\ NoMoveToWithdrawn'
  BY <1>3, <1>4, <1>5 DEF Timely, NoMoveToWithdrawn, AtStep
<1> QED
  BY <1>1, <1>2, <1>6 DEF MovesInv

(***************************************************************************)
(* Nobody is moved to a plan by a request made after its withdrawal.       *)
(***************************************************************************)
THEOREM MovedInTime == Spec => []NoMoveToWithdrawn
<1>1. MovesInv => NoMoveToWithdrawn
  BY DEF MovesInv
<1> QED
  BY InitMoves, MovesStep, <1>1, PTL DEF Spec

-----------------------------------------------------------------------------
(* Whatever was in the three tables still is, unchanged. *)
OnlyAdds ==
  /\ \A p \in DOMAIN plans : p \in DOMAIN plans' /\ plans'[p] = plans[p]
  /\ \A c \in DOMAIN subs : c \in DOMAIN subs' /\ subs'[c] = subs[c]
  /\ customers \subseteq customers'

(* A row put under a key that was free disturbs no other row. *)
LEMMA PutAdds ==
  ASSUME NEW table, NEW key, key \notin DOMAIN table, NEW row, NEW k \in DOMAIN table
  PROVE  k \in DOMAIN Put(table, key, row) /\ Put(table, key, row)[k] = table[k]
BY DEF Put

(***************************************************************************)
(* Each INSERT of a start is one of a row that is not there; where it is,  *)
(* the start ends.                                                         *)
(***************************************************************************)
LEMMA BootAdds ==
  ASSUME NEW r, Boot(r)
  PROVE  OnlyAdds
<1>1. CASE SeedPlan(r)
  <2> DEFINE id == First(SeedPlans, boot[r].todo)
             row == [details |-> SeedDetails[id], active |-> TRUE]
  <2>1. UNCHANGED <<customers, subs>>
    BY <1>1 DEF SeedPlan
  <2>2. UNCHANGED plans \/ (id \notin DOMAIN plans /\ plans' = Put(plans, id, row))
    BY <1>1 DEF SeedPlan
  <2> HIDE DEF id, row
  <2> QED
    BY <2>1, <2>2, PutAdds DEF OnlyAdds
<1>2. CASE SeedSubscription(r)
  <2>1. UNCHANGED <<plans, customers>>
    BY <1>2 DEF SeedSubscription
  <2>2. UNCHANGED subs
        \/ \E c : c \notin DOMAIN subs /\ subs' = Put(subs, c, SeedPlanOf[c])
    BY <1>2 DEF SeedSubscription
  <2> QED
    BY <2>1, <2>2, PutAdds DEF OnlyAdds
<1>3. CASE SeedCustomer(r)
  BY <1>3 DEF SeedCustomer, OnlyAdds
<1>4. CASE ~SeedPlan(r) /\ ~SeedSubscription(r) /\ ~SeedCustomer(r)
  BY <1>4 DEF Boot, Start, CountPlans, PlansSeeded, CountCustomers, CustomersSeeded,
              SubscriptionsSeeded, tables, OnlyAdds
<1> QED
  BY <1>1, <1>2, <1>3, <1>4

(* A step that changes where a replica is in its start only adds. *)
LEMMA StartStep == [Next]_vars => (boot' # boot => OnlyAdds)
<1> SUFFICES ASSUME [Next]_vars, boot' # boot PROVE OnlyAdds
  OBVIOUS
<1>1. CASE \E r \in Replicas : BootStep(r)
  BY <1>1, BootAdds DEF BootStep
<1>2. CASE \E r \in Replicas : ScaleUp(r) \/ ReplicaCrash(r)
  BY <1>2 DEF ScaleUp, ReplicaCrash, Crash, tables, OnlyAdds
<1>3. ASSUME NEW c \in Callers, CallStep(c) \/ CallFails(c) PROVE FALSE
  BY <1>3 DEF CallStep, CreatePlan, GetPlans, PutRefused, PutPlan, DeletePlan, CustomerExists,
              CheckPlan, Upsert, Fetch, CallFails, seedVars
<1>4. ASSUME NEW c \in Callers, NEW r \in Replicas, NEW request \in Requests,
             Begin(c, r, request)
      PROVE  FALSE
  BY <1>4 DEF Begin, seedVars
<1>5. CASE UNCHANGED vars
  BY <1>5 DEF vars, seedVars
<1> QED
  BY <1>1, <1>2, <1>3, <1>4, <1>5 DEF Next

(***************************************************************************)
(* A replica that starts, first or as a further one among others that      *)
(* serve, takes back nothing of what is in the tables.                     *)
(***************************************************************************)
THEOREM StartsAdd == Spec => StartOnlyAdds
<1>1. [Next]_vars => [boot' # boot => OnlyAdds]_vars
  BY StartStep
<1>2. Spec => [][boot' # boot => OnlyAdds]_vars
  BY <1>1, PTL DEF Spec
<1> QED
  BY <1>2 DEF StartOnlyAdds, OnlyAdds

-----------------------------------------------------------------------------
(***************************************************************************)
(* What a customer is shown.  The inductive invariant: the rows are what   *)
(* the moves so far make them, a customer who was moved has a row, so that *)
(* a starting replica leaves it alone, and only an answer shows a plan.    *)
(***************************************************************************)
RowsInForce ==
  /\ \A k \in DOMAIN subs : subs[k] = InForce(k, Len(moves))
  /\ \A i \in 1..Len(moves) : moves[i].customer \in DOMAIN subs

Answers ==
  \A c \in Callers : /\ call[c].moved \in 0..Len(moves)
                     /\ call[c].shown # "none" => AtStep(c, "done")

ShownInv == MovesInv /\ RowsInForce /\ Answers /\ AnswerInForce

\* A nonempty set of numbers up to n has a greatest one.
LEMMA Greatest ==
  ASSUME NEW n \in Nat, NEW S \in SUBSET (1..n), S # {}
  PROVE  \E i \in S : \A j \in S : j <= i
<1> DEFINE R == OpToRel(<, Nat)
           T == {n - i : i \in S}
<1>1. \A i \in S : i \in Int /\ n - i \in Nat
  OBVIOUS
<1>2. T \subseteq Nat /\ T # {}
  BY <1>1
<1>3. PICK x \in T : \A y \in T : ~(<<y, x>> \in R)
  <2>1. IsWellFoundedOn(R, Nat)
    BY NatLessThanWellFounded
  <2> HIDE DEF R, T
  <2> QED
    BY <1>2, <2>1, WFMin
<1>4. \A y \in T : x <= y
  <2>1. R = {ss \in Nat \X Nat : ss[1] < ss[2]}
    BY DEF OpToRel
  <2> HIDE DEF R, T
  <2>2. \A a, b \in Nat : a < b => <<a, b>> \in R
    BY <2>1
  <2>3. x \in Nat /\ \A y \in T : y \in Nat /\ ~(y < x)
    BY <1>2, <1>3, <2>2
  <2> QED
    BY <2>3
<1>5. PICK i \in S : x = n - i
  BY <1>3
<1>6. \A j \in S : n - i <= n - j
  BY <1>4, <1>5
<1>7. \A j \in S : j <= i
  BY <1>1, <1>6
<1> QED
  BY <1>7

\* InForce for the moves of any state.
ForceIn(ms, k, n) ==
  LET of == {i \in 1..n : ms[i].customer = k}
  IN  IF of = {} THEN SeedPlanOf[k] ELSE ms[CHOOSE i \in of : \A j \in of : j <= i].plan

\* What was in force after n moves does not depend on later ones.
LEMMA PastForce ==
  ASSUME NEW M, moves \in Seq(M), NEW m \in M, moves' = Append(moves, m)
  PROVE  \A k : \A n \in 0..Len(moves) : InForce(k, n)' = InForce(k, n)
<1> TAKE k
<1> TAKE n \in 0..Len(moves)
<1>1. \A i \in 1..n : moves'[i] = moves[i]
  OBVIOUS
<1>2. {i \in 1..n : moves'[i].customer = k} = {i \in 1..n : moves[i].customer = k}
  BY <1>1
<1> DEFINE of == {i \in 1..n : moves[i].customer = k}
           last == CHOOSE i \in of : \A j \in of : j <= i
<1>3. CASE of = {}
  BY <1>2, <1>3 DEF InForce
<1>4. CASE of # {}
  <2>1. InForce(k, n) = moves[last].plan /\ InForce(k, n)' = moves'[last].plan
    BY <1>2, <1>4 DEF InForce
  <2>2. \E i \in of : \A j \in of : j <= i
    <3>1. n \in Nat /\ of \in SUBSET (1..n)
      OBVIOUS
    <3> HIDE DEF of
    <3> QED
      BY <1>4, <3>1, Greatest
  <2>3. last \in of
    BY <2>2
  <2> QED
    BY <1>1, <2>1, <2>3
<1> QED
  BY <1>3, <1>4

\* A move is in force for its customer, and for nobody else.
LEMMA NewForce ==
  ASSUME NEW M, moves \in Seq(M), NEW m \in M, moves' = Append(moves, m)
  PROVE  \A k : InForce(k, Len(moves))' = IF k = m.customer THEN m.plan ELSE InForce(k, Len(moves))
<1> TAKE k
<1> DEFINE N == Len(moves) + 1
           of == {i \in 1..N : moves'[i].customer = k}
           was == {i \in 1..Len(moves) : moves[i].customer = k}
<1>1. Len(moves') = N /\ N \in Nat /\ moves'[N] = m
      /\ \A i \in 1..Len(moves) : moves'[i] = moves[i]
  OBVIOUS
<1>2. InForce(k, Len(moves))' =
        IF of = {} THEN SeedPlanOf[k] ELSE moves'[CHOOSE i \in of : \A j \in of : j <= i].plan
  BY <1>1 DEF InForce
<1>3. CASE k = m.customer
  <2>1. N \in of /\ \A i \in of : i \in Int /\ i <= N
    BY <1>1, <1>3
  <2>2. \A i \in of : (\A j \in of : j <= i) <=> i = N
    <3> HIDE DEF of, N
    <3> QED
      BY <1>1, <2>1
  <2>3. (CHOOSE i \in of : \A j \in of : j <= i) = N
    <3> HIDE DEF of, N
    <3> QED
      BY <2>1, <2>2
  <2> QED
    BY <1>1, <1>2, <1>3, <2>1, <2>3
<1>4. CASE k # m.customer
  <2>1. of = was
    BY <1>1, <1>4
  <2>2. InForce(k, Len(moves)) =
          IF was = {} THEN SeedPlanOf[k]
          ELSE moves[CHOOSE i \in was : \A j \in was : j <= i].plan
    BY DEF InForce
  <2>3. was # {} => (CHOOSE i \in was : \A j \in was : j <= i) \in was
    <3>1. Len(moves) \in Nat /\ was \in SUBSET (1..Len(moves))
      OBVIOUS
    <3> HIDE DEF was
    <3> QED
      BY <3>1, Greatest
  <2>4. \A i \in was : moves'[i] = moves[i]
    BY <1>1
  <2> HIDE DEF of, was
  <2> QED
    BY <1>2, <1>4, <2>1, <2>2, <2>3, <2>4
<1> QED
  BY <1>3, <1>4

\* Customers get a plan from a starting replica or by an upsert.
LEMMA SubsMove ==
  ASSUME [Next]_vars
  PROVE  \/ UNCHANGED <<subs, moves>>
         \/ UNCHANGED moves
            /\ \E k : k \notin DOMAIN subs /\ subs' = Put(subs, k, SeedPlanOf[k])
         \/ \E c \in Callers : Upsert(c)
<1>1. ASSUME NEW r \in Replicas, BootStep(r)
      PROVE  /\ UNCHANGED moves
             /\ \/ UNCHANGED subs
                \/ \E k : k \notin DOMAIN subs /\ subs' = Put(subs, k, SeedPlanOf[k])
  <2>1. Boot(r) /\ UNCHANGED moves
    BY <1>1 DEF BootStep
  <2>2. CASE SeedSubscription(r)
    BY <2>1, <2>2 DEF SeedSubscription
  <2>3. CASE ~SeedSubscription(r)
    BY <2>1, <2>3 DEF Boot, Start, CountPlans, SeedPlan, PlansSeeded, CountCustomers,
                      SeedCustomer, CustomersSeeded, SubscriptionsSeeded, tables
  <2> QED
    BY <2>1, <2>2, <2>3
<1>2. ASSUME NEW r \in Replicas, ScaleUp(r) \/ ReplicaCrash(r) PROVE UNCHANGED <<subs, moves>>
  BY <1>2 DEF ScaleUp, ReplicaCrash, Crash, tables, history
<1>3. ASSUME NEW c \in Callers, ~Upsert(c), CallStep(c) \/ CallFails(c)
      PROVE  UNCHANGED <<subs, moves>>
  BY <1>3 DEF CallStep, CreatePlan, GetPlans, PutRefused, PutPlan, DeletePlan, CustomerExists,
              CheckPlan, Fetch, CallFails, seedVars, tables, history
<1>4. ASSUME NEW c \in Callers, NEW r \in Replicas, NEW request \in Requests,
             Begin(c, r, request)
      PROVE  UNCHANGED <<subs, moves>>
  BY <1>4 DEF Begin, seedVars, tables
<1>5. CASE UNCHANGED vars
  BY <1>5 DEF vars, seedVars, tables
<1> QED
  BY <1>1, <1>2, <1>3, <1>4, <1>5 DEF Next

\* What a move is recorded as, and that moves are a sequence of such records.
Moved == [customer : Customers, plan : Plans, born : Nat]

LEMMA UpsertMoves ==
  ASSUME MovesInv, NEW c \in Callers, Upsert(c)
  PROVE  /\ moves \in Seq(Moved) /\ Move(c) \in Moved /\ moves' = Append(moves, Move(c))
         /\ Move(c).customer = call[c].customer /\ Move(c).plan = call[c].plan
         /\ subs' = Put(subs, call[c].customer, call[c].plan)
<1>1. CallTyped /\ Timely /\ Changing
  BY DEF MovesInv
<1>2. call[c].plan \in Plans /\ call[c].customer \in Customers /\ call[c].born \in Nat
  BY <1>1 DEF Upsert, Changing, CallTyped, AtStep
<1> QED
  BY <1>1, <1>2 DEF Upsert, Move, Moved, Timely

(***************************************************************************)
(* Rows and moves stay together: an upsert writes both, and a demo row is  *)
(* of a customer who was not moved yet, for otherwise it had a row.        *)
(***************************************************************************)
LEMMA RowsInForceStep ==
  ASSUME MovesInv, RowsInForce, [Next]_vars
  PROVE  RowsInForce'
<1>1. CASE UNCHANGED <<subs, moves>>
  <2>1. \A j : InForce(j, Len(moves))' = InForce(j, Len(moves))
    BY <1>1 DEF InForce
  <2> QED
    BY <1>1, <2>1 DEF RowsInForce
<1>2. ASSUME UNCHANGED moves,
             NEW k, k \notin DOMAIN subs, subs' = Put(subs, k, SeedPlanOf[k])
      PROVE  RowsInForce'
  <2>1. DOMAIN subs' = DOMAIN subs \cup {k} /\ subs'[k] = SeedPlanOf[k]
        /\ \A j \in DOMAIN subs : subs'[j] = subs[j]
    BY <1>2 DEF Put
  <2>2. {i \in 1..Len(moves) : moves[i].customer = k} = {}
    BY <1>2 DEF RowsInForce
  <2>3. InForce(k, Len(moves)) = SeedPlanOf[k]
    BY <2>2 DEF InForce
  <2>4. \A j : InForce(j, Len(moves))' = InForce(j, Len(moves))
    BY <1>2 DEF InForce
  <2> QED
    BY <1>2, <2>1, <2>3, <2>4 DEF RowsInForce
<1>3. ASSUME NEW c \in Callers, Upsert(c) PROVE RowsInForce'
  <2> DEFINE k == call[c].customer
  <2>1. /\ moves \in Seq(Moved) /\ Move(c) \in Moved /\ moves' = Append(moves, Move(c))
        /\ Move(c).customer = k /\ Move(c).plan = call[c].plan
        /\ subs' = Put(subs, k, call[c].plan)
    BY <1>3, UpsertMoves
  <2>2. \A j : InForce(j, Len(moves))' = IF j = k THEN call[c].plan ELSE InForce(j, Len(moves))
    BY <2>1, NewForce
  <2>3. DOMAIN subs' = DOMAIN subs \cup {k} /\ subs'[k] = call[c].plan
        /\ \A j \in DOMAIN subs : j # k => subs'[j] = subs[j]
    BY <2>1 DEF Put
  <2>4. \A j \in DOMAIN subs' : subs'[j] = InForce(j, Len(moves))'
    BY <2>2, <2>3 DEF RowsInForce
  <2>5. \A i \in 1..Len(moves') : (i \in 1..Len(moves) /\ moves'[i] = moves[i])
                                   \/ moves'[i] = Move(c)
    <3> HIDE DEF k
    <3> QED
      BY <2>1
  <2>6. \A i \in 1..Len(moves') : moves'[i].customer \in DOMAIN subs'
    BY <2>1, <2>3, <2>5 DEF RowsInForce
  <2> QED
    BY <2>4, <2>6 DEF RowsInForce
<1> QED
  BY <1>1, <1>2, <1>3, SubsMove

(***************************************************************************)
(* What a step does to an answer: nothing, there is none, or it is the row *)
(* that is there.                                                          *)
(***************************************************************************)
Silent(c) == call'[c].shown = "none" /\ call'[c].moved \in 0..Len(moves')
Reads(c) ==
  /\ call[c].customer \in DOMAIN subs /\ UNCHANGED moves
  /\ call'[c].customer = call[c].customer /\ call'[c].moved = call[c].moved
  /\ call'[c].shown = subs[call[c].customer] /\ call'[c].step = "done"
AnswerMoves(c) == call'[c] = call[c] \/ Silent(c) \/ Reads(c)

LEMMA AnswerSteps ==
  ASSUME MovesInv, Answers, [Next]_vars
  PROVE  \A c \in Callers : AnswerMoves(c)
<1> USE DEF AnswerMoves
<1>0. CallTyped
  BY DEF MovesInv
<1>1. Len(moves) \in Nat /\ Len(moves') \in Nat /\ Len(moves) <= Len(moves')
  <2>1. moves \in Seq(Moved)
    BY DEF MovesInv, Timely, Moved
  <2>2. UNCHANGED moves \/ \E c \in Callers : moves' = Append(moves, Move(c))
    BY OneMove
  <2>3. ASSUME NEW m, moves' = Append(moves, m) PROVE Len(moves') = Len(moves) + 1
    BY <2>1, <2>3
  <2>4. Len(moves) \in Nat
    BY <2>1
  <2> QED
    BY <2>2, <2>3, <2>4
<1>2. ASSUME NEW d \in Callers, ~AtStep(d, "done")
      PROVE  call[d].shown = "none" /\ call[d].moved \in 0..Len(moves')
  BY <1>1, <1>2 DEF Answers
<1>3. Idle.shown = "none" /\ Idle.moved = 0
  BY DEF Idle
<1>4. ASSUME NEW d \in Callers, Ends(d) PROVE \A c \in Callers : AnswerMoves(c)
  BY <1>0, <1>1, <1>3, <1>4 DEF Ends, CallTyped, Silent
<1>5. ASSUME NEW d \in Callers, NEW step, Goes(d, step), ~AtStep(d, "done")
      PROVE  \A c \in Callers : AnswerMoves(c)
  <2>1. /\ call'[d].shown = call[d].shown /\ call'[d].moved = call[d].moved
        /\ \A c \in Callers \ {d} : call'[c] = call[c]
    BY <1>0, <1>5 DEF Goes, CallTyped, CallFields
  <2> QED
    BY <1>2, <1>5, <2>1 DEF Silent
<1>6. ASSUME NEW d \in Callers, CustomerExists(d) \/ CheckPlan(d)
      PROVE  \A c \in Callers : AnswerMoves(c)
  BY <1>4, <1>5, <1>6 DEF CustomerExists, CheckPlan, AtStep
<1>7. ASSUME NEW d \in Callers, GetPlans(d) PROVE \A c \in Callers : AnswerMoves(c)
  <2> DEFINE record == [call[d] EXCEPT !.step = "put plan", !.on = "none",
                          !.wants = Merged(@, plans[call[d].plan].details)]
  <2>1. record.shown = call[d].shown /\ record.moved = call[d].moved
    BY <1>0 DEF CallTyped, CallFields
  <2>2. Ends(d) \/ call' = [call EXCEPT ![d] = record]
    BY <1>7 DEF GetPlans
  <2>3. ~AtStep(d, "done")
    BY <1>7 DEF GetPlans, AtStep
  <2> HIDE DEF record
  <2> QED
    BY <1>0, <1>2, <1>4, <2>1, <2>2, <2>3 DEF CallTyped, Silent
<1>8. ASSUME NEW d \in Callers, Upsert(d) PROVE \A c \in Callers : AnswerMoves(c)
  <2> DEFINE record == [call[d] EXCEPT !.step = "fetch", !.moved = Len(moves')]
  <2>1. record.shown = call[d].shown /\ record.moved = Len(moves')
    BY <1>0 DEF CallTyped, CallFields
  <2>2. call' = [call EXCEPT ![d] = record] /\ ~AtStep(d, "done")
    BY <1>8 DEF Upsert, AtStep
  <2> HIDE DEF record
  <2> QED
    BY <1>0, <1>1, <1>2, <2>1, <2>2 DEF CallTyped, Silent
<1>9. ASSUME NEW d \in Callers, Fetch(d) PROVE \A c \in Callers : AnswerMoves(c)
  <2> DEFINE record == [Idle EXCEPT !.customer = call[d].customer, !.moved = call[d].moved,
                                    !.shown = subs[call[d].customer]]
  <2>1. /\ record.customer = call[d].customer /\ record.moved = call[d].moved
        /\ record.shown = subs[call[d].customer] /\ record.step = "done"
    BY DEF Idle
  <2>2. \/ Ends(d)
        \/ call[d].customer \in DOMAIN subs /\ call' = [call EXCEPT ![d] = record]
    BY <1>9 DEF Fetch
  <2>3. UNCHANGED moves
    BY <1>9 DEF Fetch, history
  <2> HIDE DEF record
  <2> QED
    BY <1>0, <1>4, <2>1, <2>2, <2>3 DEF CallTyped, Reads
<1>10. ASSUME NEW d \in Callers, NEW r \in Replicas, NEW request \in Requests,
              Begin(d, r, request)
       PROVE  \A c \in Callers : AnswerMoves(c)
  <2> DEFINE record == [Idle EXCEPT !.tool = request.tool, !.step = request.step, !.on = r,
                          !.plan = request.plan, !.customer = request.customer,
                          !.wants = request.wants, !.born = calls',
                          !.moved = IF request.tool = "show" THEN Len(moves) ELSE 0]
  <2>1. record.shown = "none" /\ (record.moved = Len(moves) \/ record.moved = 0)
    BY DEF Idle
  <2>2. call' = [call EXCEPT ![d] = record] /\ UNCHANGED moves
    BY <1>10 DEF Begin
  <2> HIDE DEF record
  <2> QED
    BY <1>0, <1>1, <2>1, <2>2 DEF CallTyped, Silent
<1>11. ASSUME NEW d \in Callers,
              CreatePlan(d) \/ PutRefused(d) \/ PutPlan(d) \/ DeletePlan(d) \/ CallFails(d)
       PROVE  \A c \in Callers : AnswerMoves(c)
  BY <1>4, <1>11 DEF CreatePlan, PutRefused, PutPlan, DeletePlan, CallFails
<1>12. ASSUME NEW r \in Replicas, ScaleUp(r) \/ BootStep(r) PROVE \A c \in Callers : AnswerMoves(c)
  BY <1>12 DEF ScaleUp, BootStep
<1>13. ASSUME NEW r \in Replicas, ReplicaCrash(r) PROVE \A c \in Callers : AnswerMoves(c)
  BY <1>1, <1>3, <1>13 DEF ReplicaCrash, Silent
<1>14. CASE UNCHANGED vars
  BY <1>14 DEF vars
<1> QED
  BY <1>6, <1>7, <1>8, <1>9, <1>10, <1>11, <1>12, <1>13, <1>14 DEF Next, CallStep

(***************************************************************************)
(* An answer shows the row, which is what is in force; later moves change  *)
(* nothing about what was in force then.                                   *)
(***************************************************************************)
LEMMA ShownStep == ShownInv /\ [Next]_vars => ShownInv'
<1> SUFFICES ASSUME ShownInv, [Next]_vars PROVE ShownInv'
  OBVIOUS
<1>0. MovesInv /\ RowsInForce /\ Answers /\ AnswerInForce
  BY DEF ShownInv
<1>1. MovesInv' /\ RowsInForce'
  BY <1>0, MovesStep, RowsInForceStep
<1>2. /\ Len(moves) \in Nat /\ Len(moves') \in Nat /\ Len(moves) <= Len(moves')
      /\ \A k : \A n \in 0..Len(moves) : ForceIn(moves', k, n) = ForceIn(moves, k, n)
  <2>1. moves \in Seq(Moved)
    BY <1>0 DEF MovesInv, Timely, Moved
  <2>2. CASE UNCHANGED moves
    BY <2>1, <2>2
  <2>3. ASSUME NEW c \in Callers, Upsert(c)
        PROVE  /\ Len(moves) \in Nat /\ Len(moves') \in Nat /\ Len(moves) <= Len(moves')
               /\ \A k : \A n \in 0..Len(moves) : ForceIn(moves', k, n) = ForceIn(moves, k, n)
    <3>1. moves \in Seq(Moved) /\ Move(c) \in Moved /\ moves' = Append(moves, Move(c))
      BY <1>0, <2>3, UpsertMoves
    <3>2. Len(moves) \in Nat /\ Len(moves') = Len(moves) + 1
      BY <3>1
    <3>3. \A k : \A n \in 0..Len(moves) : InForce(k, n)' = InForce(k, n)
      BY <3>1, PastForce
    <3>4. \A k : \A n \in 0..Len(moves) : /\ InForce(k, n) = ForceIn(moves, k, n)
                                           /\ InForce(k, n)' = ForceIn(moves', k, n)
      BY DEF InForce, ForceIn
    <3> QED
      BY <3>2, <3>3, <3>4
  <2> QED
    BY <2>2, <2>3, SubsMove
<1>3. \A c \in Callers : call[c].shown # "none" =>
        \E n \in call[c].moved..Len(moves) : call[c].shown = ForceIn(moves, call[c].customer, n)
  BY <1>0 DEF AnswerInForce, InForce, ForceIn
<1>4. ASSUME NEW c \in Callers
      PROVE  /\ call'[c].moved \in 0..Len(moves')
             /\ call'[c].shown # "none" => call'[c].step = "done"
             /\ call'[c].shown # "none" =>
                  \E n \in call'[c].moved..Len(moves') :
                    call'[c].shown = ForceIn(moves', call'[c].customer, n)
  <2>1. AnswerMoves(c)
    BY <1>0, AnswerSteps
  <2>2. CASE call'[c] = call[c]
    <3>1. /\ call[c].moved \in 0..Len(moves)
          /\ call[c].shown # "none" => call[c].step = "done"
      BY <1>0 DEF Answers, AtStep
    <3>2. ASSUME NEW n \in call[c].moved..Len(moves)
          PROVE  n \in 0..Len(moves) /\ n \in call[c].moved..Len(moves')
      BY <1>2, <3>1
    <3> QED
      BY <1>2, <1>3, <2>2, <3>1, <3>2
  <2>3. CASE Silent(c)
    BY <2>3 DEF Silent
  <2>4. CASE Reads(c)
    <3>1. call'[c].shown = ForceIn(moves, call[c].customer, Len(moves))
      BY <1>0, <2>4 DEF Reads, RowsInForce, InForce, ForceIn
    <3>2. call[c].moved \in 0..Len(moves)
      BY <1>0 DEF Answers
    <3>3. Len(moves) \in call'[c].moved..Len(moves')
      BY <1>2, <2>4, <3>2 DEF Reads
    <3> QED
      BY <1>2, <2>4, <3>1, <3>2, <3>3 DEF Reads
  <2> QED
    BY <2>1, <2>2, <2>3, <2>4 DEF AnswerMoves
<1>5. Answers' /\ AnswerInForce'
  BY <1>4 DEF Answers, AnswerInForce, AtStep, InForce, ForceIn
<1> QED
  BY <1>1, <1>5 DEF ShownInv

\* At first nobody has been moved or shown anything.
LEMMA InitShown == Init => ShownInv
<1> SUFFICES ASSUME Init PROVE ShownInv
  OBVIOUS
<1>1. MovesInv
  BY InitMoves
<1>2. DOMAIN subs = {} /\ Len(moves) = 0
      /\ \A c \in Callers : call[c].moved = 0 /\ call[c].shown = "none"
  BY DEF Init, SeedInit, Idle
<1> QED
  BY <1>1, <1>2 DEF ShownInv, RowsInForce, Answers, AnswerInForce

(***************************************************************************)
(* A plan that is shown was in force when it was read, and is the caller's *)
(* own change or a later one.                                              *)
(***************************************************************************)
THEOREM AnswersTrue == Spec => []AnswerInForce
<1>1. ShownInv => AnswerInForce
  BY DEF ShownInv
<1> QED
  BY InitShown, ShownStep, <1>1, PTL DEF Spec

=============================================================================
