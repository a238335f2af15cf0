----------------------------- MODULE NetworkOps -----------------------------
(***************************************************************************)
(* network-ops-service: its two tables, the start of a replica (migrate    *)
(* and seed of schema.go, statement by statement, in no transaction) and   *)
(* the handlers of handlers.go, one SQL statement a step.  A request is a  *)
(* record of `call`, sent by whoever uses the service and kept until the   *)
(* client has taken its answer.                                            *)
(*                                                                         *)
(* Report ids are random: a new one is either unused, and unused ids are   *)
(* interchangeable, so it is the number of the row in the table, or it is  *)
(* taken and the INSERT fails.  Postgres is external: a statement is       *)
(* atomic and primary keys are enforced.                                   *)
(***************************************************************************)
EXTENDS Naturals, Sequences, FiniteSetsExt, SequencesExt

CONSTANTS
  Replicas,       \* copies of the service there may be
  Deployed,       \* those that are started from the beginning
  Requests,       \* slots for requests in flight
  SeedCustomers,  \* demoCustomerIDs, in order
  SeedDays,       \* days of usage that are seeded; the latest has this number
  RandMb,         \* what randMb returns; abstracted to one amount per replica
  DemoReports,    \* the demo reports, in order
  Statuses, Notes,
  MaxEvents       \* bound: requests, further replicas, crashes, failed statements
                  \* and lost answers

CONSTANT Null     \* SQL NULL, and a field a request does not give

Customers == ToSet(SeedCustomers)
Rows == [customer : Customers, status : Statuses, notes : Notes \cup {Null}, rev : Nat]

ASSUME NetworkOpsAssumption ==
  /\ Deployed \subseteq Replicas /\ SeedCustomers \in Seq(Customers) /\ SeedCustomers # <<>>
  /\ SeedDays \in Nat \ {0} /\ RandMb \in [Replicas -> Nat]
  /\ DemoReports \in Seq(Rows) /\ DemoReports # <<>>
  /\ \A i \in 1..Len(DemoReports) : DemoReports[i].rev = 0
  /\ MaxEvents \in Nat
ASSUME OpenAssumption == "open" \in Statuses

VARIABLES
  schema,   \* the tables have been created
  usage,    \* rows of usage_records: <<customer, day>> -> amount
  reports,  \* rows of service_reports, in order of creation; rev is updated_at
  boot,     \* boot[r]: [step, row, found]: the statement replica r is at; and
            \* history, which tables held rows when it started
  call,     \* call[q]: the request in slot q and the statement it is at
  events    \* what MaxEvents bounds, so far

serviceVars == <<schema, usage, reports, boot, call, events>>
tables == <<schema, usage, reports>>

Free ==
  [op |-> "none", step |-> "free", id |-> 0, customer |-> Null, days |-> 0,
   status |-> Null, notes |-> Null, rev |-> 0, row |-> Null, listed |-> {}, history |-> <<>>]

ServiceInit ==
  /\ schema = FALSE /\ usage = [k \in {} |-> 0] /\ reports = <<>>
  /\ boot = [r \in Replicas |-> [step |-> IF r \in Deployed THEN "down" ELSE "absent",
                               row |-> 0, found |-> {}]]
  /\ call = [q \in Requests |-> Free]
  /\ events = 0

At(r, step) == boot[r].step = step
Serving == \E r \in Replicas : At(r, "serving")
GoTo(r, step, row) == boot' = [boot EXCEPT ![r].step = step, ![r].row = row]
Event == events < MaxEvents /\ events' = events + 1

-----------------------------------------------------------------------------
\* The platform runs a further replica.
ScaleUp(r) ==
  /\ At(r, "absent") /\ Event /\ GoTo(r, "down", 0)
  /\ UNCHANGED <<tables, call>>

\* The process starts and connects.
Start(r) ==
  /\ At(r, "down")
  /\ boot' = [boot EXCEPT ![r] = [step |-> "migrate", row |-> 0,
       found |-> {t \in {"usage", "reports"} :
                   IF t = "usage" THEN DOMAIN usage # {} ELSE reports # <<>>}]]
  /\ UNCHANGED <<tables, call, events>>

\* Mutant of Migrate: CREATE TABLE without IF NOT EXISTS.
MigrateOnce(r) ==
  /\ At(r, "migrate")
  /\ GoTo(r, IF schema THEN "down" ELSE "count usage", 0)
  /\ schema' = TRUE
  /\ UNCHANGED <<usage, reports, call, events>>

Migrate(r) ==
  /\ At(r, "migrate") /\ GoTo(r, "count usage", 0) /\ schema' = TRUE
  /\ UNCHANGED <<usage, reports, call, events>>

CountUsage(r) ==
  /\ At(r, "count usage")
  /\ IF DOMAIN usage = {} THEN GoTo(r, "usage", 1) ELSE GoTo(r, "count reports", 0)
  /\ UNCHANGED <<tables, call, events>>

\* The n-th row: customer by customer, today first.
UsageKey(n) ==
  <<SeedCustomers[1 + ((n - 1) \div SeedDays)], SeedDays - ((n - 1) % SeedDays)>>

\* ON CONFLICT DO NOTHING.
SeedUsage(r) ==
  /\ At(r, "usage")
  /\ LET n == boot[r].row  key == UsageKey(n) IN
       /\ usage' = [k \in DOMAIN usage \cup {key} |->
                      IF k \in DOMAIN usage THEN usage[k] ELSE RandMb[r]]
       /\ IF n = Len(SeedCustomers) * SeedDays THEN GoTo(r, "count reports", 0)
                                               ELSE GoTo(r, "usage", n + 1)
  /\ UNCHANGED <<schema, reports, call, events>>

\* Mutant of CountReports: only open reports are counted.
CountOpenReports(r) ==
  /\ At(r, "count reports")
  /\ IF \A i \in DOMAIN reports : reports[i].status # "open"
       THEN GoTo(r, "reports", 1) ELSE GoTo(r, "serving", 0)
  /\ UNCHANGED <<tables, call, events>>

CountReports(r) ==
  /\ At(r, "count reports")
  /\ IF reports = <<>> THEN GoTo(r, "reports", 1) ELSE GoTo(r, "serving", 0)
  /\ UNCHANGED <<tables, call, events>>

SeedReport(r) ==
  /\ At(r, "reports")
  /\ reports' = Append(reports, DemoReports[boot[r].row])
  /\ IF boot[r].row = Len(DemoReports) THEN GoTo(r, "serving", 0)
                                       ELSE GoTo(r, "reports", boot[r].row + 1)
  /\ UNCHANGED <<schema, usage, call, events>>

Boot(r) ==
  Start(r) \/ Migrate(r) \/ CountUsage(r) \/ SeedUsage(r) \/ CountReports(r) \/ SeedReport(r)

InFlight(q) == call[q].step \in {"sent", "reload"}

\* A replica dies, by a crash or, while it starts, by a failed statement (a
\* taken id among them), and what it was serving with it: any requests in flight.
ReplicaDies(r) ==
  /\ boot[r].step \notin {"absent", "down"} /\ Event
  /\ GoTo(r, "down", 0)
  /\ \E its \in IF At(r, "serving") THEN SUBSET {q \in Requests : InFlight(q)} ELSE {{}} :
       call' = [q \in Requests |-> IF q \in its THEN [call[q] EXCEPT !.step = "failed"] ELSE call[q]]
  /\ UNCHANGED tables

-----------------------------------------------------------------------------
\* A client sends a request; it is refused when no replica serves.
Sends(q, request) ==
  /\ call[q].step = "free" /\ Event
  /\ call' = [call EXCEPT ![q] = [request EXCEPT !.step = IF Serving THEN "sent" ELSE "failed"]]

Asked(q, op) == call[q].op = op /\ call[q].step = "sent"
Answers(q, answer) == call' = [call EXCEPT ![q] = answer]
Ok(q) == [call[q] EXCEPT !.step = "ok"]
Failed(q) == [call[q] EXCEPT !.step = "failed"]
DaysOf(customer) == {key[2] : key \in {k \in DOMAIN usage : k[1] = customer}}

\* getUsage: one day, or 404; a request without a date, day 0, is refused.
GetUsage(q) ==
  /\ Asked(q, "usage")
  /\ Answers(q, IF call[q].days \in DaysOf(call[q].customer) THEN Ok(q) ELSE Failed(q))
  /\ UNCHANGED <<tables, boot, events>>

\* `days`: seven unless a positive number is given, at most thirty.
Limit(days) == IF days = 0 THEN 7 ELSE Min({days, 30})

\* Mutant of Latest: ORDER BY date LIMIT, without DESC.
Earliest(days, n) ==
  LET oldestFirst == SetToSortSeq(days, <) IN SubSeq(oldestFirst, 1, Min({n, Len(oldestFirst)}))

\* ORDER BY date DESC LIMIT n, and then oldest first: of the days with fewer
\* than n later ones, the i-th has i - 1 before it.
Earlier(days, d) == {e \in days : e < d}
Later(days, d) == {e \in days : e > d}
Latest(days, n) ==
  LET latest == {d \in days : Cardinality(Later(days, d)) < n}
  IN  [i \in 1..Cardinality(latest) |->
         CHOOSE d \in latest : Cardinality(Earlier(latest, d)) = i - 1]

GetUsageHistory(q) ==
  /\ Asked(q, "history")
  /\ LET days == DaysOf(call[q].customer) IN
       Answers(q, [Ok(q) EXCEPT !.history = Latest(days, Limit(call[q].days)), !.listed = days])
  /\ UNCHANGED <<tables, boot, events>>

\* createReport: a body that lacks a field (category and description are not
\* modelled) is refused, and an id that is taken is an error.
CreateReport(q) ==
  /\ Asked(q, "create")
  /\ LET row == [customer |-> call[q].customer, status |-> "open", notes |-> Null, rev |-> 0] IN
       \/ reports' = Append(reports, row) /\ Answers(q, [Ok(q) EXCEPT !.row = row])
       \/ Answers(q, Failed(q)) /\ UNCHANGED reports
  /\ UNCHANGED <<schema, usage, boot, events>>

\* listReports with its optional filters; id 0 excludes nothing.
ListReports(q) ==
  /\ Asked(q, "list")
  /\ Answers(q, [Ok(q) EXCEPT !.listed =
       {i \in DOMAIN reports : /\ call[q].customer \in {Null, reports[i].customer}
                               /\ call[q].status \in {Null, reports[i].status}
                               /\ i # call[q].id}])
  /\ UNCHANGED <<tables, boot, events>>

GetReport(q) ==
  /\ Asked(q, "get")
  /\ Answers(q, IF call[q].id \in DOMAIN reports THEN [Ok(q) EXCEPT !.row = reports[call[q].id]]
                                                 ELSE Failed(q))
  /\ UNCHANGED <<tables, boot, events>>

Coalesce(value, old) == IF value = Null THEN old ELSE value

\* Mutant of PatchReport: the row is read before it is written.
PatchAnswersOld(q) ==
  /\ Asked(q, "patch") /\ call[q].id \in DOMAIN reports
  /\ LET id == call[q].id IN
       /\ reports' = [reports EXCEPT ![id].status = Coalesce(call[q].status, @),
            ![id].notes = Coalesce(call[q].notes, @), ![id].rev = @ + 1]
       /\ Answers(q, [Ok(q) EXCEPT !.rev = reports'[id].rev, !.row = reports[id]])
  /\ UNCHANGED <<schema, usage, boot, events>>

\* patchReport: the UPDATE, with the fields the request gives; one that gives
\* none is refused.
PatchReport(q) ==
  /\ Asked(q, "patch")
  /\ LET id == call[q].id IN
       IF id \in DOMAIN reports /\ (call[q].status # Null \/ call[q].notes # Null)
         THEN /\ reports' = [reports EXCEPT ![id].status = Coalesce(call[q].status, @),
                   ![id].notes = Coalesce(call[q].notes, @), ![id].rev = @ + 1]
              /\ Answers(q, [call[q] EXCEPT !.step = "reload", !.rev = reports'[id].rev])
         ELSE Answers(q, Failed(q)) /\ UNCHANGED reports
  /\ UNCHANGED <<schema, usage, boot, events>>

\* ... and the SELECT whose row is the answer.
Reload(q) ==
  /\ call[q].op = "patch" /\ call[q].step = "reload"
  /\ Answers(q, [Ok(q) EXCEPT !.row = reports[call[q].id]])
  /\ UNCHANGED <<tables, boot, events>>

Serve(q) ==
  \/ GetUsage(q) \/ GetUsageHistory(q) \/ CreateReport(q) \/ ListReports(q)
  \/ GetReport(q) \/ PatchReport(q) \/ Reload(q)

\* A statement fails, or the answer is lost after everything was applied.
RequestFails(q) ==
  /\ (InFlight(q) \/ call[q].step = "ok") /\ Event
  /\ Answers(q, Failed(q))
  /\ UNCHANGED <<tables, boot>>

ServiceNext ==
  \/ \E r \in Replicas : ScaleUp(r) \/ Boot(r) \/ ReplicaDies(r)
  \/ \E q \in Requests : Serve(q) \/ RequestFails(q)

-----------------------------------------------------------------------------
Steps == {"absent", "down", "migrate", "count usage", "usage", "count reports", "reports", "serving"}

ServiceTypeOK ==
  /\ DOMAIN usage \subseteq Customers \X (1..SeedDays) /\ Range(usage) \subseteq Range(RandMb)
  /\ Range(reports) \subseteq Rows
  /\ \A r \in Replicas : boot[r].step \in Steps
  /\ \A q \in Requests : call[q].op = "patch" /\ call[q].step = "ok" => call[q].row \in Rows
  /\ events \in 0..MaxEvents

(***************************************************************************)
(* "Safe to restart against the same database": a replica that starts      *)
(* changes no row, and adds none to a table that held rows when it         *)
(* started, whatever has become of them meanwhile.  Nothing else takes a   *)
(* usage record back, gives a report to another customer or loses notes.   *)
(***************************************************************************)
RowsKept ==
  [][ /\ \A k \in DOMAIN usage : k \in DOMAIN usage' /\ usage'[k] = usage[k]
      /\ \A i \in DOMAIN reports :
           /\ i \in DOMAIN reports' /\ reports'[i].customer = reports[i].customer
           /\ reports[i].notes # Null => reports'[i].notes # Null
      /\ boot' # boot => IsPrefix(reports, reports')
      /\ \A r \in Replicas : boot'[r] # boot[r] =>
           /\ "usage" \in boot[r].found => usage' = usage
           /\ "reports" \in boot[r].found => reports' = reports ]_serviceVars

(***************************************************************************)
(* A replica that is started again and again serves in the end, whatever a *)
(* crash or another replica has left half created or half seeded.          *)
(***************************************************************************)
EventuallyServes == \A r \in Replicas : <>[](At(r, "absent") \/ At(r, "serving"))

(***************************************************************************)
(* The answer to a PATCH shows the report after it: at the caller's update *)
(* or a later one, and without a later one all that the caller asked for.  *)
(***************************************************************************)
PatchAnswered ==
  \A q \in Requests : call[q].op = "patch" /\ call[q].step = "ok" =>
    /\ call[q].row.rev >= call[q].rev
    /\ call[q].row.rev = call[q].rev =>
         /\ call[q].row.status = Coalesce(call[q].status, call[q].row.status)
         /\ call[q].row.notes = Coalesce(call[q].notes, call[q].row.notes)

(***************************************************************************)
(* "The most recent `days` usage records, oldest first": the days of an    *)
(* answer ascend, and a day on record that it lacks is older than all of   *)
(* it and fell to the limit.                                               *)
(***************************************************************************)
HistoryLatest ==
  \A q \in Requests : call[q].op = "history" /\ call[q].step = "ok" =>
    LET days == call[q].history IN
      /\ \A i, j \in 1..Len(days) : i < j => days[i] < days[j]
      /\ ToSet(days) \subseteq call[q].listed
      /\ \A d \in call[q].listed \ ToSet(days) :
           Len(days) = Limit(call[q].days) /\ d < days[1]
=============================================================================
