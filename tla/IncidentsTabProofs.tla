------------------------- MODULE IncidentsTabProofs -------------------------
(***************************************************************************)
(* Proofs about network-ops-service and the incidents tab, for any number  *)
(* of replicas, requests, reports and faults: a replica that starts        *)
(* changes no row, a PATCH is answered with what it has done or something  *)
(* later, a usage history is of the latest days on record, and a save      *)
(* writes the form of the report on the card, which is always one on       *)
(* record.                                                                 *)
(***************************************************************************)
EXTENDS IncidentsTab, FiniteSetTheorems, NaturalsInduction, TLAPS

Fields == {"op", "step", "id", "customer", "days", "status", "notes", "rev", "row", "listed", "history"}

(***************************************************************************)
(* The inductive invariant.  Requests and rows are records.  A replica     *)
(* that fills a table found it empty when it started, and a table it found *)
(* filled is not empty.  A PATCH that is about to read its row finds that  *)
(* row at its own update or a later one.                                   *)
(***************************************************************************)
Typed ==
  /\ reports \in Seq(Rows)
  /\ DOMAIN call = Requests /\ DOMAIN boot = Replicas
  /\ \A q \in Requests :
       /\ DOMAIN call[q] = Fields
       /\ call[q].status \in Statuses \cup {Null} /\ call[q].notes \in Notes \cup {Null}
       /\ call[q].op = "create" => call[q].customer \in Customers
  /\ \A r \in Replicas : DOMAIN boot[r] = {"step", "row", "found"}

BootInv ==
  \A r \in Replicas :
    /\ "usage" \in boot[r].found => DOMAIN usage # {} /\ boot[r].step # "usage"
    /\ "reports" \in boot[r].found => reports # <<>> /\ boot[r].step # "reports"
    /\ boot[r].step = "reports" => boot[r].row \in 1..Len(DemoReports)

\* What the row has, if the caller's update is the last.
Shows(row, q) ==
  /\ row \in Rows /\ call[q].rev \in Nat /\ row.rev >= call[q].rev
  /\ row.rev = call[q].rev =>
       /\ row.status = Coalesce(call[q].status, row.status)
       /\ row.notes = Coalesce(call[q].notes, row.notes)

PatchInv ==
  \A q \in Requests : call[q].op = "patch" =>
    /\ call[q].step = "reload" => call[q].id \in DOMAIN reports /\ Shows(reports[call[q].id], q)
    /\ call[q].step = "ok" => Shows(call[q].row, q)

ServiceInv == Typed /\ BootInv /\ PatchInv

(***************************************************************************)
(* While no two requests of the tab overlapped, what it waits for, the     *)
(* card and the form are of the selected report.                           *)
(***************************************************************************)
FollowsInv ==
  /\ awaited \subseteq TabRequests
  /\ DOMAIN draft = {"status", "notes", "of"}
  /\ ~raced =>
       /\ \A q \in awaited : call[q].id = selectedId
       /\ detail.id # 0 => detail.id = selectedId /\ draft.of = selectedId

-----------------------------------------------------------------------------
\* Rows are added and updated.
ReportsMove ==
  /\ reports' \in Seq(Rows) /\ DOMAIN reports \subseteq DOMAIN reports'
  /\ \A i \in DOMAIN reports :
       \/ reports'[i] = reports[i]
       \/ /\ reports'[i].rev > reports[i].rev /\ reports'[i].customer = reports[i].customer
          /\ reports[i].notes # Null => reports'[i].notes # Null

(* A row is added. *)
LEMMA RowAdded ==
  ASSUME reports \in Seq(Rows), NEW row \in Rows, reports' = Append(reports, row)
  PROVE  ReportsMove /\ IsPrefix(reports, reports') /\ reports' # <<>>
<1>1. /\ reports' \in Seq(Rows) /\ Len(reports) \in Nat /\ Len(reports') = Len(reports) + 1
      /\ \A i \in 1..Len(reports) : reports'[i] = reports[i]
  OBVIOUS
<1>2. SubSeq(reports, 1, Len(reports)) = SubSeq(reports', 1, Len(reports))
  BY <1>1
<1> QED
  BY <1>1, <1>2 DEF ReportsMove, IsPrefix

\* The UPDATE of patchReport.
Updated(id, status, notes) ==
  [reports EXCEPT ![id].status = Coalesce(status, @), ![id].notes = Coalesce(notes, @),
                  ![id].rev = @ + 1]

(* A row is updated with what is given. *)
LEMMA RowUpdated ==
  ASSUME reports \in Seq(Rows), NEW id \in DOMAIN reports,
         NEW status \in Statuses \cup {Null}, NEW notes \in Notes \cup {Null},
         reports' = Updated(id, status, notes)
  PROVE  /\ ReportsMove /\ id \in DOMAIN reports' /\ reports'[id] \in Rows
         /\ reports'[id].status = Coalesce(status, reports'[id].status)
         /\ reports'[id].notes = Coalesce(notes, reports'[id].notes)
<1> DEFINE row == [customer |-> reports[id].customer, status |-> Coalesce(status, reports[id].status),
                   notes |-> Coalesce(notes, reports[id].notes), rev |-> reports[id].rev + 1]
<1> USE DEF Updated
<1>1. reports[id] \in Rows
  OBVIOUS
<1>2. row \in Rows
  BY <1>1 DEF Rows, Coalesce
<1>3. DOMAIN reports' = DOMAIN reports /\ reports'[id] = row
      /\ \A i \in DOMAIN reports : i # id => reports'[i] = reports[i]
  BY <1>1 DEF Rows
<1>4. reports' = [i \in 1..Len(reports) |-> reports'[i]]
  <2>1. \E f : DOMAIN f = DOMAIN reports /\ reports' = [f EXCEPT ![id].rev = @ + 1]
    <3> DEFINE f == [reports EXCEPT ![id].status = Coalesce(status, @), ![id].notes = Coalesce(notes, @)]
    <3>1. DOMAIN f = DOMAIN reports
      OBVIOUS
    <3> WITNESS f
    <3> QED
      BY <3>1
  <2>2. reports' = [i \in DOMAIN reports |-> reports'[i]]
    BY <2>1
  <2>3. DOMAIN reports = 1..Len(reports)
    OBVIOUS
  <2> QED
    BY <2>2, <2>3
<1>5. reports' \in Seq(Rows)
  <2>1. \A i \in 1..Len(reports) : reports'[i] \in Rows
    BY <1>2, <1>3
  <2>2. reports' \in [1..Len(reports) -> Rows]
    BY <1>4, <2>1
  <2> QED
    BY <2>2
<1>6. /\ row.rev > reports[id].rev /\ row.customer = reports[id].customer
      /\ reports[id].notes # Null => row.notes # Null
      /\ row.status = Coalesce(status, row.status) /\ row.notes = Coalesce(notes, row.notes)
  BY <1>1 DEF Rows, Coalesce
<1> HIDE DEF row
<1> QED
  BY <1>2, <1>3, <1>5, <1>6 DEF ReportsMove
-----------------------------------------------------------------------------
\* What becomes of one request: nothing that matters to a PATCH, its
\* UPDATE, or its SELECT.
Other(q) == call'[q].op # "patch" \/ call'[q].step \notin {"reload", "ok"}
Updates(q) ==
  /\ call'[q].op = "patch" /\ call'[q].step = "reload"
  /\ call'[q].id \in DOMAIN reports' /\ Shows(reports[call[q].id], q)'
Reads(q) ==
  /\ call[q].op = "patch" /\ call[q].step = "reload" /\ call'[q].step = "ok"
  /\ call'[q].rev = call[q].rev /\ call'[q].status = call[q].status
  /\ call'[q].notes = call[q].notes /\ call'[q].row = reports[call[q].id]

CallMoves(q) == call'[q] = call[q] \/ Other(q) \/ Updates(q) \/ Reads(q)

(* That is all a PATCH's answer depends on. *)
LEMMA PatchKept ==
  ASSUME PatchInv, ReportsMove, reports \in Seq(Rows), \A q \in Requests : CallMoves(q)
  PROVE  PatchInv'
<1> SUFFICES ASSUME NEW q \in Requests, call'[q].op = "patch"
             PROVE  /\ call'[q].step = "reload" =>
                         call'[q].id \in DOMAIN reports' /\ Shows(reports[call[q].id], q)'
                    /\ call'[q].step = "ok" => Shows(call[q].row, q)'
  BY DEF PatchInv
<1>1. CASE call'[q] = call[q]
  <2>1. call[q].step = "ok" => Shows(call[q].row, q)'
    BY <1>1 DEF PatchInv, Shows
  <2>2. ASSUME call[q].step = "reload"
        PROVE  call[q].id \in DOMAIN reports' /\ Shows(reports[call[q].id], q)'
    <3> DEFINE id == call[q].id
    <3>1. id \in DOMAIN reports /\ Shows(reports[id], q)
      BY <1>1, <2>2 DEF PatchInv
    <3>2. id \in DOMAIN reports' /\ reports[id] \in Rows /\ reports'[id] \in Rows
          /\ reports[id].rev \in Nat /\ reports'[id].rev \in Nat
      <4>1. id \in DOMAIN reports' /\ reports[id] \in Rows
        BY <3>1 DEF ReportsMove
      <4>2. reports'[id] \in Rows
        BY <4>1 DEF ReportsMove
      <4> QED
        BY <4>1, <4>2 DEF Rows
    <3>3. reports'[id] = reports[id] \/ reports'[id].rev > reports[id].rev
      BY <3>1 DEF ReportsMove
    <3>4. CASE reports'[id] = reports[id]
      BY <1>1, <3>1, <3>2, <3>4 DEF Shows
    <3>5. CASE reports'[id].rev > reports[id].rev
      <4>1. call[q].rev \in Nat /\ reports[id].rev >= call[q].rev
        BY <3>1 DEF Shows
      <4>2. reports'[id].rev >= call[q].rev /\ reports'[id].rev # call[q].rev
        BY <3>2, <3>5, <4>1
      <4> QED
        BY <1>1, <3>2, <4>1, <4>2 DEF Shows
    <3> QED
      BY <3>3, <3>4, <3>5
  <2> QED
    BY <1>1, <2>1, <2>2
<1>2. CASE Other(q) \/ Updates(q)
  BY <1>2 DEF Other, Updates
<1>3. CASE Reads(q)
  BY <1>3 DEF Reads, PatchInv, Shows
<1> QED
  BY <1>1, <1>2, <1>3 DEF CallMoves

\* One request changes, and stays a record.
CallRecord(record) ==
  /\ DOMAIN record = Fields
  /\ record.status \in Statuses \cup {Null} /\ record.notes \in Notes \cup {Null}
  /\ record.op = "create" => record.customer \in Customers

(* Then all of them are what they have to be. *)
LEMMA OneCall ==
  ASSUME Typed, NEW q \in Requests, NEW record, CallRecord(record),
         call' = [call EXCEPT ![q] = record], reports' \in Seq(Rows), UNCHANGED boot
  PROVE  /\ Typed' /\ call'[q] = record
         /\ \A p \in Requests : p # q => call'[p] = call[p]
BY DEF Typed, CallRecord

(* A request that is answered keeps what it asked for. *)
LEMMA Answered1 ==
  ASSUME Typed, NEW q \in Requests
  PROVE  /\ CallRecord(call[q])
         /\ CallRecord(Failed(q)) /\ Failed(q).op = call[q].op /\ Failed(q).step = "failed"
         /\ Failed(q).id = call[q].id
         /\ CallRecord(Ok(q)) /\ Ok(q).op = call[q].op /\ Ok(q).step = "ok" /\ Ok(q).id = call[q].id
BY DEF Typed, CallRecord, Failed, Ok, Fields

(***************************************************************************)
(* A replica's own steps: its table is as it found it if that held rows,   *)
(* and it adds rows otherwise.                                             *)
(***************************************************************************)
Seeds ==
  /\ \A k \in DOMAIN usage : k \in DOMAIN usage' /\ usage'[k] = usage[k]
  /\ ReportsMove /\ IsPrefix(reports, reports')
  /\ \A r \in Replicas : boot'[r] # boot[r] =>
       /\ "usage" \in boot[r].found => usage' = usage
       /\ "reports" \in boot[r].found => reports' = reports

(* Where it goes next. *)
LEMMA GoesTo ==
  ASSUME Typed, NEW r \in Replicas, NEW step, NEW row, GoTo(r, step, row)
  PROVE  /\ DOMAIN boot' = Replicas /\ \A o \in Replicas : o # r => boot'[o] = boot[o]
         /\ DOMAIN boot'[r] = {"step", "row", "found"}
         /\ boot'[r].step = step /\ boot'[r].row = row /\ boot'[r].found = boot[r].found
BY DEF Typed, GoTo

(* It goes on without touching a row. *)
LEMMA GoesOn ==
  ASSUME ServiceInv, NEW r \in Replicas, NEW step, NEW row, GoTo(r, step, row),
         UNCHANGED <<usage, reports, call>>,
         step = "usage" => "usage" \notin boot[r].found,
         step = "reports" => "reports" \notin boot[r].found /\ row \in 1..Len(DemoReports)
  PROVE  ServiceInv' /\ Seeds
<1>1. Typed' /\ BootInv'
  BY GoesTo DEF ServiceInv, Typed, BootInv
<1>2. PatchInv'
  BY DEF ServiceInv, PatchInv, Shows
<1>3. ReportsMove /\ IsPrefix(reports, reports')
  BY DEF ServiceInv, Typed, ReportsMove, IsPrefix
<1> QED
  BY <1>1, <1>2, <1>3 DEF ServiceInv, Seeds
\* What RowsKept asks of a step.
Keeps ==
  /\ \A k \in DOMAIN usage : k \in DOMAIN usage' /\ usage'[k] = usage[k]
  /\ \A i \in DOMAIN reports :
       /\ i \in DOMAIN reports' /\ reports'[i].customer = reports[i].customer
       /\ reports[i].notes # Null => reports'[i].notes # Null
  /\ boot' # boot => IsPrefix(reports, reports')
  /\ \A r \in Replicas : boot'[r] # boot[r] =>
       /\ "usage" \in boot[r].found => usage' = usage
       /\ "reports" \in boot[r].found => reports' = reports

(* Replicas that start keep all rows ... *)
LEMMA SeedsKeep == Seeds => Keeps
BY DEF Seeds, Keeps, ReportsMove

(* ... and so do handlers. *)
LEMMA HandlersKeep ==
  ASSUME ReportsMove, UNCHANGED <<usage, boot>>
  PROVE  Keeps
BY DEF Keeps, ReportsMove

(* Nothing happens to the rows. *)
LEMMA SameReports ==
  ASSUME Typed, UNCHANGED reports
  PROVE  ReportsMove /\ IsPrefix(reports, reports')
BY DEF Typed, ReportsMove, IsPrefix

(* A replica starts, and fills the tables it found empty. *)
LEMMA BootKeeps ==
  ASSUME ServiceInv, NEW r \in Replicas, Boot(r) \/ ScaleUp(r)
  PROVE  ServiceInv' /\ Keeps
<1> USE DEF tables, At
<1>0. Typed /\ BootInv /\ PatchInv
  BY DEF ServiceInv
<1>1. CASE Start(r)
  <2> DEFINE found == {t \in {"usage", "reports"} :
                        IF t = "usage" THEN DOMAIN usage # {} ELSE reports # <<>>}
  <2>1. /\ boot' = [boot EXCEPT ![r] = [step |-> "migrate", row |-> 0, found |-> found]]
        /\ UNCHANGED <<usage, reports, call>>
    BY <1>1 DEF Start
  <2>2. /\ DOMAIN boot' = Replicas /\ \A o \in Replicas : o # r => boot'[o] = boot[o]
        /\ boot'[r] = [step |-> "migrate", row |-> 0, found |-> found]
    BY <1>0, <2>1 DEF Typed
  <2>3. /\ "usage" \in found => DOMAIN usage # {}
        /\ "reports" \in found => reports # <<>>
    OBVIOUS
  <2> HIDE DEF found
  <2>4. Typed' /\ BootInv' /\ PatchInv'
    BY <1>0, <2>1, <2>2, <2>3 DEF Typed, BootInv, PatchInv, Shows
  <2>5. Keeps
    BY <1>0, <2>1, SameReports, SeedsKeep DEF Seeds, ReportsMove, Typed, IsPrefix
  <2> QED
    BY <2>4, <2>5 DEF ServiceInv
<1>2. CASE Migrate(r) \/ ScaleUp(r)
  <2>1. /\ \E step \in {"count usage", "down"} : GoTo(r, step, 0)
        /\ UNCHANGED <<usage, reports, call>>
    BY <1>2 DEF Migrate, ScaleUp
  <2> QED
    BY <2>1, GoesOn, SeedsKeep
<1>3. CASE CountUsage(r)
  <2>1. DOMAIN usage = {} => "usage" \notin boot[r].found
    BY <1>0 DEF BootInv
  <2>2. /\ UNCHANGED <<usage, reports, call>>
        /\ \/ DOMAIN usage = {} /\ GoTo(r, "usage", 1)
           \/ GoTo(r, "count reports", 0)
    BY <1>3 DEF CountUsage
  <2> QED
    BY <2>1, <2>2, GoesOn, SeedsKeep
<1>4. CASE CountReports(r)
  <2>1. reports = <<>> => "reports" \notin boot[r].found
    BY <1>0 DEF BootInv
  <2>2. 1 \in 1..Len(DemoReports)
    BY NetworkOpsAssumption
  <2>3. /\ UNCHANGED <<usage, reports, call>>
        /\ \/ reports = <<>> /\ GoTo(r, "reports", 1)
           \/ GoTo(r, "serving", 0)
    BY <1>4 DEF CountReports
  <2> QED
    BY <2>1, <2>2, <2>3, GoesOn, SeedsKeep
<1>5. CASE SeedUsage(r)
  <2>1. /\ \A k \in DOMAIN usage : k \in DOMAIN usage' /\ usage'[k] = usage[k]
        /\ DOMAIN usage' # {} /\ boot[r].step = "usage" /\ UNCHANGED <<reports, call>>
        /\ \E step \in {"count reports", "usage"} : \E row : GoTo(r, step, row)
    BY <1>5 DEF SeedUsage
  <2>2. PICK step \in {"count reports", "usage"} : \E row : GoTo(r, step, row)
    BY <2>1
  <2>3. "usage" \notin boot[r].found
    BY <1>0, <2>1 DEF BootInv
  <2>4. /\ DOMAIN boot' = Replicas /\ \A o \in Replicas : o # r => boot'[o] = boot[o]
        /\ DOMAIN boot'[r] = {"step", "row", "found"}
        /\ boot'[r].step = step /\ boot'[r].found = boot[r].found
    BY <1>0, <2>2, GoesTo
  <2>5. Typed'
    BY <1>0, <2>1, <2>4 DEF Typed
  <2>6. BootInv'
    BY <1>0, <2>1, <2>3, <2>4 DEF BootInv
  <2>7. PatchInv' /\ ReportsMove /\ IsPrefix(reports, reports')
    BY <1>0, <2>1, SameReports, PatchKept DEF CallMoves, Typed
  <2>8. Seeds
    BY <2>1, <2>3, <2>4, <2>7 DEF Seeds
  <2> QED
    BY <2>5, <2>6, <2>7, <2>8, SeedsKeep DEF ServiceInv
<1>6. CASE SeedReport(r)
  <2> DEFINE demo == DemoReports[boot[r].row]
  <2>1. /\ boot[r].step = "reports" /\ boot[r].row \in 1..Len(DemoReports)
        /\ reports' = Append(reports, demo) /\ UNCHANGED <<usage, call>>
    BY <1>0, <1>6 DEF SeedReport, BootInv
  <2>2. /\ boot[r].row = Len(DemoReports) => GoTo(r, "serving", 0)
        /\ boot[r].row # Len(DemoReports) => GoTo(r, "reports", boot[r].row + 1)
    BY <1>6 DEF SeedReport
  <2>3. demo \in Rows
    BY <2>1, NetworkOpsAssumption
  <2>4. ReportsMove /\ IsPrefix(reports, reports') /\ reports' # <<>>
    BY <1>0, <2>1, <2>3, RowAdded DEF Typed
  <2>5. "reports" \notin boot[r].found
    BY <1>0, <2>1 DEF BootInv
  <2>6. PICK step \in {"serving", "reports"}, row \in {0, boot[r].row + 1} :
          GoTo(r, step, row) /\ (step = "reports" => row \in 1..Len(DemoReports))
    <3>1. Len(DemoReports) \in Nat
      BY NetworkOpsAssumption
    <3>2. CASE boot[r].row = Len(DemoReports)
      BY <2>2, <3>2
    <3>3. CASE boot[r].row # Len(DemoReports)
      <4>1. boot[r].row + 1 \in 1..Len(DemoReports)
        BY <2>1, <3>1, <3>3
      <4> QED
        BY <2>2, <3>3, <4>1
    <3> QED
      BY <3>2, <3>3
  <2>7. /\ DOMAIN boot' = Replicas /\ \A o \in Replicas : o # r => boot'[o] = boot[o]
        /\ DOMAIN boot'[r] = {"step", "row", "found"}
        /\ boot'[r].step = step /\ boot'[r].row = row /\ boot'[r].found = boot[r].found
    BY <1>0, <2>6, GoesTo
  <2>8. Typed'
    BY <1>0, <2>1, <2>4, <2>7 DEF Typed, ReportsMove
  <2>9. BootInv'
    BY <1>0, <2>1, <2>4, <2>5, <2>6, <2>7 DEF BootInv
  <2>10. PatchInv'
    BY <1>0, <2>1, <2>4, PatchKept DEF CallMoves, Typed
  <2>11. Seeds
    BY <2>1, <2>4, <2>5, <2>7 DEF Seeds
  <2> QED
    BY <2>8, <2>9, <2>10, <2>11, SeedsKeep DEF ServiceInv
<1> QED
  BY <1>1, <1>2, <1>3, <1>4, <1>5, <1>6 DEF Boot
-----------------------------------------------------------------------------
(* One request goes on, and rows are added or updated at most. *)
LEMMA OneReply ==
  ASSUME ServiceInv, NEW q \in Requests, NEW record, CallRecord(record),
         call' = [call EXCEPT ![q] = record], call'[q] = record => CallMoves(q),
         ReportsMove, UNCHANGED <<usage, boot>>
  PROVE  /\ ServiceInv' /\ Keeps /\ call'[q] = record
         /\ \A p \in Requests : p # q => call'[p] = call[p]
<1>0. Typed /\ BootInv /\ PatchInv
  BY DEF ServiceInv
<1>1. /\ Typed' /\ call'[q] = record
      /\ \A p \in Requests : p # q => call'[p] = call[p]
  BY <1>0, OneCall DEF ReportsMove
<1>2. reports # <<>> => reports' # <<>>
  <2>1. reports # <<>> => 1 \in DOMAIN reports
    BY <1>0 DEF Typed
  <2> QED
    BY <2>1 DEF ReportsMove
<1>3. BootInv'
  BY <1>0, <1>2 DEF BootInv
<1>4. PatchInv'
  BY <1>0, <1>1, PatchKept DEF Typed, CallMoves
<1> QED
  BY <1>1, <1>3, <1>4, HandlersKeep DEF ServiceInv

\* Requests stay what they ask for.
SameRequests == \A q \in Requests : call'[q].id = call[q].id /\ call'[q].op = call[q].op

(* The handlers that change no row, and a request that fails. *)
LEMMA ReadersKeep ==
  ASSUME ServiceInv, NEW q \in Requests,
         GetUsage(q) \/ GetUsageHistory(q) \/ ListReports(q) \/ GetReport(q) \/ Reload(q)
         \/ RequestFails(q)
  PROVE  ServiceInv' /\ Keeps /\ SameRequests
<1> USE DEF tables
<1>0. /\ Typed /\ DOMAIN call[q] = Fields /\ CallRecord(Ok(q)) /\ CallRecord(Failed(q))
      /\ Ok(q).op = call[q].op /\ Ok(q).id = call[q].id /\ DOMAIN Ok(q) = Fields
      /\ Failed(q).op = call[q].op /\ Failed(q).id = call[q].id /\ Failed(q).step = "failed"
  BY Answered1 DEF ServiceInv, Typed, CallRecord
<1>1. UNCHANGED <<usage, reports, boot>>
  BY DEF GetUsage, GetUsageHistory, ListReports, GetReport, Reload, RequestFails
<1>2. ReportsMove
  BY <1>0, <1>1, SameReports
<1>3. ASSUME NEW record, CallRecord(record), call' = [call EXCEPT ![q] = record],
             record.op = call[q].op, record.id = call[q].id, call'[q] = record => CallMoves(q)
      PROVE  ServiceInv' /\ Keeps /\ SameRequests
  BY <1>1, <1>2, <1>3, OneReply DEF SameRequests
<1>4. CASE call' = [call EXCEPT ![q] = Failed(q)]
  BY <1>0, <1>3, <1>4 DEF CallMoves, Other
<1>5. CASE GetUsage(q)
  <2>1. /\ call[q].op = "usage"
        /\ call' = [call EXCEPT ![q] = Ok(q)] \/ call' = [call EXCEPT ![q] = Failed(q)]
    BY <1>5 DEF GetUsage, Asked, Answers
  <2> QED
    BY <1>0, <1>3, <1>4, <2>1 DEF CallMoves, Other
<1>6. CASE GetUsageHistory(q)
  <2>1. PICK days, latest :
          /\ call[q].op = "history"
          /\ call' = [call EXCEPT ![q] = [Ok(q) EXCEPT !.history = latest, !.listed = days]]
    BY <1>6 DEF GetUsageHistory, Asked, Answers
  <2> DEFINE record == [Ok(q) EXCEPT !.history = latest, !.listed = days]
  <2>2. CallRecord(record) /\ record.op = call[q].op /\ record.id = call[q].id
    BY <1>0 DEF CallRecord, Fields
  <2> HIDE DEF record
  <2>3. call'[q] = record => CallMoves(q)
    BY <2>1, <2>2 DEF CallMoves, Other
  <2> QED
    BY <1>3, <2>1, <2>2, <2>3 DEF record
<1>7. CASE ListReports(q)
  <2>1. PICK rows :
          call[q].op = "list" /\ call' = [call EXCEPT ![q] = [Ok(q) EXCEPT !.listed = rows]]
    BY <1>7 DEF ListReports, Asked, Answers
  <2> DEFINE record == [Ok(q) EXCEPT !.listed = rows]
  <2>2. CallRecord(record) /\ record.op = call[q].op /\ record.id = call[q].id
    BY <1>0 DEF CallRecord, Fields
  <2> HIDE DEF record
  <2>3. call'[q] = record => CallMoves(q)
    BY <2>1, <2>2 DEF CallMoves, Other
  <2> QED
    BY <1>3, <2>1, <2>2, <2>3 DEF record
<1>8. CASE GetReport(q) \/ Reload(q)
  <2>1. CASE call' = [call EXCEPT ![q] = Failed(q)]
    BY <1>4, <2>1
  <2>2. ASSUME NEW row, call' = [call EXCEPT ![q] = [Ok(q) EXCEPT !.row = row]],
               \/ call[q].op = "get"
               \/ call[q].op = "patch" /\ call[q].step = "reload" /\ row = reports[call[q].id]
        PROVE  ServiceInv' /\ Keeps /\ SameRequests
    <3> DEFINE record == [Ok(q) EXCEPT !.row = row]
    <3>1. /\ CallRecord(record) /\ record.op = call[q].op /\ record.id = call[q].id
          /\ record.row = row
      BY <1>0 DEF CallRecord, Fields
    <3>2. /\ record.step = "ok" /\ record.rev = call[q].rev
          /\ record.status = call[q].status /\ record.notes = call[q].notes
      BY <1>0 DEF Ok, Fields
    <3> HIDE DEF record
    <3>3. call'[q] = record => CallMoves(q)
      BY <2>2, <3>1, <3>2 DEF CallMoves, Other, Reads
    <3> QED
      BY <1>3, <2>2, <3>1, <3>3 DEF record
  <2>3. \/ call' = [call EXCEPT ![q] = Failed(q)]
        \/ \E row : /\ call' = [call EXCEPT ![q] = [Ok(q) EXCEPT !.row = row]]
                    /\ \/ call[q].op = "get"
                       \/ /\ call[q].op = "patch" /\ call[q].step = "reload"
                          /\ row = reports[call[q].id]
    BY <1>8 DEF GetReport, Reload, Asked, Answers
  <2> QED
    BY <2>1, <2>2, <2>3
<1>9. CASE RequestFails(q)
  BY <1>4, <1>9 DEF RequestFails, Answers
<1> QED
  BY <1>5, <1>6, <1>7, <1>8, <1>9
(* A report is filed. *)
LEMMA CreateKeeps ==
  ASSUME ServiceInv, NEW q \in Requests, CreateReport(q)
  PROVE  ServiceInv' /\ Keeps /\ SameRequests
<1> USE DEF tables
<1> DEFINE row == [customer |-> call[q].customer, status |-> "open", notes |-> Null, rev |-> 0]
           filed == [Ok(q) EXCEPT !.row = row]
<1>0. /\ Typed /\ DOMAIN call[q] = Fields /\ CallRecord(Ok(q)) /\ CallRecord(Failed(q))
      /\ Ok(q).op = call[q].op /\ Ok(q).id = call[q].id /\ DOMAIN Ok(q) = Fields
      /\ Failed(q).op = call[q].op /\ Failed(q).id = call[q].id
  BY Answered1 DEF ServiceInv, Typed, CallRecord
<1>1. call[q].op = "create" /\ UNCHANGED <<usage, boot>>
  BY DEF CreateReport, Asked
<1>2. row \in Rows
  BY <1>0, <1>1, OpenAssumption DEF Typed, Rows
<1>3. CallRecord(filed) /\ filed.op = call[q].op /\ filed.id = call[q].id
  BY <1>0 DEF CallRecord, Fields
<1>4. \/ reports' = Append(reports, row) /\ call' = [call EXCEPT ![q] = filed]
      \/ UNCHANGED reports /\ call' = [call EXCEPT ![q] = Failed(q)]
  BY DEF CreateReport, Answers
<1> HIDE DEF row, filed
<1>5. ReportsMove
  BY <1>0, <1>2, <1>4, RowAdded, SameReports DEF Typed
<1>6. ASSUME NEW record \in {filed, Failed(q)}, call' = [call EXCEPT ![q] = record]
      PROVE  ServiceInv' /\ Keeps /\ SameRequests
  <2>1. CallRecord(record) /\ record.op = call[q].op /\ record.id = call[q].id
    BY <1>0, <1>3
  <2>2. call'[q] = record => CallMoves(q)
    BY <1>1, <2>1 DEF CallMoves, Other
  <2> QED
    BY <1>1, <1>5, <1>6, <2>1, <2>2, OneReply DEF SameRequests
<1> QED
  BY <1>4, <1>6

(* A report is updated, and its row is at this update. *)
LEMMA PatchKeeps ==
  ASSUME ServiceInv, NEW q \in Requests, PatchReport(q)
  PROVE  ServiceInv' /\ Keeps /\ SameRequests
<1> USE DEF tables
<1> DEFINE id == call[q].id
           status == call[q].status
           notes == call[q].notes
           rev == reports'[id].rev
           record == [call[q] EXCEPT !.step = "reload", !.rev = rev]
<1>0. /\ Typed /\ DOMAIN call[q] = Fields /\ CallRecord(call[q]) /\ CallRecord(Failed(q))
      /\ Failed(q).op = call[q].op /\ Failed(q).id = call[q].id /\ Failed(q).step = "failed"
  BY Answered1 DEF ServiceInv, Typed, CallRecord
<1>1. call[q].op = "patch" /\ UNCHANGED <<usage, boot>>
  BY DEF PatchReport, Asked
<1>2. CASE ~(id \in DOMAIN reports /\ (status # Null \/ notes # Null))
  <2>1. UNCHANGED reports /\ call' = [call EXCEPT ![q] = Failed(q)]
    BY <1>2 DEF PatchReport, Answers
  <2>2. call'[q] = Failed(q) => CallMoves(q)
    BY <1>0 DEF CallMoves, Other
  <2> QED
    BY <1>0, <1>1, <2>1, <2>2, SameReports, OneReply DEF SameRequests
<1>3. CASE id \in DOMAIN reports /\ (status # Null \/ notes # Null)
  <2>1. /\ call' = [call EXCEPT ![q] = record]
        /\ reports' = Updated(id, status, notes)
    BY <1>3 DEF PatchReport, Answers, Updated
  <2>2. status \in Statuses \cup {Null} /\ notes \in Notes \cup {Null} /\ reports \in Seq(Rows)
    BY <1>0 DEF Typed
  <2>3. /\ CallRecord(record) /\ record.op = "patch" /\ record.id = id /\ record.step = "reload"
        /\ record.rev = rev /\ record.status = status /\ record.notes = notes
    BY <1>0, <1>1 DEF CallRecord, Fields
  <2> HIDE DEF id, status, notes, rev, record
  <2>4. /\ ReportsMove /\ id \in DOMAIN reports' /\ reports'[id] \in Rows
        /\ reports'[id].status = Coalesce(status, reports'[id].status)
        /\ reports'[id].notes = Coalesce(notes, reports'[id].notes)
    BY <1>3, <2>1, <2>2, RowUpdated
  <2>5. reports'[id].rev \in Nat
    BY <2>4 DEF Rows
  <2>6. call'[q] = record => Updates(q)
    BY <2>3, <2>4, <2>5 DEF Updates, Shows, rev
  <2>7. ServiceInv' /\ Keeps /\ call'[q] = record /\ \A p \in Requests : p # q => call'[p] = call[p]
    BY <1>1, <2>1, <2>3, <2>4, <2>6, OneReply DEF CallMoves
  <2> QED
    BY <1>1, <2>3, <2>7 DEF SameRequests, id
<1> QED
  BY <1>2, <1>3

(* A replica dies: what it was serving fails. *)
LEMMA DeathKeeps ==
  ASSUME ServiceInv, NEW r \in Replicas, ReplicaDies(r)
  PROVE  ServiceInv' /\ Keeps /\ SameRequests
<1>0. Typed /\ BootInv /\ PatchInv
  BY DEF ServiceInv
<1>1. GoTo(r, "down", 0) /\ UNCHANGED <<usage, reports>>
  BY DEF ReplicaDies, tables
<1>2. PICK its :
        call' = [q \in Requests |-> IF q \in its THEN [call[q] EXCEPT !.step = "failed"] ELSE call[q]]
  BY DEF ReplicaDies
<1>3. ASSUME NEW q \in Requests
      PROVE  /\ DOMAIN call'[q] = Fields /\ call'[q].op = call[q].op /\ call'[q].id = call[q].id
             /\ call'[q].status = call[q].status /\ call'[q].notes = call[q].notes
             /\ call'[q].customer = call[q].customer
             /\ call'[q] = call[q] \/ call'[q].step = "failed"
  BY <1>0, <1>2 DEF Typed, Fields
<1>4. /\ DOMAIN boot' = Replicas /\ \A o \in Replicas : o # r => boot'[o] = boot[o]
      /\ DOMAIN boot'[r] = {"step", "row", "found"}
      /\ boot'[r].step = "down" /\ boot'[r].found = boot[r].found
  BY <1>0, <1>1, GoesTo
<1>5. Typed'
  BY <1>0, <1>1, <1>2, <1>3, <1>4 DEF Typed
<1>6. BootInv'
  BY <1>0, <1>1, <1>4 DEF BootInv
<1>7. ReportsMove /\ IsPrefix(reports, reports')
  BY <1>0, <1>1, SameReports
<1>8. PatchInv'
  BY <1>0, <1>3, <1>7, PatchKept DEF CallMoves, Other, Typed
<1>9. Keeps
  BY <1>0, <1>1, <1>7 DEF Keeps
<1> QED
  BY <1>3, <1>5, <1>6, <1>8, <1>9 DEF ServiceInv, SameRequests

(* Every step of the service. *)
LEMMA ServiceKeeps ==
  ASSUME ServiceInv, ServiceNext
  PROVE  ServiceInv' /\ Keeps /\ SameRequests
<1>1. ASSUME NEW r \in Replicas, Boot(r) \/ ScaleUp(r)
      PROVE  ServiceInv' /\ Keeps /\ SameRequests
  <2>1. UNCHANGED call
    BY <1>1 DEF Boot, ScaleUp, Start, Migrate, CountUsage, SeedUsage, CountReports, SeedReport
  <2> QED
    BY <1>1, <2>1, BootKeeps DEF SameRequests
<1> QED
  BY <1>1, DeathKeeps, ReadersKeep, CreateKeeps, PatchKeeps DEF ServiceNext, Serve
-----------------------------------------------------------------------------
(* What clients send and take back is no half-done PATCH. *)
LEMMA ClientKeeps ==
  ASSUME ServiceInv, NEW q \in Requests, NEW record, CallRecord(record),
         call' = [call EXCEPT ![q] = record], UNCHANGED <<tables, boot>>,
         record.op # "patch" \/ record.step \in {"sent", "failed"}
  PROVE  /\ ServiceInv' /\ Keeps /\ call'[q] = record
         /\ \A p \in Requests : p # q => call'[p] = call[p]
<1>1. ReportsMove /\ UNCHANGED <<usage, boot>>
  BY SameReports DEF ServiceInv, tables
<1>2. call'[q] = record => CallMoves(q)
  BY DEF CallMoves, Other
<1> QED
  BY <1>1, <1>2, OneReply

(* A request is sent. *)
LEMMA SendKeeps ==
  ASSUME ServiceInv, NEW q \in Requests, NEW asked, CallRecord(asked), Sends(q, asked),
         UNCHANGED <<tables, boot>>
  PROVE  /\ ServiceInv' /\ Keeps /\ call'[q].op = asked.op /\ call'[q].id = asked.id
         /\ \A p \in Requests : p # q => call'[p] = call[p]
<1>1. PICK step \in {"sent", "failed"} : call' = [call EXCEPT ![q] = [asked EXCEPT !.step = step]]
  BY DEF Sends
<1> DEFINE record == [asked EXCEPT !.step = step]
<1>2. CallRecord(record) /\ record.op = asked.op /\ record.id = asked.id /\ record.step = step
  BY DEF CallRecord, Fields
<1> HIDE DEF record
<1>3. call' = [call EXCEPT ![q] = record]
  BY <1>1 DEF record
<1> QED
  BY <1>2, <1>3, ClientKeeps

(* A slot is free again. *)
LEMMA GoneKeeps ==
  ASSUME ServiceInv, NEW q \in Requests, Gone(q), UNCHANGED <<tables, boot>>
  PROVE  /\ ServiceInv' /\ Keeps /\ call'[q].op = "none"
         /\ \A p \in Requests : p # q => call'[p] = call[p]
<1>1. CallRecord(Free) /\ Free.op = "none"
  BY DEF CallRecord, Free, Fields
<1> QED
  BY <1>1, ClientKeeps DEF Gone

(* What is asked for. *)
LEMMA AskedFor ==
  ASSUME NEW op, op # "create", NEW id
  PROVE  CallRecord(Ask(op, id)) /\ Ask(op, id).op = op /\ Ask(op, id).id = id
BY DEF CallRecord, Ask, Free, Fields

\* What SaveHitsShown asks of a step.
Hits ==
  \A q \in TabRequests : call[q].op # "patch" /\ call'[q].op = "patch" =>
    raced \/ (detail.id = call'[q].id /\ draft.of = call'[q].id)

TabInv == ServiceInv /\ FollowsInv
TabKeeps == ServiceInv' /\ FollowsInv' /\ Keeps /\ Hits

(* An opening. *)
LEMMA OpenKeeps ==
  ASSUME TabInv, NEW q \in TabRequests, NEW id, OpenReport(q, id)
  PROVE  TabKeeps
<1>0. ServiceInv /\ FollowsInv /\ q \in Requests
  BY TabAssumption DEF TabInv
<1>1. /\ Sends(q, Ask("get", id)) /\ UNCHANGED <<tables, boot, draft>>
      /\ selectedId' = id /\ detail' = NoDetail
      /\ raced' = (awaited # {}) /\ awaited' = awaited \cup {q}
  BY DEF OpenReport
<1>2. /\ ServiceInv' /\ Keeps /\ call'[q].op = "get" /\ call'[q].id = id
      /\ \A p \in Requests : p # q => call'[p] = call[p]
  BY <1>0, <1>1, AskedFor, SendKeeps
<1>3. FollowsInv'
  BY <1>0, <1>1, <1>2 DEF FollowsInv, NoDetail
<1>4. Hits
  BY <1>2, TabAssumption DEF Hits
<1> QED
  BY <1>2, <1>3, <1>4 DEF TabKeeps

(* A save. *)
LEMMA SaveKeeps ==
  ASSUME TabInv, NEW q \in TabRequests, NEW status \in Statuses, NEW notes \in Notes,
         HandleSave(q, status, notes)
  PROVE  TabKeeps
<1> DEFINE asked == [Ask("patch", selectedId) EXCEPT !.status = status, !.notes = notes]
<1>0. ServiceInv /\ FollowsInv /\ q \in Requests
  BY TabAssumption DEF TabInv
<1>1. /\ Sends(q, asked) /\ UNCHANGED <<tables, boot, selectedId, detail, raced>>
      /\ draft' = [draft EXCEPT !.status = status, !.notes = notes]
      /\ detail.id # 0 /\ awaited' = awaited \cup {q}
  BY DEF HandleSave
<1>2. CallRecord(asked) /\ asked.op = "patch" /\ asked.id = selectedId
  BY DEF CallRecord, Ask, Free, Fields
<1> HIDE DEF asked
<1>3. /\ ServiceInv' /\ Keeps /\ call'[q].id = selectedId
      /\ \A p \in Requests : p # q => call'[p] = call[p]
  BY <1>0, <1>1, <1>2, SendKeeps
<1>4. DOMAIN draft' = {"status", "notes", "of"} /\ draft'.of = draft.of
  BY <1>0, <1>1 DEF FollowsInv
<1>5. FollowsInv'
  BY <1>0, <1>1, <1>3, <1>4, TabAssumption DEF FollowsInv
<1>6. Hits
  BY <1>0, <1>1, <1>3, TabAssumption DEF Hits, FollowsInv
<1> QED
  BY <1>3, <1>5, <1>6 DEF TabKeeps

(* What the tab does with an answer. *)
LEMMA TabStepKeeps ==
  ASSUME TabInv, NEW q \in TabRequests, TabStep(q)
  PROVE  TabKeeps
<1>0. ServiceInv /\ FollowsInv /\ q \in Requests /\ TabRequests \subseteq Requests
  BY TabAssumption DEF TabInv
<1>1. CASE Related(q)
  <2> DEFINE asked == [Ask("list", call[q].id) EXCEPT
                         !.row = call[q].row, !.customer = call[q].row.customer,
                         !.step = IF Serving THEN "sent" ELSE "failed"]
  <2>1. call' = [call EXCEPT ![q] = asked] /\ UNCHANGED <<tables, boot, tabVars>>
    BY <1>1 DEF Related
  <2>2. CallRecord(asked) /\ asked.op = "list" /\ asked.id = call[q].id
    BY DEF CallRecord, Ask, Free, Fields
  <2> HIDE DEF asked
  <2>3. /\ ServiceInv' /\ Keeps /\ call'[q].op = "list" /\ call'[q].id = call[q].id
        /\ \A p \in Requests : p # q => call'[p] = call[p]
    BY <1>0, <2>1, <2>2, ClientKeeps
  <2>4. FollowsInv' /\ Hits
    BY <1>0, <2>1, <2>3 DEF FollowsInv, Hits, tabVars
  <2> QED
    BY <2>3, <2>4 DEF TabKeeps
<1>2. CASE DetailArrives(q) \/ SaveArrives(q)
  <2>1. /\ q \in awaited /\ awaited' = awaited \ {q} /\ Gone(q)
        /\ UNCHANGED <<tables, boot, selectedId, raced>>
    BY <1>2 DEF DetailArrives, SaveArrives
  <2>2. /\ ServiceInv' /\ Keeps /\ call'[q].op = "none"
        /\ \A p \in Requests : p # q => call'[p] = call[p]
    BY <1>0, <2>1, GoneKeeps
  <2>3. \/ UNCHANGED <<detail, draft>>
        \/ detail'.id = call[q].id /\ detail.id # 0 /\ UNCHANGED draft
        \/ /\ detail'.id = call[q].id /\ DOMAIN draft' = {"status", "notes", "of"}
           /\ draft'.of = call[q].id
    BY <1>2 DEF DetailArrives, SaveArrives
  <2>4. FollowsInv'
    BY <1>0, <2>1, <2>2, <2>3 DEF FollowsInv
  <2>5. Hits
    BY <1>0, <2>2 DEF Hits
  <2> QED
    BY <2>2, <2>4, <2>5 DEF TabKeeps
<1> QED
  BY <1>1, <1>2 DEF TabStep

(* Every step keeps the invariant, the rows, and saves of what is shown. *)
LEMMA NextKeeps ==
  ASSUME TabInv, Next
  PROVE  TabKeeps
<1>0. ServiceInv /\ FollowsInv /\ TabRequests \subseteq Requests
  BY TabAssumption DEF TabInv
<1>1. CASE Service
  <2>1. ServiceInv' /\ Keeps /\ SameRequests /\ UNCHANGED tabVars
    BY <1>0, <1>1, ServiceKeeps DEF Service
  <2> QED
    BY <1>0, <2>1 DEF TabKeeps, SameRequests, FollowsInv, Hits, tabVars
<1>2. \A q \in FreeSlot : q \in TabRequests
  BY DEF FreeSlot
<1>3. ASSUME NEW q \in Requests, Taken(q) PROVE TabKeeps
  <2>1. q \notin awaited /\ Gone(q) /\ UNCHANGED <<tables, boot, tabVars>>
    BY <1>3 DEF Taken
  <2>2. /\ ServiceInv' /\ Keeps /\ call'[q].op = "none"
        /\ \A p \in Requests : p # q => call'[p] = call[p]
    BY <1>0, <2>1, GoneKeeps
  <2> QED
    BY <1>0, <2>1, <2>2 DEF TabKeeps, FollowsInv, Hits, tabVars
<1>4. ASSUME NEW q \in Requests, NEW asked \in ToolRequests, ToolAsks(q, asked) PROVE TabKeeps
  <2>1. q \notin TabRequests /\ Sends(q, asked) /\ UNCHANGED <<tables, boot, tabVars>>
    BY <1>4 DEF ToolAsks
  <2>2. CallRecord(asked)
    BY TabAssumption DEF CallRecord, Free, Fields
  <2>3. ServiceInv' /\ Keeps /\ \A p \in Requests : p # q => call'[p] = call[p]
    BY <1>0, <2>1, <2>2, SendKeeps
  <2> QED
    BY <1>0, <2>1, <2>3 DEF TabKeeps, FollowsInv, Hits, tabVars
<1>5. CASE LeaveTab
  <2>1. /\ UNCHANGED serviceVars /\ detail' = NoDetail /\ draft' = FirstDraft /\ awaited' = {}
    BY <1>5 DEF LeaveTab
  <2>2. ServiceInv' /\ Keeps
    BY <1>0, <2>1, SameReports
       DEF serviceVars, ServiceInv, Typed, BootInv, PatchInv, Shows, Keeps
  <2> QED
    BY <2>1, <2>2 DEF TabKeeps, FollowsInv, Hits, serviceVars, NoDetail, FirstDraft
<1> QED
  BY <1>1, <1>2, <1>3, <1>4, <1>5, OpenKeeps, SaveKeeps, TabStepKeeps DEF Next

(* At first nothing is stored, asked for or shown. *)
LEMMA InitKeeps == Init => TabInv
<1> SUFFICES ASSUME Init PROVE TabInv
  OBVIOUS
<1>1. /\ reports = <<>> /\ call = [q \in Requests |-> Free]
      /\ \A r \in Replicas : boot[r].step \in {"down", "absent"} /\ boot[r].found = {}
                             /\ DOMAIN boot[r] = {"step", "row", "found"}
      /\ DOMAIN boot = Replicas
  BY DEF Init, ServiceInit
<1>2. Typed
  BY <1>1 DEF Typed, Free, Fields
<1>3. BootInv /\ PatchInv
  BY <1>1 DEF BootInv, PatchInv, Free
<1>4. FollowsInv
  BY DEF Init, TabInit, FollowsInv, NoDetail, FirstDraft
<1> QED
  BY <1>2, <1>3, <1>4 DEF TabInv, ServiceInv

(* So it is always. *)
LEMMA TabStays == TabInv /\ [Next]_vars => TabInv'
<1> SUFFICES ASSUME TabInv, UNCHANGED vars PROVE TabInv'
  BY NextKeeps DEF TabKeeps, TabInv
<1> QED
  BY DEF vars, serviceVars, tabVars, TabInv, ServiceInv, Typed, BootInv, PatchInv, Shows, FollowsInv

(***************************************************************************)
(* Replicas come and go, requests overlap: rows stay, and a replica adds   *)
(* none to a table it found filled.                                        *)
(***************************************************************************)
THEOREM KeptRows == Spec => RowsKept
<1>1. TabInv /\ [Next]_vars => [Keeps]_serviceVars
  BY NextKeeps DEF TabKeeps, vars
<1> QED
  BY InitKeeps, TabStays, <1>1, PTL DEF Spec, RowsKept, Keeps

(***************************************************************************)
(* The row a PATCH answers with is its own or a later one.                 *)
(***************************************************************************)
THEOREM PatchShown == Spec => []PatchAnswered
<1>1. TabInv => PatchAnswered
  BY DEF TabInv, ServiceInv, PatchInv, Shows, PatchAnswered
<1> QED
  BY InitKeeps, TabStays, <1>1, PTL DEF Spec

(***************************************************************************)
(* A save writes to the report on the card what was typed for it, unless   *)
(* requests of the tab overlapped.                                         *)
(***************************************************************************)
THEOREM SaveHits == Spec => SaveHitsShown
<1>1. TabInv /\ [Next]_vars => [Hits]_vars
  BY NextKeeps DEF TabKeeps
<1> QED
  BY InitKeeps, TabStays, <1>1, PTL DEF Spec, SaveHitsShown, Hits

-----------------------------------------------------------------------------
(***************************************************************************)
(* Usage histories.  Of finitely many days every number below theirs is    *)
(* the number of earlier days of just one of them.                         *)
(***************************************************************************)
LEMMA DaysApart ==
  ASSUME NEW days \in SUBSET Nat, NEW d \in days
  PROVE  /\ \A e : e \in Earlier(days, d) <=> e \in days /\ e < d
         /\ \A e : e \in Later(days, d) <=> e \in days /\ d < e
         /\ \A e \in days : e \in Nat /\ (e < d \/ e = d \/ d < e) /\ ~(e < d /\ d < e) /\ ~(e < e)
         /\ Earlier(days, d) \in SUBSET days /\ Later(days, d) \in SUBSET days
<1>1. \A e \in days : e \in Nat
  OBVIOUS
<1>2. \A e \in days : e > d <=> d < e
  BY <1>1
<1>3. \A e : e \in Later(days, d) <=> e \in days /\ d < e
  BY <1>2 DEF Later
<1>4. \A e : e \in Earlier(days, d) <=> e \in days /\ e < d
  BY DEF Earlier
<1>5. \A e \in days : (e < d \/ e = d \/ d < e) /\ ~(e < d /\ d < e) /\ ~(e < e)
  BY <1>1
<1> QED
  BY <1>1, <1>3, <1>4, <1>5

LEMMA EarlierFewer ==
  ASSUME NEW days \in SUBSET Nat, IsFiniteSet(days), NEW d \in days
  PROVE  /\ IsFiniteSet(Earlier(days, d)) /\ IsFiniteSet(Later(days, d))
         /\ Cardinality(Earlier(days, d)) \in 0..(Cardinality(days) - 1)
         /\ Cardinality(Later(days, d)) = Cardinality(days) - 1 - Cardinality(Earlier(days, d))
         /\ \A e \in days : e < d =>
              /\ Cardinality(Earlier(days, e)) < Cardinality(Earlier(days, d))
              /\ Cardinality(Later(days, d)) < Cardinality(Later(days, e))
<1>1. ASSUME NEW e \in days
      PROVE  /\ Earlier(days, e) \in SUBSET days /\ Later(days, e) \in SUBSET days
             /\ IsFiniteSet(Earlier(days, e)) /\ IsFiniteSet(Later(days, e))
             /\ Cardinality(Earlier(days, e)) \in Nat /\ Cardinality(Later(days, e)) \in Nat
  <2>1. Earlier(days, e) \in SUBSET days /\ Later(days, e) \in SUBSET days
    BY DEF Earlier, Later
  <2>2. IsFiniteSet(Earlier(days, e)) /\ IsFiniteSet(Later(days, e))
    BY <2>1, FS_Subset
  <2> QED
    BY <2>1, <2>2, FS_CardinalityType
<1>2. ASSUME NEW e \in days, e < d
      PROVE  Cardinality(Earlier(days, e)) < Cardinality(Earlier(days, d))
  <2>1. \A x \in days : x < e => x < d
    BY <1>2, DaysApart
  <2>2. Earlier(days, e) \in SUBSET Earlier(days, d) /\ Earlier(days, e) # Earlier(days, d)
    BY <1>2, <2>1, DaysApart, Zenon
  <2> QED
    BY <1>1, <2>2, FS_Subset
<1>3. ASSUME NEW e \in days, e < d
      PROVE  Cardinality(Later(days, d)) < Cardinality(Later(days, e))
  <2>1. \A x \in days : d < x => e < x
    BY <1>3, DaysApart
  <2>2. Later(days, d) \in SUBSET Later(days, e) /\ Later(days, d) # Later(days, e)
    BY <1>3, <2>1, DaysApart, Zenon
  <2> QED
    BY <1>1, <2>2, FS_Subset
<1>4. /\ IsFiniteSet(days \ {d}) /\ Cardinality(days \ {d}) = Cardinality(days) - 1
      /\ Cardinality(days) \in Nat
  BY FS_RemoveElement, FS_CardinalityType
<1>5. /\ days \ {d} = Earlier(days, d) \cup Later(days, d)
      /\ Earlier(days, d) \cap Later(days, d) = {}
  <2>1. \A e \in days : (e < d \/ e = d \/ d < e) /\ ~(e < d /\ d < e) /\ ~(e < e)
    BY DaysApart
  <2>2. \A e : e \in Earlier(days, d) <=> e \in days /\ e < d
    BY DaysApart
  <2>3. \A e : e \in Later(days, d) <=> e \in days /\ d < e
    BY DaysApart
  <2>4. ASSUME NEW e PROVE e \in days \ {d} <=> e \in Earlier(days, d) \cup Later(days, d)
    <3>1. e = d => ~(e < d) /\ ~(d < e)
      BY <2>1
    <3> QED
      BY <2>1, <2>2, <2>3, <3>1, Zenon
  <2>5. ASSUME NEW e PROVE e \notin Earlier(days, d) \cap Later(days, d)
    BY <2>1, <2>2, <2>3, Zenon
  <2> QED
    BY <2>4, <2>5, Zenon
<1>6. Cardinality(days \ {d}) = Cardinality(Earlier(days, d)) + Cardinality(Later(days, d)) - 0
  BY <1>1, <1>5, FS_Union, FS_EmptySet
<1> QED
  BY <1>1, <1>2, <1>3, <1>4, <1>6

(* The least of some days. *)
LEMMA FirstDay ==
  ASSUME NEW days \in SUBSET Nat, days # {}
  PROVE  \E d \in days : \A e \in days : d <= e
<1> DEFINE R == OpToRel(<, Nat)
<1>1. R = {ss \in Nat \X Nat : ss[1] < ss[2]}
  BY DEF OpToRel
<1>2. IsWellFoundedOn(R, Nat)
  BY NatLessThanWellFounded
<1> HIDE DEF R
<1>3. PICK d \in days : \A e \in days : ~(<<e, d>> \in R)
  BY <1>2, WFMin
<1>4. \A e \in days : ~(e < d)
  BY <1>1, <1>3
<1> QED
  BY <1>4

(* The day with a given number of earlier ones. *)
LEMMA DayAt ==
  ASSUME NEW days \in SUBSET Nat, IsFiniteSet(days)
  PROVE  \A n \in 0..(Cardinality(days) - 1) : \E d \in days : Cardinality(Earlier(days, d)) = n
<1> DEFINE Has(n) == n < Cardinality(days) => \E d \in days : Cardinality(Earlier(days, d)) = n
<1>0. Cardinality(days) \in Nat
  BY FS_CardinalityType
<1>1. ASSUME 0 < Cardinality(days) PROVE \E d \in days : Cardinality(Earlier(days, d)) = 0
  <2>1. days # {}
    BY <1>1, FS_EmptySet
  <2>2. PICK d \in days : \A e \in days : d <= e
    BY <2>1, FirstDay
  <2>3. \A e \in days : ~(e < d)
    BY <2>2
  <2>4. Earlier(days, d) = {}
    BY <2>3, DaysApart, Zenon
  <2> QED
    BY <2>4, FS_EmptySet
<1>2. ASSUME NEW n \in Nat, n + 1 < Cardinality(days),
             NEW d \in days, Cardinality(Earlier(days, d)) = n
      PROVE  \E e \in days : Cardinality(Earlier(days, e)) = n + 1
  <2>1. IsFiniteSet(Earlier(days, d)) /\ Cardinality(Later(days, d)) = Cardinality(days) - 1 - n
    BY <1>2, EarlierFewer
  <2>2. Later(days, d) # {} /\ Later(days, d) \in SUBSET Nat
    <3>1. Cardinality(Later(days, d)) # 0
      BY <1>0, <1>2, <2>1
    <3> QED
      BY <3>1, FS_EmptySet, DaysApart
  <2>3. PICK e \in Later(days, d) : \A f \in Later(days, d) : e <= f
    BY <2>2, FirstDay
  <2>4. e \in days /\ Earlier(days, e) = Earlier(days, d) \cup {d} /\ d \notin Earlier(days, d)
    <3>1. e \in days /\ d < e
      BY <2>3, DaysApart
    <3>2. ASSUME NEW x \in days PROVE x < e <=> x < d \/ x = d
      <4>1. d < x => e <= x
        BY <2>3, DaysApart
      <4> QED
        BY <3>1, <4>1
    <3>3. /\ \A x : x \in Earlier(days, e) <=> x \in days /\ x < e
          /\ \A x : x \in Earlier(days, d) <=> x \in days /\ x < d
          /\ ~(d < d)
      BY <3>1, DaysApart
    <3>4. \A x : x \in Earlier(days, e) <=> x \in Earlier(days, d) \cup {d}
      BY <3>2, <3>3, Zenon
    <3> QED
      BY <3>1, <3>3, <3>4, Zenon
  <2>5. Cardinality(Earlier(days, d) \cup {d}) = Cardinality(Earlier(days, d)) + 1
    BY <2>1, <2>4, FS_AddElement, Zenon
  <2> QED
    BY <1>2, <2>4, <2>5, Zenon
<1> HIDE DEF Has
<1>3. Has(0)
  BY <1>1 DEF Has
<1>4. ASSUME NEW n \in Nat, Has(n) PROVE Has(n + 1)
  BY <1>0, <1>2, <1>4 DEF Has
<1>5. \A n \in Nat : Has(n)
  <2> DEFINE T == {n \in Nat : ~Has(n)}
  <2>1. ASSUME T # {} PROVE FALSE
    <3>1. T \in SUBSET Nat
      OBVIOUS
    <3> HIDE DEF T
    <3>2. PICK n \in T : \A m \in T : n <= m
      BY <2>1, <3>1, FirstDay
    <3>3. n \in Nat /\ ~Has(n) /\ n # 0
      BY <1>3, <3>2 DEF T
    <3>4. n - 1 \in Nat /\ Has(n - 1) /\ (n - 1) + 1 = n
      BY <3>2, <3>3 DEF T
    <3> QED
      BY <1>4, <3>3, <3>4
  <2> QED
    BY <2>1
<1> QED
  BY <1>0, <1>5 DEF Has

(***************************************************************************)
(* What the query answers with: the days of an answer ascend, and a day    *)
(* that is left out is before all of them and the answer is full.          *)
(***************************************************************************)
LatestOf(days, listed, n) ==
  /\ Len(days) \in Nat /\ DOMAIN days = 1..Len(days)
  /\ \A i, j \in 1..Len(days) : i < j => days[i] < days[j]
  /\ {days[i] : i \in 1..Len(days)} \subseteq listed
  /\ \A d \in listed \ {days[i] : i \in 1..Len(days)} : Len(days) = n /\ d < days[1]

LEMMA LatestIs ==
  ASSUME NEW listed \in SUBSET Nat, IsFiniteSet(listed), NEW n \in Nat, n > 0
  PROVE  LatestOf(Latest(listed, n), listed, n)
<1> DEFINE latest == {d \in listed : Cardinality(Later(listed, d)) < n}
           many == Cardinality(latest)
           days == Latest(listed, n)
<1>1. latest \in SUBSET listed /\ latest \in SUBSET Nat
  OBVIOUS
<1>2. IsFiniteSet(latest) /\ many \in Nat /\ Cardinality(listed) \in Nat
  BY <1>1, FS_Subset, FS_CardinalityType
<1>3. days = [i \in 1..many |-> CHOOSE d \in latest : Cardinality(Earlier(latest, d)) = i - 1]
  BY DEF Latest
<1>4. ASSUME NEW d \in listed, Cardinality(Later(listed, d)) >= n
      PROVE  many = n /\ \A e \in latest : d < e
  <2>1. Cardinality(Later(listed, d)) \in 0..(Cardinality(listed) - 1)
    BY <1>2, EarlierFewer
  <2>2. Cardinality(listed) - n \in 0..(Cardinality(listed) - 1)
    BY <1>2, <1>4, <2>1
  <2>3. PICK k \in listed : Cardinality(Earlier(listed, k)) = Cardinality(listed) - n
    BY <2>2, DayAt
  <2>4. Cardinality(Later(listed, k)) = n - 1
    BY <1>2, <2>3, EarlierFewer
  <2>5. ASSUME NEW e \in listed PROVE e \in latest <=> e >= k
    <3>1. e < k => Cardinality(Later(listed, k)) < Cardinality(Later(listed, e))
      BY EarlierFewer
    <3>2. k < e => Cardinality(Later(listed, e)) < Cardinality(Later(listed, k))
      BY EarlierFewer
    <3>3. Cardinality(Later(listed, e)) \in Nat /\ e \in Nat /\ k \in Nat
      BY EarlierFewer, FS_CardinalityType
    <3> QED
      BY <2>4, <3>1, <3>2, <3>3
  <2> HIDE DEF latest
  <2>6. latest = Later(listed, k) \cup {k} /\ k \notin Later(listed, k)
    <3>1. \A e \in listed : e >= k <=> e = k \/ k < e
      OBVIOUS
    <3>2. (\A x : x \in Later(listed, k) <=> x \in listed /\ k < x) /\ ~(k < k)
      BY DaysApart
    <3>3. \A x : x \in latest <=> x \in Later(listed, k) \cup {k}
      BY <1>1, <2>5, <3>1, <3>2, Zenon
    <3> QED
      BY <3>2, <3>3, Zenon
  <2>7. IsFiniteSet(Later(listed, k))
    BY EarlierFewer
  <2>8. many = n
    <3>1. many = Cardinality(Later(listed, k)) + 1
      BY <2>6, <2>7, FS_AddElement
    <3> QED
      BY <2>4, <3>1
  <2>9. d \notin latest
    BY <1>4, <2>1, <1>2 DEF latest
  <2> QED
    BY <1>1, <2>5, <2>8, <2>9
<1>5. ASSUME NEW d \in listed \ latest PROVE Cardinality(Later(listed, d)) >= n
  <2>1. Cardinality(Later(listed, d)) \in Nat
    BY EarlierFewer, FS_CardinalityType
  <2> QED
    BY <2>1
<1> HIDE DEF latest, days
<1>6. ASSUME NEW i \in 1..many
      PROVE  days[i] \in latest /\ Cardinality(Earlier(latest, days[i])) = i - 1
  <2>1. i - 1 \in 0..(many - 1)
    BY <1>2
  <2>2. \E d \in latest : Cardinality(Earlier(latest, d)) = i - 1
    BY <1>1, <1>2, <2>1, DayAt
  <2> QED
    BY <1>3, <2>2
<1>7. ASSUME NEW i \in 1..many, NEW j \in 1..many, i < j PROVE days[i] < days[j]
  <2>1. days[i] \in Nat /\ days[j] \in Nat
    BY <1>1, <1>6
  <2>2. days[i] # days[j]
    BY <1>2, <1>6, <1>7
  <2>3. days[j] < days[i] =>
          Cardinality(Earlier(latest, days[j])) < Cardinality(Earlier(latest, days[i]))
    BY <1>1, <1>2, <1>6, EarlierFewer
  <2>4. days[j] < days[i] => j - 1 < i - 1
    BY <1>6, <2>3
  <2> QED
    BY <1>2, <1>7, <2>1, <2>2, <2>4
<1>8. ASSUME NEW d \in latest PROVE \E i \in 1..many : days[i] = d
  <2> DEFINE i == Cardinality(Earlier(latest, d)) + 1
  <2>1. Cardinality(Earlier(latest, d)) \in 0..(many - 1)
    BY <1>1, <1>2, EarlierFewer
  <2>2. i \in 1..many
    BY <1>2, <2>1
  <2>3. days[i] \in latest /\ Cardinality(Earlier(latest, days[i])) = Cardinality(Earlier(latest, d))
    BY <1>6, <2>1, <2>2
  <2>4. /\ days[i] < d => Cardinality(Earlier(latest, days[i])) < Cardinality(Earlier(latest, d))
        /\ d < days[i] => Cardinality(Earlier(latest, d)) < Cardinality(Earlier(latest, days[i]))
    BY <1>1, <1>2, <2>3, EarlierFewer
  <2>5. days[i] = d
    <3>1. Cardinality(Earlier(latest, d)) \in Nat
      BY <1>2, <2>1
    <3>2. ~(days[i] < d) /\ ~(d < days[i])
      BY <2>3, <2>4, <3>1
    <3>3. days[i] \in Nat /\ d \in Nat
      BY <1>1, <2>3
    <3> HIDE DEF i
    <3> QED
      BY <3>2, <3>3
  <2> QED
    BY <2>2, <2>5
<1>9. Len(days) = many /\ DOMAIN days = 1..many
  BY <1>2, <1>3
<1>10. {days[i] : i \in 1..many} = latest
  BY <1>6, <1>8
<1>11. ASSUME NEW d \in listed \ latest PROVE many = n /\ d < days[1]
  <2>1. many = n /\ \A e \in latest : d < e
    BY <1>4, <1>5, <1>11
  <2>2. 1 \in 1..many
    BY <2>1
  <2> QED
    BY <1>6, <2>1, <2>2
<1>12. LatestOf(days, listed, n)
  BY <1>1, <1>2, <1>7, <1>9, <1>10, <1>11 DEF LatestOf
<1> QED
  BY <1>12 DEF days
-----------------------------------------------------------------------------
(***************************************************************************)
(* Types.  The usage on record is what is seeded, so a customer's days are *)
(* finitely many; and a request of the tab is about a report on record,    *)
(* whose row it has once that is read, so the card and the form show one.  *)
(***************************************************************************)
TablesTyped ==
  /\ DOMAIN usage \subseteq Customers \X (1..SeedDays)
  /\ \A k \in DOMAIN usage : usage[k] \in Range(RandMb)
  /\ \A r \in Replicas :
       /\ boot[r].step \in Steps
       /\ boot[r].step = "usage" => boot[r].row \in 1..(Len(SeedCustomers) * SeedDays)
  /\ events \in 0..MaxEvents

\* A request of slot q, when reports ids are on record.
Fine(record, q, ids) ==
  /\ record.days \in Nat
  /\ record.op = "history" /\ record.step = "ok" =>
       /\ record.listed \in SUBSET (1..SeedDays)
       /\ record.history = Latest(record.listed, Limit(record.days))
  /\ q \in TabRequests =>
       /\ record.op \in {"none", "get", "list", "patch"}
       /\ record.op # "none" => record.id \in ids
       /\ record.op = "list" \/ (record.op = "get" /\ record.step = "ok") => record.row \in Rows

CallsFine == \A q \in Requests : Fine(call[q], q, DOMAIN reports)

CardTyped ==
  /\ selectedId \in {0} \cup DOMAIN reports /\ detail.id \in {0} \cup DOMAIN reports
  /\ detail.id # 0 \/ awaited # {} => selectedId # 0
  /\ detail.id # 0 => detail.row \in Rows
  /\ draft.status \in Statuses /\ draft.notes \in Notes
  /\ loading \in BOOLEAN /\ saving \in BOOLEAN /\ raced \in BOOLEAN

TypeInv == TabInv /\ TablesTyped /\ CallsFine /\ CardTyped

(* The rows that are seeded. *)
LEMMA DivMod ==
  ASSUME NEW m \in Nat, NEW n \in Nat \ {0}
  PROVE  m \div n \in Nat /\ m % n \in 0..(n - 1) /\ m = n * (m \div n) + (m % n)
OBVIOUS

LEMMA TimesMore == ASSUME NEW m \in Nat, NEW n \in Nat, NEW k \in Nat, m <= n PROVE k * m <= k * n
OBVIOUS

LEMMA SeededKey ==
  ASSUME NEW n \in 1..(Len(SeedCustomers) * SeedDays)
  PROVE  UsageKey(n) \in Customers \X (1..SeedDays)
<1> DEFINE m == n - 1
           i == m \div SeedDays
           many == Len(SeedCustomers)
<1>1. many \in Nat /\ SeedDays \in Nat \ {0} /\ many * SeedDays \in Nat
  BY NetworkOpsAssumption
<1>2. m \in Nat /\ m < many * SeedDays
  BY <1>1
<1> HIDE DEF m
<1>3. i \in Nat /\ m % SeedDays \in 0..(SeedDays - 1) /\ SeedDays * i <= m
  <2>1. i \in Nat /\ m % SeedDays \in 0..(SeedDays - 1) /\ m = SeedDays * i + (m % SeedDays)
    BY <1>1, <1>2, DivMod
  <2> HIDE DEF i
  <2> QED
    BY <1>1, <1>2, <2>1
<1> HIDE DEF i
<1>4. ASSUME many <= i PROVE FALSE
  <2>1. SeedDays * many <= SeedDays * i
    BY <1>1, <1>3, <1>4, TimesMore
  <2>2. SeedDays * many = many * SeedDays /\ SeedDays * i \in Nat
    BY <1>1, <1>3
  <2> QED
    BY <1>1, <1>2, <1>3, <2>1, <2>2
<1>5. 1 + i \in 1..many
  BY <1>1, <1>3, <1>4
<1>6. SeedCustomers[1 + i] \in Customers
  BY <1>5, NetworkOpsAssumption
<1>7. SeedDays - (m % SeedDays) \in 1..SeedDays
  BY <1>1, <1>3
<1> QED
  BY <1>6, <1>7 DEF UsageKey, m, i

(* Requests that change become fine ones, whatever is filed meanwhile. *)
LEMMA FineStays ==
  ASSUME CallsFine, DOMAIN reports \subseteq DOMAIN reports',
         \A q \in Requests : call'[q] = call[q] \/ Fine(call'[q], q, DOMAIN reports)
  PROVE  CallsFine'
<1>1. \A q \in Requests : Fine(call'[q], q, DOMAIN reports)
  BY DEF CallsFine
<1>2. \A q \in Requests : Fine(call'[q], q, DOMAIN reports')
  BY <1>1 DEF Fine
<1> QED
  BY <1>2 DEF CallsFine

LEMMA OneFine ==
  ASSUME Typed, CallsFine, NEW q \in Requests, NEW record, Fine(record, q, DOMAIN reports),
         call' = [call EXCEPT ![q] = record], DOMAIN reports \subseteq DOMAIN reports'
  PROVE  CallsFine'
<1>1. \A p \in Requests : call'[p] = call[p] \/ Fine(call'[p], p, DOMAIN reports)
  BY DEF Typed
<1> QED
  BY <1>1, FineStays

\* The card stays what it is while reports are filed and updated.
LEMMA CardStays ==
  ASSUME CardTyped, UNCHANGED tabVars, DOMAIN reports \subseteq DOMAIN reports'
  PROVE  CardTyped'
BY DEF CardTyped, tabVars

(* A replica starts. *)
LEMMA BootTyped ==
  ASSUME ServiceInv, TablesTyped, NEW r \in Replicas, Boot(r) \/ ScaleUp(r)
  PROVE  TablesTyped'
<1> USE DEF tables, At
<1>0. Typed
  BY DEF ServiceInv
<1>1. ASSUME NEW step \in Steps, NEW row, GoTo(r, step, row), UNCHANGED usage,
             step = "usage" => row \in 1..(Len(SeedCustomers) * SeedDays),
             events' \in 0..MaxEvents
      PROVE  TablesTyped'
  BY <1>0, <1>1, GoesTo DEF TablesTyped
<1>2. events \in 0..MaxEvents /\ (Event => events' \in 0..MaxEvents)
  BY NetworkOpsAssumption DEF TablesTyped, Event
<1>3. CASE Start(r)
  <2>1. /\ \A o \in Replicas : o # r => boot'[o] = boot[o]
        /\ boot'[r].step = "migrate" /\ UNCHANGED <<usage, events>>
    BY <1>0, <1>3 DEF Start, Typed
  <2> QED
    BY <2>1 DEF TablesTyped, Steps
<1>4. CASE Migrate(r)
  BY <1>1, <1>2, <1>4 DEF Migrate, Steps
<1>5. CASE ScaleUp(r)
  BY <1>1, <1>2, <1>5 DEF ScaleUp, Steps
<1>6. CASE CountUsage(r)
  <2>1. /\ UNCHANGED <<usage, events>>
        /\ GoTo(r, "usage", 1) \/ GoTo(r, "count reports", 0)
    BY <1>6 DEF CountUsage
  <2>2. 1 \in 1..(Len(SeedCustomers) * SeedDays)
    <3>1. Len(SeedCustomers) \in Nat /\ 1 <= Len(SeedCustomers) /\ SeedDays \in Nat /\ 1 <= SeedDays
      BY NetworkOpsAssumption
    <3>2. SeedDays * 1 <= SeedDays * Len(SeedCustomers)
      BY <3>1, TimesMore
    <3>3. SeedDays * Len(SeedCustomers) = Len(SeedCustomers) * SeedDays
          /\ SeedDays * Len(SeedCustomers) \in Nat /\ SeedDays * 1 = SeedDays
      BY <3>1
    <3> QED
      BY <3>1, <3>2, <3>3
  <2> QED
    BY <1>1, <1>2, <2>1, <2>2 DEF Steps
<1>7. CASE CountReports(r)
  <2>1. /\ UNCHANGED <<usage, events>>
        /\ GoTo(r, "reports", 1) \/ GoTo(r, "serving", 0)
    BY <1>7 DEF CountReports
  <2> QED
    BY <1>1, <1>2, <2>1 DEF Steps
<1>8. CASE SeedReport(r)
  <2>1. /\ UNCHANGED <<usage, events>>
        /\ GoTo(r, "serving", 0) \/ GoTo(r, "reports", boot[r].row + 1)
    BY <1>8 DEF SeedReport
  <2> QED
    BY <1>1, <1>2, <2>1 DEF Steps
<1>9. CASE SeedUsage(r)
  <2> DEFINE n == boot[r].row
             key == UsageKey(n)
             many == Len(SeedCustomers) * SeedDays
  <2>1. /\ boot[r].step = "usage" /\ UNCHANGED events
        /\ usage' = [k \in DOMAIN usage \cup {key} |-> IF k \in DOMAIN usage THEN usage[k] ELSE RandMb[r]]
        /\ n = many => GoTo(r, "count reports", 0)
        /\ n # many => GoTo(r, "usage", n + 1)
    BY <1>9 DEF SeedUsage
  <2>2. n \in 1..many /\ many \in Nat
    <3>1. many \in Nat
      BY NetworkOpsAssumption
    <3> QED
      BY <2>1, <3>1 DEF TablesTyped
  <2>3. key \in Customers \X (1..SeedDays)
    BY <2>2, SeededKey
  <2>4. RandMb[r] \in Range(RandMb)
    BY NetworkOpsAssumption DEF Range
  <2> HIDE DEF n, key, many
  <2>5. /\ DOMAIN usage' \subseteq Customers \X (1..SeedDays)
        /\ \A k \in DOMAIN usage' : usage'[k] \in Range(RandMb)
    BY <2>1, <2>3, <2>4 DEF TablesTyped
  <2>6. PICK step \in Steps, row \in {0, n + 1} : GoTo(r, step, row) /\ (step = "usage" => row \in 1..many)
    <3>1. CASE n = many
      <4>1. GoTo(r, "count reports", 0) /\ "count reports" \in Steps
        BY <2>1, <3>1 DEF Steps
      <4> QED
        BY <4>1
    <3>2. CASE n # many
      <4>1. GoTo(r, "usage", n + 1) /\ "usage" \in Steps
        BY <2>1, <3>2 DEF Steps
      <4>2. n + 1 \in 1..many
        BY <2>2, <3>2
      <4> QED
        BY <4>1, <4>2
    <3> QED
      BY <3>1, <3>2
  <2>7. /\ \A o \in Replicas : o # r => boot'[o] = boot[o]
        /\ boot'[r].step = step /\ boot'[r].row = row
    BY <1>0, <2>6, GoesTo
  <2>8. \A o \in Replicas :
          /\ boot'[o].step \in Steps
          /\ boot'[o].step = "usage" => boot'[o].row \in 1..(Len(SeedCustomers) * SeedDays)
    BY <2>6, <2>7 DEF TablesTyped, many
  <2> QED
    BY <1>2, <2>1, <2>5, <2>8 DEF TablesTyped
<1> QED
  BY <1>3, <1>4, <1>5, <1>6, <1>7, <1>8, <1>9 DEF Boot

(* The answer to a history is the days the query returns. *)
LEMMA DaysListed ==
  ASSUME TablesTyped, NEW customer
  PROVE  DaysOf(customer) \in SUBSET (1..SeedDays)
BY DEF TablesTyped, DaysOf

(* A handler answers. *)
LEMMA AnswerFine ==
  ASSUME ServiceInv, TablesTyped, CallsFine, NEW q \in Requests, Serve(q) \/ RequestFails(q)
  PROVE  TablesTyped' /\ CallsFine'
<1> USE DEF tables
<1>0. Typed /\ DOMAIN call[q] = Fields /\ Fine(call[q], q, DOMAIN reports)
  BY DEF ServiceInv, Typed, CallsFine
<1>1. TablesTyped'
  <2>1. UNCHANGED <<usage, boot>> /\ (UNCHANGED events \/ Event)
    BY DEF Serve, RequestFails, GetUsage, GetUsageHistory, CreateReport, ListReports, GetReport,
           PatchReport, Reload
  <2>2. events' \in 0..MaxEvents
    BY <2>1, NetworkOpsAssumption DEF TablesTyped, Event
  <2> QED
    BY <2>1, <2>2 DEF TablesTyped
<1>2. DOMAIN reports \subseteq DOMAIN reports'
  BY ServiceKeeps DEF ServiceNext, Keeps
<1>3. ASSUME NEW record, call' = [call EXCEPT ![q] = record],
             record.op = call[q].op, record.days = call[q].days, record.id = call[q].id,
             record.op # "history" \/ record.step # "ok",
             \/ record.row = call[q].row /\ (record.op # "get" \/ record.step # "ok")
             \/ record.op \notin {"list", "get"} \/ record.row \in Rows
      PROVE  CallsFine'
  <2>1. Fine(record, q, DOMAIN reports)
    BY <1>0, <1>3 DEF Fine
  <2> QED
    BY <1>0, <1>2, <1>3, <2>1, OneFine
<1>4. /\ Ok(q).op = call[q].op /\ Ok(q).days = call[q].days /\ Ok(q).id = call[q].id
      /\ Ok(q).step = "ok" /\ Ok(q).row = call[q].row /\ DOMAIN Ok(q) = Fields
      /\ Failed(q).op = call[q].op /\ Failed(q).days = call[q].days /\ Failed(q).id = call[q].id
      /\ Failed(q).step = "failed" /\ Failed(q).row = call[q].row
  BY <1>0 DEF Ok, Failed, Fields
<1>5. call' = [call EXCEPT ![q] = Failed(q)] => CallsFine'
  BY <1>3, <1>4
<1>6. CASE GetUsage(q)
  <2>1. /\ call[q].op = "usage"
        /\ call' = [call EXCEPT ![q] = Ok(q)] \/ call' = [call EXCEPT ![q] = Failed(q)]
    BY <1>6 DEF GetUsage, Asked, Answers
  <2> QED
    BY <1>1, <1>3, <1>4, <1>5, <2>1
<1>7. CASE GetUsageHistory(q)
  <2> DEFINE days == DaysOf(call[q].customer)
             latest == Latest(days, Limit(call[q].days))
             record == [Ok(q) EXCEPT !.history = latest, !.listed = days]
  <2>1. call[q].op = "history" /\ call' = [call EXCEPT ![q] = record]
    BY <1>7 DEF GetUsageHistory, Asked, Answers
  <2>2. /\ record.op = "history" /\ record.days = call[q].days
        /\ record.listed = days /\ record.history = latest
    BY <1>4, <2>1 DEF Fields
  <2>3. days \in SUBSET (1..SeedDays) /\ latest = Latest(days, Limit(call[q].days))
    BY DaysListed
  <2> HIDE DEF days, latest, record
  <2>4. q \notin TabRequests
    BY <1>0, <2>1 DEF Fine
  <2>5. Fine(record, q, DOMAIN reports)
    BY <1>0, <2>2, <2>3, <2>4 DEF Fine
  <2> QED
    BY <1>0, <1>1, <1>2, <2>1, <2>5, OneFine
<1>8. CASE CreateReport(q)
  <2>1. PICK row :
          /\ call[q].op = "create"
          /\ \/ call' = [call EXCEPT ![q] = [Ok(q) EXCEPT !.row = row]]
             \/ call' = [call EXCEPT ![q] = Failed(q)]
    BY <1>8 DEF CreateReport, Asked, Answers
  <2> DEFINE record == [Ok(q) EXCEPT !.row = row]
  <2>2. record.op = call[q].op /\ record.days = call[q].days /\ record.id = call[q].id
    BY <1>4 DEF Fields
  <2> HIDE DEF record
  <2> QED
    BY <1>1, <1>3, <1>5, <2>1, <2>2 DEF record
<1>9. CASE ListReports(q)
  <2>1. PICK rows :
          call[q].op = "list" /\ call' = [call EXCEPT ![q] = [Ok(q) EXCEPT !.listed = rows]]
    BY <1>9 DEF ListReports, Asked, Answers
  <2> DEFINE record == [Ok(q) EXCEPT !.listed = rows]
  <2>2. /\ record.op = call[q].op /\ record.days = call[q].days /\ record.id = call[q].id
        /\ record.row = call[q].row
    BY <1>4 DEF Fields
  <2> HIDE DEF record
  <2> QED
    BY <1>1, <1>3, <2>1, <2>2 DEF record
<1>10. CASE GetReport(q) \/ Reload(q)
  <2>1. PICK row :
          \/ call' = [call EXCEPT ![q] = Failed(q)]
          \/ /\ call' = [call EXCEPT ![q] = [Ok(q) EXCEPT !.row = row]]
             /\ call[q].op = "patch" \/ (call[q].op = "get" /\ row \in Rows)
    BY <1>0, <1>10 DEF GetReport, Reload, Asked, Answers, Typed
  <2> DEFINE record == [Ok(q) EXCEPT !.row = row]
  <2>2. /\ record.op = call[q].op /\ record.days = call[q].days /\ record.id = call[q].id
        /\ record.row = row
    BY <1>4 DEF Fields
  <2> HIDE DEF record
  <2> QED
    BY <1>1, <1>3, <1>5, <2>1, <2>2 DEF record
<1>11. CASE PatchReport(q)
  <2>1. PICK rev :
          /\ call[q].op = "patch"
          /\ \/ call' = [call EXCEPT ![q] = Failed(q)]
             \/ call' = [call EXCEPT ![q] = [call[q] EXCEPT !.step = "reload", !.rev = rev]]
    BY <1>11 DEF PatchReport, Asked, Answers
  <2> DEFINE record == [call[q] EXCEPT !.step = "reload", !.rev = rev]
  <2>2. record.op = call[q].op /\ record.days = call[q].days /\ record.id = call[q].id
    BY <1>0 DEF Fields
  <2> HIDE DEF record
  <2> QED
    BY <1>1, <1>3, <1>5, <2>1, <2>2 DEF record
<1>12. CASE RequestFails(q)
  BY <1>1, <1>5, <1>12 DEF RequestFails, Answers
<1> QED
  BY <1>6, <1>7, <1>8, <1>9, <1>10, <1>11, <1>12 DEF Serve

(* Every step of the service. *)
LEMMA ServiceTyped ==
  ASSUME TypeInv, Service
  PROVE  TypeInv'
<1>0. ServiceInv /\ Typed /\ TablesTyped /\ CallsFine /\ CardTyped
  BY DEF TypeInv, TabInv, ServiceInv
<1>1. ServiceNext /\ UNCHANGED tabVars
  BY DEF Service
<1>2. TabInv' /\ DOMAIN reports \subseteq DOMAIN reports'
  <2>1. Keeps
    BY <1>0, <1>1, ServiceKeeps
  <2> QED
    BY <2>1, TabStays DEF TypeInv, Next, Keeps
<1>3. CardTyped'
  BY <1>0, <1>1, <1>2, CardStays
<1>4. ASSUME NEW r \in Replicas, Boot(r) \/ ScaleUp(r) PROVE TablesTyped' /\ CallsFine'
  <2>1. UNCHANGED call
    BY <1>4 DEF Boot, ScaleUp, Start, Migrate, CountUsage, SeedUsage, CountReports, SeedReport
  <2> QED
    BY <1>0, <1>2, <1>4, <2>1, BootTyped, FineStays
<1>5. ASSUME NEW r \in Replicas, ReplicaDies(r) PROVE TablesTyped' /\ CallsFine'
  <2>1. GoTo(r, "down", 0) /\ Event /\ UNCHANGED usage
    BY <1>5 DEF ReplicaDies, tables
  <2>2. TablesTyped'
    <3>1. events' \in 0..MaxEvents
      BY <1>0, <2>1, NetworkOpsAssumption DEF Event, TablesTyped
    <3>2. (\A o \in Replicas : o # r => boot'[o] = boot[o]) /\ boot'[r].step = "down"
      BY <1>0, <2>1, GoesTo
    <3> QED
      BY <1>0, <2>1, <3>1, <3>2 DEF TablesTyped, Steps
  <2>3. PICK its :
          call' = [q \in Requests |-> IF q \in its THEN [call[q] EXCEPT !.step = "failed"] ELSE call[q]]
    BY <1>5 DEF ReplicaDies
  <2>4. ASSUME NEW q \in Requests PROVE call'[q] = call[q] \/ Fine(call'[q], q, DOMAIN reports)
    <3>1. CASE call'[q] = [call[q] EXCEPT !.step = "failed"]
      <4>1. /\ call'[q].op = call[q].op /\ call'[q].days = call[q].days /\ call'[q].id = call[q].id
            /\ call'[q].step = "failed" /\ call'[q].row = call[q].row
        BY <1>0, <3>1 DEF Typed, Fields
      <4> QED
        BY <1>0, <4>1 DEF CallsFine, Fine
    <3> QED
      BY <2>3, <3>1
  <2> QED
    BY <1>0, <1>2, <2>2, <2>4, FineStays
<1>6. ASSUME NEW q \in Requests, Serve(q) \/ RequestFails(q) PROVE TablesTyped' /\ CallsFine'
  BY <1>0, <1>6, AnswerFine
<1> QED
  BY <1>1, <1>2, <1>3, <1>4, <1>5, <1>6 DEF ServiceNext, TypeInv

(* The clients' steps change no table, so that is left: the request and the card. *)
LEMMA ClientTyped ==
  ASSUME TypeInv, Next, NEW q \in Requests, NEW record,
         call' = [call EXCEPT ![q] = record], Fine(record, q, DOMAIN reports),
         UNCHANGED <<tables, boot>>, UNCHANGED events \/ Event, CardTyped'
  PROVE  TypeInv'
<1>1. TabInv'
  BY TabStays DEF TypeInv
<1>2. TablesTyped'
  <2>1. events' \in 0..MaxEvents
    BY NetworkOpsAssumption DEF TypeInv, TablesTyped, Event
  <2> QED
    BY <2>1 DEF TypeInv, TablesTyped, tables
<1>3. CallsFine'
  BY OneFine DEF TypeInv, TabInv, ServiceInv, tables
<1> QED
  BY <1>1, <1>2, <1>3 DEF TypeInv

(* What is sent is fine. *)
LEMMA SentTyped ==
  ASSUME TypeInv, Next, NEW q \in Requests, NEW asked, Sends(q, asked), DOMAIN asked = Fields,
         \A step \in {"sent", "failed"} : Fine([asked EXCEPT !.step = step], q, DOMAIN reports),
         UNCHANGED <<tables, boot>>, CardTyped'
  PROVE  TypeInv'
<1>1. PICK step \in {"sent", "failed"} : call' = [call EXCEPT ![q] = [asked EXCEPT !.step = step]]
  BY DEF Sends
<1> DEFINE record == [asked EXCEPT !.step = step]
<1>2. Fine(record, q, DOMAIN reports) /\ call' = [call EXCEPT ![q] = record] /\ Event
  BY <1>1 DEF Sends
<1> HIDE DEF record
<1> QED
  BY <1>2, ClientTyped

(* A slot that is free is fine. *)
LEMMA GoneTyped ==
  ASSUME TypeInv, Next, NEW q \in Requests, Gone(q), UNCHANGED <<tables, boot, events>>, CardTyped'
  PROVE  TypeInv'
<1>1. Fine(Free, q, DOMAIN reports)
  BY DEF Fine, Free
<1> QED
  BY <1>1, ClientTyped DEF Gone

(* Every step keeps the types. *)
LEMMA NextTyped ==
  ASSUME TypeInv, Next
  PROVE  TypeInv'
<1>0. /\ ServiceInv /\ Typed /\ FollowsInv /\ CallsFine /\ CardTyped /\ PatchInv
      /\ TabRequests \subseteq Requests /\ reports \in Seq(Rows)
  BY TabAssumption DEF TypeInv, TabInv, ServiceInv, Typed
<1>1. 0 \notin DOMAIN reports
  <2>1. DOMAIN reports = 1..Len(reports)
    BY <1>0
  <2> QED
    BY <2>1
<1>2. CASE Service
  BY <1>2, ServiceTyped
<1>3. ASSUME NEW q \in TabRequests, NEW id \in DOMAIN reports, OpenReport(q, id) PROVE TypeInv'
  <2>1. /\ Sends(q, Ask("get", id)) /\ UNCHANGED <<tables, boot, draft, saving>>
        /\ selectedId' = id /\ detail' = NoDetail /\ loading' = TRUE /\ raced' \in BOOLEAN
    BY <1>3 DEF OpenReport
  <2>2. CardTyped'
    BY <1>0, <1>1, <2>1 DEF CardTyped, NoDetail, tables
  <2>3. DOMAIN Ask("get", id) = Fields
    BY DEF Ask, Free, Fields
  <2>4. ASSUME NEW step \in {"sent", "failed"}
        PROVE  Fine([Ask("get", id) EXCEPT !.step = step], q, DOMAIN reports)
    BY DEF Fine, Ask, Free
  <2> QED
    BY <1>0, <2>1, <2>2, <2>3, <2>4, SentTyped
<1>4. ASSUME NEW q \in TabRequests, NEW status \in Statuses, NEW notes \in Notes,
             HandleSave(q, status, notes)
      PROVE  TypeInv'
  <2> DEFINE asked == [Ask("patch", selectedId) EXCEPT !.status = status, !.notes = notes]
  <2>1. /\ Sends(q, asked) /\ UNCHANGED <<tables, boot, selectedId, detail, loading, raced>>
        /\ draft' = [draft EXCEPT !.status = status, !.notes = notes]
        /\ detail.id # 0 /\ saving' = TRUE
    BY <1>4 DEF HandleSave
  <2>2. selectedId \in DOMAIN reports
    BY <1>0, <2>1 DEF CardTyped
  <2>3. draft'.status = status /\ draft'.notes = notes
    BY <1>0, <2>1 DEF FollowsInv
  <2>4. CardTyped'
    BY <1>0, <1>1, <2>1, <2>2, <2>3 DEF CardTyped, tables
  <2>5. DOMAIN asked = Fields
    BY DEF Ask, Free, Fields
  <2>6. ASSUME NEW step \in {"sent", "failed"}
        PROVE  Fine([asked EXCEPT !.step = step], q, DOMAIN reports)
    BY <2>2 DEF Fine, Ask, Free
  <2> HIDE DEF asked
  <2> QED
    BY <1>0, <2>1, <2>4, <2>5, <2>6, SentTyped
<1>5. ASSUME NEW q \in TabRequests, Related(q) PROVE TypeInv'
  <2> DEFINE asked == [Ask("list", call[q].id) EXCEPT
                         !.row = call[q].row, !.customer = call[q].row.customer,
                         !.step = IF Serving THEN "sent" ELSE "failed"]
  <2>1. /\ call' = [call EXCEPT ![q] = asked] /\ UNCHANGED <<tables, boot, events, tabVars>>
        /\ call[q].op = "get" /\ call[q].step = "ok"
    BY <1>5 DEF Related
  <2>2. call[q].id \in DOMAIN reports /\ call[q].row \in Rows
    BY <1>0, <2>1 DEF CallsFine, Fine
  <2>3. Fine(asked, q, DOMAIN reports)
    BY <2>2 DEF Fine, Ask, Free
  <2>4. CardTyped'
    BY <1>0, <2>1, CardStays DEF tables
  <2> HIDE DEF asked
  <2> QED
    BY <1>0, <2>1, <2>3, <2>4, ClientTyped
<1>6. ASSUME NEW q \in TabRequests, DetailArrives(q) PROVE TypeInv'
  <2>1. /\ q \in awaited /\ loading' = FALSE /\ awaited' = awaited \ {q} /\ Gone(q)
        /\ UNCHANGED <<tables, boot, events, selectedId, saving, raced>>
        /\ \/ /\ call[q].op = "list"
              /\ detail' = [id |-> call[q].id, row |-> call[q].row]
              /\ draft' = [status |-> call[q].row.status, notes |-> Shown(call[q].row), of |-> call[q].id]
           \/ UNCHANGED <<detail, draft>>
    BY <1>6 DEF DetailArrives
  <2>2. CASE UNCHANGED <<detail, draft>>
    <3>1. CardTyped'
      BY <1>0, <2>1, <2>2 DEF CardTyped, tables
    <3> QED
      BY <1>0, <2>1, <3>1, GoneTyped
  <2>3. CASE call[q].op = "list" /\ detail' = [id |-> call[q].id, row |-> call[q].row]
             /\ draft' = [status |-> call[q].row.status, notes |-> Shown(call[q].row), of |-> call[q].id]
    <3>1. call[q].id \in DOMAIN reports /\ call[q].row \in Rows
      BY <1>0, <2>3 DEF CallsFine, Fine
    <3>2. call[q].row.status \in Statuses /\ Shown(call[q].row) \in Notes
      BY <3>1, TabAssumption DEF Rows, Shown, Coalesce
    <3>3. CardTyped'
      BY <1>0, <2>1, <2>3, <3>1, <3>2 DEF CardTyped, tables
    <3> QED
      BY <1>0, <2>1, <3>3, GoneTyped
  <2> QED
    BY <2>1, <2>2, <2>3
<1>7. ASSUME NEW q \in TabRequests, SaveArrives(q) PROVE TypeInv'
  <2>1. /\ q \in awaited /\ saving' = FALSE /\ awaited' = awaited \ {q} /\ Gone(q)
        /\ UNCHANGED <<tables, boot, events, selectedId, draft, loading, raced>>
        /\ \/ /\ call[q].op = "patch" /\ call[q].step = "ok" /\ detail.id # 0
              /\ detail' = [id |-> call[q].id, row |-> call[q].row]
           \/ UNCHANGED detail
    BY <1>7 DEF SaveArrives
  <2>2. CASE UNCHANGED detail
    <3>1. CardTyped'
      BY <1>0, <2>1, <2>2 DEF CardTyped, tables
    <3> QED
      BY <1>0, <2>1, <3>1, GoneTyped
  <2>3. CASE call[q].op = "patch" /\ call[q].step = "ok" /\ detail.id # 0
             /\ detail' = [id |-> call[q].id, row |-> call[q].row]
    <3>1. call[q].id \in DOMAIN reports
      BY <1>0, <2>3 DEF CallsFine, Fine
    <3>2. call[q].row \in Rows
      BY <1>0, <2>3 DEF PatchInv, Shows
    <3>3. CardTyped'
      BY <1>0, <2>1, <2>3, <3>1, <3>2 DEF CardTyped, tables
    <3> QED
      BY <1>0, <2>1, <3>3, GoneTyped
  <2> QED
    BY <2>1, <2>2, <2>3
<1>8. ASSUME NEW q \in Requests, Taken(q) PROVE TypeInv'
  <2>1. Gone(q) /\ UNCHANGED <<tables, boot, events, tabVars>>
    BY <1>8 DEF Taken
  <2>2. CardTyped'
    BY <1>0, <2>1, CardStays DEF tables
  <2> QED
    BY <2>1, <2>2, GoneTyped
<1>9. ASSUME NEW q \in Requests, NEW asked \in ToolRequests, ToolAsks(q, asked) PROVE TypeInv'
  <2>1. q \notin TabRequests /\ Sends(q, asked) /\ UNCHANGED <<tables, boot, tabVars>>
    BY <1>9 DEF ToolAsks
  <2>2. DOMAIN asked = Fields /\ asked.days \in Nat
    BY TabAssumption DEF Free, Fields
  <2>3. ASSUME NEW step \in {"sent", "failed"}
        PROVE  Fine([asked EXCEPT !.step = step], q, DOMAIN reports)
    BY <2>1, <2>2 DEF Fine, Fields
  <2>4. CardTyped'
    BY <1>0, <2>1, CardStays DEF tables
  <2> QED
    BY <2>1, <2>2, <2>3, <2>4, SentTyped
<1>10. CASE LeaveTab
  <2>1. /\ selectedId' = 0 /\ detail' = NoDetail /\ draft' = FirstDraft /\ awaited' = {}
        /\ loading' = FALSE /\ saving' = FALSE /\ raced' = FALSE /\ UNCHANGED serviceVars
    BY <1>10 DEF LeaveTab
  <2>2. CardTyped'
    BY <1>0, <2>1, OpenAssumption, TabAssumption DEF CardTyped, NoDetail, FirstDraft, serviceVars
  <2>3. TablesTyped' /\ CallsFine'
    BY <2>1 DEF serviceVars, TypeInv, TablesTyped, CallsFine
  <2> QED
    BY <2>2, <2>3, TabStays DEF TypeInv
<1>11. \A q \in FreeSlot : q \in TabRequests
  BY DEF FreeSlot
<1> QED
  BY <1>2, <1>3, <1>4, <1>5, <1>6, <1>7, <1>8, <1>9, <1>10, <1>11 DEF Next, TabStep

(* At first nothing is stored, asked for or shown. *)
LEMMA InitTyped == Init => TypeInv
<1> SUFFICES ASSUME Init PROVE TypeInv
  OBVIOUS
<1>1. /\ usage = [k \in {} |-> 0] /\ events = 0 /\ call = [q \in Requests |-> Free]
      /\ \A r \in Replicas : boot[r].step \in {"down", "absent"}
  BY DEF Init, ServiceInit
<1>2. TablesTyped
  <2>1. DOMAIN usage = {} /\ 0 \in 0..MaxEvents
    BY <1>1, NetworkOpsAssumption
  <2>2. \A r \in Replicas : boot[r].step \in Steps /\ boot[r].step # "usage"
    BY <1>1 DEF Steps
  <2> QED
    BY <1>1, <2>1, <2>2 DEF TablesTyped
<1>3. CallsFine
  BY <1>1 DEF CallsFine, Fine, Free
<1>4. CardTyped
  BY OpenAssumption, TabAssumption DEF Init, TabInit, CardTyped, NoDetail, FirstDraft
<1> QED
  BY <1>2, <1>3, <1>4, InitKeeps DEF TypeInv

(* So they always hold. *)
LEMMA TypesStay == TypeInv /\ [Next]_vars => TypeInv'
<1> SUFFICES ASSUME TypeInv, UNCHANGED vars PROVE TypeInv'
  BY NextTyped
<1>1. TabInv'
  BY TabStays DEF TypeInv
<1> QED
  BY <1>1 DEF vars, serviceVars, tabVars, TypeInv, TablesTyped, CallsFine, CardTyped

(***************************************************************************)
(* The tables hold what they may, what a PATCH answers with is a row, and  *)
(* the card is of a report on record.                                      *)
(***************************************************************************)
THEOREM TypeCorrect == Spec => []TypeOK
<1>1. TypeInv => TypeOK
  <2> SUFFICES ASSUME TypeInv PROVE TypeOK
    OBVIOUS
  <2>1. ServiceTypeOK
    <3>1. Range(usage) \subseteq Range(RandMb)
      BY DEF TypeInv, TablesTyped, Range
    <3>2. reports \in Seq(Rows)
      BY DEF TypeInv, TabInv, ServiceInv, Typed
    <3>3. Range(reports) \subseteq Rows
      BY <3>2 DEF Range
    <3>4. \A q \in Requests : call[q].op = "patch" /\ call[q].step = "ok" => call[q].row \in Rows
      BY DEF TypeInv, TabInv, ServiceInv, PatchInv, Shows
    <3> QED
      BY <3>1, <3>3, <3>4 DEF ServiceTypeOK, TypeInv, TablesTyped
  <2> QED
    BY <2>1 DEF TypeOK, TypeInv, CardTyped, TabInv, FollowsInv
<1> QED
  BY <1>1, InitTyped, TypesStay, PTL DEF Spec

(* The number of days that are asked for is positive. *)
LEMMA LimitIs == ASSUME NEW days \in Nat PROVE Limit(days) \in Nat /\ Limit(days) > 0
<1>1. CASE days # 0
  <2>1. \E n \in {days, 30} : \A m \in {days, 30} : n <= m
    <3>1. days <= 30 \/ 30 <= days
      OBVIOUS
    <3> QED
      BY <3>1
  <2>2. Min({days, 30}) \in {days, 30}
    BY <2>1 DEF Min
  <2>3. Limit(days) \in {days, 30}
    BY <1>1, <2>2 DEF Limit
  <2> QED
    BY <1>1, <2>3
<1> QED
  BY <1>1 DEF Limit

(***************************************************************************)
(* A usage history is of the latest days on record, oldest first, and as   *)
(* many as were asked for if there are.                                    *)
(***************************************************************************)
THEOREM HistoryCorrect == Spec => []HistoryLatest
<1>1. TypeInv => HistoryLatest
  <2> SUFFICES ASSUME TypeInv, NEW q \in Requests, call[q].op = "history", call[q].step = "ok"
               PROVE  LatestOf(call[q].history, call[q].listed, Limit(call[q].days))
    BY DEF HistoryLatest, LatestOf, ToSet
  <2>1. /\ call[q].days \in Nat /\ call[q].listed \in SUBSET (1..SeedDays)
        /\ call[q].history = Latest(call[q].listed, Limit(call[q].days))
    BY DEF TypeInv, CallsFine, Fine
  <2>2. IsFiniteSet(1..SeedDays) /\ 1..SeedDays \in SUBSET Nat
    BY FS_Interval, NetworkOpsAssumption
  <2>3. call[q].listed \in SUBSET Nat /\ IsFiniteSet(call[q].listed)
    BY <2>1, <2>2, FS_Subset
  <2> QED
    BY <2>1, <2>3, LimitIs, LatestIs
<1> QED
  BY <1>1, InitTyped, TypesStay, PTL DEF Spec

=============================================================================
