---------------------------- MODULE IncidentsTab ----------------------------
(***************************************************************************)
(* employee-console-ui's incidents tab (IncidentsTab.tsx, api.ts) over     *)
(* network-ops-service, which chat-agent's tools call at the same time.    *)
(* The tab awaits requests in async functions that nothing cancels: their  *)
(* answers arrive in any order, also after another report was opened or    *)
(* the tab was left.                                                       *)
(*                                                                         *)
(* The list on the left and its filters are left out; the two lists of     *)
(* related reports, fetched together, are one request.                     *)
(***************************************************************************)
EXTENDS NetworkOps

CONSTANTS
  TabRequests,   \* the slots of Requests that are the tab's, the others are tools'
  ToolRequests,  \* what tools ask for
  Blank          \* the empty string

ASSUME TabAssumption ==
  /\ TabRequests \subseteq Requests
  /\ Blank \in Notes
  /\ \A request \in ToolRequests :
       /\ DOMAIN request = DOMAIN Free /\ request.days \in Nat
       /\ request.status \in Statuses \cup {Null} /\ request.notes \in Notes \cup {Null}
       /\ request.op = "create" => request.customer \in Customers

VARIABLES
  selectedId,  \* 0: none
  detail,      \* the report of the detail card: [id, row]; id 0: none
  draft,       \* statusDraft and notesDraft; history, of: the report they are of
  loading,     \* detailLoading
  saving,
  awaited,     \* slots whose answer is for the tab as it is mounted now
  raced        \* history: the last opening overlapped with another request

tabVars == <<selectedId, detail, draft, loading, saving, awaited, raced>>
vars == <<serviceVars, tabVars>>

NoDetail == [id |-> 0, row |-> Null]
FirstDraft == [status |-> "open", notes |-> Blank, of |-> 0]

TabInit ==
  /\ selectedId = 0 /\ detail = NoDetail /\ draft = FirstDraft
  /\ loading = FALSE /\ saving = FALSE /\ awaited = {} /\ raced = FALSE

Init == ServiceInit /\ TabInit

Ask(op, id) == [Free EXCEPT !.op = op, !.id = id]

\* Slots are interchangeable.
FreeSlot ==
  LET free == {q \in TabRequests : call[q].step = "free"}
  IN  IF free = {} THEN {} ELSE {CHOOSE q \in free : TRUE}

Gone(q) == call' = [call EXCEPT ![q] = Free]

-----------------------------------------------------------------------------
\* Mutant of OpenReport: the card of the report before stays.
OpenReportKeepsDetail(q, id) ==
  /\ Sends(q, Ask("get", id))
  /\ selectedId' = id /\ loading' = TRUE
  /\ raced' = (awaited # {}) /\ awaited' = awaited \cup {q}
  /\ UNCHANGED <<tables, boot, detail, draft, saving>>

\* openReport, by a click or by openReportId when the tab is mounted.
OpenReport(q, id) ==
  /\ Sends(q, Ask("get", id))
  /\ selectedId' = id /\ detail' = NoDetail /\ loading' = TRUE
  /\ raced' = (awaited # {}) /\ awaited' = awaited \cup {q}
  /\ UNCHANGED <<tables, boot, draft, saving>>

\* getReportDetail goes on to the related reports, whoever still waits.
Related(q) ==
  /\ call[q].op = "get" /\ call[q].step = "ok"
  /\ call' = [call EXCEPT ![q] =
       [Ask("list", call[q].id) EXCEPT !.row = call[q].row, !.customer = call[q].row.customer,
                                       !.step = IF Serving THEN "sent" ELSE "failed"]]
  /\ UNCHANGED <<tables, boot, events, tabVars>>

\* Mutant of Shown: `resolutionNotes` as it comes.
ShownRaw(row) == row.notes

\* `resolutionNotes ?? ''`.
Shown(row) == Coalesce(row.notes, Blank)

\* openReport's await returns, or throws, and the answer is for this tab.
DetailArrives(q) ==
  /\ q \in awaited
  /\ \/ /\ call[q].op = "list" /\ call[q].step = "ok"
        /\ detail' = [id |-> call[q].id, row |-> call[q].row]
        /\ draft' = [status |-> call[q].row.status, notes |-> Shown(call[q].row), of |-> call[q].id]
     \/ /\ call[q].op \in {"get", "list"} /\ call[q].step = "failed"
        /\ UNCHANGED <<detail, draft>>
  /\ loading' = FALSE /\ awaited' = awaited \ {q} /\ Gone(q)
  /\ UNCHANGED <<tables, boot, events, selectedId, saving, raced>>

\* handleSave: both drafts, as the employee has edited them, for the
\* selected report.
HandleSave(q, status, notes) ==
  /\ detail.id # 0 /\ ~saving
  /\ draft' = [draft EXCEPT !.status = status, !.notes = notes]
  /\ Sends(q, [Ask("patch", selectedId) EXCEPT !.status = status, !.notes = notes])
  /\ saving' = TRUE /\ awaited' = awaited \cup {q}
  /\ UNCHANGED <<tables, boot, selectedId, detail, loading, raced>>

\* Mutant of SaveArrives: `setSaving(false)` in the try block, not in finally.
SaveArrivesOnlyOk(q) ==
  /\ q \in awaited /\ call[q].op = "patch"
  /\ \/ /\ call[q].step = "ok" /\ saving' = FALSE
        /\ detail' = IF detail.id # 0 THEN [id |-> call[q].id, row |-> call[q].row] ELSE detail
     \/ call[q].step = "failed" /\ UNCHANGED <<detail, saving>>
  /\ awaited' = awaited \ {q} /\ Gone(q)
  /\ UNCHANGED <<tables, boot, events, selectedId, draft, loading, raced>>

\* handleSave's await returns or throws: the card shows the answer, if there is a card.
SaveArrives(q) ==
  /\ q \in awaited /\ call[q].op = "patch"
  /\ \/ /\ call[q].step = "ok"
        /\ detail' = IF detail.id # 0 THEN [id |-> call[q].id, row |-> call[q].row] ELSE detail
     \/ call[q].step = "failed" /\ UNCHANGED detail
  /\ saving' = FALSE /\ awaited' = awaited \ {q} /\ Gone(q)
  /\ UNCHANGED <<tables, boot, events, selectedId, draft, loading, raced>>

\* Another tab, or a sign-out: the component goes, its requests go on.
LeaveTab ==
  /\ selectedId # 0
  /\ selectedId' = 0 /\ detail' = NoDetail /\ draft' = FirstDraft
  /\ loading' = FALSE /\ saving' = FALSE /\ awaited' = {} /\ raced' = FALSE
  /\ UNCHANGED serviceVars

-----------------------------------------------------------------------------
\* A tool of chat-agent sends a request.
ToolAsks(q, request) ==
  /\ q \notin TabRequests /\ Sends(q, request)
  /\ UNCHANGED <<tables, boot, tabVars>>

\* A tool has its answer; one for a tab that was left is dropped.
Taken(q) ==
  /\ call[q].step \in {"ok", "failed"} /\ q \notin awaited
  /\ ~(q \in TabRequests /\ call[q].op = "get" /\ call[q].step = "ok")
  /\ Gone(q)
  /\ UNCHANGED <<tables, boot, events, tabVars>>

TabStep(q) == q \in TabRequests /\ (Related(q) \/ DetailArrives(q) \/ SaveArrives(q))
Service == ServiceNext /\ UNCHANGED tabVars

Next ==
  \/ Service
  \/ \E q \in TabRequests : TabStep(q)
  \/ \E q \in FreeSlot, id \in DOMAIN reports : OpenReport(q, id)
  \/ \E q \in FreeSlot, s \in Statuses, n \in Notes : HandleSave(q, s, n)
  \/ \E q \in Requests : Taken(q) \/ (\E request \in ToolRequests : ToolAsks(q, request))
  \/ LeaveTab

Spec == Init /\ [][Next]_vars

\* Replicas start and serve what was sent, and promises settle; nobody is
\* obliged to click or to call.
FairSpec ==
  /\ Spec
  /\ \A r \in Replicas : WF_vars(Boot(r) /\ UNCHANGED tabVars)
  /\ \A q \in Requests : WF_vars(Serve(q) /\ UNCHANGED tabVars)
  /\ \A q \in TabRequests : WF_vars(TabStep(q))

-----------------------------------------------------------------------------
TypeOK ==
  /\ ServiceTypeOK
  /\ selectedId \in {0} \cup DOMAIN reports /\ detail.id \in {0} \cup DOMAIN reports
  /\ detail.id # 0 => detail.row \in Rows
  /\ draft.status \in Statuses /\ draft.notes \in Notes
  /\ loading \in BOOLEAN /\ saving \in BOOLEAN /\ raced \in BOOLEAN
  /\ awaited \subseteq TabRequests

(***************************************************************************)
(* "Open one to see full detail, update its status/resolution notes": what *)
(* a save writes is the form of the report it writes to, which is the one  *)
(* on the card; unless that report was opened while the tab still waited   *)
(* for another opening or for a save.                                      *)
(***************************************************************************)
SaveHitsShown ==
  [][\A q \in TabRequests : call[q].op # "patch" /\ call'[q].op = "patch" =>
       raced \/ (detail.id = call'[q].id /\ draft.of = call'[q].id)]_vars

(***************************************************************************)
(* "Loading" and "Saving" end, whatever fails, so that the form can be     *)
(* used again.                                                             *)
(***************************************************************************)
TabSettles == (loading ~> ~loading) /\ (saving ~> ~saving)
=============================================================================
