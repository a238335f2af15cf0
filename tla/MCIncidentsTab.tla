--------------------------- MODULE MCIncidentsTab ---------------------------
(* A small instance of IncidentsTab for TLC. *)
EXTENDS IncidentsTab

CONSTANTS r1, r2, t1, t2, tool

TwoReplicas == {r1, r2}
OneReplica == {r1}
Draws == [r \in TwoReplicas |-> IF r = r1 THEN 100 ELSE 200]
TwoTabRequests == {t1, t2}
ThreeRequests == {t1, t2, tool}
OneCustomer == <<"cust1">>
Row(status, notes) == [customer |-> "cust1", status |-> status, notes |-> notes, rev |-> 0]
TwoDemoReports == <<Row("open", Null), Row("resolved", "fixed")>>

\* A tool resolves the first demo report, or forgets to say what to change,
\* files a report, reads usage.
SomeCalls ==
  {[Ask("patch", 1) EXCEPT !.status = "resolved"],
   Ask("patch", 1),
   [Ask("create", 0) EXCEPT !.customer = "cust1"],
   [Ask("usage", 0) EXCEPT !.customer = "cust1", !.days = 2],
   [Ask("history", 0) EXCEPT !.customer = "cust1", !.days = 1],
   [Ask("list", 0) EXCEPT !.status = "open"]}
=============================================================================
