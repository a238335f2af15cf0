---------------------------- MODULE MCChatAgent ----------------------------
(* Instances of ChatAgentAlone for TLC: one session, two customers, a      *)
(* report of each, and the calls that differ in scope, audit or effect.    *)
EXTENDS ChatAgentAlone

CONSTANTS s1, alice, bob, reportA, reportB, noCustomer, noReport

OneSession == {s1}
TwoCustomers == {alice, bob}
TwoReports == {reportA, reportB}
Owner == [r \in TwoReports |-> IF r = reportA THEN alice ELSE bob]

CallOf(name, action, customer, report) ==
  [name |-> name, action |-> action, customer |-> customer, report |-> report]

SomeCalls ==
  {CallOf("get_my_usage", "none", noCustomer, noReport),
   CallOf("change_my_subscription", "none", noCustomer, noReport),
   CallOf("change_customer_subscription", "none", bob, noReport),
   CallOf("change_customer_subscription", "none", noCustomer, noReport),
   CallOf("manage_service_reports", "update", noCustomer, reportB)}

SomeRequests ==
  {[role |-> "customer", target |-> alice, turn |-> 1],
   [role |-> "employee", target |-> alice, turn |-> 1]}
=============================================================================
