--------------------------- MODULE MCChatSystem ---------------------------
(* Instances of ChatSystem for TLC: a customer and an employee, one or two *)
(* sessions, conversations they may share, and calls that differ in scope  *)
(* and effect.                                                             *)
EXTENDS ChatSystem

CONSTANTS s1, s2, alice, bob, erin, c1, c2, reportA, noCustomer, noReport, noConversation

OneSession == {s1}
TwoSessions == {s1, s2}
OneCustomer == {alice}
TwoCustomers == {alice, bob}
OneEmployee == {erin}
OneReport == {reportA}
Owner == [r \in OneReport |-> alice]
OneConversation == {c1}
TwoConversations == {c1, c2}

\* Whose session is which.
CustomerSession == [s \in OneSession |-> alice]
EmployeeSession == [s \in OneSession |-> erin]
CustomerAndEmployee == [s \in TwoSessions |-> IF s = s1 THEN alice ELSE erin]

Nobody == {}
Everybody == {s1, s2}

CallOf(name, action, customer, report) ==
  [name |-> name, action |-> action, customer |-> customer, report |-> report]

\* A change a customer can make, one an employee can make for bob, and one
\* that lacks the customer: it is announced and audited, and then rejected.
TwoChanges ==
  {CallOf("change_my_subscription", "none", noCustomer, noReport),
   CallOf("change_customer_subscription", "none", bob, noReport),
   CallOf("change_customer_subscription", "none", noCustomer, noReport)}

OneChange == {CallOf("change_my_subscription", "none", noCustomer, noReport)}
=============================================================================
