SPECIFICATION Spec
CONSTANTS
  s1 = s1
  alice = alice
  bob = bob
  reportA = reportA
  reportB = reportB
  noCustomer = noCustomer
  noReport = noReport
  Customers <- TwoCustomers
  Reports <- TwoReports
  ReportOwner <- Owner
  NoCustomer = noCustomer
  NoReport = noReport
  Sessions <- OneSession
  MaxLines = 4
  ModelCalls <- SomeCalls
  MaxCalls = 3
  AgentFaults = 1
  Requests <- SomeRequests
INVARIANTS
  TypeOK
  CustomerScope
  EffectsAnnounced
  TargetIsAffected
  FlagsAgree
PROPERTY KeepsProtocol
