SPECIFICATION Spec
CONSTANTS
  s1 = s1
  s2 = s2
  alice = alice
  bob = bob
  erin = erin
  c1 = c1
  c2 = c2
  reportA = reportA
  noCustomer = noCustomer
  noReport = noReport
  noConversation = noConversation
  Customers <- TwoCustomers
  Employees <- OneEmployee
  Reports <- OneReport
  ReportOwner <- Owner
  NoCustomer = noCustomer
  NoReport = noReport
  NoConversation = noConversation
  Sessions <- OneSession
  SubOf <- EmployeeSession
  Conversations <- OneConversation
  HistoryLimit = 2
  MayLeave <- Nobody
  MaxTurns = 2
  MaxFaults = 0
  MaxLines = 2
  ModelCalls <- OneChange
  MaxCalls = 1
  AgentFaults = 0
CHECK_DEADLOCK FALSE
INVARIANT SubjectIsTarget
