SPECIFICATION FairSpec
CONSTANTS
  s1 = s1
  s2 = s2
  alice = alice
  bob = bob
  erin = erin
  c1 = c1
  c2 = c2
  reportA = reportA
  noCustomer = noCustomer
  noReport = noReport
  noConversation = noConversation
  Customers <- OneCustomer
  Employees <- OneEmployee
  Reports <- OneReport
  ReportOwner <- Owner
  NoCustomer = noCustomer
  NoReport = noReport
  NoConversation = noConversation
  Sessions <- OneSession
  SubOf <- CustomerSession
  Conversations <- OneConversation
  HistoryLimit = 2
  MayLeave <- Everybody
  MaxTurns = 2
  MaxFaults = 1
  MaxLines = 3
  ModelCalls <- OneChange
  MaxCalls = 1
  AgentFaults = 1
CHECK_DEADLOCK FALSE
INVARIANTS
  TypeOK
  RowsInOrder
  OneAnswerPerTurn
  OnlyStoredTurnsRun
PROPERTIES
  StoredReplyWhole
  ImplementsTurnFrames
  TurnsEnd
