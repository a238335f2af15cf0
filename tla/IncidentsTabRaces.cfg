SPECIFICATION FairSpec
CONSTANTS
  r1 = r1
  r2 = r2
  t1 = t1
  t2 = t2
  tool = tool
  Null = Null
  Replicas <- TwoReplicas
  Deployed <- OneReplica
  Requests <- ThreeRequests
  TabRequests <- TwoTabRequests
  ToolRequests <- SomeCalls
  SeedCustomers <- OneCustomer
  SeedDays = 2
  RandMb <- Draws
  DemoReports <- TwoDemoReports
  Statuses = {"open", "resolved"}
  Notes = {"", "fixed"}
  Blank = ""
  MaxEvents = 3
CHECK_DEADLOCK FALSE
INVARIANTS
  TypeOK
  PatchAnswered
  HistoryLatest
PROPERTIES
  RowsKept
  SaveHitsShown
  EventuallyServes
  TabSettles
