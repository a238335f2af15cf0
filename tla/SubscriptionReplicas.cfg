SPECIFICATION FairSpec
CONSTANTS
  Replicas = {"r1", "r2"}
  Deployed = {"r1"}
  Plans = {"basic", "family", "extra"}
  Customers = {"cust1", "cust2"}
  Fields = {"name", "price"}
  Values = {"plain", "fancy", "low", "high"}
  SeedPlans <- TwoPlans
  SeedDetails <- DetailsOf
  SeedCustomers <- TwoCustomers
  SeedPlanOf <- PlanOf
  MaxFaults = 1
  Callers = {"a1", "a2"}
  NewPlans <- OneNewPlan
  Edits <- OneEdit
  MaxCalls = 3
INVARIANTS ValuesAsked NoMoveToWithdrawn AnswerInForce
PROPERTIES WithdrawnForGood StartOnlyAdds EventuallyServes
CHECK_DEADLOCK FALSE
