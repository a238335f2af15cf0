SPECIFICATION Spec
CONSTANTS
  Replicas = {"r1"}
  Deployed = {"r1"}
  Plans = {"basic", "family"}
  Customers = {"cust1", "cust2"}
  Fields = {"name", "price"}
  Values = {"plain", "fancy", "low", "high"}
  SeedPlans <- TwoPlans
  SeedDetails <- DetailsOf
  SeedCustomers <- TwoCustomers
  SeedPlanOf <- PlanOf
  MaxFaults = 1
  Callers = {"a1"}
  NewPlans = {}
  Edits <- OneEdit
  MaxCalls = 0
INVARIANT SeededBeforeServing
CHECK_DEADLOCK FALSE
