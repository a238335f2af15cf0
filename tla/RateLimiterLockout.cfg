SPECIFICATION FairSpec
CONSTANTS
  c1 = c1
  c2 = c2
  alice = alice
  bob = bob
  Callers <- TwoCallers
  Actors <- OneActor
  RateLimitMax = 2
  CountBound = 4
  MaxFaults = 1
CHECK_DEADLOCK FALSE
PROPERTY LockoutEnds
