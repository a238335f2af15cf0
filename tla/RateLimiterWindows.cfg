SPECIFICATION TimedFairSpec
CONSTANTS
  c1 = c1
  c2 = c2
  alice = alice
  bob = bob
  Callers <- TwoCallers
  Actors <- TwoActors
  RateLimitMax = 2
  CountBound = 4
  MaxFaults = 1
  Window = 2
CHECK_DEADLOCK FALSE
INVARIANTS
  KeyInv
  WindowQuota
  NoOrphanKey
  BurstBound
PROPERTY LockoutEndsUnlessFault
