CONSTANTS
  t1 = t1
  t2 = t2
  Connections <- MCConnections
  Targets <- MCTargets
  MaxMessages = 2
  MaxForwarded = 2
  MaxOnWire = 1

SPECIFICATION FairSpec
CHECK_DEADLOCK FALSE

INVARIANTS
  TypeOK
  BubblePerTurn
  TranscriptOwn
  DividersTrue
  StatusTrue

PROPERTIES
  WaitingEnds
