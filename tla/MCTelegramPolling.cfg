SPECIFICATION FairSpec
CONSTANTS
  Updates = {1, 2}
  Kinds <- MCKinds
  MaxParts = 2
  MaxRounds = 1
  Week = 1
  MaxRuns = 2
  MaxFaults = 1
  MaxCrashes = 1
INVARIANTS
  TypeOK
  NothingLost
  AtMostOnce
PROPERTIES
  InOrder
  Delivered
CHECK_DEADLOCK FALSE
