SPECIFICATION FairSpec
CONSTANTS
  Updates = {1, 2}
  Kinds <- MCKinds
  MaxParts = 2
  MaxRounds = 1
  Week = 1
  MaxRuns = 2
  MaxFaults = 0
  MaxCrashes = 1
PROPERTY StaleOffsetSwallowsNothing
CHECK_DEADLOCK FALSE
