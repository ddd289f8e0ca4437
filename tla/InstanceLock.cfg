SPECIFICATION FairSpec
CONSTANTS
  Procs = {p1, p2, p3}
  Pids = {1, 2}
  MaxRounds = 2
  MaxFaults = 1
  MaxReboots = 1
INVARIANTS
  TypeOK
  OneOwner
PROPERTIES
  TopNeverRemoved
  LostRoundMeansProgress
  SomeoneStarts
CHECK_DEADLOCK FALSE
