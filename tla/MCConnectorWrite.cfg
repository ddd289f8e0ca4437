SPECIFICATION FairSpec
CONSTANTS
  Writes = {w1, w2}
  Turns = {t1, t2}
  None = none
  Home = home
  TTL = 1
  MaxClock = 1
  MaxTurns = 4
  MaxFaults = 1
INVARIANTS
  AtMostOneSend
  SentOnlyApproved
  OutcomeIsTrue
  PointerKept
  ClosedReleasesPointer
PROPERTY EveryTurnEnds
CHECK_DEADLOCK FALSE
