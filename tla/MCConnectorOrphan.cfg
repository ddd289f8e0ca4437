SPECIFICATION Spec
CONSTANTS
  Writes = {w1, w2}
  Turns = {t1, t2}
  None = none
  Home = home
  TTL = 1
  MaxClock = 0
  MaxTurns = 2
  MaxFaults = 0
SYMMETRY MCSymmetry
INVARIANT NoUnreachableApproval
CHECK_DEADLOCK FALSE
