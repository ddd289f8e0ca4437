SPECIFICATION MutexFairSpec
CONSTANTS
  Keys = {k1, k2}
  Calls = {c1, c2, c3, c4}
  None = none
INVARIANT MutualExclusion
INVARIANT NoLeak
PROPERTY FifoSpec
PROPERTY EveryCallEnters
CHECK_DEADLOCK FALSE
