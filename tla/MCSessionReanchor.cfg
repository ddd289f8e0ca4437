SPECIFICATION SessionSpec
CONSTANTS
  Keys = {s1}
  Calls = {c1, c2, c3}
  None = none
SYMMETRY MCSymmetry
PROPERTY ClosedNeverReanchored
CHECK_DEADLOCK FALSE
