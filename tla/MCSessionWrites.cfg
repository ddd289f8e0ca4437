SPECIFICATION SessionSpec
CONSTANTS
  Keys = {s1}
  Calls = {c1, c2, c3}
  None = none
SYMMETRY MCSymmetry
PROPERTY NoLostUpdate
PROPERTY ClosedForGood
PROPERTY PointerTakenOnlyByOwner
CHECK_DEADLOCK FALSE
