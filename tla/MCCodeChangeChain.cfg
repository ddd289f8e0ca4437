SPECIFICATION Spec
CONSTANTS
  Turns = {t1, t2}
  Ui = Ui
  None = None
  MaxApprovals = 6
  MaxOverlaps = 1
  MaxCrashes = 1
  MaxErrors = 1
SYMMETRY TurnSymmetry
INVARIANTS
  TypeOK
  EveryMutationGranted
  StrandedOnlyByLostWrite
PROPERTIES
  OneDecision
CHECK_DEADLOCK FALSE
