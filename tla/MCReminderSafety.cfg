SPECIFICATION Spec
CONSTANTS
  Ids = {1, 2}
  MaxTime = 3
  Occurrences <- MCShortOccurrences
  Attempts = {a1, a2}
  NoAttempt = none
  MaxRetries = 1
  Backoff <- MCBackoff
  Grace = 0
  MinLead = 1
  MaxActive = 2
  TickLimit = 2
  Turns = {}
  MaxHalts = 1
  EnabledChoices = {TRUE}
  StoreMayFail = TRUE
SYMMETRY MCSymmetry
INVARIANT TypeOK
INVARIANT AtMostOnce
INVARIANT OutcomeIsTrue
INVARIANT TicksNeverOverlap
PROPERTY DeliverySpec
CHECK_DEADLOCK FALSE
