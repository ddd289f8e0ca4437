SPECIFICATION Spec
CONSTANTS
  Ids = {1, 2}
  MaxTime = 2
  Occurrences <- MCShortOccurrences
  Attempts = {a1, a2}
  NoAttempt = none
  MaxRetries = 1
  Backoff <- MCBackoff
  Grace = 1
  MinLead = 1
  MaxActive = 1
  TickLimit = 1
  Turns = {t1, t2}
  MaxHalts = 0
  EnabledChoices = {TRUE, FALSE}
  StoreMayFail = FALSE
SYMMETRY MCSymmetry
INVARIANT WithinActiveLimit
PROPERTY OnceEndsForGood
PROPERTY LegalTransitions
CHECK_DEADLOCK FALSE
