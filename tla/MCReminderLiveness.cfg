SPECIFICATION FairSpec
CONSTANTS
  Ids = {1, 2}
  MaxTime = 2
  Occurrences <- MCShortOccurrences
  Attempts = {a1}
  NoAttempt = none
  MaxRetries = 1
  Backoff <- MCBackoff
  Grace = 0
  MinLead = 1
  MaxActive = 2
  TickLimit = 1
  Turns = {}
  MaxHalts = 1
  EnabledChoices = {TRUE}
  StoreMayFail = FALSE
INVARIANT NoStuckFiring
PROPERTY DueIsDispatched
PROPERTY FiringIsSettled
