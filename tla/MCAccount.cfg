SPECIFICATION FairSpec
CONSTANTS
  timer = timer
  operator = operator
  Procs = {timer}
  May <- MayAll
  EAB = TRUE
  MaxKeys = 5
  MaxTokens = 2
  MaxFaults = 3
INVARIANTS
  RevocationPossible
  AccountsAreKept
  ReplayHasACause
PROPERTY
  EventuallyServed
