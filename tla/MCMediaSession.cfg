SPECIFICATION FairSpec
CONSTANTS
  MaxStarts = 3
  Ids = {"a", "b"}
  Repeats = TRUE
  Failures = {"error", "refuse"}
INVARIANTS OneInProgress PlayingIsCurrent PausedForASession
PROPERTIES EverySessionEnds
CHECK_DEADLOCK FALSE
