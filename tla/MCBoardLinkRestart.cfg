SPECIFICATION FairSpec
CONSTANTS
  Kinds = {"satellite1"}
  Reported = {"idle"}
  MaxEvents = 1
  MaxChanges = 1
  MaxLosses = 1
  MaxPresses = 1
PROPERTIES ConnectsAgain
CHECK_DEADLOCK FALSE
