SPECIFICATION Spec
CONSTANTS
  MaxConnections = 2
  Full = 100
  Step = 50
  MaxCommands = 3
INVARIANTS VolumesAgree NewestIsTold
CHECK_DEADLOCK FALSE
