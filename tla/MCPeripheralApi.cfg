SPECIFICATION FairApiSpec
CONSTANTS
  Emitted = {"timer_ringing", "timer_ticking", "timer_updated"}
  MaxClients = 2
  MaxEmitted = 2
  MaxCommands = 2
  MaxStalls = 1
  MaxLeaving = 1
INVARIANTS PictureIsCurrent
PROPERTIES EventsInOrder CommandsServed
CHECK_DEADLOCK FALSE
