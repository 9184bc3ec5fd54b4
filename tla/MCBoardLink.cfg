SPECIFICATION FairSpec
CONSTANTS
  Kinds = {"satellite1", "twomic", "fourmic", "usb"}
  Reported = {"listening", "idle", "pipeline_error", "timer_ticking", "timer_updated", "timer_ringing"}
  MaxEvents = 1
  MaxChanges = 1
  MaxLosses = 1
  MaxPresses = 2
INVARIANTS MuteKnown NeverReadyInVain
PROPERTIES EveryPressSent
CHECK_DEADLOCK FALSE
