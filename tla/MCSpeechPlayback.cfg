SPECIFICATION FairSpec
CONSTANTS
  s1 = s1
  s2 = s2
  s3 = s3
  Segments = {s1, s2, s3}
  MaxAccepted = 3
  MaxEvents = 1
  MaxDisturbances = 1
  Disturbances = {"alarm", "chime", "disconnect", "error", "mute", "sound", "stop", "stopword"}
CONSTRAINT NewInOrder
INVARIANTS SettlingWillSettle SpokenInOrder NothingRepeated QueueKeptAlive
PROPERTIES ResponseEnds AlarmStops
CHECK_DEADLOCK FALSE
