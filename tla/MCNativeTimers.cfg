SPECIFICATION FairSpec
CONSTANTS
  t1 = t1
  t2 = t2
  t3 = t3
  a = a
  b = b
  TimerIds = {t1, t2, t3}
  Labels = {a, b}
  MaxTimers = 2
  MaxSerial = 3
INVARIANTS AlarmHasTimer RingingIsHeard
PROPERTIES RingsOnItsOwnCountdown CountdownSurvives EveryCountdownEnds DismissedStaysSilent
