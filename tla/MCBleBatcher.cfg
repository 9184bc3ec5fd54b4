SPECIFICATION BatchSpec
CONSTANTS
  Devices <- MCDevices
  Data <- MCData
  Adverts <- MCAdverts
  Signals = {0, 3}
  BatchMax = 1
  DedupeMax = 2
  RssiDelta = 3
  EmitMin = 1
  EmitMax = 2
  FlushAfter = 1
  IdModulus = 3
  MaxClock = 2
INVARIANTS BatchTypeOK
PROPERTIES NoEarlyRepeat SilenceIsShort
