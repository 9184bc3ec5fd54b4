SPECIFICATION FairSpec
CONSTANTS
  MaxWakes = 5
  MaxOutstanding = 3
  WakesPerTimeout = 2
INVARIANTS GateHasOwner AwaitedIsKept
PROPERTIES ImplementsWakeGate EveryWakeSettled
