SPECIFICATION FairSpec
CONSTANTS
  MaxObservers = 3
  MaxFailures = 1
INVARIANTS RadioAsBelieved OneObserver
PROPERTIES PauseTakesEffect
