SPECIFICATION Spec
CONSTANTS
  QueueMax = 2
  PrerollMax = 2
  MaxStarts = 2
  MaxChunks = 2
  MaxPosted = 1
  MaxConnections = 2
INVARIANTS Attributed HeldUntilAnswered InOrder NothingOfLastConnection
