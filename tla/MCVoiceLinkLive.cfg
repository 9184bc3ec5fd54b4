SPECIFICATION FairSpec
CONSTANTS
  QueueMax = 2
  PrerollMax = 1
  MaxStarts = 2
  MaxChunks = 1
  MaxPosted = 1
  MaxConnections = 1
PROPERTIES StartAnswered PipelineFreed
