SPECIFICATION FairSpec
CONSTANTS
  QueueList <- TwoQueues
  MaxPending = 2
  MaxJobs = 3
INVARIANT
  ShutdownMeansDrained
PROPERTY
  ShutdownEnds
CHECK_DEADLOCK FALSE
