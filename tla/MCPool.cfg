SPECIFICATION FairSpec
CONSTANTS
  a = a
  b = b
  mail = mail
  index = index
  book = book
  urgent = urgent
  None = None
  JobIDs = {1, 2, 3}
  Slots = {1, 2}
  Concurrency = 2
  MaxFaults = 1
  NoPipeline = NoPipeline
  JobOf <- Mixed
  QueueList <- TwoQueues
  KindConcurrency <- OneIndex
  Policies <- LimitedOnly
  InitialPolicy <- FirstLimited
INVARIANTS
  TypeOK
  LimitsHold
  PipelineChain
  NothingLeaks
PROPERTY
  ShutdownDrains
CHECK_DEADLOCK FALSE
