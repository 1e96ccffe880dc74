SPECIFICATION Spec
CONSTANTS
  a = a
  b = b
  mail = mail
  index = index
  book = book
  urgent = urgent
  None = None
  JobIDs = {1, 2, 3}
  Slots = {1, 2, 3}
  Concurrency = 2
  MaxFaults = 0
  NoPipeline = NoPipeline
  JobOf <- Chained
  QueueList <- OneQueue
  KindConcurrency <- Unlimited
  Policies <- TwiceOnly
  InitialPolicy <- AllTwice
INVARIANTS
  PipelinesSequential
CHECK_DEADLOCK FALSE
