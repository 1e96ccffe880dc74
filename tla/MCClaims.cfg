SPECIFICATION FairSpec
CONSTANTS
  p1 = p1
  p2 = p2
  w1 = w1
  q1 = q1
  k1 = k1
  f1 = f1
  NoKey = NoKey
  NoWorker = NoWorker
  NoTime = NoTime
  NoGoroutine = NoGoroutine
  MaxJobs = 1
  Queues = {q1}
  WorkerIDs = {w1}
  ActiveKeys = {k1}
  PermanentKeys = {f1}
  Horizon = 2
  Pools = {p1, p2}
  Slots = {1}
  DefaultMaxRetry = 2
  MaxFaults = 2
  WorkerIDOf <- SharedWorkerID
  StuckJobTimeout <- Timeout2
  HeartbeatInterval <- Beat1
  InsertChoices <- OneKind
  RunDelays <- NoDelay
INVARIANTS TypeOK SingleOwner HealthyClaimKept AttemptsAccounted RetryBudget
PROPERTIES ImplementsOwnership 
  EveryJobSettles
