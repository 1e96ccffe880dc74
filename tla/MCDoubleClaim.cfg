SPECIFICATION Spec
CONSTANTS
  w1 = w1
  w2 = w2
  c1 = c1
  c2 = c2
  none = none
  pool = pool
  NoTime = NoTime
  Workers = {w1, w2}
  Clients = {c1, c2}
  NoWorker = none
  PoolID = pool
  Lease = 1
  RunDelays = {0, 1}
  Retries = {1}
  MaxAttempt = 2
  Setups <- TwoOverSQL
SYMMETRY Symmetry
INVARIANT ClaimedOnce
CHECK_DEADLOCK FALSE
