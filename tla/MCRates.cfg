SPECIFICATION RatesSpec
CONSTANTS
  Workers = {w1, w2}
  w1 = w1
  w2 = w2
  NoCursor = NoCursor
  Limit = 2
  Period = 5
  Burst = 2
  MaxTime = 6
  LocalMaxTime = 3
INVARIANTS
  RatesTypeOK
  PeriodBound
  WindowBound
  PoolLimitsHold
PROPERTIES
  CursorAdvances
  AttemptsEnd
CHECK_DEADLOCK FALSE
