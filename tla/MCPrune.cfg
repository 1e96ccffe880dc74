SPECIFICATION Spec
CONSTANTS
  o1 = o1
  o2 = o2
  Jobs = {1, 2, 3}
  Operators <- TwoOperators
  Retention <- OneOrTwoTicks
  PageSize = 1
  MaxTime = 2
  MaxActions = 2
  NoTime = NoTime
  NoJob = NoJob
SYMMETRY OperatorSymmetry
INVARIANTS
  TypeOK
  PruneComplete
CHECK_DEADLOCK FALSE
