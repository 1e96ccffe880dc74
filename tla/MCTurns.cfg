SPECIFICATION FairSpec
CONSTANTS
  Drivers <- Kinds
  Claims <- Three
  PoolOf <- TwoPools
  Lease = 3
  MaxFaults = 2
  NoOwner = NoOwner
INVARIANTS
  TypeOK
  OneLiveHandler
PROPERTY PipelineAdvances
CHECK_DEADLOCK FALSE
