SPECIFICATION FairSpec
CONSTANTS
  PoolSize = 2
  Conns = {0, 1}
  PerSlot = 1
  MaxScaleDowns = 2
PROPERTIES
  PoolNeverDies
  SelfHeals
  ShutDownEnds
CHECK_DEADLOCK FALSE
