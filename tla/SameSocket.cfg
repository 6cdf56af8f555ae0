SPECIFICATION Spec
CONSTANTS
  PoolSize = 2
  Conns = {0, 1}
  PerSlot = 2
  MaxScaleDowns = 1
PROPERTY SameSocket
CHECK_DEADLOCK FALSE
