SPECIFICATION Spec
CONSTANTS
  PoolSize = 2
  Conns = {0, 1}
  PerSlot = 2
  MaxScaleDowns = 1
INVARIANTS
  NoDeadSlot
  ReaderAttached
CHECK_DEADLOCK FALSE
