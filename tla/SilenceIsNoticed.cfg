SPECIFICATION Spec
CONSTANTS
  Kinds = {"v2"}
  Conns = {c1}
  SendCapacity = 1
  RecvCapacity = 1
  MaxMessages = 1
  MaxInbound = 1
PROPERTY SilenceIsNoticed
CHECK_DEADLOCK FALSE
