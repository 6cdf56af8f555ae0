SPECIFICATION Spec
CONSTANTS
  Kinds = {"v1", "v2", "v3"}
  Conns = {c1}
  SendCapacity = 1
  RecvCapacity = 1
  MaxMessages = 3
  MaxInbound = 2
INVARIANTS
  SentInOrder
  ReceivedIsComplete
PROPERTIES
  StaleIsNotSent
  ReceiverLearnsOfEnd
  ThreadsEnd
  SenderGetsRoom
CHECK_DEADLOCK FALSE
