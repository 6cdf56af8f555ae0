SPECIFICATION FairSpec
CONSTANTS
  QueueSize = 2
  MaxUp = 3
  MaxDown = 4
INVARIANTS
  TypeOK
  DownstreamInOrder
  CloseIsLast
  AnswerBeforeData
  DrainedBeforeClose
  UpstreamComplete
  LockIsFree
  NothingLeftBehind
  OpenTargetIsOwned
  WedgedOnlyAfterLoss
PROPERTIES
  SilentWhenUnregistered
  CloseFinishes
  ImplementsStream
CHECK_DEADLOCK FALSE
