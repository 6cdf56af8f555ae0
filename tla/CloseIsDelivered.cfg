SPECIFICATION FairSpec
CONSTANTS
  QueueSize = 2
  MaxUp = 1
  MaxDown = 1
INVARIANT CloseIsDelivered
CHECK_DEADLOCK FALSE
