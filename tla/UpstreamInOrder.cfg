SPECIFICATION FairSpec
CONSTANTS
  QueueSize = 1
  MaxUp = 3
  MaxDown = 2
INVARIANT UpstreamInOrder
CHECK_DEADLOCK FALSE
