SPECIFICATION FairSpec
CONSTANTS
  QueueSize = 2
  MaxUp = 1
  MaxDown = 1
PROPERTY LossClosesConnection
CHECK_DEADLOCK FALSE
