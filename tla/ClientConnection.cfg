SPECIFICATION FairSpec
CONSTANTS
  QueueSize = 1
  MaxUp = 3
  MaxDown = 2
INVARIANTS
  TypeOK
  UploadInOrder
  CloseEndsUpload
  DownloadInOrder
  ServerLearnsOfEnd
  SendLoopAlive
  NoSendLoopLeft
PROPERTY EndsOnceClosed
CHECK_DEADLOCK FALSE
