SPECIFICATION Spec
CONSTANTS
  Octets <- MCOctets
  Hosts <- MCHosts
  Configs <- MCConfigs
  MaxUpload = 3
  MaxDownload = 2
  BufferSize = 1
INVARIANTS
  NoWriterLeft
  
PROPERTIES
  RouteIsFirstMatch
  EndsOnceClientLeaves
CHECK_DEADLOCK FALSE
