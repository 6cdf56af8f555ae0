SPECIFICATION Spec
CONSTANTS
  Clients = {a, b}
  Handlers = {h1, h2}
  Workers = 1
  MaxSessions = 2
  MaxPackets = 2
  MaxSockets = 2
  MaxAnswers = 2
  None = None
INVARIANTS
  AnswersGoHome
  OpenSocketIsFiled
  SessionIsServed
PROPERTIES
  SilentSessionsEnd
CHECK_DEADLOCK FALSE
