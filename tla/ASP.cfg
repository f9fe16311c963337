SPECIFICATION FairSpec
CONSTANTS
  Nodes = {n1}
  MaxID = 3
  MaxSessions = 2
  MaxTID = 4
  MaxQueue = 1
  MaxMail = 1
  KeptTime = 1
  WriteRetries = 2
  MaxAgain = 1
  SessionTimeout = 1
  None = None
INVARIANTS WorkedOutOnce AfpHasTheSessions WritesStayInTheirSession
PROPERTIES NothingWaitsForEver
CHECK_DEADLOCK FALSE
