SPECIFICATION FairSpec
CONSTANTS
  Requesters = {r1, r2}
  MaxCalls = 1
  MaxResponses = 2
  AnswerSizes = {1, 2}
  Retries = 2
  Interval = 1
  ReleaseTime = 2
  Capacity = 3
  OnceTIDs = {1}
  Prompt = TRUE
  None = None
INVARIANTS OnceWhileKept KeptForTheRetries DoneOnce
PROPERTIES ImplementsTransaction NothingIsKeptForEver
CHECK_DEADLOCK FALSE
