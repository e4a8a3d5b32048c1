CONSTANTS
  r1 = r1
  r2 = r2
  Requests = {r1, r2}
  Push = Push
  None = None
  HelperTimeout = 3
  ClientTimeout = 4
  StdinCap = 1
  MaxPushes = 2
  MaxStarts = 2
  Prompt = TRUE
SPECIFICATION FairSpec
CHECK_DEADLOCK FALSE
INVARIANT PatientClient
PROPERTY EveryCallReturns
PROPERTY DeadHelperIsNoticed
