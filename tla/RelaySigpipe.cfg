CONSTANTS
  r1 = r1
  r2 = r2
  Requests = {r1, r2}
  Push = Push
  None = None
  HelperTimeout = 3
  ClientTimeout = 4
  StdinCap = 2
  MaxPushes = 0
  MaxStarts = 1
  Prompt = TRUE
SPECIFICATION Spec
CHECK_DEADLOCK FALSE
INVARIANT SocketGoneWithService
