CONSTANTS
  r1 = r1
  r2 = r2
  r3 = r3
  Requests = {r1, r2, r3}
  Push = Push
  None = None
  HelperTimeout = 1
  ClientTimeout = 1
  StdinCap = 2
  MaxPushes = 1
  MaxStarts = 2
  Prompt = FALSE
SPECIFICATION Spec
CHECK_DEADLOCK FALSE
SYMMETRY RequestSymmetry
INVARIANT RelayInv
INVARIANT CleanStartOwnReply
INVARIANT RepliesMatchUntilTimeout
