SPECIFICATION Spec
CONSTANTS
  m1 = m1
  m2 = m2
  None = None
  Memos <- MCMemos
  MaxRetries = 1
  MaxCalls = 2
  MaxLoads = 2
INVARIANT TimerFindsDetected
CHECK_DEADLOCK FALSE
