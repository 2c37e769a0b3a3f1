SPECIFICATION MutexFairSpec
CONSTANTS
  None = None
  c1 = c1
  c2 = c2
  c3 = c3
  k1 = k1
  k2 = k2
  Call <- ThreeCalls
  Key <- TwoKeys
  MaxCalls = 2
INVARIANTS Exclusion NoLostWakeup
PROPERTIES WaitersRun ImplementsLock
CHECK_DEADLOCK FALSE
