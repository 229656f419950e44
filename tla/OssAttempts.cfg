\* max_attempts = 1: the job is marked failed and tried again all the same.
CONSTANTS
  p1 = p1
  p2 = p2
  k1 = k1
  k2 = k2
  Procs <- OneProc
  Keys <- OneKey
  Poison <- OneKey
  BatchSize = 1
  Interval = 1
  RetryBase = 1
  RetryMax = 2
  MaxAttempts = 1
  AttemptBound = 2
  MaxRequests = 1
  MaxFaults = 0
SPECIFICATION Spec
INVARIANTS
  AttemptsAreBounded
