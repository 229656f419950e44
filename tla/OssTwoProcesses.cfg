\* Prod mode: several uvicorn processes share the table.
CONSTANTS
  p1 = p1
  p2 = p2
  k1 = k1
  k2 = k2
  Procs <- TwoProcs
  Keys <- TwoKeys
  Poison <- NoKeys
  BatchSize = 2
  Interval = 1
  RetryBase = 1
  RetryMax = 1
  MaxAttempts = 0
  AttemptBound = 1
  MaxRequests = 2
  MaxFaults = 1
SPECIFICATION Spec
SYMMETRY ProcSymmetry
INVARIANTS
  ConfirmedIsGone
  RunningIsHeld
