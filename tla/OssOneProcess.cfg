\* Dev mode: one uvicorn process.  k1 is refused by OSS for ever.
CONSTANTS
  p1 = p1
  p2 = p2
  k1 = k1
  k2 = k2
  Procs <- OneProc
  Keys <- TwoKeys
  Poison <- OneKey
  BatchSize = 1
  Interval = 1
  RetryBase = 1
  RetryMax = 2
  MaxAttempts = 2
  AttemptBound = 3
  MaxRequests = 3
  MaxFaults = 1
SPECIFICATION FairSpec
INVARIANTS
  TypeOK
PROPERTIES
  ConfirmedIsTerminal
  EventuallyConfirmed
