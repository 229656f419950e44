\* One process, four cases, two faults.  The run may be over, so the
\* system may stop.
CONSTANTS
  p1 = p1
  p2 = p2
  Procs <- OneProc
  Cases <- FourCases
  MaxFaults = 2
SPECIFICATION FairSpec
INVARIANTS
  TypeOK
  EachCaseOnce
  CompletedIsComplete
  PausedReportIsCurrent
  ProgressIsCurrent
  RunningHasTask
PROPERTIES
  ImplementsLifecycle
  Settles
CHECK_DEADLOCK FALSE
