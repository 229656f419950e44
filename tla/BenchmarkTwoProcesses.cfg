\* Two processes, one case, no fault.
CONSTANTS
  p1 = p1
  p2 = p2
  Procs <- TwoProcs
  Cases <- OneCase
  MaxFaults = 0
SPECIFICATION Spec
INVARIANTS
  OneLiveTask
CHECK_DEADLOCK FALSE
