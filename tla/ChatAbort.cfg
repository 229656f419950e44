\* One process, one request, one stop: the fetch is dropped before the abort
\* message is handled.
CONSTANTS
  p1 = p1
  p2 = p2
  Procs <- OneProc
  N = 1
  MaxBreaks = 1
SPECIFICATION Spec
PROPERTIES
  AbortKeepsPartial
CHECK_DEADLOCK FALSE
