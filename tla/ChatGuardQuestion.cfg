\* One process, one request: the loop guard stops it and asks the user.
CONSTANTS
  p1 = p1
  p2 = p2
  Procs <- OneProc
  N = 1
  MaxBreaks = 0
SPECIFICATION Spec
INVARIANTS
  AnswerFindsItsCall
CHECK_DEADLOCK FALSE
