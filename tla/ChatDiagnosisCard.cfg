\* One process, one request: the run ends with the ECU card of a diagnosis.
CONSTANTS
  p1 = p1
  p2 = p2
  Procs <- OneProc
  N = 1
  MaxBreaks = 0
SPECIFICATION Spec
INVARIANTS
  CardsCanBeAnswered
CHECK_DEADLOCK FALSE
