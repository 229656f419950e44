\* One tab, two processes, three requests, one stop or one kill.  The tab
\* may send nothing more, so the system may stop.
CONSTANTS
  p1 = p1
  p2 = p2
  Procs <- TwoProcs
  N = 3
  MaxBreaks = 1
SPECIFICATION Spec
SYMMETRY ProcSymmetry
INVARIANTS
  TypeOK
  QuestionsCanBeAnswered
  EachMessageOnce
  ActiveHasStream
  AnsweredIsNotPending
PROPERTIES
  TurnsAreKept
CHECK_DEADLOCK FALSE
