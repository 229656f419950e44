\* Two processes start at most twice; one of two sources is edited; two requests.
CONSTANTS
  edc17 = edc17
  sid208 = sid208
  p1 = p1
  p2 = p2
  NoIndex = NoIndex
  NoSource = NoSource
  NoRow = NoRow
  NoRequest = NoRequest
  Source <- TwoSources
  Process <- TwoProcesses
  RowNo <- TwoRows
  RowsIn <- OneRowMore
  Edited <- OneEdited
  MaxVersion = 2
  MaxFaults = 1
  MaxStarts = 2
  MaxTurns = 2
  MaxServing = 1
SPECIFICATION FairSpec
INVARIANTS
  TypeOK
  ReadyHasItsRows
  StaleIsDetected
  ChosenRowIsAnswered
  OneNamedIsAnswered
  PickIsHonoured
  PicksConverge
PROPERTIES
  NeverServesOlder
  SuccessIsComplete
  StartupEnds
CHECK_DEADLOCK FALSE
