\* Two calls in one response; every budget can be the one that is exceeded.
CONSTANTS
  ecm = ecm
  k46 = k46
  q = q
  Codes <- TwoCodes
  Ecus = {ecm}
  Entries = {}
  Queries = {k46}
  Questions = {q}
  Upper <- InUpper
  Parsed <- AsParsed
  Vague = {}
  Known <- FourContexts
  MaxCalls = 3
  MaxExternal = 2
  MaxAsks = 1
  MaxSameTool = 2
  MaxSameArgs = 2
  MaxNoGain = 1
  Parallel = 2
SPECIFICATION FairSpec
INVARIANTS
  TypeOK
  WithinBudgets
  NoGainIsBounded
PROPERTIES
  DiagnosesAreReviewed
  AlwaysAnswers
