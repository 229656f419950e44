SPECIFICATION Spec
CONSTANTS
  Doc = {1, 2, 3}
  brand = brand
  docType = docType
  b1 = b1
  b2 = b2
  t1 = t1
  t2 = t2
  t3 = t3
  t4 = t4
  plain = plain
  twoBrands = twoBrands
  conflicting = conflicting
  exact = exact
  Value = {b1, b2, t1, t2, t3, t4}
  NoValue = NoValue
  Nothing = Nothing
  Facet = {brand, docType}
  Brand = brand
  FacetOrder <- MCFacetOrder
  Containing <- MCContaining
  DocType = docType
  Named <- MCNamed
  Catalogues <- MCCatalogues
  Query = {plain, twoBrands, conflicting, exact}
  Entities <- MCEntities
  Implied <- MCImplied
  Hidden <- MCHidden
  Conflicts <- MCConflicts
  TargetResults = 1
  MinOptions = 2
  MaxOptions = 3
  MaxRounds = 2
  TopCount = 2
  MaxLooked = 2
  MaxConsidered = 3
  MaxSeen = 2
  MaxRequests = 3
  MaxMessages = 1
  MaxProposed = 2
  MaxFaults = 1
  MaxTurns = 3
  RequiredRounds = 1
INVARIANTS TypeOK OptionsCover PicksAreKept FacetAskedOnce VerdictIsFair
PROPERTIES CaseEnds
CHECK_DEADLOCK FALSE
