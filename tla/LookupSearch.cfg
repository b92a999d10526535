CONSTANTS
  Requests = {r1, r2}
  Catalogs <- MCCatalogs
  Queries <- MCQueries
  Names <- MCNames
  NamePrefixes <- MCNamePrefixes
  Articles <- MCArticles
  StreetNames <- MCStreetNames
  CacheLimit = 2
  LocatorThreshold = 3
  AreaThreshold = 1
  EvidenceLimit = 3
  ResultLimit = 3
  PageSize = 2
  EarlyAccept = 1
  Radius = 6
  ContextLimit = 25
  ContextRadius = 5
  MaxSpan = 20
  NONE = NONE
SPECIFICATION MCSpec
SYMMETRY MCSymmetry
INVARIANTS
  AnswersFollowTheCatalog
  ContextIsHonoured
  BiasIsSoft
CHECK_DEADLOCK FALSE
