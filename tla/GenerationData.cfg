SPECIFICATION Spec
CONSTANTS
  Inputs <- MCInputs
  Keys <- MCKeys
  PublicID <- MCPublicID
  KeyHash <- MCKeyHash
  Scope <- MCScope
  Buckets = 2
  Width = 4
  RowGroup = 2
  ShardRows = 2
  StageRows = 3
  CatalogRows = 2
  PostingChunk = 2
  HeadSize = 2
INVARIANTS
  StreamingAgreesWithResolve
  EvidenceIsExact
  CatalogIsExact
CHECK_DEADLOCK FALSE
