CONSTANTS
  Requests = {r1, r2}
  Controllers = {c1, c2}
  Snapshots = {s1, s2}
  Fingerprints = {f1, f2}
  Workers = 2
  NONE = NONE
SPECIFICATION FairSpec
INVARIANTS
  LeasedReaderIsOwned
  TokenBacksReader
  ResponseNamesItsData
  CloseReleasesEverything
PROPERTIES
  ImplementsLeasedGenerations
  ReplacementReturns
  UnpublishedFilesAreClosed
