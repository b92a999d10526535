CONSTANTS
  Requests = {r1}
  Controllers = {WATCHER, MAIN}
  WATCHER = WATCHER
  MAIN = MAIN
  Snapshots = {s1, s2}
  Fingerprints = {f1}
  Directories = {d1, d2}
  Workers = 1
  NONE = NONE
  EMPTY = EMPTY
SPECIFICATION ServerSpec
INVARIANTS
  InvalidSelectionIsReported
