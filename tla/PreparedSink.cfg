\* Two readers, two writers, batches of two: every queue and buffer fills.
SPECIFICATION LiveSpec
CONSTANTS
  Inputs <- MCInputs
  Content <- MCContent
  Readers = {r1, r2}
  Writers = {w1, w2}
  BatchRows = 2
  MAIN = MAIN
INVARIANTS
  SuccessIsComplete
  ItemsInOnePlace
  NothingOutlivesPrepare
PROPERTY
  AlwaysReturns
