CONSTANTS
  Processes = {p1, p2, p3}
  Paths = {g1, g2}
  Digests = {d1, d2}
  NONE = NONE
SPECIFICATION Spec
SYMMETRY Symmetry
INVARIANTS
  OneWriter
  LockLeftOnlyByCrash
  AcknowledgedChangesSurvive
PROPERTIES
  ChangesBuildOnTheFile
