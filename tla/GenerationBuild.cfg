CONSTANTS
  Jobs = {j1, j2}
  o1 = o1
  o2 = o2
  m1 = m1
  m2 = m2
  b1 = b1
  b2 = b2
  Outputs <- MCOutputs
  Manifests <- MCManifests
  Builds <- MCBuilds
  Commands <- MCCommands
  Valid <- MCManifests
  Normalizable <- MCManifests
  MaxStarts = 4
  MaxFaults = 2
  NONE = NONE
SPECIFICATION Spec
SYMMETRY MCSymmetry
CHECK_DEADLOCK FALSE
INVARIANTS
  PublishedIsWhole
  ResumeGetsThrough
  OnlyCrashesLeaveLitter
PROPERTIES
  CheckpointOutlivesFailure
