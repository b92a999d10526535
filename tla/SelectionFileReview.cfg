CONSTANTS
  Processes = {p1, p2, p3}
  Paths = {g1, g2}
  Digests = {d1}
  NONE = NONE
SPECIFICATION Spec
PROPERTIES
  ReviewedActivation
