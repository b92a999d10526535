SPECIFICATION Spec
CONSTANTS
  Roads <- MCRoads
  Queries <- MCQueries
  Quantum = 3
INVARIANTS
  RouteIsOptimal
  RouteIsLegal
  BoundsAreHonest
CHECK_DEADLOCK FALSE
