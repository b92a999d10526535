CONSTANTS
  Requests = {r1, r2}
  References = {g1, g2}
  CLOSER = CLOSER
  NONE = NONE
SPECIFICATION FairSpec
INVARIANTS
  ServedGenerationIsOpen
  HealthIsHonest
PROPERTIES
  ImplementsLeasedGenerations
  RequestsAreAnswered
  SelectionIsAdopted
