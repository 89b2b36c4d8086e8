SPECIFICATION Spec
CONSTANTS
  RingCapacity = 1
  Levels <- OneLevel
  Producers = {p1, p2}
  MaxCalls = 2
PROPERTIES
  ClaimOnlyWithRoom
