SPECIFICATION RetrySpec
CONSTANTS
  RingCapacity = 2
  Levels <- OneLevel
  Producers = {p1, p2}
  MaxCalls = 3
INVARIANTS
  RetriesBounded
