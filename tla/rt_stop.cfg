SPECIFICATION Spec
CONSTANTS
  RingCapacity = 2
  Levels <- OneLevel
  MaxCalls = 2
INVARIANTS
  StoppedAndDrained
