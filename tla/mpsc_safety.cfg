SPECIFICATION Spec
CONSTANTS
  RingCapacity = 2
  Levels <- TwoLevels
  Producers = {p1, p2}
  MaxCalls = 4
SYMMETRY Symmetry
INVARIANTS
  TypeOK
  CellExclusion
  PerProducerFifo
  Accounting
  FlushedShutdown
PROPERTIES
  FlushDrains
  LostRaceIsProgress
  ImplementsChannel
