SPECIFICATION StarvedSpec
CONSTANTS
  RingCapacity = 2
  Levels <- TwoLevels
  MaxCalls = 4
INVARIANTS
  TypeOK
  SlotExclusion
  DeliveredInOrder
  Accounting
  FlushedShutdown
PROPERTIES
  FlushDrains
  ImplementsChannel
  PublishedDelivered
  CallsReturn
