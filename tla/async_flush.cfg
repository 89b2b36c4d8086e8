SPECIFICATION Spec
CONSTANTS
  Threads = {t}
  Data = {a}
  Prefix <- OnePrefix
  Default = default
  Environments <- NotSet
  XlogLevels <- InfoOnly
  ActiveLevel = 0
  QueueSize = 2
  MaxCalls = 3
  MaxTime = 1
INVARIANTS
  FlushWritesOut
