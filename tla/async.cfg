SPECIFICATION Spec
CONSTANTS
  Threads = {t}
  Data = {a, b}
  Prefix <- OnePrefix
  Default = default
  Environments <- NotSet
  XlogLevels <- ThreeLevels
  ActiveLevel = 2
  QueueSize = 2
  MaxCalls = 3
  MaxTime = 1
INVARIANTS
  TypeOK
  LoggerOrder
  EveryRecordAccounted
  OrphanedOnlyByRace
  FlushHonoured
PROPERTIES
  LevelHonoured
  ImplementsLossyLog
  PostsReturn
  FlushReachesDisk
