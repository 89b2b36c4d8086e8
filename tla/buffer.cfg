SPECIFICATION FairSpec
CONSTANTS
  N = 4
  IndexMod = 8
  Values = {a, b}
  MaxBurst = 4
  Threads = {t1, t2}
  NoThread = NoThread
  Unset = Unset
INVARIANTS
  TypeOK
  QueriesAgree
  BurstAtomic
PROPERTIES
  ImplementsBuffer
  BurstsEnd
