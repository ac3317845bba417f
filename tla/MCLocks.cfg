SPECIFICATION MCSpec
CONSTANTS
  Threads = {t1, t2, t3, t4}
  OwnedThreads = {t1, t2, t3}
  TimedThreads = {t3}
  CounterMax = 2
  NoTid = NoTid
  Blocks = {t2, t3}
  Main = t1
INVARIANTS Exclusion NoOrphan OwnedSafe ThreadMemorySafe JoinSafe
PROPERTIES ImplementsLock LockImplements HandedOn
