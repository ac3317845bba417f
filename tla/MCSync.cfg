SPECIFICATION MCSpec
CONSTANTS
  Threads = {t1, t2, t3}
  SEM_VALUE_MAX = 3
  TimedThreads = {t3}
  Modulus = 4
  MaxPulses = 3
  MaxReaders = 2
  NoThread = NoThread
  NoTid = NoTid
INVARIANTS TypeOK Conservation NoLostWakeup OnceSafe MutexKept RWExclusion FlagsFollowCounts
PROPERTY Served
