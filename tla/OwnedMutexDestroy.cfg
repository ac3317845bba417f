SPECIFICATION Spec
CONSTANTS
  Threads = {t1, t2}
  TimedThreads = {t2}
  CounterMax = 1
  NoTid = NoTid
INVARIANT DestroyedUnheld
