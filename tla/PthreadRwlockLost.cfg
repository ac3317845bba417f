SPECIFICATION Spec
CONSTANTS
  Threads = {t1, t2, t3}
  TimedThreads = {t3}
  MaxReaders = 2
  NoTid = NoTid
INVARIANT WaiterWoken
