SPECIFICATION MCSpec
CONSTANTS
  Threads = {t1, t2, t3}
  Proxies = {p1, p2, p3}
  NULL = NULL
  INITIAL_STRONG_VALUE = 100
  ForceFirst = FALSE
  KeyThreads = {t1, t2}
  Users = {t1}
  KEY_COUNT = 2
  Destructors = {d1, d2}
  Iterations = 2
  MaxSeq = 3
INVARIANTS CountsLive OneProxy RefsMemorySafe   RightDestructor
PROPERTIES CleanedUp LetsGo
