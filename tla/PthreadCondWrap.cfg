SPECIFICATION Spec
CONSTANTS
  Threads = {t1, t2}
  Modulus = 4
  MaxPulses = 7
  NoThread = NoThread
INVARIANT MissedOnlyAtHalf
