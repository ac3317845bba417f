SPECIFICATION Spec
CONSTANTS
 Threads = {1,2}
 INITIAL_STRONG_VALUE = 100
 ForceFirst = TRUE
INVARIANT NoUnderflow
CHECK_DEADLOCK FALSE
