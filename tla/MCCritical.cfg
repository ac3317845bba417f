SPECIFICATION Spec
CONSTANTS
  Scripts <- MCScripts
  CRITICAL_CRASH_THRESHOLD = 4
  CRITICAL_CRASH_WINDOW = 6
  RESTART_DELAY = 1
INVARIANT CriticalReboots
CHECK_DEADLOCK FALSE
