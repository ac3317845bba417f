SPECIFICATION MCSpec
CONSTANTS
  Blocks = {1, 2}
  Ids = {"s", "x", "y"}
  NoId = NoId
  Torn = Torn
  Source <- MCSource
  Target <- MCTarget
  Lists <- MCLists
  MaxFaults = 2
  RecoveryFaults = 3
  Kinds = {"file", "other"}
  MetadataInOrder = TRUE
  FileFaults = 3
  CRITICAL_CRASH_THRESHOLD = 1
  CRITICAL_CRASH_WINDOW = 2
  RESTART_DELAY = 1
INVARIANTS MainWhole RebootJustified
PROPERTIES ImplementsUpdate    EraseRestarts StartsAsAsked Finishes Returns ComesBack
CHECK_DEADLOCK FALSE
