SPECIFICATION Spec
CONSTANTS
  Kinds = {"partition"}
  MetadataInOrder = TRUE
  MaxFaults = 2
INVARIANT SourceKept
CHECK_DEADLOCK FALSE
