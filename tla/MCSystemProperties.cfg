SPECIFICATION FairSpec
CONSTANTS
  Names <- MCNames
  Values <- MCValues
  PROP_VALUE_MAX = 3
  AreaSize = 5
  MaxChanges = 3
INVARIANTS TypeOK GetAtomic CacheFresh ForEachComplete
PROPERTY Answered
