SPECIFICATION FairSpec
CONSTANTS
  MaxChanges = 4
  OutCap = 1
  Buffer = 1
INVARIANT StatusIsCurrent
PROPERTY EventuallyCurrent
CHECK_DEADLOCK FALSE
