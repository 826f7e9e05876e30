SPECIFICATION Spec
CONSTANTS
  MaxSize = 2
  MaxDurable = 2
  MaxPush = 3
  MaxUpsets = 1
  MaxAge = 0
INVARIANT ReplayContinuesAcrossRestarts
CHECK_DEADLOCK FALSE
