SPECIFICATION FairSpec
CONSTANTS
  Filters = {f1, f2}
  None = None
  MaxCalls = 3
  MaxDrops = 2
  MaxPushes = 1
INVARIANTS ClientInv
PROPERTIES Settles
CHECK_DEADLOCK FALSE
