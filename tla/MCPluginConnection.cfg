SPECIFICATION FairSpec
CONSTANTS
  Capacity = 2
  MaxMessages = 3
  None = None
INVARIANTS NoUseAfterDelete ConnectionInv
PROPERTIES EventuallyDestroyed CloseCompletes
CHECK_DEADLOCK FALSE
