SPECIFICATION Spec
CONSTANTS
  Capacity = 2
  MaxMessages = 2
  None = None
INVARIANT OutOfOrderHarmless
CHECK_DEADLOCK FALSE
