SPECIFICATION Spec
CONSTANTS
  Kinds = {"bsm", "srm", "map", "path", "operation", "sensor", "time"}
  QueueLimit = 1
  MaxHubMessages = 2
  MaxUndelivered = 1
INVARIANTS EachTopicInOrder
PROPERTIES TcmAnswered HandledUnlessHeld  
CHECK_DEADLOCK FALSE
