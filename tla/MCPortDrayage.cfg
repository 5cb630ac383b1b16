SPECIFICATION DrayageSpec
CONSTANTS
  Trucks = {"A", "B"}
  Actions = {"a1", "a2", "b1", "b2"}
  HoldIds = {"h1"}
  Freight0 <- MCFreight
  FirstAction <- MCFirstAction
  NoAction = "none"
  NoStatus = "null"
  MaxFaults = 0
PROPERTY EveryMessageHandled
CHECK_DEADLOCK FALSE
