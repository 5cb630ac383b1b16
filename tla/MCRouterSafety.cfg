CONSTANTS
  NumReceivers = 3
  MaxOps = 3
  Messages <- OneMessage
  FilterLists <- TwoFilterLists
  Wildcard = Wildcard
  Null = Null
  J2735 = J2735
  BSM = BSM
  RouteDSRC = RouteDSRC
SPECIFICATION Spec
INVARIANTS ExactDelivery RouterInv
CHECK_DEADLOCK FALSE
