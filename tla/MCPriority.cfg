SPECIFICATION Spec
CONSTANTS
  NumRows = 2
  Intersections = {1}
  Configs <- MCConfigs
  Vehicles = {1, 2}
  RoleOf <- MCRoleOf
  RequestIDs = {1, 2}
  Messages <- MCMessages
  GetTries = 2
  TimeToLiveSec = 1
  ReservicePeriod <- MCReservicePeriod
  MaxBroadcasts = 1
  CoStatuses = {"idleNotValid", "activeProcessing", "readyOverridden", "closedCompleted"}
  MaxConfigs = 2
  MaxNow = 2
INVARIANTS PrsInv
PROPERTIES FollowsLifecycle ClosedForGood
CHECK_DEADLOCK FALSE
