SPECIFICATION Spec
CONSTANTS
  GenVehicles = {1}
  GenIntersections = {1}
  GenRequestIDs = {1}
  GenMessages <- Srms
  GenConfigs <- GeneratorConfigs
  GenTimeToLive = 3
  GenMaxNow = 5
  IntersectionIds = {1, 2}
  Contents = {0, 1}
  FirstRevision = 127
  MaxMessages = 2
  Threshold = 1
  WindowDuration = 3
  RateSources = {1, 2}
  MaxClock = 8
  MaxArrivals = 5
  MaxStepBacks = 1
  Names = {"p"}
  Data = {1}
  Portals = {"s", "t"}
  MaxCycles = 2
  MaxDbChanges = 2
  MaxLost = 1
  EventRowLimit = 2
  MaxEvents = 4
  MaxSeconds = 4
  MaxCloses = 1
  UploadSessions = {"s1", "s2"}
  UploadFiles = {"f"}
  Transfers = {"h1", "h2"}
  NoBuffer = "null"
  MaxRequests = 2
  Clients = {"cli", "web"}
  PluginNames = {"p"}
  ConfigKeys = {"k"}
  MaxCalls = 3
  MaxKills = 1
  CswVehicles = {1, 2}
  Zones = {0, 2}
  Speeds = {1, 2}
  Limits = {1}
  SnapInterval = 2
  VehicleTimeout = 2
  ClockModulus = 1000
  MaxCswTime = 5
  MaxBsms = 3
  MaxClockSteps = 1
  EmergencyVehicles = {1, 2, 3}
  Plans = {1, 2}
  NoPlan = 0
  MaxSets = 6
  MaxExits = 1
  Trucks = {"A", "B"}
  Actions = {"a1", "a2", "b1", "b2"}
  HoldIds = {"h1"}
  Freight0 <- PortFreight
  FirstAction <- PortFirstAction
  NoAction = "none"
  NoStatus = "null"
  MaxFaults = 1
  Topics = {"plan", "ssm"}
  PlanRecords <- StreetsPlans
  ItemRecords <- StreetsItems
  MaxRecords = 2
  MaxCrashes = 1
  MaxErrors = 1
INVARIANTS HonestNotFlagged ViolationsConserved  NoneSkipped NoDanglingBuffer
   NoPlanLeftOn  
PROPERTIES NoUpdateWithoutRequest 
CHECK_DEADLOCK FALSE
