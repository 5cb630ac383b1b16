SPECIFICATION FairSpec
CONSTANTS
  Plugins = {p1}
  None = None
  MaxStartup = 1
  Intervals = {0, 1}
  MaxAge = 1
  MaxDbErrors = 1
INVARIANTS MonitorInv
PROPERTIES DisabledStops EnabledRuns
CHECK_DEADLOCK FALSE
