SPECIFICATION Spec
CONSTANTS
  Plugins = {p1}
  None = None
  MaxStartup = 2
  Intervals = {0}
  MaxAge = 0
  MaxDbErrors = 0
PROPERTY StartupTimeEnforced
CHECK_DEADLOCK FALSE
