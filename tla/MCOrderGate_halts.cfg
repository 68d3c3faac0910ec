SPECIFICATION Spec
CONSTANTS
  NaN = NaN
  None = None
  Unknown = Unknown
  Symbols = {a}
  Allowlist = {a}
  MaxPositionNotional = 2
  MaxTotalExposure = 2
  MaxDailyLoss = 1
  MaxOrdersPerHour = 3
  MaxOrdersPerDay = 3
  MaxOrdersPerCycle = 3
  RegularHoursOnly = TRUE
  AllowShorts = FALSE
  Proposals <- OneShareProposals
  Reports <- AllReports
  MaxRendered = 2
  HourLen = 1
  DayLen = 2
  OpenTicks = {0, 1}
  MaxTime = 2
  MaxOrders = 2
  MaxCycles = 2
  MaxCrashes = 1
  MaxLost = 1
  MaxToggles = 2
INVARIANTS
  RecordedBreachIsLatched
  KillLeaksAtMostOne
  OnlyMishapsLoseOrders
PROPERTIES
  HaltStopsOrders
CHECK_DEADLOCK FALSE
