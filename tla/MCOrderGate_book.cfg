SPECIFICATION Spec
CONSTANTS
  NaN = NaN
  None = None
  Unknown = Unknown
  Symbols = {a, b}
  Allowlist = {a, b}
  MaxPositionNotional = 2
  MaxTotalExposure = 3
  MaxDailyLoss = 1
  MaxOrdersPerHour = 3
  MaxOrdersPerDay = 3
  MaxOrdersPerCycle = 3
  RegularHoursOnly = TRUE
  AllowShorts = FALSE
  Proposals <- BookProposals
  Reports <- FlatReports
  MaxRendered = 2
  HourLen = 1
  DayLen = 3
  OpenTicks = {0, 1}
  MaxTime = 3
  MaxOrders = 3
  MaxCycles = 1
  MaxCrashes = 0
  MaxLost = 1
  MaxToggles = 0
SYMMETRY Names
INVARIANTS
  FreshBookWithinCaps
PROPERTIES
  RejectionKeepsExits
CHECK_DEADLOCK FALSE
