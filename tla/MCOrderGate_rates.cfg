SPECIFICATION Spec
CONSTANTS
  NaN = NaN
  None = None
  Unknown = Unknown
  Symbols = {a, b}
  Allowlist = {a, b}
  MaxPositionNotional = 2
  MaxTotalExposure = 2
  MaxDailyLoss = 1
  MaxOrdersPerHour = 2
  MaxOrdersPerDay = 3
  MaxOrdersPerCycle = 2
  RegularHoursOnly = TRUE
  AllowShorts = FALSE
  Proposals <- OneShareProposals
  Reports <- FlatReports
  MaxRendered = 2
  HourLen = 1
  DayLen = 3
  OpenTicks = {0, 1}
  MaxTime = 3
  MaxOrders = 4
  MaxCycles = 2
  MaxCrashes = 1
  MaxLost = 0
  MaxToggles = 0
SYMMETRY Names
INVARIANTS
  TypeOK
  RateLimits
  OneOpeningPerDay
PROPERTIES
  ImplementsLedger
CHECK_DEADLOCK FALSE
