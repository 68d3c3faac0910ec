SPECIFICATION Spec
CONSTANTS
  NaN = NaN
  None = None
  Unknown = Unknown
  a = a
  b = b
  Symbols = {a, b}
  Allowlist = {a, b}
  MaxPositionNotional = 3
  MaxTotalExposure = 4
  MaxDailyLoss = 3
  MaxOrdersPerHour = 1
  MaxOrdersPerDay = 1
  MaxOrdersPerCycle = 1
  RegularHoursOnly = TRUE
  AllowShorts = TRUE
  Proposals <- OrdersInA
  States <- StatesOfAB
INVARIANTS
  NaNNeverPasses
  FlattenNeverSizedOut
  SmallerOpeningPasses
CHECK_DEADLOCK FALSE
