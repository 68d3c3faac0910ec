SPECIFICATION Spec
CONSTANTS
  RangeBars = 3
  PeriodBars = 3
  EntryEnd = 5
  Flatten = 6
  MinHeight = 15
  MaxHeight = 150
  Slots = 7
  Shapes <- MCShapes
  Mirror = 401
INVARIANTS
  ScannerAndBacktestAgree
  PlaybookMirrors
  LossesStayWithinRisk
PROPERTIES
  NoLookAhead
CHECK_DEADLOCK FALSE
