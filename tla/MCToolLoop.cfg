SPECIFICATION Spec
CONSTANTS
  a = a
  Symbols = {a}
  MaxPosition = 2
  MaxHidden = 1
  Grace = 1
  OrderLimit = 2
  MaxRounds = 1
  MaxBlocks = 3
  Ceiling = 2
  MaxResult = 1
  Marker = 1
  Note = 1
  ErrorLength = 1
  VerdictLength = 1
  ReadLengths = {2}
  MaxCrashes = 1
INVARIANTS
  TypeOK
  HeldNamesHaveTheses
  NoActionMeansNone
  ToolOutputBounded
  PanelShowsTheBook
PROPERTIES
  StaleThesesClose
