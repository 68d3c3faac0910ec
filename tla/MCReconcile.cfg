SPECIFICATION Spec
CONSTANTS
  loop = loop
  dashboard = dashboard
  Reconcilers = {loop}
  Limit = 1
  AllowShorts = TRUE
  LegSets <- MCLegSets
  MaxQty = 2
  MaxOrders = 2
  MaxMishaps = 2
INVARIANTS
  TypeOK
  RecordedIsFinal
  OneRowPerOrder
  ReportedInventory
  RoundTripsFirstInFirstOut
PROPERTIES
  EveryOrderReconciled
  EveryExitRecorded
