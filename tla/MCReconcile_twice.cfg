SPECIFICATION Spec
CONSTANTS
  loop = loop
  dashboard = dashboard
  Reconcilers = {loop, dashboard}
  Limit = 2
  AllowShorts = TRUE
  LegSets <- MCLegSets
  MaxQty = 2
  MaxOrders = 1
  MaxMishaps = 0
INVARIANT
  OneRowPerOrder
