SPECIFICATION Spec
CONSTANTS
    Listings <- MCListings
    Times <- MCTimes
    Day = 4
    OpenSlot = 1
    CloseSlot = 3
INVARIANTS
    OrdersReachThePlacementTool
    NextOpenOpens
