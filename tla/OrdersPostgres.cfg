CONSTANTS
    o1 = o1
    o2 = o2
    Orders = {o1, o2}
    Units <- MCUnits
    Capacities = {2}
    QuantityCap = 3
    EventIds = {1}
    SharedId = {}
    Dialect = "postgres"
    TwoStepCapture = TRUE
SPECIFICATION Spec
INVARIANTS
    LedgerBacksSales
    RoyaltyFollowsDelivery
CHECK_DEADLOCK FALSE
