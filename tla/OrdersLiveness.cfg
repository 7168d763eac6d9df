CONSTANTS
    o1 = o1
    o2 = o2
    Orders = {o1, o2}
    Units <- MCUnits
    Capacities = {3}
    QuantityCap = 2
    EventIds = {1}
    SharedId = {o2}
    Dialect = "sqlite"
    TwoStepCapture = TRUE
SPECIFICATION FairSpec
PROPERTIES
    HoldsEnd
    PaymentsBooked
CHECK_DEADLOCK FALSE
