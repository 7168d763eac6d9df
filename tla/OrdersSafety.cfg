CONSTANTS
    o1 = o1
    o2 = o2
    Orders = {o1, o2}
    Units <- MCUnits
    Capacities = {2, 3}
    QuantityCap = 3
    EventIds = {1, 2}
    SharedId = {o2}
    Dialect = "sqlite"
    TwoStepCapture = FALSE
SPECIFICATION Spec
INVARIANTS
    TypeOK
    StockBacksOrders
PROPERTY
    ImplementsDropSale
\* Every order may be closed with nothing left to happen.
CHECK_DEADLOCK FALSE
