SPECIFICATION MCSpec
CONSTANTS
    MaxOffers = 3
    MaxContracts = 3
    Requests = {r1, r2}
    o1 = o1
    o2 = o2
    o3 = o3
    b1 = b1
    b2 = b2
    Baskets = {o1, o2, o3}
    Branches = {b1, b2}
    BranchOf <- MCBranchOf
    Size <- MCSize
    SlotTakers = {o1, o2}
    SlotLimit = 1
    DropCap = 3
    Rooms = {1, 2}
    Looks = {r1, r2}
    InitialBp = 16
    FloorBp = 3
    AccessDecay = 2
    HardExpiry = 2
    Horizon = 2
    Clerks = {r1, r2}
    Calls = {r1, r2}
    MaxObjects = 4
SYMMETRY Symmetry
INVARIANTS
    SignaturesStand
    LaunchesAreSigned
    SignedTermsSold
    OversoldOnlyBlindly
    StockRowsTrue
    BudgetHolds
    ShownAsDisclosed
    StoredIsAccounted
PROPERTIES
    SignedIsFinal
    ClosedStaysClosed
