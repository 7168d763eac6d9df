CONSTANTS
    o1 = o1
    o2 = o2
    o3 = o3
    Orders = {o1, o2, o3}
    Price <- MCPrice
    Royalty <- MCRoyalty
    Batches = {b1, b2, b3}
    NoBatch = NoBatch
    Dialect = "postgres"
SPECIFICATION Spec
INVARIANT PayoutsMatchRoyalties
CHECK_DEADLOCK FALSE
