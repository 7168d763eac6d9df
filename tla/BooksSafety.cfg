CONSTANTS
    o1 = o1
    o2 = o2
    o3 = o3
    Orders = {o1, o2, o3}
    Price <- MCPrice
    Royalty <- MCRoyalty
    Batches = {b1, b2}
    NoBatch = NoBatch
    Dialect = "sqlite"
    Entry <- MCEntry
    Forgery <- MCForgery
    MaxAnchors = 1
SPECIFICATION MCSpec
INVARIANTS
    PayoutsMatchRoyalties
    Solvent
    Intact
    FalseAlarmsExplained
    TamperingFound
    AnchorsPinThePast
PROPERTIES
    ImplementsAccount
    AttestsTheBooks
    FreezeTakesHold
CHECK_DEADLOCK FALSE
