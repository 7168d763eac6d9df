SPECIFICATION MCSpec
CONSTANTS
    Accounts = {root, chef}
    Admins = {root}
    Tabs = {c1, c2}
    NoOne = NoOne
    MaxSessions = 2
    MaxCalls = 2
    s1 = s1
    s2 = s2
    s3 = s3
    s4 = s4
    s5 = s5
    g1 = g1
    n1 = n1
    n2 = n2
    k1 = k1
    k2 = k2
    v1 = v1
    v2 = v2
    v3 = v3
    NewOrders = {n1, n2}
    Seeds = {s1, s2, s3, s4, s5}
    PaidSeeds = {s1, s2, s3, s4}
    Gone = {g1}
    Creators = {k1, k2}
    CreatorOf <- MCCreatorOf
    Runs <- MCRuns
    Carrier <- MCCarrier
    Ripe = {s1, s2}
    UnitsSold = 1
    Cap = 3
    Price = 2
    MaxOffers = 2
    People = {p1}
    TeamRoles = {kitchen, finance}
    MaxMembers = 2
    MaxInvites = 2
    Slots = {c1, c2}
    Ids = {v1, v2, v3}
    MaxSandboxes = 2
    MaxOpened = 3
    Jobs = {c1, c2}
SYMMETRY Symmetry
INVARIANTS
    ForeignDataExplained
    ActsAsItself
    BooksOfTheDemo
    OneOfferOpen
    OneLinkOneAccount
    ServedAsMember
    SandboxesAccounted
    Isolated
PROPERTY
    SuspensionHolds
