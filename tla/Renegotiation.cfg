CONSTANTS
    MaxOffers = 2
    MaxContracts = 2
    Requests = {r1, r2}
SPECIFICATION Spec
PROPERTY SignedDealStands
