\* Two requests racing under limits 0, 1 (the default) and 2, over two days.
SPECIFICATION FairSpec
CONSTANTS
    Requests = {r1, r2}
    Limits = {0, 2}
    DefaultLimit = 1
    NoLimit = NoLimit
    NoRequest = NoRequest
    MaxDay = 1
INVARIANTS TypeOK EveryChargeCounted UsageWithinGrant NoFreeCall
PROPERTIES ImplementsBudget RequestAnswered
