\* One request alone, limits never changed: the last unit is charged and refused.
SPECIFICATION Spec
CONSTANTS
    Requests = {r1, r2}
    Limits = {}
    DefaultLimit = 2
    NoLimit = NoLimit
    NoRequest = NoRequest
    MaxDay = 0
INVARIANT RemainingUnitUsable
CHECK_DEADLOCK FALSE
