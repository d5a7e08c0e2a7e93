SPECIFICATION Spec
CONSTANTS
    Requests = {r1, r2, r3, r4}
    Keys = {"auth1", "auth2", "file_upload"}
    Window <- Windows
    MaxRequests <- Limits
    Many = 1
    Lag = 1
    MaxTime = 6
SYMMETRY Alike
INVARIANTS
    TypeOK
    WindowRespected
    RefusedIsFull
CHECK_DEADLOCK FALSE
