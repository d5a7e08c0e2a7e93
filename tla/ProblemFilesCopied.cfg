\* A copy outlives its source.
SPECIFICATION Spec
CONSTANTS
    p1 = p1
    c1 = c1
    n1 = n1
    r1 = r1
    u1 = u1
    u2 = u2
    Uploading = Uploading
    NoProblem = NoProblem
    Problems = {p1}
    CopyIds = {c1}
    Roles = {r1}
    Names = {n1}
    Requests = {u1}
    Batches <- MCBatches
    Grace = 1
    MaxSent = 3
    MaxFaults = 0
PROPERTY OrphanUnreferenced
CHECK_DEADLOCK FALSE
