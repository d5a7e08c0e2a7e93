\* Two phones of which one wins.
SPECIFICATION Spec
CONSTANTS
    Requests = {r1, r2}
    Polls = {k1, k2}
    Names = {n1, n2}
    NoName = NoName
    NoPhoto = NoPhoto
    MaxLost = 1
INVARIANT PhoneSuccessIsRecorded
CHECK_DEADLOCK FALSE
