SPECIFICATION Spec
CONSTANTS
    Requests = {r1, r2, r3}
    Source = Source
    Problems = {p1}
    People = {a, b}
    Limits = {1, 2}
SYMMETRY Alike
VIEW Ahead
INVARIANTS
    TypeOK
    OverOnlyIfCrossed
    CopyIsWhole
    SharesAreLatest
CHECK_DEADLOCK FALSE
