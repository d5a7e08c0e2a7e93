SPECIFICATION Spec
CONSTANTS
    Requests = {r1, r2}
    Passwords = {p1, p2}
    Roles = {"user", "super_admin"}
    NoRole = NoRole
    NoState = NoState
    MaxVersion = 3
SYMMETRY Alike
VIEW Ahead
INVARIANTS
    TypeOK
    LiveTokenIsCurrent
    DisabledHasNoToken
    FlagsAgree
    NoOrphan
    SuperAdminLasts
PROPERTIES
    ImplementsSessions
CHECK_DEADLOCK FALSE
