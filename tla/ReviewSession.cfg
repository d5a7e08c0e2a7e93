\* Two problems, two pages, two requests in flight, three sent by hand.
SPECIFICATION Spec
CONSTANTS
    Size = 2
    Tabs = {t1, t2}
    Requests = {r1, r2}
    NoTab = NoTab
    MaxSent = 3
SYMMETRY Alike
INVARIANTS TypeOK ClaimsAreRecorded ShownIsKept ResumePassesNothing FinishedIsCovered
PROPERTIES ProgressGrows
CHECK_DEADLOCK FALSE
