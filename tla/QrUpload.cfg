\* Two phones (or a retry), two overlapping polls, two names, one lost consume.
SPECIFICATION FairSpec
CONSTANTS
    Requests = {r1, r2}
    Polls = {k1, k2}
    Names = {n1, n2}
    NoName = NoName
    NoPhoto = NoPhoto
    MaxLost = 1
INVARIANTS TypeOK RecordedFileStored ShownIsRecorded
PROPERTIES ImplementsSlot UploadIsConsumed
CHECK_DEADLOCK FALSE
