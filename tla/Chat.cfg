\* Requests one at a time, overlapping, with and without failures.
SPECIFICATION Spec
CONSTANTS
    h1 = h1
    h2 = h2
    Members = {alice, bob}
    Requests = {h1, h2}
    MaxTime = 2
    MaxMessages = 2
    Bounds <- MCBounds
    Never = Never
INVARIANTS
    LastIsNewest
    HistoryStaysDeleted
    ListsLeaveDeletedOut
PROPERTIES
    OnlyOwnDeleteHides
    MessageBringsBack
