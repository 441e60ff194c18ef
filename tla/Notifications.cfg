\* Two users, two requests in flight, failures and restarts.
SPECIFICATION Spec
CONSTANTS
    u1 = u1
    u2 = u2
    Users <- MCUsers
    Audiences <- MCAudiences
    Requests = {h1, h2}
    MaxId = 3
    Bounds <- MCBounds
SYMMETRY Symmetry
INVARIANTS
    SoleCodesAreUnique
    OrphansWereDeleted
    MarkedWasActivated
    ActivationReachesAll
    PaidIsGranted
    NoticePerPackage
