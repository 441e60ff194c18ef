\* Three users with up to two devices.
SPECIFICATION Spec
CONSTANTS
    u1 = u1
    u2 = u2
    u3 = u3
    a1 = a1
    a2 = a2
    b1 = b1
    Users <- MCUsers
    Sockets <- MCSockets
    owner <- MCOwner
    NoSocket = NoSocket
    Conversations = {k1, k2}
    Bounds <- MCBounds
SYMMETRY Symmetry
INVARIANTS
    RegisteredIsLive
    EventsReachParticipants
    JoinedCoversOlder
    OfflineCallEnds
    NoticeFitsTheCall
PROPERTIES
    StrandedOnlyByOverlap
    BothHear
    
