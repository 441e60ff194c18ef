\* The caller and the user it calls share no conversation.
SPECIFICATION Spec
CONSTANTS
    u1 = u1
    u2 = u2
    u3 = u3
    a1 = a1
    a2 = a2
    b1 = b1
    Users <- MCUsers
    Sockets <- MCSockets
    owner <- MCOwner
    NoSocket = NoSocket
    Conversations = {k1, k2}
    Bounds <- StrangersBounds
SYMMETRY Symmetry
INVARIANTS
    AcceptedHaveConversation
