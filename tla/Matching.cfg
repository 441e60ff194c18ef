\* Requests, REST likes, failures and restarts, two requests in flight.
SPECIFICATION Spec
CONSTANTS
    u1 = u1
    u2 = u2
    s1 = s1
    s2 = s2
    Users <- MCUsers
    Sockets <- MCSockets
    owner <- MCOwner
    NoSocket = NoSocket
    NoConversation = NoConversation
    Handlers = {h1, h2}
    ConversationIds = {c1, c2}
SYMMETRY Symmetry
INVARIANTS
    TypeOK
    AtMostOneMatchPerPair
    MatchImpliesMutualLikes
    OneConversationPerPair
    ToldWhenReady
PROPERTIES
    LostMatchIsPermanent
    KeepsPromise
