\* Without failures: what the requests must achieve.
SPECIFICATION FairSpec
CONSTANTS
    u1 = u1
    u2 = u2
    s1 = s1
    s2 = s2
    Users <- MCUsers
    Sockets <- MCSockets
    owner <- MCOwner
    NoSocket = NoSocket
    NoConversation = NoConversation
    Handlers = {h1, h2}
    ConversationIds = {c1}
INVARIANTS
    SettledMatchIsComplete
PROPERTIES
    SeenLikeIsMatched
