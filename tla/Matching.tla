------------------------------- MODULE Matching -------------------------------
(***************************************************************************)
(* Likes, matches and what a match creates: the CREATE_USER_LIKE handler   *)
(* of the gateway (Gateway.createUserLike) with every service it calls,    *)
(* next to the REST route that also creates likes (UserLikeController).    *)
(*                                                                         *)
(* The handler is asynchronous: each await is a separate step here, and    *)
(* any number of requests interleave between them.  The database applies   *)
(* one operation at a time; what is atomic is an operation, never the      *)
(* handler.  An operation can fail (the driver throws, the handler stops   *)
(* with what it has written so far) and the process can be restarted,      *)
(* which loses every request in flight and every socket.                   *)
(*                                                                         *)
(* Conversations here are those made by this handler; the conversations    *)
(* of POST /conversations belong to the chat.                              *)
(***************************************************************************)
EXTENDS Sessions, FiniteSets

CONSTANTS
    Handlers,        \* bound: the requests that may be in flight at once
    ConversationIds, \* bound: the conversations that may be created
    NoConversation

ASSUME UsersAssumption == Users # {}
ASSUME NoConversationAssumption == NoConversation \notin ConversationIds

VARIABLES
    likes,          \* user-likes: <<u, v>> is the document user=u, userLiked=v
    matches,        \* user-matches: <<user, userMatched>>
    conversations,  \* conversations created by a match
    participants,   \* <<conversation, user>>
    notices,        \* notifications of type matched: <<conversation, user>>
    inbox,          \* notification-objects: <<conversation, recipient>>
    told,           \* ON_USER_MATCHED emits so far: <<conversation, user>>
    req             \* the requests in flight

dbVars == <<likes, matches, conversations, participants, notices, inbox>>
vars == <<sessVars, dbVars, told, req>>

\* What the handler awaits next, in the order of the code.
Stages == {"idle", "check", "like", "liked", "match", "notify", "object", "emit"}

\* The operations of the handler's Promise.all, with the two of create's.
Operations == {"conversation", "sender", "receiver", "match"}

Request ==
    [stage : Stages,
     from : Users, to : Users,           \* socket.user, payload.userLikedId
     existingLiked : BOOLEAN,
     sock : Sockets \cup {NoSocket},     \* the socket of the request
     peer : Sockets \cup {NoSocket},     \* userLikedSocket, read at line 477
     pending : SUBSET Operations,        \* issued and not yet applied
     rejected : BOOLEAN,                 \* one of the Promise.all has failed
     conv : ConversationIds \cup {NoConversation}]

TypeOK ==
    /\ SessTypeOK
    /\ likes \subseteq Users \X Users
    /\ matches \subseteq Users \X Users
    /\ conversations \subseteq ConversationIds
    /\ participants \subseteq ConversationIds \X Users
    /\ notices \subseteq ConversationIds \X Users
    /\ inbox \subseteq ConversationIds \X Users
    /\ told \subseteq ConversationIds \X Users
    /\ req \in [Handlers -> Request]

\* A free slot, or one whose handler has returned or thrown.
IsIdle(h) == req[h].stage = "idle"

Idle(u) ==
    [stage |-> "idle", from |-> u, to |-> u, existingLiked |-> FALSE,
     sock |-> NoSocket, peer |-> NoSocket, pending |-> {}, rejected |-> FALSE,
     conv |-> NoConversation]

Nobody == CHOOSE u \in Users : TRUE

Init ==
    /\ SessInit
    /\ likes = {} /\ matches = {} /\ conversations = {} /\ participants = {}
    /\ notices = {} /\ inbox = {} /\ told = {}
    /\ req = [h \in Handlers |-> Idle(Nobody)]

At(h, stage) == req[h].stage = stage

\* The handler goes on with the given changes to its locals.
Goto(h, stage) == req' = [req EXCEPT ![h].stage = stage]

\* The handler returns or throws: its locals are gone.
Finish(h) == req' = [req EXCEPT ![h] = Idle(Nobody)]

-----------------------------------------------------------------------------
(* createUserLike, from the request to the like.                           *)

\* CREATE_USER_LIKE arrives on a connected socket.
createUserLike(h, s, v) ==
    /\ IsIdle(h)
    /\ s \in live
    /\ req' = [req EXCEPT ![h] =
                 [Idle(owner[s]) EXCEPT !.stage = "check", !.to = v, !.sock = s]]
    /\ UNCHANGED <<sessVars, dbVars, told>>

\* findOne: has the liked user already liked the sender?
checkExistingLike(h) ==
    /\ At(h, "check")
    /\ req' = [req EXCEPT ![h].existingLiked = <<req[h].to, req[h].from>> \in likes,
                          ![h].stage = "like"]
    /\ UNCHANGED <<sessVars, dbVars, told>>

\* Mutant: the schema loses its unique index.
createLikeNoIndex(h) ==
    /\ At(h, "like")
    /\ likes' = likes \cup {<<req[h].from, req[h].to>>}
    /\ Goto(h, "liked")
    /\ UNCHANGED <<sessVars, matches, conversations, participants, notices,
                   inbox, told>>

\* The insert, when the unique index on {user, userLiked} lets it through.
createLike(h) ==
    /\ At(h, "like")
    /\ <<req[h].from, req[h].to>> \notin likes
    /\ likes' = likes \cup {<<req[h].from, req[h].to>>}
    /\ Goto(h, "liked")
    /\ UNCHANGED <<sessVars, matches, conversations, participants, notices,
                   inbox, told>>

\* The insert, when the index rejects it: the handler throws.
createLikeDuplicate(h) ==
    /\ At(h, "like")
    /\ <<req[h].from, req[h].to>> \in likes
    /\ Finish(h)
    /\ UNCHANGED <<sessVars, dbVars, told>>

IssueMatch(h, operations) ==
    req' = [req EXCEPT ![h].stage = "match",
                       ![h].peer = getUserSocket(req[h].to),
                       ![h].pending = operations]

\* Mutant: the answer of checkExistingLike is not awaited, a promise is truthy.
afterLikeAlways(h) ==
    /\ At(h, "liked")
    /\ IssueMatch(h, {"conversation", "match"})
    /\ UNCHANGED <<sessVars, dbVars, told>>

\* Mutant: the participants are created next to their conversation.
afterLikeEager(h) ==
    /\ At(h, "liked")
    /\ IF req[h].existingLiked THEN IssueMatch(h, Operations) ELSE Finish(h)
    /\ UNCHANGED <<sessVars, dbVars, told>>

\* Mutant: the handler returns early when the peer is offline.
afterLikeOnline(h) ==
    /\ At(h, "liked")
    /\ IF req[h].existingLiked /\ getUserSocket(req[h].to) # NoSocket
         THEN IssueMatch(h, {"conversation", "match"})
         ELSE Finish(h)
    /\ UNCHANGED <<sessVars, dbVars, told>>

\* The continuation of the insert: it looks the peer's socket up, once, and
\* either issues the Promise.all or tells the peer about a plain like.
afterLike(h) ==
    /\ At(h, "liked")
    /\ IF req[h].existingLiked
         THEN IssueMatch(h, {"conversation", "match"})
         ELSE Finish(h)
    /\ UNCHANGED <<sessVars, dbVars, told>>

-----------------------------------------------------------------------------
(* The Promise.all of conversationService.create and userMatchService.     *)
(* create.  When one of them fails the other goes on all the same.         *)

Pending(h, op) == At(h, "match") /\ op \in req[h].pending

\* conversationModel.create, after which create issues both participants.
createConversation(h) ==
    /\ Pending(h, "conversation")
    /\ \E c \in ConversationIds \ conversations :
         /\ conversations' = conversations \cup {c}
         /\ req' = [req EXCEPT ![h].conv = c,
                               ![h].pending = (@ \ {"conversation"})
                                                 \cup {"sender", "receiver"}]
    /\ UNCHANGED <<sessVars, likes, matches, participants, notices, inbox, told>>

Member(h, op) == IF op = "sender" THEN req[h].from ELSE req[h].to

createParticipant(h, op) ==
    /\ op \in {"sender", "receiver"}
    /\ Pending(h, op)
    /\ participants' = participants \cup {<<req[h].conv, Member(h, op)>>}
    /\ req' = [req EXCEPT ![h].pending = @ \ {op}]
    /\ UNCHANGED <<sessVars, likes, matches, conversations, notices, inbox, told>>

\* userMatchService.create(userLikedId, {userMatchedId: user}): the document
\* names the liked user first.  The index on {user, userMatched} is unique:
\* it rejects a document that is there already.
NewMatch(h) == <<req[h].to, req[h].from>>

createMatch(h) ==
    /\ Pending(h, "match")
    /\ matches' = matches \cup {NewMatch(h)}
    /\ req' = [req EXCEPT ![h].pending = @ \ {"match"},
                          ![h].rejected = @ \/ NewMatch(h) \in matches]
    /\ UNCHANGED <<sessVars, likes, conversations, participants, notices, inbox,
                   told>>

\* Mutant: Promise.allSettled, whose outcome nobody looks at.
afterMatchSettled(h) ==
    /\ At(h, "match")
    /\ req[h].pending = {}
    /\ Goto(h, "notify")
    /\ UNCHANGED <<sessVars, dbVars, told>>

\* The Promise.all has settled: fulfilled, or rejected with nothing left of it.
afterMatch(h) ==
    /\ At(h, "match")
    /\ req[h].pending = {}
    /\ IF req[h].rejected THEN Finish(h) ELSE Goto(h, "notify")
    /\ UNCHANGED <<sessVars, dbVars, told>>

-----------------------------------------------------------------------------
(* notificationService.createNotificationMatched and the emits.            *)

\* Mutant: only the user whose like came first is notified.
NewNoticesPeer(h) == {<<req[h].conv, req[h].to>>}

NewNotices(h) == {<<req[h].conv, req[h].from>>, <<req[h].conv, req[h].to>>}

createNotificationMatched(h) ==
    /\ At(h, "notify")
    /\ notices' = notices \cup NewNotices(h)
    /\ Goto(h, "object")
    /\ UNCHANGED <<sessVars, likes, matches, conversations, participants, inbox,
                   told>>

createNotificationObjects(h) ==
    /\ At(h, "object")
    /\ inbox' = inbox \cup NewNotices(h)
    /\ Goto(h, "emit")
    /\ UNCHANGED <<sessVars, likes, matches, conversations, participants, notices,
                   told>>

\* An emit on a socket that has closed since is lost.
Reached(h) ==
    {<<req[h].conv, owner[s]>> : s \in {req[h].peer, req[h].sock} \cap live}

emitMatched(h) ==
    /\ At(h, "emit")
    /\ told' = told \cup Reached(h)
    /\ Finish(h)
    /\ UNCHANGED <<sessVars, dbVars>>

-----------------------------------------------------------------------------
(* The REST route, which neither looks for the opposite like nor matches.  *)

\* POST /user-likes (a duplicate is rejected and changes nothing)
restCreateLike(u, v) ==
    /\ <<u, v>> \notin likes
    /\ likes' = likes \cup {<<u, v>>}
    /\ UNCHANGED <<sessVars, matches, conversations, participants, notices, inbox,
                   told, req>>

-----------------------------------------------------------------------------
(* Faults.                                                                 *)

\* An operation of a sequential stage fails: the handler throws.
Throw(h) ==
    /\ req[h].stage \in {"check", "like", "notify", "object"}
    /\ Finish(h)
    /\ UNCHANGED <<sessVars, dbVars, told>>

\* insertMany writes in order and stops at the document that fails.
insertManyFails(h) ==
    /\ \/ /\ At(h, "notify")
          /\ notices' = notices \cup {<<req[h].conv, req[h].from>>}
          /\ UNCHANGED inbox
       \/ /\ At(h, "object")
          /\ inbox' = inbox \cup {<<req[h].conv, req[h].from>>}
          /\ UNCHANGED notices
    /\ Finish(h)
    /\ UNCHANGED <<sessVars, likes, matches, conversations, participants, told>>

\* An operation of the Promise.all fails; the others have been issued.
rejectOne(h) ==
    /\ \E op \in Operations :
         /\ Pending(h, op)
         /\ req' = [req EXCEPT ![h].pending = @ \ {op}, ![h].rejected = TRUE]
    /\ UNCHANGED <<sessVars, dbVars, told>>

\* The process dies and is started again.
Restart ==
    /\ SessRestart
    /\ req' = [h \in Handlers |-> Idle(Nobody)]
    /\ UNCHANGED <<dbVars, told>>

Fault ==
    \/ \E h \in Handlers : Throw(h) \/ insertManyFails(h) \/ rejectOne(h)
    \/ Restart

-----------------------------------------------------------------------------

Step(h) ==
    \/ checkExistingLike(h) \/ createLike(h) \/ createLikeDuplicate(h)
    \/ afterLike(h)
    \/ createConversation(h) \/ (\E op \in Operations : createParticipant(h, op))
    \/ createMatch(h) \/ afterMatch(h)
    \/ createNotificationMatched(h) \/ createNotificationObjects(h)
    \/ emitMatched(h)

Connections ==
    /\ \E s \in Sockets : handleConnection(s) \/ handleDisconnect(s)
    /\ UNCHANGED <<dbVars, told, req>>

Environment ==
    \/ Connections
    \/ \E h \in Handlers, s \in Sockets, v \in Users : createUserLike(h, s, v)
    \/ \E u, v \in Users : restCreateLike(u, v)

Work == \E h \in Handlers : Step(h)

Next == Environment \/ Work \/ Fault

Spec == Init /\ [][Next]_vars

\* The system without faults.
CalmSpec == Init /\ [][Environment \/ Work]_vars

\* The driver answers and the event loop resumes each handler; no client has
\* to do anything.
FairSpec == CalmSpec /\ \A h \in Handlers : WF_vars(Step(h))

-----------------------------------------------------------------------------
(* Properties.                                                             *)

(* Two people are matched at most once, in one direction or the other: the   *)
(* unique index of user-matches is on the ordered pair and does not exclude  *)
(* the reverse document; what does is that createUserLike reads the opposite *)
(* like before it stores its own, and that a like is stored once.            *)
AtMostOneMatchPerPair ==
    \A u, v \in Users : <<u, v>> \in matches /\ <<v, u>> \in matches => u = v

(* Nobody is matched without having liked the other, also when the requests  *)
(* of both, a REST like and a restart interleave.                            *)
MatchImpliesMutualLikes ==
    \A u, v \in Users : <<u, v>> \in matches => {<<u, v>>, <<v, u>>} \subseteq likes

(* createUserLike never gives a pair two conversations: conversations have   *)
(* no unique key and the handler creates one without looking for another.    *)
OneConversationPerPair ==
    \A c, d \in conversations : \A u, v \in Users :
        /\ u # v
        /\ {<<c, u>>, <<c, v>>, <<d, u>>, <<d, v>>} \subseteq participants
        => c = d

\* What ON_USER_MATCHED and ON_RESET_NOTIFICATIONS make a client fetch.
Ready(c) ==
    \E u, v \in Users :
        /\ <<u, v>> \in matches
        /\ {<<c, u>>, <<c, v>>} \subseteq participants \cap inbox

(* A user who is told about a match can fetch all of it: the match, the      *)
(* conversation with both participants and both notifications are stored     *)
(* before the first emit, although Promise.all writes them in any order and  *)
(* each of its writes may fail.                                              *)
ToldWhenReady == \A c \in ConversationIds, u \in Users :
    <<c, u>> \in told => <<c, u>> \in inbox /\ Ready(c)

\* The request will create a match, unless it fails first.
AboutToMatch(h) ==
    \/ At(h, "liked") /\ req[h].existingLiked
    \/ Pending(h, "match")

\* Both have liked, there is no match, and no request is about to create one.
Lost(u, v) ==
    /\ {<<u, v>>, <<v, u>>} \subseteq likes
    /\ {<<u, v>>, <<v, u>>} \cap matches = {}
    /\ \A h \in Handlers : AboutToMatch(h) => {req[h].from, req[h].to} # {u, v}

(* A mutual like that was missed (two requests that each read before the     *)
(* other wrote, a REST like, a failure) is missed for good: a repeated like  *)
(* is a duplicate, so no request can ever match the two.                     *)
LostMatchIsPermanent ==
    [][\A u, v \in Users : Lost(u, v) => Lost(u, v)']_vars

(* Without failures a match is whole once its request has ended: one         *)
(* conversation with both users, and a notification for each.                *)
SettledMatchIsComplete ==
    (\A h \in Handlers : IsIdle(h)) =>
        \A u, v \in Users : <<u, v>> \in matches =>
            \E c \in conversations :
                {<<c, u>>, <<c, v>>} \subseteq participants \cap inbox

Matched(u, v) == {<<u, v>>, <<v, u>>} \cap matches # {}

(* The request that saw the opposite like and stored its own ends, without   *)
(* failures, with the match and with both users notified, whatever other     *)
(* requests and disconnects happen meanwhile.                                *)
SeenLikeIsMatched ==
    \A u, v \in Users :
        (\E h \in Handlers : /\ At(h, "liked") /\ req[h].existingLiked
                            /\ req[h].from = u /\ req[h].to = v)
            ~> (/\ Matched(u, v)
                /\ \E c \in conversations : {<<c, u>>, <<c, v>>} \subseteq inbox)

\* What the handlers promise about likes and matches.
Promise == INSTANCE MatchPromise
    WITH matched <- {{m[1], m[2]} : m \in matches}

(* Each insert into user-matches is the promise's Match step: it adds a pair *)
(* of two users who like each other and were not matched in any direction.   *)
KeepsPromise == Promise!Spec
=============================================================================
