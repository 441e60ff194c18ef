--------------------------------- MODULE Rooms ---------------------------------
(***************************************************************************)
(* The rooms of the gateway, one per conversation, on top of the registry  *)
(* of sockets.  A socket joins the rooms of its user's conversations when  *)
(* it asks for them all, and in no other way; messages, typing and muting  *)
(* are emitted to a room.  What a user has deleted is not listed, but its  *)
(* room is joined: the next message brings it back.                        *)
(*                                                                         *)
(* Conversations are made by POST /conversations (and, in Matching, by a   *)
(* match, with the same operations).  What messages say and when they are  *)
(* stored is in Chat; here a message is its emit.                          *)
(***************************************************************************)
EXTENDS Sessions, FiniteSets

CONSTANTS
    Conversations, \* bound: the conversations that may be created
    Bounds         \* bound: what a behaviour may do, see RoomsAssumption

ASSUME RoomsAssumption ==
    Bounds \subseteq [sockets : SUBSET Sockets, pairs : SUBSET SUBSET Users, requests : Nat,
                      calls : SUBSET (Users \X Users), faults : BOOLEAN]

VARIABLES
    bounds,        \* one of Bounds
    created,       \* the conversations
    pending,       \* participants whose insert is issued: <<conversation, user>>
    participants,  \* <<conversation, user>>
    left,          \* participants who have deleted the conversation
    rooms,         \* <<socket, conversation>>
    listing,       \* what requestAllConversations knows, for each socket
    emitted,       \* external: the event of a room that this step emitted, and
                   \* the sockets it reached
    known          \* history: the conversations of its user when the last request
                   \* of a socket that has been answered began

chatVars == <<created, pending, participants, left>>
roomVars == <<chatVars, rooms, listing, emitted, known>>

ConversationsOf(u) == {c \in created : <<c, u>> \in participants}
Listed(u) == {c \in ConversationsOf(u) : <<c, u>> \notin left}

Reads == {"listed", "all"}

Listing ==
    [unread : SUBSET (Reads \cup {"idle"}),   \* finds that are not answered yet
     all : SUBSET Conversations, before : SUBSET Conversations]

NoListing == [unread |-> {"idle"}, all |-> {}, before |-> {}]

Event == [conversation : Conversations, reached : SUBSET Sockets]

RoomsTypeOK ==
    /\ SessTypeOK
    /\ bounds \in Bounds
    /\ created \subseteq Conversations
    /\ pending \subseteq created \X Users /\ participants \subseteq created \X Users
    /\ left \subseteq participants
    /\ rooms \subseteq live \X created
    /\ listing \in [Sockets -> Listing]
    /\ \A i \in DOMAIN emitted : emitted[i] \in Event
    /\ known \in [Sockets -> SUBSET Conversations]

\* When there are calls, there may be a conversation already.
RoomsInit ==
    /\ SessInit
    /\ bounds \in Bounds
    /\ pending = {} /\ left = {}
    /\ IF bounds.calls = {} \/ bounds.pairs = {}
         THEN created = {} /\ participants = {}
         ELSE \E c \in Conversations, P \in bounds.pairs :
                created = {c} /\ participants = {c} \X P
    /\ rooms = {} /\ emitted = <<>>
    /\ listing = [s \in Sockets |-> NoListing]
    /\ known = [s \in Sockets |-> {}]

Busy(s) == listing[s] # NoListing

-----------------------------------------------------------------------------
(* Sockets that come and go.                                               *)

connect(s) ==
    /\ s \in bounds.sockets
    /\ handleConnection(s)
    /\ UNCHANGED <<bounds, chatVars, rooms, listing, known>>
    /\ emitted' = <<>>

\* The socket leaves its rooms, and joins none any more.
disconnect(s) ==
    /\ handleDisconnect(s)
    /\ rooms' = {r \in rooms : r[1] # s}
    /\ listing' = [listing EXCEPT ![s] = NoListing]
    /\ known' = [known EXCEPT ![s] = {}]
    /\ UNCHANGED <<bounds, chatVars>>
    /\ emitted' = <<>>

restart ==
    /\ bounds.faults
    /\ SessRestart
    /\ rooms' = {} /\ pending' = {}
    /\ listing' = [s \in Sockets |-> NoListing]
    /\ known' = [s \in Sockets |-> {}]
    /\ UNCHANGED <<bounds, created, participants, left>>
    /\ emitted' = <<>>

-----------------------------------------------------------------------------
(* Conversations.                                                          *)

\* POST /conversations: the conversation, and then the inserts of both
\* participants are issued, the user who asks and the one it names.
createConversation(P, c) ==
    /\ bounds.calls = {}
    /\ c \notin created
    /\ created' = created \cup {c}
    /\ pending' = pending \cup ({c} \X P)
    /\ UNCHANGED <<bounds, sessVars, participants, left, rooms, listing, known>>
    /\ emitted' = <<>>

createParticipant(c, u) ==
    /\ <<c, u>> \in pending
    /\ pending' = pending \ {<<c, u>>}
    /\ participants' = participants \cup {<<c, u>>}
    /\ UNCHANGED <<bounds, sessVars, created, left, rooms, listing, known>>
    /\ emitted' = <<>>

\* One insert fails; the other goes on.
createParticipantFails(c, u) ==
    /\ bounds.faults
    /\ <<c, u>> \in pending
    /\ pending' = pending \ {<<c, u>>}
    /\ UNCHANGED <<bounds, sessVars, created, participants, left, rooms, listing, known>>
    /\ emitted' = <<>>

\* The room is kept.
deleteConversation(s, c) ==
    /\ bounds.calls = {}
    /\ s \in live /\ c \in Listed(owner[s])
    /\ left' = left \cup {<<c, owner[s]>>}
    /\ UNCHANGED <<bounds, sessVars, created, pending, participants, rooms, listing, known>>
    /\ emitted' = <<>>

-----------------------------------------------------------------------------
(* Joining the rooms.                                                      *)

\* Both lists are asked for at once.
requestAllConversations(s) ==
    /\ bounds.calls = {}
    /\ s \in live /\ ~Busy(s)
    /\ Cardinality({t \in Sockets : Busy(t)}) < bounds.requests
    /\ listing' = [listing EXCEPT ![s] =
                     [unread |-> Reads, all |-> {}, before |-> ConversationsOf(owner[s])]]
    /\ UNCHANGED <<bounds, sessVars, chatVars, rooms, known>>
    /\ emitted' = <<>>

\* The list for the client, without what its user has deleted: its content is
\* sent to the client and left out here.
getByUserId(s) ==
    /\ "listed" \in listing[s].unread
    /\ listing' = [listing EXCEPT ![s].unread = @ \ {"listed"}]
    /\ UNCHANGED <<bounds, sessVars, chatVars, rooms, known>>
    /\ emitted' = <<>>

\* Mutant: both lists are made by the same query.
getByUserIdListed(s) ==
    /\ "all" \in listing[s].unread
    /\ listing' = [listing EXCEPT ![s].unread = @ \ {"all"}, ![s].all = Listed(owner[s])]
    /\ UNCHANGED <<bounds, sessVars, chatVars, rooms, known>>
    /\ emitted' = <<>>

getByUserIdIncludeConversationDeleted(s) ==
    /\ "all" \in listing[s].unread
    /\ listing' = [listing EXCEPT ![s].unread = @ \ {"all"},
                                  ![s].all = ConversationsOf(owner[s])]
    /\ UNCHANGED <<bounds, sessVars, chatVars, rooms, known>>
    /\ emitted' = <<>>

\* Mutant: the sockets of the whole process are joined.
joinAll(s) == rooms' = rooms \cup (live \X listing[s].all)

join(s) == rooms' = rooms \cup ({s} \X listing[s].all)

\* Both lists are there: the rooms are joined and the client is sent its list.
sendAllConversations(s) ==
    /\ listing[s].unread = {}
    /\ join(s)
    /\ listing' = [listing EXCEPT ![s] = NoListing]
    /\ known' = [known EXCEPT ![s] = listing[s].before]
    /\ UNCHANGED <<bounds, sessVars, chatVars>>
    /\ emitted' = <<>>

\* A find fails.
listFails(s) ==
    /\ bounds.faults
    /\ Busy(s)
    /\ listing' = [listing EXCEPT ![s] = NoListing]
    /\ UNCHANGED <<bounds, sessVars, chatVars, rooms, known>>
    /\ emitted' = <<>>

-----------------------------------------------------------------------------
(* Events of a room.                                                       *)

Room(c) == {t \in Sockets : <<t, c>> \in rooms}

emitTo(c, S) ==
    /\ emitted' = <<[conversation |-> c, reached |-> S]>>
    /\ UNCHANGED <<bounds, sessVars, created, pending, participants, rooms, listing, known>>

\* The emit of a message that was sent, to the whole room.  Whoever had deleted
\* the conversation is rejoined.
sendMessage(s, c) ==
    /\ bounds.calls = {}
    /\ s \in live /\ c \in Listed(owner[s])
    /\ left' = {l \in left : l[1] # c}
    /\ emitTo(c, Room(c))

\* A microphone, to the whole room.
toggleMic(s, c) ==
    /\ bounds.calls = {}
    /\ s \in live /\ c \in Listed(owner[s])
    /\ emitTo(c, Room(c))
    /\ UNCHANGED left

\* Typing, or no longer typing, to the others in the room.
typingMessage(s, c) ==
    /\ bounds.calls = {}
    /\ s \in live /\ c \in Listed(owner[s])
    /\ emitTo(c, Room(c) \ {s})
    /\ UNCHANGED left

RoomsNext ==
    \/ \E s \in Sockets :
          \/ connect(s) \/ disconnect(s)
          \/ requestAllConversations(s) \/ getByUserId(s)
          \/ getByUserIdIncludeConversationDeleted(s) \/ sendAllConversations(s)
          \/ listFails(s)
    \/ restart
    \/ \E c \in Conversations :
          \/ \E P \in bounds.pairs : createConversation(P, c)
          \/ \E u \in Users : createParticipant(c, u) \/ createParticipantFails(c, u)
          \/ \E s \in Sockets :
                \/ deleteConversation(s, c) \/ sendMessage(s, c)
                \/ toggleMic(s, c) \/ typingMessage(s, c)

-----------------------------------------------------------------------------
(* Properties.                                                             *)

(* An event of a conversation never reaches a socket whose user does not     *)
(* take part in it: emits to a room check nothing, the joins must.           *)
EventsReachParticipants ==
    \A i \in DOMAIN emitted : \A s \in emitted[i].reached :
        <<emitted[i].conversation, owner[s]>> \in participants

(* A socket whose request was answered hears of every conversation its user  *)
(* had when the request began, also of one deleted meanwhile or before: the  *)
(* two lists are read separately, while conversations come and go.           *)
JoinedCoversOlder == \A s \in Sockets : {s} \X known[s] \subseteq rooms
=============================================================================
