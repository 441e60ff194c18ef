---------------------------- MODULE RealtimeProofs -----------------------------
(***************************************************************************)
(* Proofs about sockets, rooms and calls, for any users, sockets and       *)
(* conversations: what the registry promises holds of the gateway that     *)
(* uses it, and from it who hears an event and whether both ends of a call *)
(* agree.                                                                  *)
(***************************************************************************)
EXTENDS Calls, SessionsProofs

-----------------------------------------------------------------------------
(* The registry inside the gateway.                                        *)

(* Whatever the gateway does to its registry is one of the two hooks or a    *)
(* restart: calls and rooms only look sockets up.                            *)
LEMMA GatewayStep == [Next]_vars => [SessNext]_sessVars
<1> SUFFICES ASSUME [Next]_vars PROVE [SessNext]_sessVars
  OBVIOUS
<1>1. ASSUME RoomsNext PROVE [SessNext]_sessVars
  <2>1. ASSUME NEW s \in Sockets, connect(s) \/ disconnect(s) PROVE SessNext
    BY <2>1 DEF connect, disconnect, SessNext
  <2>2. ASSUME restart PROVE SessNext
    BY <2>2 DEF restart, SessNext
  <2>3. ASSUME NEW s \in Sockets,
               \/ requestAllConversations(s) \/ getByUserId(s)
               \/ getByUserIdIncludeConversationDeleted(s) \/ sendAllConversations(s)
               \/ listFails(s)
        PROVE  UNCHANGED sessVars
    BY <2>3 DEF requestAllConversations, getByUserId, sendAllConversations, listFails,
                getByUserIdIncludeConversationDeleted
  <2>4. ASSUME NEW c \in Conversations, NEW P \in bounds.pairs, createConversation(P, c)
        PROVE  UNCHANGED sessVars
    BY <2>4 DEF createConversation
  <2>5. ASSUME NEW c \in Conversations, NEW u \in Users,
               createParticipant(c, u) \/ createParticipantFails(c, u)
        PROVE  UNCHANGED sessVars
    BY <2>5 DEF createParticipant, createParticipantFails
  <2>6. ASSUME NEW c \in Conversations, NEW s \in Sockets,
               \/ deleteConversation(s, c) \/ sendMessage(s, c)
               \/ toggleMic(s, c) \/ typingMessage(s, c)
        PROVE  UNCHANGED sessVars
    BY <2>6 DEF deleteConversation, sendMessage, toggleMic, typingMessage, emitTo
  <2> QED
    BY <1>1, <2>1, <2>2, <2>3, <2>4, <2>5, <2>6 DEF RoomsNext
<1>2. ASSUME CallsNext PROVE UNCHANGED sessVars
  BY <1>2 DEF CallsNext, handleCallInit, userUnavailable, handleCallAccepted, checkConversation,
              emitAccepted, handleVideoCallRejected, handleVideoCallHangUp, serverVars
<1>3. ASSUME UNCHANGED vars PROVE UNCHANGED sessVars
  BY <1>3 DEF vars
<1> QED
  BY <1>1, <1>2, <1>3 DEF Next, Served

(* The gateway implements the registry on its own.                           *)
THEOREM GatewayRegistry == Spec => SessSpec
<1>1. Init => SessInit
  BY DEF Init, RoomsInit
<1> QED
  BY <1>1, GatewayStep, PTL DEF Spec, SessSpec

(* Whatever calls, messages and rooms do meanwhile, a handler that looks a   *)
(* user up obtains a connected socket of that user, or none.                 *)
THEOREM GatewayRegistered == Spec => []RegisteredIsLive
  BY GatewayRegistry, Registered, PTL

(* And a user becomes unreachable only by the close of one of two            *)
(* overlapping connections.                                                  *)
THEOREM GatewayStranding == Spec => StrandedOnlyByOverlap
  BY GatewayRegistry, Stranding, PTL

-----------------------------------------------------------------------------
(* Rooms.                                                                  *)

RoomTypes ==
    /\ created \subseteq Conversations
    /\ listing \in [Sockets -> Listing]
    /\ known \in [Sockets -> SUBSET Conversations]

\* Who is in a room takes part in its conversation.
RoomsFollow ==
    \A s \in Sockets, c \in Conversations :
        <<s, c>> \in rooms => <<c, owner[s]>> \in participants

\* What a request has found belongs to its user, and once it has found the rooms
\* to join they cover what the user had before.
Listings ==
    \A s \in Sockets :
        /\ listing[s].all \subseteq ConversationsOf(owner[s])
        /\ listing[s].before \subseteq ConversationsOf(owner[s])
        /\ "all" \notin listing[s].unread => listing[s].before \subseteq listing[s].all

RoomsInv == RoomTypes /\ RoomsFollow /\ Listings /\ JoinedCoversOlder /\ EventsReachParticipants

(* No step but those of rooms changes what the invariant is about.           *)
LEMMA RoomsKept ==
    ASSUME RoomsInv,
           UNCHANGED <<created, participants, rooms, listing, known, emitted>>
    PROVE  RoomsInv'
BY DEF RoomsInv, RoomTypes, RoomsFollow, Listings, JoinedCoversOlder, EventsReachParticipants,
       ConversationsOf

(* The listing of one socket is replaced, and nothing else is emitted.       *)
LEMMA OneListing ==
    ASSUME RoomsInv, NEW s \in Sockets, NEW l \in Listing,
           listing' = [listing EXCEPT ![s] = l],
           l.all \subseteq ConversationsOf(owner[s]),
           l.before \subseteq ConversationsOf(owner[s]),
           "all" \notin l.unread => l.before \subseteq l.all,
           UNCHANGED <<created, participants, rooms, known>>, emitted' = <<>>
    PROVE  RoomsInv'
<1>1. RoomTypes' /\ RoomsFollow'
  BY DEF RoomsInv, RoomTypes, RoomsFollow
<1>2. Listings'
  BY DEF RoomsInv, RoomTypes, Listings, ConversationsOf
<1>3. JoinedCoversOlder' /\ EventsReachParticipants'
  BY DEF RoomsInv, JoinedCoversOlder, EventsReachParticipants
<1> QED
  BY <1>1, <1>2, <1>3 DEF RoomsInv

(* Participants only join, and an event has reached only those in a room.    *)
LEMMA Growing ==
    ASSUME RoomsInv, created \subseteq created', created' \subseteq Conversations,
           participants \subseteq participants', UNCHANGED <<rooms, listing, known>>,
           \/ emitted' = <<>>
           \/ \E c \in Conversations : \E S \in SUBSET Room(c) :
                emitted' = <<[conversation |-> c, reached |-> S]>>
    PROVE  RoomsInv'
<1>1. RoomTypes' /\ RoomsFollow' /\ Listings' /\ JoinedCoversOlder'
  BY DEF RoomsInv, RoomTypes, RoomsFollow, Listings, JoinedCoversOlder, ConversationsOf
<1>2. EventsReachParticipants'
  <2>1. CASE emitted' = <<>>
    BY <2>1 DEF EventsReachParticipants
  <2>2. ASSUME NEW c \in Conversations, NEW S \in SUBSET Room(c),
               emitted' = <<[conversation |-> c, reached |-> S]>>
        PROVE  EventsReachParticipants'
    <3>1. \A s \in S : <<c, owner[s]>> \in participants'
      BY DEF RoomsInv, RoomsFollow, Room
    <3>2. DOMAIN emitted' = {1} /\ emitted'[1] = [conversation |-> c, reached |-> S]
      BY <2>2
    <3> QED
      BY <3>1, <3>2 DEF EventsReachParticipants
  <2> QED
    BY <2>1, <2>2
<1> QED
  BY <1>1, <1>2 DEF RoomsInv

LEMMA RoomsStep == RoomsInv /\ [Next]_vars => RoomsInv'
<1> SUFFICES ASSUME RoomsInv, [Next]_vars PROVE RoomsInv'
  OBVIOUS
<1>1. ASSUME NEW s \in Sockets, connect(s) PROVE RoomsInv'
  BY <1>1, Growing DEF connect, RoomsInv, RoomTypes, chatVars
<1>2. ASSUME NEW s \in Sockets, disconnect(s) PROVE RoomsInv'
  <2>1. RoomTypes'
    BY <1>2 DEF disconnect, chatVars, RoomsInv, RoomTypes, NoListing, Listing, Reads
  <2>2. RoomsFollow' /\ JoinedCoversOlder' /\ EventsReachParticipants'
    BY <1>2 DEF disconnect, chatVars, RoomsInv, RoomTypes, RoomsFollow, JoinedCoversOlder,
                EventsReachParticipants
  <2>3. Listings'
    BY <1>2 DEF disconnect, chatVars, RoomsInv, RoomTypes, Listings, NoListing, ConversationsOf
  <2> QED
    BY <2>1, <2>2, <2>3 DEF RoomsInv
<1>3. ASSUME restart PROVE RoomsInv'
  BY <1>3 DEF restart, RoomsInv, RoomTypes, RoomsFollow, JoinedCoversOlder,
              EventsReachParticipants, Listings, NoListing, Listing, Reads, ConversationsOf
<1>4. ASSUME NEW s \in Sockets, requestAllConversations(s) PROVE RoomsInv'
  <2> DEFINE l == [unread |-> Reads, all |-> {}, before |-> ConversationsOf(owner[s])]
  <2>1. l \in Listing /\ "all" \in l.unread
    BY DEF Listing, Reads, RoomsInv, RoomTypes, ConversationsOf
  <2> QED
    BY <1>4, <2>1, OneListing DEF requestAllConversations, chatVars
<1>5. ASSUME NEW s \in Sockets, getByUserId(s) PROVE RoomsInv'
  <2> DEFINE l == [listing[s] EXCEPT !.unread = listing[s].unread \ {"listed"}]
  <2>1. l \in Listing /\ l.all = listing[s].all /\ l.before = listing[s].before
    BY DEF Listing, Reads, RoomsInv, RoomTypes
  <2>2. "all" \notin l.unread => "all" \notin listing[s].unread
    BY DEF Listing, RoomsInv, RoomTypes
  <2>3. listing' = [listing EXCEPT ![s] = l]
    BY <1>5 DEF getByUserId
  <2> QED
    BY <1>5, <2>1, <2>2, <2>3, OneListing DEF getByUserId, chatVars, RoomsInv, Listings
<1>6. ASSUME NEW s \in Sockets, getByUserIdIncludeConversationDeleted(s) PROVE RoomsInv'
  <2> DEFINE l == [listing[s] EXCEPT !.unread = listing[s].unread \ {"all"},
                                     !.all = ConversationsOf(owner[s])]
  <2>1. l \in Listing /\ l.all = ConversationsOf(owner[s]) /\ l.before = listing[s].before
    BY DEF Listing, Reads, RoomsInv, RoomTypes, ConversationsOf
  <2>2. listing' = [listing EXCEPT ![s] = l]
    BY <1>6 DEF getByUserIdIncludeConversationDeleted
  <2>3. l.before \subseteq ConversationsOf(owner[s])
    BY <2>1 DEF RoomsInv, Listings
  <2>4. UNCHANGED <<created, participants, rooms, known>> /\ emitted' = <<>>
    BY <1>6 DEF getByUserIdIncludeConversationDeleted, chatVars
  <2> HIDE DEF l
  <2> QED
    BY <2>1, <2>2, <2>3, <2>4, OneListing
<1>7. ASSUME NEW s \in Sockets, sendAllConversations(s) PROVE RoomsInv'
  <2>1. RoomTypes'
    BY <1>7 DEF sendAllConversations, chatVars, RoomsInv, RoomTypes, NoListing, Listing, Reads
  <2>2. RoomsFollow' /\ EventsReachParticipants'
    BY <1>7 DEF sendAllConversations, join, chatVars, RoomsInv, RoomsFollow, Listings,
                EventsReachParticipants, ConversationsOf
  <2>3. Listings'
    BY <1>7 DEF sendAllConversations, chatVars, RoomsInv, RoomTypes, Listings, NoListing,
                ConversationsOf
  <2>4. JoinedCoversOlder'
    BY <1>7 DEF sendAllConversations, join, RoomsInv, RoomTypes, Listings, JoinedCoversOlder
  <2> QED
    BY <2>1, <2>2, <2>3, <2>4 DEF RoomsInv
<1>8. ASSUME NEW s \in Sockets, listFails(s) PROVE RoomsInv'
  <2>1. NoListing \in Listing
    BY DEF NoListing, Listing, Reads
  <2> QED
    BY <1>8, <2>1, OneListing DEF listFails, chatVars, NoListing
<1>9. ASSUME NEW c \in Conversations, NEW P \in bounds.pairs, createConversation(P, c)
      PROVE  RoomsInv'
  BY <1>9, Growing DEF createConversation, RoomsInv, RoomTypes
<1>10. ASSUME NEW c \in Conversations, NEW u \in Users,
              createParticipant(c, u) \/ createParticipantFails(c, u)
       PROVE  RoomsInv'
  BY <1>10, Growing DEF createParticipant, createParticipantFails, RoomsInv, RoomTypes
<1>11. ASSUME NEW c \in Conversations, NEW s \in Sockets, deleteConversation(s, c)
       PROVE  RoomsInv'
  BY <1>11, Growing DEF deleteConversation, RoomsInv, RoomTypes
<1>12. ASSUME NEW c \in Conversations, NEW s \in Sockets,
              sendMessage(s, c) \/ toggleMic(s, c) \/ typingMessage(s, c)
       PROVE  RoomsInv'
  <2>1. PICK S \in SUBSET Room(c) : emitTo(c, S)
    BY <1>12 DEF sendMessage, toggleMic, typingMessage
  <2> QED
    BY <2>1, Growing DEF emitTo, RoomsInv, RoomTypes
<1>13. ASSUME CallsNext \/ UNCHANGED vars PROVE RoomsInv'
  <2>1. UNCHANGED roomVars
    BY <1>13 DEF CallsNext, handleCallInit, userUnavailable, handleCallAccepted, vars,
                 checkConversation, emitAccepted, handleVideoCallRejected,
                 handleVideoCallHangUp, serverVars
  <2> QED
    BY <2>1, RoomsKept DEF roomVars, chatVars
<1> QED
  BY <1>1, <1>2, <1>3, <1>4, <1>5, <1>6, <1>7, <1>8, <1>9, <1>10, <1>11, <1>12, <1>13
     DEF Next, Served, RoomsNext

LEMMA RoomsInvariant == Spec => []RoomsInv
<1>1. Init => RoomsInv
  <2> SUFFICES ASSUME Init PROVE RoomsInv
    OBVIOUS
  <2>1. RoomTypes
    BY DEF Init, RoomsInit, RoomTypes, NoListing, Listing, Reads
  <2>2. RoomsFollow /\ JoinedCoversOlder /\ EventsReachParticipants
    BY DEF Init, RoomsInit, RoomsFollow, JoinedCoversOlder, EventsReachParticipants
  <2>3. Listings
    BY DEF Init, RoomsInit, Listings, NoListing
  <2> QED
    BY <2>1, <2>2, <2>3 DEF RoomsInv
<1> QED
  BY <1>1, RoomsStep, PTL DEF Spec

(* An event of a conversation never reaches a socket whose user does not     *)
(* take part in it, with any number of devices, whatever closes or restarts. *)
THEOREM Reached == Spec => []EventsReachParticipants
<1>1. RoomsInv => EventsReachParticipants
  BY DEF RoomsInv
<1> QED
  BY <1>1, RoomsInvariant, PTL

(* A socket whose request was answered is in the rooms of every conversation *)
(* that its user had when the request began.                                 *)
THEOREM Joined == Spec => []JoinedCoversOlder
<1>1. RoomsInv => JoinedCoversOlder
  BY DEF RoomsInv
<1> QED
  BY <1>1, RoomsInvariant, PTL

-----------------------------------------------------------------------------
(* Calls.                                                                  *)

\* A timer that runs belongs to a connected socket, and to its last call or to
\* one before another call.
Timers ==
    /\ waiting \in [Sockets -> Nat]
    /\ \A s \in Sockets : waiting[s] > 0 => s \in live /\ s \in offline \cup again

CallsInv ==
    /\ accepting \subseteq Accept
    /\ Timers
    /\ offline \subseteq live \cap Sockets /\ again \subseteq live /\ unavailable \subseteq live
    /\ OfflineCallEnds
    /\ NoticeFitsTheCall

LEMMA CallsStep == CallsInv /\ [Next]_vars => CallsInv'
<1> SUFFICES ASSUME CallsInv, [Next]_vars PROVE CallsInv'
  OBVIOUS
<1> USE DEF OfflineCallEnds, NoticeFitsTheCall
<1>t. Timers /\ offline \subseteq Sockets
  BY DEF CallsInv, Timers, OfflineCallEnds
<1>1. ASSUME NEW s \in Sockets, NEW v \in Users, handleCallInit(s, v) PROVE CallsInv'
  <2>1. UNCHANGED <<live, accepting>> /\ s \in live
    BY <1>1 DEF handleCallInit, serverVars, sessVars
  <2>2. again \subseteq again' /\ again' \subseteq live /\ (waiting[s] > 0 => s \in again')
    BY <1>1, <2>1 DEF handleCallInit, CallsInv
  <2>3. unavailable' = unavailable \ {s}
    BY <1>1 DEF handleCallInit
  <2>4. CASE waiting' = [waiting EXCEPT ![s] = @ + 1] /\ offline' = offline \cup {s}
    <3>1. Timers'
      BY <1>t, <2>1, <2>2, <2>4 DEF Timers
    <3>2. waiting'[s] > 0 /\ \A r \in Sockets : r # s => waiting'[r] = waiting[r]
      BY <1>t, <2>4 DEF Timers
    <3>3. OfflineCallEnds'
      BY <1>t, <2>3, <2>4, <3>2 DEF CallsInv
    <3> QED
      BY <2>1, <2>2, <2>3, <2>4, <3>1, <3>3 DEF CallsInv
  <2>5. CASE waiting' = waiting /\ offline' = offline \ {s}
    <3>1. Timers'
      BY <1>t, <2>1, <2>2, <2>5 DEF Timers
    <3> QED
      BY <2>1, <2>2, <2>3, <2>5, <3>1 DEF CallsInv
  <2> QED
    BY <1>1, <2>4, <2>5 DEF handleCallInit
<1>2. ASSUME NEW s \in Sockets, userUnavailable(s) PROVE CallsInv'
  <2>1. UNCHANGED <<live, accepting, offline, again>>
    BY <1>2 DEF userUnavailable, serverVars, sessVars
  <2>2. /\ waiting[s] > 0 /\ waiting' = [waiting EXCEPT ![s] = @ - 1]
        /\ unavailable' = unavailable \cup {s}
    BY <1>2 DEF userUnavailable, ToldBy
  <2>3. s \in live /\ s \in offline \cup again
    BY <1>t, <2>2 DEF Timers
  <2>4. Timers'
    BY <1>t, <2>1, <2>2 DEF Timers
  <2>5. \A r \in Sockets : r # s => waiting'[r] = waiting[r]
    BY <1>t, <2>2 DEF Timers
  <2>6. OfflineCallEnds'
    BY <1>t, <2>1, <2>2, <2>5 DEF CallsInv
  <2> QED
    BY <2>1, <2>2, <2>3, <2>4, <2>6 DEF CallsInv
<1>3. ASSUME NEW s \in Sockets, NEW cs \in Sockets, handleCallAccepted(s, cs)
      PROVE  CallsInv'
  <2>1. UNCHANGED <<live, waiting, unavailable, offline, again>>
    BY <1>3 DEF handleCallAccepted, serverVars, sessVars
  <2>2. [socket |-> s, caller |-> owner[cs], checked |-> FALSE] \in Accept
    BY OwnerAssumption DEF Accept
  <2>3. accepting' \subseteq Accept
    BY <1>3, <2>2 DEF handleCallAccepted, CallsInv
  <2> QED
    BY <2>1, <2>3 DEF CallsInv, Timers
<1>4. ASSUME NEW a \in accepting, checkConversation(a) PROVE CallsInv'
  <2>1. UNCHANGED <<live, waiting, unavailable, offline, again>>
    BY <1>4 DEF checkConversation, serverVars, sessVars
  <2>2. [a EXCEPT !.checked = TRUE] \in Accept
    BY DEF Accept, CallsInv
  <2>3. accepting' \subseteq Accept
    BY <1>4, <2>2 DEF checkConversation, CallsInv
  <2> QED
    BY <2>1, <2>3 DEF CallsInv, Timers
<1>5. ASSUME UNCHANGED <<live, waiting, unavailable, offline, again>>, accepting' \subseteq accepting
      PROVE  CallsInv'
  BY <1>5 DEF CallsInv, Timers
<1>6. ASSUME NEW s \in Sockets, NEW cs \in Sockets, handleVideoCallRejected(s, cs)
      PROVE  CallsInv'
  BY <1>5, <1>6 DEF handleVideoCallRejected, serverVars, sessVars
<1>7. ASSUME NEW a \in accepting, emitAccepted(a) PROVE CallsInv'
  BY <1>5, <1>7 DEF emitAccepted, serverVars, sessVars
<1>8. ASSUME NEW s \in Sockets, NEW p \in Users \X Users, handleVideoCallHangUp(s, p)
      PROVE  CallsInv'
  BY <1>5, <1>8 DEF handleVideoCallHangUp, serverVars, sessVars
<1>9. CASE Served
  <2>1. /\ waiting' = [s \in Sockets |-> IF s \in live' THEN waiting[s] ELSE 0]
        /\ offline' = offline \cap live' /\ again' = again \cap live'
        /\ unavailable' = unavailable \cap live' /\ accepting' \subseteq accepting
    BY <1>9 DEF Served
  <2>2. Timers'
    BY <1>t, <2>1 DEF Timers
  <2>3. OfflineCallEnds'
    BY <1>t, <2>1 DEF CallsInv
  <2> QED
    BY <2>1, <2>2, <2>3 DEF CallsInv
<1>10. CASE UNCHANGED vars
  BY <1>5, <1>10 DEF vars, sessVars, callVars
<1> QED
  BY <1>1, <1>2, <1>3, <1>4, <1>6, <1>7, <1>8, <1>9, <1>10 DEF Next, CallsNext

LEMMA CallsInvariant == Spec => []CallsInv
<1>1. Init => CallsInv
  BY DEF Init, CallsInv, Timers, OfflineCallEnds, NoticeFitsTheCall
<1> QED
  BY <1>1, CallsStep, PTL DEF Spec

(* A connected socket whose last call found nobody has been told so, or a    *)
(* timer of it runs: for any number of calls and timers at once.             *)
THEOREM OfflineEnds == Spec => []OfflineCallEnds
<1>1. CallsInv => OfflineCallEnds
  BY DEF CallsInv
<1> QED
  BY <1>1, CallsInvariant, PTL

(* The notice of a timer meets a later call of its socket only when the      *)
(* socket called again while the timer ran.                                  *)
THEOREM NoticeFits == Spec => []NoticeFitsTheCall
<1>1. CallsInv => NoticeFitsTheCall
  BY DEF CallsInv
<1> QED
  BY <1>1, CallsInvariant, PTL

(* Only the emit that answers an accept lets anybody talk.                   *)
LEMMA OnlyAcceptedTalk ==
    ASSUME Next, talking' \ talking # {}
    PROVE  \E a \in accepting : emitAccepted(a)
BY DEF Next, CallsNext, Served, handleCallInit, userUnavailable, handleCallAccepted,
       checkConversation, handleVideoCallRejected, handleVideoCallHangUp

(* When an acceptor is told that a call was accepted, a connected socket of  *)
(* the caller is told too: the registry's promise, for any users, sockets    *)
(* and number of accepts in flight.                                          *)
THEOREM BothAreTold == Spec => BothHear
<1>1. ASSUME SessInv, CallsInv, Next, NEW t \in talking' \ talking, owner[t[1]] = t[2][2]
      PROVE  \E s \in live : owner[s] = t[2][1] /\ <<s, t[2]>> \in talking'
  <2>1. PICK a \in accepting : emitAccepted(a)
    BY <1>1, OnlyAcceptedTalk
  <2> DEFINE cs == getUserSocket(a.caller)
  <2> DEFINE p == <<a.caller, owner[a.socket]>>
  <2>2. t \in (Tell(a) \cap live) \X {p} /\ (Tell(a) \cap live) \X {p} \subseteq talking'
    BY <1>1, <2>1 DEF emitAccepted
  <2>3. cs # NoSocket /\ cs \in Tell(a)
    BY <2>2 DEF Tell
  <2>4. a.caller \in Users
    BY <1>1 DEF CallsInv, Accept
  <2>5. cs \in live /\ owner[cs] = a.caller
    BY <1>1, <2>3, <2>4 DEF SessInv, RegisteredIsLive, LiveOf
  <2>6. t[2] = p /\ p[1] = a.caller
    BY <2>2
  <2>7. <<cs, p>> \in talking'
    BY <2>2, <2>3, <2>5
  <2> QED
    BY <2>5, <2>6, <2>7
<1>2. SessInv /\ CallsInv /\ [Next]_vars =>
        [\A t \in talking' \ talking : LET p == t[2] IN
            owner[t[1]] = p[2] =>
              \E s \in live : owner[s] = p[1] /\ <<s, p>> \in talking']_vars
  BY <1>1
<1> QED
  BY <1>2, GatewayRegistry, SessInvariant, CallsInvariant, PTL DEF Spec, BothHear

-----------------------------------------------------------------------------
(* Hanging up.  Who talks is one of the two of the call, on a socket that is *)
(* connected; and the registry has the one socket of a user who never had    *)
(* two at once, so it finds whoever of the other end talks.                  *)

HangUpInv ==
    /\ talking \subseteq live \X (Users \X Users)
    /\ \A t \in talking : owner[t[1]] \in {t[2][1], t[2][2]}
    /\ \A u \in Users \ doubled : \A s \in LiveOf(u) : getUserSocket(u) = s

\* Rooms and sockets: only a hook or a restart changes who is connected.
LEMMA ServedKeepsTalking == SessInv /\ HangUpInv /\ Served => HangUpInv'
<1> SUFFICES ASSUME SessInv, HangUpInv, Served PROVE HangUpInv'
  OBVIOUS
<1>1. /\ talking' \subseteq live' \X (Users \X Users) /\ talking' \subseteq talking
  BY DEF HangUpInv, Served
<1>2. ASSUME NEW u \in Users \ doubled', NEW s \in LiveOf(u)' PROVE getUserSocket(u)' = s
  <2>0. u \notin doubled /\ \A a, b \in live' : owner[a] = u /\ owner[b] = u => a = b
    BY DEF Served
  <2>1. s \in live' /\ owner[s] = u
    BY DEF LiveOf
  <2>2. [SessNext]_sessVars
    BY GatewayStep DEF Next
  <2>3. ASSUME NEW a \in Sockets, handleConnection(a) PROVE getUserSocket(u)' = s
    <3>1. live' = live \cup {a} /\ sessions' = [sessions EXCEPT ![owner[a]] = a]
      BY <2>3 DEF handleConnection, setUserSocket
    <3>2. CASE owner[a] = u
      <4>1. s = a
        BY <2>0, <2>1, <3>1, <3>2
      <4> QED
        BY <3>1, <3>2, <4>1 DEF getUserSocket, SessInv, SessTypeOK
    <3>3. CASE owner[a] # u
      <4>1. s \in LiveOf(u) /\ sessions'[u] = sessions[u]
        BY <2>1, <3>1, <3>3 DEF LiveOf, SessInv, SessTypeOK
      <4> QED
        BY <2>0, <4>1 DEF HangUpInv, getUserSocket
    <3> QED
      BY <3>2, <3>3
  <2>4. ASSUME NEW a \in Sockets, handleDisconnect(a) PROVE getUserSocket(u)' = s
    <3>1. a \in live /\ live' = live \ {a} /\ sessions' = [sessions EXCEPT ![owner[a]] = NoSocket]
      BY <2>4 DEF handleDisconnect, removeUserSocket
    <3>2. s \in LiveOf(u) /\ getUserSocket(u) = s /\ s # a
      BY <2>0, <2>1, <3>1 DEF LiveOf, HangUpInv
    <3>3. owner[a] # u
      BY <2>0, <3>1, <3>2 DEF LiveOf, HangUpInv
    <3> QED
      BY <3>1, <3>2, <3>3 DEF getUserSocket, SessInv, SessTypeOK
  <2>5. CASE SessRestart
    BY <2>1, <2>5 DEF SessRestart
  <2>6. CASE UNCHANGED sessVars
    BY <2>0, <2>6 DEF sessVars, HangUpInv, LiveOf, getUserSocket
  <2> QED
    BY <2>2, <2>3, <2>4, <2>5, <2>6 DEF SessNext
<1> QED
  BY <1>1, <1>2 DEF HangUpInv

LEMMA HangUpStep == SessInv /\ CallsInv /\ HangUpInv /\ [Next]_vars => HangUpInv'
<1> SUFFICES ASSUME SessInv, CallsInv, HangUpInv, [Next]_vars PROVE HangUpInv'
  OBVIOUS
<1>1. CASE UNCHANGED <<live, sessions, doubled>> /\ talking' \subseteq talking
  BY <1>1 DEF HangUpInv, LiveOf, getUserSocket
<1>2. ASSUME NEW a \in accepting, emitAccepted(a) PROVE HangUpInv'
  <2> DEFINE p == <<a.caller, owner[a.socket]>>
  <2>1. talking' = talking \cup ((Tell(a) \cap live) \X {p}) /\ UNCHANGED <<live, sessions, doubled>>
    BY <1>2 DEF emitAccepted, serverVars, sessVars
  <2>2. a.caller \in Users /\ a.socket \in Sockets
    BY DEF CallsInv, Accept
  <2>3. p \in Users \X Users /\ p[1] = a.caller /\ p[2] = owner[a.socket]
    BY <2>2, OwnerAssumption
  <2>4. \A s \in Tell(a) : owner[s] \in {p[1], p[2]}
    BY <2>2, <2>3 DEF Tell, SessInv, RegisteredIsLive, LiveOf
  <2> HIDE DEF p
  <2>5. talking' \subseteq live' \X (Users \X Users)
    BY <2>1, <2>3 DEF HangUpInv
  <2>6. \A t \in talking' : owner[t[1]] \in {t[2][1], t[2][2]}
    BY <2>1, <2>4 DEF HangUpInv
  <2> QED
    BY <2>1, <2>5, <2>6 DEF HangUpInv, LiveOf, getUserSocket
<1>3. ASSUME CallsNext, \A a \in accepting : ~emitAccepted(a)
      PROVE  UNCHANGED <<live, sessions, doubled>> /\ talking' \subseteq talking
  BY <1>3 DEF CallsNext, handleCallInit, userUnavailable, handleCallAccepted, checkConversation,
              handleVideoCallRejected, handleVideoCallHangUp, serverVars, sessVars
<1>4. CASE UNCHANGED vars
  BY <1>1, <1>4 DEF vars, sessVars, callVars
<1> QED
  BY <1>1, <1>2, <1>3, <1>4, ServedKeepsTalking DEF Next

LEMMA HangUpInvariant == Spec => [](SessInv /\ CallsInv /\ HangUpInv)
<1>1. Init => HangUpInv
  BY DEF Init, RoomsInit, SessInit, HangUpInv, LiveOf
<1> QED
  BY <1>1, HangUpStep, GatewayRegistry, SessInvariant, CallsInvariant, PTL DEF Spec

\* While no socket closes, a call ends for somebody by a hang-up only.
LEMMA OnlyHangUpEnds ==
    ASSUME HangUpInv, Next, live' = live, NEW t \in talking \ talking'
    PROVE  \E s \in Sockets, p \in Users \X Users : handleVideoCallHangUp(s, p)
<1>1. t[1] \in live
  BY DEF HangUpInv
<1>2. ~Served
  BY <1>1 DEF Served
<1> QED
  BY <1>2 DEF Next, CallsNext, handleCallInit, userUnavailable, handleCallAccepted,
              checkConversation, emitAccepted, handleVideoCallRejected

(* A call that ends for one by a hang-up ends for the other: for any users,  *)
(* calls at once and sockets, unless one of the two has had two sockets at   *)
(* once.                                                                     *)
THEOREM BothHangUp == Spec => HangUpEndsBoth
<1>1. ASSUME HangUpInv, Next, live' = live, NEW t \in talking \ talking',
             {t[2][1], t[2][2]} \cap doubled = {}, NEW q \in talking', q[2] = t[2]
      PROVE  FALSE
  <2>1. PICK s \in Sockets, p \in Users \X Users : handleVideoCallHangUp(s, p)
    BY <1>1, OnlyHangUpEnds
  <2>2. talking' = talking \ (HangUpTo(s, p) \X {p})
    BY <2>1 DEF handleVideoCallHangUp
  <2>3. t[2] = p /\ q[2] = p /\ q \in talking
    BY <1>1, <2>2
  <2>4. q = <<q[1], p>> /\ q[1] \in live /\ owner[q[1]] \in {p[1], p[2]}
    BY <1>1, <2>3 DEF HangUpInv
  <2>5. q[1] \notin HangUpTo(s, p)
    BY <1>1, <2>2, <2>4
  <2>6. s \in live /\ owner[s] \in {p[1], p[2]}
    <3>1. CASE <<s, p>> \in talking
      BY <1>1, <3>1 DEF HangUpInv
    <3>2. CASE \E r \in ringing : r[1] = s /\ s \in live /\ p = <<owner[s], owner[r[2]]>>
      BY <3>2
    <3> QED
      BY <2>1, <3>1, <3>2 DEF handleVideoCallHangUp
  <2>7. p[1] \in Users \ doubled /\ p[2] \in Users \ doubled
    BY <1>1, <2>3
  <2>8. \A u \in {p[1], p[2]} : \A a \in live : owner[a] = u => getUserSocket(u) = a
    BY <1>1, <2>7 DEF HangUpInv, LiveOf
  <2>9. CASE owner[q[1]] = owner[s]
    <3>1. q[1] = s
      BY <2>4, <2>6, <2>8, <2>9
    <3> QED
      BY <2>5, <3>1 DEF HangUpTo
  <2>10. CASE owner[q[1]] # owner[s]
    <3>1. owner[q[1]] = IF owner[s] = p[1] THEN p[2] ELSE p[1]
      BY <2>4, <2>6, <2>10
    <3>2. getUserSocket(owner[q[1]]) = q[1]
      BY <2>4, <2>8
    <3> QED
      BY <2>5, <3>1, <3>2 DEF HangUpTo
  <2> QED
    BY <2>9, <2>10
<1>2. HangUpInv /\ [Next]_vars =>
        [live' = live =>
            \A t \in talking \ talking' :
                {t[2][1], t[2][2]} \cap doubled = {} => \A q \in talking' : q[2] # t[2]]_vars
  BY <1>1
<1> QED
  BY <1>2, HangUpInvariant, PTL DEF Spec, HangUpEndsBoth

-----------------------------------------------------------------------------
(* Types.  A room holds connected sockets, since only a connected socket has *)
(* a request for its rooms; what a client shows, a connected socket shows.   *)

RoomState ==
    /\ bounds \in Bounds
    /\ pending \subseteq created \X Users /\ participants \subseteq created \X Users
    /\ left \subseteq participants
    /\ rooms \subseteq live \X created
    /\ \A i \in DOMAIN emitted : emitted[i] \in Event
    /\ \A s \in Sockets : Busy(s) => s \in live

CallState ==
    /\ ringing \subseteq Sockets \X live
    /\ doubled \subseteq Users

\* A step of the rooms that keeps who is connected.
LEMMA RoomsState ==
    ASSUME SessInv, RoomsInv, RoomState, RoomsNext
    PROVE  RoomState'
<1> USE DEF RoomState, Busy, chatVars, sessVars
<1>e. ASSUME emitted' = <<>> PROVE \A i \in DOMAIN emitted' : emitted'[i] \in Event
  BY <1>e
<1>1. ASSUME NEW s \in Sockets, connect(s) PROVE RoomState'
  BY <1>1, <1>e DEF connect, handleConnection
<1>2. ASSUME NEW s \in Sockets, disconnect(s) PROVE RoomState'
  BY <1>2, <1>e DEF disconnect, handleDisconnect, RoomsInv, RoomTypes
<1>3. ASSUME restart PROVE RoomState'
  BY <1>3, <1>e DEF restart, SessRestart
<1>4. ASSUME NEW s \in Sockets, requestAllConversations(s) PROVE RoomState'
  BY <1>4, <1>e DEF requestAllConversations, RoomsInv, RoomTypes
<1>5. ASSUME NEW s \in Sockets, getByUserId(s) \/ getByUserIdIncludeConversationDeleted(s)
      PROVE  RoomState'
  <2>1. listing[s] # NoListing
    BY <1>5 DEF getByUserId, getByUserIdIncludeConversationDeleted, NoListing
  <2>2. \A t \in Sockets : t # s => listing'[t] = listing[t]
    BY <1>5 DEF getByUserId, getByUserIdIncludeConversationDeleted, RoomsInv, RoomTypes
  <2> QED
    BY <1>5, <1>e, <2>1, <2>2 DEF getByUserId, getByUserIdIncludeConversationDeleted
<1>6. ASSUME NEW s \in Sockets, sendAllConversations(s) PROVE RoomState'
  <2>1. listing[s] # NoListing
    BY <1>6 DEF sendAllConversations, NoListing
  <2>2. s \in live /\ listing[s].all \subseteq created
    BY <2>1 DEF RoomsInv, Listings, ConversationsOf
  <2>3. rooms' \subseteq live \X created
    BY <1>6, <2>2 DEF sendAllConversations, join
  <2>4. \A t \in Sockets : listing'[t] # NoListing => listing[t] # NoListing
    BY <1>6 DEF sendAllConversations, RoomsInv, RoomTypes
  <2> QED
    BY <1>6, <1>e, <2>3, <2>4 DEF sendAllConversations
<1>7. ASSUME NEW s \in Sockets, listFails(s) PROVE RoomState'
  <2>1. \A t \in Sockets : listing'[t] # NoListing => listing[t] # NoListing
    BY <1>7 DEF listFails, RoomsInv, RoomTypes
  <2> QED
    BY <1>7, <1>e, <2>1 DEF listFails
<1>8. ASSUME NEW c \in Conversations, NEW P \in bounds.pairs, createConversation(P, c)
      PROVE  RoomState'
  <2>1. P \subseteq Users
    BY RoomsAssumption
  <2> QED
    BY <1>8, <1>e, <2>1 DEF createConversation
<1>9. ASSUME NEW c \in Conversations, NEW u \in Users,
             createParticipant(c, u) \/ createParticipantFails(c, u)
      PROVE  RoomState'
  BY <1>9, <1>e DEF createParticipant, createParticipantFails
<1>10. ASSUME NEW c \in Conversations, NEW s \in Sockets, deleteConversation(s, c)
       PROVE  RoomState'
  BY <1>10, <1>e DEF deleteConversation, Listed, ConversationsOf
<1>11. ASSUME NEW c \in Conversations, NEW s \in Sockets,
              sendMessage(s, c) \/ toggleMic(s, c) \/ typingMessage(s, c)
       PROVE  RoomState'
  <2>1. PICK S \in SUBSET Room(c) : emitTo(c, S)
    BY <1>11 DEF sendMessage, toggleMic, typingMessage
  <2>2. [conversation |-> c, reached |-> S] \in Event
    BY DEF Event, Room
  <2>3. \A i \in DOMAIN emitted' : emitted'[i] \in Event
    BY <2>1, <2>2 DEF emitTo
  <2>4. left' \subseteq left
    BY <1>11 DEF sendMessage, toggleMic, typingMessage
  <2> QED
    BY <2>1, <2>3, <2>4 DEF emitTo
<1> QED
  BY <1>1, <1>2, <1>3, <1>4, <1>5, <1>6, <1>7, <1>8, <1>9, <1>10, <1>11 DEF RoomsNext

LEMMA StateStep ==
    SessInv /\ RoomsInv /\ RoomState /\ CallState /\ [Next]_vars => (RoomState /\ CallState)'
<1> SUFFICES ASSUME SessInv, RoomsInv, RoomState, CallState, [Next]_vars
             PROVE  RoomState' /\ CallState'
  OBVIOUS
<1>1. CASE Served
  <2>1. doubled' \subseteq Users
    BY <1>1 DEF Served, CallState
  <2>2. ringing' \subseteq Sockets \X live'
    BY <1>1 DEF Served, CallState
  <2> QED
    BY <1>1, <2>1, <2>2, RoomsState DEF Served, CallState
<1>2. ASSUME UNCHANGED serverVars PROVE RoomState'
  BY <1>2 DEF serverVars, sessVars, roomVars, chatVars, RoomState, Busy
<1>s. \A u \in Users : getUserSocket(u) # NoSocket => getUserSocket(u) \in live
  BY DEF SessInv, RegisteredIsLive, LiveOf
<1>3. ASSUME NEW s \in Sockets, NEW v \in Users, handleCallInit(s, v)
      PROVE  UNCHANGED serverVars /\ CallState'
  BY <1>3, <1>s DEF handleCallInit, CallState, serverVars, sessVars
<1>4. ASSUME NEW s \in Sockets, userUnavailable(s)
      PROVE  UNCHANGED serverVars /\ CallState'
  BY <1>4 DEF userUnavailable, CallState, serverVars, sessVars
<1>5. ASSUME NEW s \in Sockets, NEW cs \in Sockets,
             handleCallAccepted(s, cs) \/ handleVideoCallRejected(s, cs)
      PROVE  UNCHANGED serverVars /\ CallState'
  BY <1>5 DEF handleCallAccepted, handleVideoCallRejected, CallState, serverVars, sessVars
<1>6. ASSUME NEW a \in accepting, checkConversation(a) PROVE UNCHANGED serverVars /\ CallState'
  BY <1>6 DEF checkConversation, CallState, serverVars, sessVars
<1>7. ASSUME NEW a \in accepting, emitAccepted(a) PROVE UNCHANGED serverVars /\ CallState'
  BY <1>7 DEF emitAccepted, CallState, serverVars, sessVars
<1>8. ASSUME NEW s \in Sockets, NEW p \in Users \X Users, handleVideoCallHangUp(s, p)
      PROVE  UNCHANGED serverVars /\ CallState'
  BY <1>8 DEF handleVideoCallHangUp, CallState, serverVars, sessVars
<1>9. CASE UNCHANGED vars
  BY <1>2, <1>9 DEF vars, serverVars, sessVars, callVars, CallState
<1> QED
  BY <1>1, <1>2, <1>3, <1>4, <1>5, <1>6, <1>7, <1>8, <1>9 DEF Next, CallsNext

(* The gateway stays typed: nobody who has gone is in a room, rings, talks   *)
(* or shows anything, for any order of connects, closes and restarts.        *)
THEOREM GatewayTypes == Spec => []TypeOK
<1>1. Init => RoomState /\ CallState
  <2> SUFFICES ASSUME Init PROVE RoomState /\ CallState
    OBVIOUS
  <2>1. bounds \in Bounds /\ pending = {} /\ left = {} /\ rooms = {} /\ emitted = <<>>
    BY DEF Init, RoomsInit
  <2>2. \A P \in bounds.pairs : P \subseteq Users
    BY <2>1, RoomsAssumption
  <2>3. participants \subseteq created \X Users /\ \A s \in Sockets : listing[s] = NoListing
    BY <2>2 DEF Init, RoomsInit
  <2>4. RoomState
    BY <2>1, <2>3 DEF RoomState, Busy
  <2> QED
    BY <2>4 DEF Init, CallState
<1>2. SessInv /\ RoomsInv /\ CallsInv /\ HangUpInv /\ RoomState /\ CallState => TypeOK
  BY DEF TypeOK, RoomsTypeOK, SessInv, RoomsInv, RoomTypes, CallsInv, Timers, HangUpInv,
         RoomState, CallState
<1> QED
  BY <1>1, <1>2, StateStep, RoomsInvariant, HangUpInvariant, PTL DEF Spec
=============================================================================
