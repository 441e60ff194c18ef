--------------------------------- MODULE Chat ---------------------------------
(***************************************************************************)
(* One conversation: its participants, its messages and its lastMessage,   *)
(* under the gateway's handlers sendMessage, updateMessage, deleteMessage, *)
(* requestAllMessages and deleteConversation with the services they call.  *)
(* Conversations do not touch each other.                                  *)
(*                                                                         *)
(* "Deleting" a conversation sets the participant's timeLeft; the next     *)
(* message of anybody resets it and sets timeJoined, and a participant is  *)
(* shown the messages created at or after timeJoined.  So everything hangs *)
(* on the order of instants, and the code takes each of them in the        *)
(* process, with new Date(), when it issues the operation; the database    *)
(* applies the operation later.  Both moments are steps here.              *)
(*                                                                         *)
(* The texts of messages are left out, and of the emits all but the lists  *)
(* of messages that are sent.                                              *)
(***************************************************************************)
EXTENDS Naturals, Sequences, FiniteSets

CONSTANTS
    Members,      \* the users of the conversation
    Requests,     \* bound: the requests that may be in flight at once
    MaxTime,      \* bound: the last instant of the clock
    MaxMessages,  \* bound: the messages that may be sent
    Bounds,       \* bound: the sizes a behaviour may have
    Never         \* a timeLeft that is not set

ASSUME ChatAssumption ==
    /\ Members # {} /\ IsFiniteSet(Requests)
    /\ MaxTime \in Nat /\ MaxMessages \in Nat
    /\ Never \notin Nat
    /\ Bounds \subseteq [requests : SUBSET Requests, time : 0..MaxTime, messages : 0..MaxMessages,
                         attachments : SUBSET BOOLEAN, faults : BOOLEAN]

Time == 0..MaxTime

VARIABLES
    bounds,       \* one of Bounds
    now,          \* the clock of the process
    timeJoined,   \* of each participant
    timeLeft,
    messages,     \* in the order they were stored; a message is its position
    lastMessage,  \* the conversation's, 0 if there is none
    everLast,     \* the values it has had, which copies of clients may still hold
    req,          \* the requests in flight
    gone          \* of each participant: the messages deleted with the conversation

dbVars == <<bounds, timeJoined, timeLeft, messages, lastMessage, everLast, gone>>
vars == <<now, dbVars, req>>

Stages == {"idle", "insert", "attach", "inserted", "rejoin", "last", "read", "deactivate",
           "participants", "fetch", "emit", "leave"}

MessageIds == 0..MaxMessages

\* Attachments are stored in a collection of their own, after their message.
Message == [by : Members, createdAt : Time, active : BOOLEAN,
            attachments : {"none", "missing", "stored"}]

Request ==
    [stage : Stages, who : Members,
     attachments : BOOLEAN,    \* the message that is sent has some
     message : MessageIds,     \* sent, edited or deleted
     cached : MessageIds,      \* the payload's conversation.lastMessage
     to : Members,             \* the payload's receiver
     list : SUBSET MessageIds, \* the messages that were read
     at : Time]                \* the instant an operation carries, or the
                               \* timeJoined that was read
TypeOK ==
    /\ bounds \in Bounds
    /\ now \in Time
    /\ timeJoined \in [Members -> Time]
    /\ timeLeft \in [Members -> Time \cup {Never}]
    /\ messages \in Seq(Message) /\ Len(messages) <= MaxMessages
    /\ lastMessage \in MessageIds /\ everLast \subseteq MessageIds
    /\ req \in [Requests -> Request]
    /\ gone \in [Members -> SUBSET MessageIds]

Someone == CHOOSE m \in Members : TRUE

Idle == [stage |-> "idle", who |-> Someone, attachments |-> FALSE, message |-> 0,
         cached |-> 0, to |-> Someone, list |-> {}, at |-> 0]

At(h, stage) == req[h].stage = stage
Goto(h, stage) == req' = [req EXCEPT ![h].stage = stage]
Finish(h) == req' = [req EXCEPT ![h] = Idle]

\* A conversation as conversationService.create leaves it.
Init ==
    /\ bounds \in Bounds
    /\ now = 0
    /\ timeJoined = [m \in Members |-> 0]
    /\ timeLeft = [m \in Members |-> Never]
    /\ messages = <<>>
    /\ lastMessage = 0 /\ everLast = {}
    /\ req = [h \in Requests |-> Idle]
    /\ gone = [m \in Members |-> {}]

Tick ==
    /\ now < bounds.time
    /\ now' = now + 1
    /\ UNCHANGED <<dbVars, req>>

\* A request arrives.
Begin(h, request) ==
    /\ h \in bounds.requests /\ At(h, "idle")
    /\ req' = [req EXCEPT ![h] = request]
    /\ UNCHANGED <<now, dbVars>>

-----------------------------------------------------------------------------
(* What the reads return.                                                  *)

\* getParticipantConversations: the conversation is in the user's list.
Listed(m) == timeLeft[m] = Never \/ timeJoined[m] > timeLeft[m]

\* Mutant: the filter has no createdAt.
allMessages(t) == DOMAIN messages

\* getMessagesByConversationIdAndUserId, for a participant who joined at t.
\* Deleted messages are among them.
MessagesSince(t) == {i \in DOMAIN messages : messages[i].createdAt >= t}

First(S) == CHOOSE i \in S : \A j \in S : i <= j

-----------------------------------------------------------------------------
(* sendMessage                                                             *)

Sending == {h \in Requests : At(h, "insert")}

\* The timestamps plugin sets createdAt when the insert is issued.
sendMessage(h, m, a) ==
    /\ Len(messages) + Cardinality(Sending) < bounds.messages
    /\ Begin(h, [Idle EXCEPT !.stage = "insert", !.who = m, !.attachments = a, !.at = now])

insertMessage(h) ==
    /\ At(h, "insert")
    /\ messages' = Append(messages,
                          [by |-> req[h].who, createdAt |-> req[h].at, active |-> TRUE,
                           attachments |-> IF req[h].attachments THEN "missing" ELSE "none"])
    /\ req' = [req EXCEPT ![h].stage = IF req[h].attachments THEN "attach" ELSE "inserted",
                          ![h].message = Len(messages) + 1]
    /\ UNCHANGED <<bounds, now, timeJoined, timeLeft, lastMessage, everLast, gone>>

\* The attachments of the message, in one insertMany.
createMany(h) ==
    /\ At(h, "attach")
    /\ messages' = [messages EXCEPT ![req[h].message].attachments = "stored"]
    /\ Goto(h, "inserted")
    /\ UNCHANGED <<bounds, now, timeJoined, timeLeft, lastMessage, everLast, gone>>

issueRejoin(h) ==
    /\ At(h, "inserted")
    /\ req' = [req EXCEPT ![h].stage = "rejoin", ![h].at = now]
    /\ UNCHANGED <<now, dbVars>>

HasLeft(m) == timeLeft[m] # Never

\* Mutant: timeJoined is left alone.
rejoinKeepingTime(h) ==
    /\ At(h, "rejoin")
    /\ timeLeft' = [m \in Members |-> Never]
    /\ Goto(h, "last")
    /\ UNCHANGED <<bounds, now, timeJoined, messages, lastMessage, everLast, gone>>

\* Mutant: the participant who sends is left out.
rejoinOthers(h) ==
    /\ At(h, "rejoin")
    /\ timeJoined' = [m \in Members |-> IF HasLeft(m) /\ m # req[h].who
                                          THEN req[h].at ELSE timeJoined[m]]
    /\ timeLeft' = [m \in Members |-> IF m = req[h].who THEN timeLeft[m] ELSE Never]
    /\ Goto(h, "last")
    /\ UNCHANGED <<bounds, now, messages, lastMessage, everLast, gone>>

\* updateManyTimeJoined is applied, to everybody who has left.
updateManyTimeJoined(h) ==
    /\ At(h, "rejoin")
    /\ timeJoined' = [m \in Members |-> IF HasLeft(m) THEN req[h].at ELSE timeJoined[m]]
    /\ timeLeft' = [m \in Members |-> Never]
    /\ Goto(h, "last")
    /\ UNCHANGED <<bounds, now, messages, lastMessage, everLast, gone>>

\* A request to delete a message; only these send a lastMessage along.
Deleting(h) == req[h].cached # 0

\* The last write of the three message handlers.
updateLastMessage(h) ==
    /\ At(h, "last")
    /\ lastMessage' = req[h].message
    /\ everLast' = everLast \cup {req[h].message}
    /\ IF Deleting(h) THEN Goto(h, "emit") ELSE Finish(h)
    /\ UNCHANGED <<bounds, now, timeJoined, timeLeft, messages, gone>>

-----------------------------------------------------------------------------
(* updateMessage                                                           *)

updateMessage(h, i) ==
    /\ i \in DOMAIN messages
    /\ Begin(h, [Idle EXCEPT !.stage = "read", !.message = i])

\* Mutant: every edit becomes the last message.
readConversationAlways(h) ==
    /\ At(h, "read")
    /\ Goto(h, "last")
    /\ UNCHANGED <<now, dbVars>>

\* The conversation is read next to the write of the text: is the edited
\* message the last one?  Without a last message the handler throws.
readConversation(h) ==
    /\ At(h, "read")
    /\ IF lastMessage = req[h].message THEN Goto(h, "last") ELSE Finish(h)
    /\ UNCHANGED <<now, dbVars>>

-----------------------------------------------------------------------------
(* deleteMessage and requestAllMessages                                    *)

\* The client sends its copy of the conversation along.
deleteMessage(h, m, to, i, cached) ==
    /\ i \in DOMAIN messages /\ cached \in everLast
    /\ Begin(h, [Idle EXCEPT !.stage = "deactivate", !.who = m, !.to = to, !.message = i,
                             !.cached = cached])

deactivate(h) ==
    /\ At(h, "deactivate")
    /\ messages' = [messages EXCEPT ![req[h].message].active = FALSE]
    /\ Goto(h, "participants")
    /\ UNCHANGED <<bounds, now, timeJoined, timeLeft, lastMessage, everLast, gone>>

requestAllMessages(h, m) == Begin(h, [Idle EXCEPT !.stage = "participants", !.who = m, !.to = m])

\* Only timeJoined is looked at, whether the participant has left or not.
getParticipants(h) ==
    /\ At(h, "participants")
    /\ req' = [req EXCEPT ![h].stage = "fetch", ![h].at = timeJoined[req[h].who]]
    /\ UNCHANGED <<now, dbVars>>

\* The first message the sender can see, the deleted ones included, takes the
\* place of a last message that was deleted.
fetchMessages(h) ==
    /\ At(h, "fetch")
    /\ LET seen == MessagesSince(req[h].at) IN
       req' = IF Deleting(h) /\ req[h].cached = req[h].message /\ seen # {}
                THEN [req EXCEPT ![h].stage = "last", ![h].list = seen, ![h].message = First(seen)]
                ELSE [req EXCEPT ![h].stage = "emit", ![h].list = seen]
    /\ UNCHANGED <<now, dbVars>>

\* The list that was read for one user goes to that user and to the receiver.
emitMessages(h) ==
    /\ At(h, "emit")
    /\ Finish(h)
    /\ UNCHANGED <<now, dbVars>>

-----------------------------------------------------------------------------
(* deleteConversation                                                      *)

deleteConversation(h, m) ==
    /\ m \in Members
    /\ Begin(h, [Idle EXCEPT !.stage = "leave", !.who = m, !.at = now])

\* Mutant: the filter forgets the user.
leaveForAll(h) ==
    /\ At(h, "leave")
    /\ timeLeft' = [m \in Members |-> req[h].at]
    /\ Finish(h)
    /\ UNCHANGED <<bounds, now, timeJoined, messages, lastMessage, everLast, gone>>

\* The messages this deletes: those older than it, but for what a rejoin that
\* is already under way brings back.
DeletedAt(t) ==
    {i \in DOMAIN messages : \A u \in {t} \cup {req[g].at : g \in {k \in Requests : At(k, "rejoin")}} :
                                 messages[i].createdAt < u}

leftConversation(h) ==
    /\ At(h, "leave")
    /\ timeLeft' = [timeLeft EXCEPT ![req[h].who] = req[h].at]
    /\ gone' = [gone EXCEPT ![req[h].who] = DeletedAt(req[h].at)]
    /\ Finish(h)
    /\ UNCHANGED <<bounds, now, timeJoined, messages, lastMessage, everLast>>

-----------------------------------------------------------------------------

Step(h) ==
    \/ insertMessage(h) \/ createMany(h) \/ issueRejoin(h) \/ updateManyTimeJoined(h)
    \/ updateLastMessage(h) \/ readConversation(h)
    \/ deactivate(h) \/ getParticipants(h) \/ fetchMessages(h)
    \/ emitMessages(h) \/ leftConversation(h)

\* An operation fails: the handler stops with what it has written.
Throw(h) ==
    /\ bounds.faults
    /\ ~At(h, "idle")
    /\ Finish(h)
    /\ UNCHANGED <<now, dbVars>>

Restart ==
    /\ bounds.faults
    /\ req' = [h \in Requests |-> Idle]
    /\ UNCHANGED <<now, dbVars>>

\* A client can name a message once it is stored, holds any copy of the
\* conversation it was ever sent, and names another participant as the receiver.
Clients == \E h \in Requests :
    \/ \E m \in Members, a \in bounds.attachments : sendMessage(h, m, a)
    \/ \E m \in Members : deleteConversation(h, m)
    \/ \E i \in MessageIds : updateMessage(h, i)
    \/ \E m \in Members : requestAllMessages(h, m)
    \/ \E m, to \in Members, i, c \in MessageIds :
          m # to /\ deleteMessage(h, m, to, i, c)

Next ==
    \/ Clients \/ (\E h \in Requests : Step(h)) \/ Tick
    \/ (\E h \in Requests : Throw(h)) \/ Restart

\* Every issued operation is applied and answered.
Spec == Init /\ [][Next]_vars /\ \A h \in Requests : WF_vars(Step(h))

-----------------------------------------------------------------------------
(* Properties.                                                             *)

(* A message that brings a deleted conversation back to a participant is     *)
(* shown to that participant: 'update time joined another participant before *)
(* create message', so that createdAt is not before timeJoined.              *)
TimeJoinedBeforeMessage ==
    [][\A h \in Requests, m \in Members :
          updateManyTimeJoined(h) /\ HasLeft(m) =>
              messages[req[h].message].createdAt >= timeJoined'[m]]_vars

(* A conversation leaves a user's list only by that user's own delete,       *)
(* whatever sends, edits and deletes of others overlap with it.              *)
OnlyOwnDeleteHides ==
    [][\A m \in Members : Listed(m) /\ ~Listed(m)' =>
          \E h \in Requests : At(h, "leave") /\ req[h].who = m]_vars

(* A stored message brings the conversation back to the list of every        *)
(* participant, also of one who deletes it while the message is under way.   *)
MessageBringsBack ==
    \A h \in Requests, m \in Members :
        At(h, "inserted") /\ ~bounds.faults ~> Listed(m)

\* Requests do not overlap.
Sequential == Cardinality(bounds.requests) = 1

(* What a user deleted with a conversation is not among the messages that    *)
(* user is sent once the conversation is back in the list, in whatever order *)
(* deletes and rejoins of overlapping requests are issued and applied.       *)
HistoryStaysDeleted ==
    \A m \in Members : Listed(m) => MessagesSince(timeJoined[m]) \cap gone[m] = {}

(* A list of messages that is sent leaves out what those who get it deleted  *)
(* with the conversation, as long as they had it back by the instant from    *)
(* which the list was read: that is the timeJoined of the user who asks, so  *)
(* the answer is right unless that user deletes the conversation meanwhile,  *)
(* and what it shows to the receiver of deleteMessage depends on who of the  *)
(* two came back first: nobody looks at the receiver's timeJoined.           *)
ListsLeaveDeletedOut ==
    \A h \in Requests : At(h, "emit") =>
        \A m \in {req[h].who, req[h].to} :
            Listed(m) /\ timeJoined[m] <= req[h].at => req[h].list \cap gone[m] = {}

(* Between requests that do not overlap or fail, and as long as no message   *)
(* has been deleted, the conversation shows the newest message as its last   *)
(* one, with its attachments, whichever message was edited meanwhile.        *)
LastIsNewest ==
    /\ Sequential /\ ~bounds.faults
    /\ \A h \in Requests : At(h, "idle")
    /\ \A i \in DOMAIN messages : messages[i].active
    => /\ lastMessage = Len(messages)
       /\ \A i \in DOMAIN messages : messages[i].attachments # "missing"
=============================================================================
