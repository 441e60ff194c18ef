--------------------------------- MODULE Calls ---------------------------------
(***************************************************************************)
(* Video and voice calls: the gateway passes the events of a call from one *)
(* user to the other and keeps nothing but a timer.  It finds a user by    *)
(* the registry, so by the socket that connected last.                     *)
(*                                                                         *)
(* What the clients show is external: a call that rings, one that was      *)
(* answered, that nobody is there.  A client may call whomever it wants,   *)
(* and again while a timer of its runs.                                    *)
(***************************************************************************)
EXTENDS Rooms

VARIABLES
    ringing,       \* external: <<the caller's socket, the socket that rings>>
    talking,       \* external: <<socket, <<caller, acceptor>> >>
    waiting,       \* waiting[s]: the timers that run for a socket
    unavailable,   \* external: sockets that were told, since their last call, that
                   \* the user is unavailable
    accepting,     \* handleCallAccepted in flight: see Accept
    offline,       \* history: sockets whose last call found nobody
    again,         \* history: sockets that called while a timer of theirs ran
    doubled        \* history: users with two sockets at once

callVars == <<ringing, talking, waiting, unavailable, accepting, offline, again, doubled>>
vars == <<bounds, sessVars, roomVars, callVars>>

Accept == [socket : Sockets, caller : Users, checked : BOOLEAN]

TypeOK ==
    /\ RoomsTypeOK
    /\ ringing \subseteq Sockets \X live
    /\ talking \subseteq live \X (Users \X Users)
    /\ waiting \in [Sockets -> Nat]
    /\ unavailable \subseteq live
    /\ accepting \subseteq Accept
    /\ offline \subseteq live /\ again \subseteq live /\ doubled \subseteq Users

Init ==
    /\ RoomsInit
    /\ ringing = {} /\ talking = {} /\ unavailable = {} /\ accepting = {}
    /\ waiting = [s \in Sockets |-> 0]
    /\ offline = {} /\ again = {} /\ doubled = {}

serverVars == <<bounds, sessVars, roomVars>>

\* VIDEO_CALL_INIT and VOICE_CALL_INIT: the other rings, or a timer is set.
\* Bounds: who may call whom, and the timers of a socket.
handleCallInit(s, v) ==
    /\ <<owner[s], v>> \in bounds.calls
    /\ s \in live
    /\ LET receiverSocket == getUserSocket(v) IN
         IF receiverSocket = NoSocket
           THEN /\ waiting[s] < bounds.requests
                /\ waiting' = [waiting EXCEPT ![s] = @ + 1]
                /\ offline' = offline \cup {s}
                /\ UNCHANGED ringing
           ELSE /\ ringing' = ringing \cup {<<s, receiverSocket>>}
                /\ offline' = offline \ {s}
                /\ UNCHANGED waiting
    /\ unavailable' = unavailable \ {s}
    /\ again' = IF waiting[s] > 0 THEN again \cup {s} ELSE again
    /\ UNCHANGED <<serverVars, talking, accepting, doubled>>

\* Mutant: the notice goes to the socket the registry has for the caller.
tellCaller(s) == {getUserSocket(owner[s])} \ {NoSocket}

\* Mutant: nobody is told while the caller's call rings.
tellUnlessRinging(s) == {s} \ {r[1] : r \in ringing}

\* The socket of the closure, which is connected: see Served.
ToldBy(s) == {s}

\* Two seconds later, whether the user is there or not by now, and whatever
\* the socket has called meanwhile.  The event names no call.
userUnavailable(s) ==
    /\ waiting[s] > 0
    /\ waiting' = [waiting EXCEPT ![s] = @ - 1]
    /\ unavailable' = unavailable \cup ToldBy(s)
    /\ UNCHANGED <<serverVars, ringing, talking, accepting, offline, again, doubled>>

-----------------------------------------------------------------------------
(* A call that rings is accepted, rejected or given up.                    *)

\* Whom the event names as the caller.
handleCallAccepted(s, cs) ==
    /\ <<cs, s>> \in ringing
    /\ Cardinality(accepting) < bounds.requests
    /\ accepting' = accepting \cup {[socket |-> s, caller |-> owner[cs], checked |-> FALSE]}
    /\ ringing' = ringing \ {<<cs, s>>}
    /\ UNCHANGED <<serverVars, talking, waiting, unavailable, offline, again, doubled>>

\* participants is a virtual of the schema, and the filter drops it: any
\* conversation will do, between whomever.  Without one the accept is refused.
isCreated(a) == created # {}

checkConversation(a) ==
    /\ a \in accepting /\ ~a.checked
    /\ accepting' = IF isCreated(a) THEN (accepting \ {a}) \cup {[a EXCEPT !.checked = TRUE]}
                                    ELSE accepting \ {a}
    /\ UNCHANGED <<serverVars, ringing, talking, waiting, unavailable, offline, again, doubled>>

\* Mutant: the acceptor is told without the caller.
TellAcceptor(a) ==
    {a.socket} \cup (IF getUserSocket(a.caller) = NoSocket THEN {} ELSE {getUserSocket(a.caller)})

\* The caller's socket of this moment, and then the acceptor's.
Tell(a) ==
    IF getUserSocket(a.caller) = NoSocket THEN {} ELSE {getUserSocket(a.caller), a.socket}

emitAccepted(a) ==
    /\ a \in accepting /\ a.checked
    /\ accepting' = accepting \ {a}
    /\ LET new == (Tell(a) \cap live) \X {<<a.caller, owner[a.socket]>>} IN
         talking' = talking \cup new
    /\ UNCHANGED <<serverVars, ringing, waiting, unavailable, offline, again, doubled>>

\* The caller's client is told, on the socket the registry has, and the call
\* rings no more.
handleVideoCallRejected(s, cs) ==
    /\ <<cs, s>> \in ringing
    /\ ringing' = ringing \ {<<cs, s>>}
    /\ UNCHANGED <<serverVars, talking, waiting, unavailable, accepting, offline, again, doubled>>

\* Mutant: both branches look for the caller's socket.
hangUpCaller(s, p) == {s, getUserSocket(p[1])}

\* The socket itself, and the one that the registry has for the other.
HangUpTo(s, p) == {s, getUserSocket(IF owner[s] = p[1] THEN p[2] ELSE p[1])}

\* Of a call that goes on, or that its caller gives up while it rings.
handleVideoCallHangUp(s, p) ==
    /\ \/ <<s, p>> \in talking
       \/ \E r \in ringing : r[1] = s /\ s \in live /\ p = <<owner[s], owner[r[2]]>>
    /\ talking' = talking \ (HangUpTo(s, p) \X {p})
    /\ ringing' = {r \in ringing : ~(owner[r[1]] = p[1] /\ r[2] \in HangUpTo(s, p))}
    /\ UNCHANGED <<serverVars, waiting, unavailable, accepting, offline, again, doubled>>

-----------------------------------------------------------------------------

\* What the rooms do, seen by calls: the screens of closed sockets are gone,
\* and a timer tells a closed socket nothing, so it is dropped with it.
Served ==
    /\ RoomsNext
    /\ ringing' = {r \in ringing : r[2] \in live'}
    /\ talking' = {t \in talking : t[1] \in live'}
    /\ unavailable' = unavailable \cap live'
    /\ offline' = offline \cap live' /\ again' = again \cap live'
    /\ waiting' = [s \in Sockets |-> IF s \in live' THEN waiting[s] ELSE 0]
    /\ accepting' = IF restart THEN {} ELSE accepting
    /\ doubled' = doubled \cup {u \in Users : \E s, t \in live' : s # t /\ {owner[s], owner[t]} = {u}}

CallsNext ==
    \/ \E s \in Sockets : userUnavailable(s) \/ \E v \in Users : handleCallInit(s, v)
    \/ \E s, cs \in Sockets : handleCallAccepted(s, cs) \/ handleVideoCallRejected(s, cs)
    \/ \E a \in accepting : checkConversation(a) \/ emitAccepted(a)
    \/ \E s \in Sockets, p \in Users \X Users : handleVideoCallHangUp(s, p)

Next == Served \/ CallsNext

Spec == Init /\ [][Next]_vars

-----------------------------------------------------------------------------
(* Properties.                                                             *)

(* Whoever is told that the call it accepted was accepted shares this with a *)
(* socket of the caller, although the caller may have gone, or changed       *)
(* sockets, while the conversation was looked up.                            *)
BothHear ==
    [][\A t \in talking' \ talking : LET p == t[2] IN
          owner[t[1]] = p[2] => \E s \in live : owner[s] = p[1] /\ <<s, p>> \in talking']_vars

(* Nobody talks to somebody with whom it shares no conversation: the gateway *)
(* looks for the conversation of the two, and answers 'Conversation not      *)
(* found' when there is none.                                                *)
AcceptedHaveConversation ==
    \A t \in talking :
        \E c \in created : {<<c, t[2][1]>>, <<c, t[2][2]>>} \subseteq participants

(* A hang-up ends the call for both: no call ends for one of the two, while  *)
(* no socket closes, and goes on for the other, unless one of them has had   *)
(* two devices at once: then the registry may know another socket than the   *)
(* one that talks, or none.                                                  *)
HangUpEndsBoth ==
    [][live' = live =>
          \A t \in talking \ talking' :
              {t[2][1], t[2][2]} \cap doubled = {} => \A q \in talking' : q[2] # t[2]]_vars

(* A socket whose last call found nobody has been told since, or will be: a  *)
(* timer of it runs, whatever it called before, who has connected meanwhile, *)
(* and which other devices and timers come and go.                           *)
OfflineCallEnds == \A s \in offline : s \in unavailable \/ waiting[s] > 0

(* Who is told that the user is unavailable has found nobody with its last   *)
(* call, so the notice never ends a call that rings or is answered; unless   *)
(* the socket has called again before the notice of an earlier call: nothing *)
(* cancels that timer, and its event does not name the call.                 *)
NoticeFitsTheCall == unavailable \subseteq offline \cup again
=============================================================================
