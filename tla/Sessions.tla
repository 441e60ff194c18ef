------------------------------- MODULE Sessions -------------------------------
(***************************************************************************)
(* The gateway's registry of sockets (GatewaySessionManager) and the two   *)
(* lifecycle hooks of the gateway that write it.  The registry is a Map    *)
(* from a user to ONE socket: a second device of the same user overwrites  *)
(* the entry of the first, and the close of either device deletes it.      *)
(*                                                                         *)
(* A socket is authenticated by the adapter's middleware before the hook   *)
(* runs, so every socket carries its user: owner[s].  The middleware also  *)
(* lets in a valid token whose user is not stored any more (getById finds  *)
(* null), but no user is ever gone: deleteAccount makes a query and never  *)
(* executes it.                                                            *)
(***************************************************************************)
EXTENDS Naturals

CONSTANTS
    Users,      \* the accounts
    Sockets,    \* the socket ids that may connect; each connects at most
                \* once between two restarts, as socket.io ids are fresh
    owner,      \* owner[s]: the user the middleware found in the cookie
    NoSocket    \* what Map.get returns when there is no entry

ASSUME OwnerAssumption == owner \in [Sockets -> Users]
ASSUME NoSocketAssumption == NoSocket \notin Sockets

VARIABLES
    live,       \* the sockets that are connected
    sessions    \* the Map of GatewaySessionManager

sessVars == <<live, sessions>>

SessTypeOK ==
    /\ live \subseteq Sockets
    /\ sessions \in [Users -> Sockets \cup {NoSocket}]

getUserSocket(u) == sessions[u]

setUserSocket(u, s) == sessions' = [sessions EXCEPT ![u] = s]

\* Mutant: Map.clear instead of Map.delete.
removeEverySocket(u) == sessions' = [w \in Users |-> NoSocket]

removeUserSocket(u) == sessions' = [sessions EXCEPT ![u] = NoSocket]

SessInit ==
    /\ live = {}
    /\ sessions = [u \in Users |-> NoSocket]

\* The middleware let the socket in; handleConnection runs in the same tick.
handleConnection(s) ==
    /\ s \notin live
    /\ live' = live \cup {s}
    /\ setUserSocket(owner[s], s)

\* Mutant: the hook keeps the entry when another device is still connected.
handleDisconnectKeep(s) ==
    /\ s \in live
    /\ live' = live \ {s}
    /\ IF \E t \in live : t # s /\ owner[t] = owner[s]
         THEN UNCHANGED sessions
         ELSE removeUserSocket(owner[s])

\* Whichever socket of the user closes, the user's entry is deleted.
handleDisconnect(s) ==
    /\ s \in live
    /\ live' = live \ {s}
    /\ removeUserSocket(owner[s])

\* The process is restarted: sockets close and the Map is a new one.
SessRestart ==
    /\ live' = {}
    /\ sessions' = [u \in Users |-> NoSocket]

SessNext ==
    \/ \E s \in Sockets : handleConnection(s) \/ handleDisconnect(s)
    \/ SessRestart

SessSpec == SessInit /\ [][SessNext]_sessVars

-----------------------------------------------------------------------------

LiveOf(u) == {s \in live : owner[s] = u}

\* Somebody is connected, yet every emit to the user is skipped.
Stranded(u) == LiveOf(u) # {} /\ getUserSocket(u) = NoSocket

(* A socket that a handler obtains from getUserSocket was connected, and     *)
(* belonged to that very user, at the moment of the call: handlers emit      *)
(* private data (matches, deleted messages) to whatever the Map returns.     *)
RegisteredIsLive ==
    \A u \in Users : getUserSocket(u) # NoSocket => getUserSocket(u) \in LiveOf(u)

(* A user who is connected becomes unreachable only because one of two       *)
(* overlapping connections closed: with one device at a time the Map never   *)
(* loses anybody, whatever the order of connects and disconnects.            *)
StrandedOnlyByOverlap ==
    [][\A u \in Users :
          ~Stranded(u) /\ Stranded(u)' => \E s, t \in LiveOf(u) : s # t]_sessVars
=============================================================================
