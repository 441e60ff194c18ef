---------------------------- MODULE SessionsProofs ----------------------------
(***************************************************************************)
(* Proofs about the registry of sockets, for any users and sockets.        *)
(***************************************************************************)
EXTENDS Sessions, TLAPS

SessInv == SessTypeOK /\ RegisteredIsLive

(* Each hook and a restart keep the registry typed and free of closed        *)
(* sockets: the close of a socket removes whatever entry its user has.       *)
LEMMA SessStep == SessInv /\ [SessNext]_sessVars => SessInv'
<1> SUFFICES ASSUME SessInv, [SessNext]_sessVars PROVE SessInv'
  OBVIOUS
<1> USE DEF SessInv, SessTypeOK, RegisteredIsLive, LiveOf, getUserSocket
<1>1. ASSUME NEW s \in Sockets, handleConnection(s) PROVE SessInv'
  BY <1>1, OwnerAssumption, NoSocketAssumption DEF handleConnection, setUserSocket
<1>2. ASSUME NEW s \in Sockets, handleDisconnect(s) PROVE SessInv'
  BY <1>2, OwnerAssumption, NoSocketAssumption DEF handleDisconnect, removeUserSocket
<1>3. CASE SessRestart
  BY <1>3 DEF SessRestart
<1>4. CASE UNCHANGED sessVars
  BY <1>4 DEF sessVars
<1> QED
  BY <1>1, <1>2, <1>3, <1>4 DEF SessNext

LEMMA SessInvariant == SessSpec => []SessInv
<1>1. SessInit => SessInv
  BY DEF SessInit, SessInv, SessTypeOK, RegisteredIsLive, getUserSocket
<1> QED
  BY <1>1, SessStep, PTL DEF SessSpec

(* The Map never returns a closed socket or one of another user, so an emit  *)
(* on what getUserSocket returned reaches that user or, later, nobody.       *)
THEOREM Registered == SessSpec => []RegisteredIsLive
<1>1. SessInv => RegisteredIsLive
  BY DEF SessInv
<1> QED
  BY <1>1, SessInvariant, PTL

(* A connected user drops out of the Map only when one of two overlapping    *)
(* connections of that user closes.                                          *)
THEOREM Stranding == SessSpec => StrandedOnlyByOverlap
<1>1. ASSUME SessInv, [SessNext]_sessVars, NEW u \in Users, ~Stranded(u), Stranded(u)'
      PROVE  \E s, t \in LiveOf(u) : s # t
  <2> USE DEF SessInv, SessTypeOK, LiveOf, Stranded, getUserSocket
  <2>1. ASSUME NEW s \in Sockets, handleConnection(s) PROVE FALSE
    BY <1>1, <2>1, OwnerAssumption, NoSocketAssumption DEF handleConnection, setUserSocket
  <2>2. ASSUME NEW s \in Sockets, handleDisconnect(s)
        PROVE  \E a, b \in LiveOf(u) : a # b
    <3>1. owner[s] = u /\ s \in LiveOf(u)
      BY <1>1, <2>2, OwnerAssumption DEF handleDisconnect, removeUserSocket
    <3>2. PICK t \in live' : owner[t] = u
      BY <1>1
    <3>3. t \in LiveOf(u) /\ t # s
      BY <2>2, <3>2 DEF handleDisconnect
    <3> QED
      BY <3>1, <3>3
  <2>3. CASE SessRestart
    BY <1>1, <2>3 DEF SessRestart
  <2>4. CASE UNCHANGED sessVars
    BY <1>1, <2>4 DEF sessVars
  <2> QED
    BY <1>1, <2>1, <2>2, <2>3, <2>4 DEF SessNext
<1>2. SessInv /\ [SessNext]_sessVars =>
        [\A u \in Users :
           ~Stranded(u) /\ Stranded(u)' => \E s, t \in LiveOf(u) : s # t]_sessVars
  BY <1>1
<1> QED
  BY <1>2, SessInvariant, PTL DEF SessSpec, StrandedOnlyByOverlap
=============================================================================
