---------------------------- MODULE MatchingProofs ----------------------------
(***************************************************************************)
(* Proofs about Matching, for any users, sockets, requests and             *)
(* conversations.                                                          *)
(***************************************************************************)
EXTENDS Matching, SessionsProofs, TLAPS

-----------------------------------------------------------------------------
(* Type correctness.                                                       *)

(* The value of a free slot is a request, so that finishing a handler keeps  *)
(* the slots typed.                                                          *)
LEMMA IdleIsRequest ==
    /\ Nobody \in Users
    /\ \A u \in Users : Idle(u) \in Request
<1>1. Nobody \in Users
  BY UsersAssumption DEF Nobody
<1>2. ASSUME NEW u \in Users PROVE Idle(u) \in Request
  BY DEF Idle, Request, Stages
<1> QED
  BY <1>1, <1>2

(* The registry of sockets stays typed under each of its operations.         *)
LEMMA SessType ==
    ASSUME SessTypeOK,
           \/ UNCHANGED sessVars
           \/ SessNext
    PROVE  SessTypeOK'
<1> USE DEF SessTypeOK
<1>1. CASE UNCHANGED sessVars
  BY <1>1 DEF sessVars
<1>2. ASSUME NEW s \in Sockets, handleConnection(s) \/ handleDisconnect(s)
      PROVE  SessTypeOK'
  BY <1>2, OwnerAssumption
     DEF handleConnection, handleDisconnect, setUserSocket, removeUserSocket
<1>3. CASE SessRestart
  BY <1>3 DEF SessRestart
<1> QED
  BY <1>1, <1>2, <1>3 DEF SessNext

(* TypeOK is not inductive by itself: that a participant or a notification   *)
(* names a conversation rests on the request knowing the one it created.     *)
Known(r) ==
    /\ r.stage = "match" =>
          /\ "conversation" \in r.pending \/ r.rejected \/ r.conv \in ConversationIds
          /\ r.pending \cap {"sender", "receiver"} # {} => r.conv \in ConversationIds
    /\ r.stage \in {"notify", "object", "emit"} => r.conv \in ConversationIds

TypeInv ==
    /\ TypeOK
    /\ \A h \in Handlers : Known(req[h])

(* A slot that gets a typed request that knows its conversation leaves the   *)
(* slots typed and knowing theirs.                                           *)
LEMMA SlotUpdate ==
    ASSUME TypeInv, NEW h \in Handlers, NEW r \in Request, Known(r),
           req' = [req EXCEPT ![h] = r]
    PROVE  req' \in [Handlers -> Request] /\ \A g \in Handlers : Known(req'[g])
BY DEF TypeInv, TypeOK

(* A free slot knows its conversation.                                       *)
LEMMA IdleKnown == \A u \in Users : Known(Idle(u))
BY DEF Known, Idle

(* Each step of createUserLike keeps its own slot typed and knowing.         *)
LEMMA StepSlot ==
    ASSUME TypeInv, NEW h \in Handlers, Step(h)
    PROVE  req' \in [Handlers -> Request] /\ \A g \in Handlers : Known(req'[g])
<1> DEFINE r == req[h]
<1>r. r \in Request /\ Known(r)
  BY DEF TypeInv, TypeOK
<1>idle. CASE Finish(h)
  BY <1>idle, SlotUpdate, IdleIsRequest, IdleKnown DEF Finish
<1>1. CASE checkExistingLike(h)
  <2> DEFINE seen == <<r.to, r.from>> \in likes
  <2> DEFINE n == [r EXCEPT !.existingLiked = seen, !.stage = "like"]
  <2>2. req' = [req EXCEPT ![h] = n]
    BY <1>1 DEF checkExistingLike
  <2>3. seen \in BOOLEAN
    OBVIOUS
  <2> HIDE DEF seen
  <2>1. n \in Request /\ Known(n)
    BY <1>r, <2>3 DEF Request, Stages, Known
  <2> QED
    BY <2>1, <2>2, SlotUpdate
<1>2. CASE createLike(h)
  <2> DEFINE n == [r EXCEPT !.stage = "liked"]
  <2>1. n \in Request /\ Known(n)
    BY <1>r DEF Request, Stages, Known
  <2>2. req' = [req EXCEPT ![h] = n]
    BY <1>2 DEF createLike, Goto
  <2> QED
    BY <2>1, <2>2, SlotUpdate
<1>3. CASE createLikeDuplicate(h)
  BY <1>3, <1>idle DEF createLikeDuplicate
<1>4. CASE afterLike(h) /\ req[h].existingLiked
  <2> DEFINE n == [r EXCEPT !.stage = "match",
                            !.peer = getUserSocket(r.to),
                            !.pending = {"conversation", "match"}]
  <2>1. getUserSocket(r.to) \in Sockets \cup {NoSocket}
    BY <1>r DEF getUserSocket, TypeInv, TypeOK, SessTypeOK, Request
  <2>2. n \in Request /\ Known(n)
    BY <1>r, <2>1 DEF Request, Stages, Operations, Known
  <2>3. req' = [req EXCEPT ![h] = n]
    BY <1>4 DEF afterLike, IssueMatch
  <2> QED
    BY <2>2, <2>3, SlotUpdate
<1>5. CASE createConversation(h)
  <2>1. PICK c \in ConversationIds :
          req' = [req EXCEPT ![h].conv = c,
                             ![h].pending = (@ \ {"conversation"})
                                               \cup {"sender", "receiver"}]
    BY <1>5 DEF createConversation
  <2> DEFINE p == (r.pending \ {"conversation"}) \cup {"sender", "receiver"}
  <2> DEFINE n == [r EXCEPT !.conv = c, !.pending = p]
  <2>2. p \in SUBSET Operations
    BY <1>r DEF Request, Operations
  <2>3. r.stage = "match"
    BY <1>5 DEF createConversation, Pending, At
  <2>4. n \in Request /\ Known(n)
    BY <1>r, <2>2, <2>3 DEF Request, Known
  <2>5. req' = [req EXCEPT ![h] = n]
    BY <2>1
  <2> QED
    BY <2>4, <2>5, SlotUpdate
<1>6. ASSUME NEW op \in Operations, createParticipant(h, op)
      PROVE  req' \in [Handlers -> Request] /\ \A g \in Handlers : Known(req'[g])
  <2> DEFINE p == r.pending \ {op}
  <2> DEFINE n == [r EXCEPT !.pending = p]
  <2>1. p \in SUBSET Operations
    BY <1>r DEF Request
  <2>2. n \in Request /\ Known(n)
    BY <1>r, <1>6, <2>1 DEF createParticipant, Pending, At, Request, Known
  <2>3. req' = [req EXCEPT ![h] = n]
    BY <1>6 DEF createParticipant
  <2> QED
    BY <2>2, <2>3, SlotUpdate
<1>7. CASE createMatch(h)
  <2> DEFINE p == r.pending \ {"match"}
  <2> DEFINE x == r.rejected \/ NewMatch(h) \in matches
  <2> DEFINE n == [r EXCEPT !.pending = p, !.rejected = x]
  <2>1. p \in SUBSET Operations
    BY <1>r DEF Request
  <2>2. x \in BOOLEAN /\ (r.rejected => x)
    OBVIOUS
  <2>3. req' = [req EXCEPT ![h] = n]
    BY <1>7 DEF createMatch
  <2> HIDE DEF x
  <2>4. n \in Request /\ Known(n)
    BY <1>r, <1>7, <2>1, <2>2 DEF createMatch, Pending, At, Request, Known
  <2> QED
    BY <2>3, <2>4, SlotUpdate
<1>8. CASE afterMatch(h) /\ ~req[h].rejected
  <2> DEFINE n == [r EXCEPT !.stage = "notify"]
  <2>1. r.conv \in ConversationIds
    BY <1>r, <1>8 DEF afterMatch, At, Known
  <2>2. n \in Request /\ Known(n)
    BY <1>r, <2>1 DEF Request, Stages, Known
  <2>3. req' = [req EXCEPT ![h] = n]
    BY <1>8 DEF afterMatch, Goto
  <2> QED
    BY <2>2, <2>3, SlotUpdate
<1>9. CASE createNotificationMatched(h)
  <2> DEFINE n == [r EXCEPT !.stage = "object"]
  <2>1. n \in Request /\ Known(n)
    BY <1>r, <1>9 DEF createNotificationMatched, At, Request, Stages, Known
  <2>2. req' = [req EXCEPT ![h] = n]
    BY <1>9 DEF createNotificationMatched, Goto
  <2> QED
    BY <2>1, <2>2, SlotUpdate
<1>10. CASE createNotificationObjects(h)
  <2> DEFINE n == [r EXCEPT !.stage = "emit"]
  <2>1. n \in Request /\ Known(n)
    BY <1>r, <1>10 DEF createNotificationObjects, At, Request, Stages, Known
  <2>2. req' = [req EXCEPT ![h] = n]
    BY <1>10 DEF createNotificationObjects, Goto
  <2> QED
    BY <2>1, <2>2, SlotUpdate
<1> QED
  BY <1>idle, <1>1, <1>2, <1>3, <1>4, <1>5, <1>6, <1>7, <1>8, <1>9, <1>10
     DEF Step, afterLike, afterMatch, emitMatched

\* Steps that leave every slot alone, or free one.
LEMMA QuietSlot ==
    ASSUME TypeInv,
           UNCHANGED req \/ \E h \in Handlers : Finish(h)
    PROVE  req' \in [Handlers -> Request] /\ \A g \in Handlers : Known(req'[g])
<1>1. CASE UNCHANGED req
  BY <1>1 DEF TypeInv, TypeOK
<1>2. ASSUME NEW h \in Handlers, Finish(h)
      PROVE  req' \in [Handlers -> Request] /\ \A g \in Handlers : Known(req'[g])
  BY <1>2, SlotUpdate, IdleIsRequest, IdleKnown DEF Finish
<1> QED
  BY <1>1, <1>2

(* What createUserLike adds to the database is typed.                        *)
LEMMA StepDb ==
    ASSUME TypeInv, NEW h \in Handlers, Step(h)
    PROVE  /\ SessTypeOK'
           /\ likes' \subseteq Users \X Users
           /\ matches' \subseteq Users \X Users
           /\ conversations' \subseteq ConversationIds
           /\ participants' \subseteq ConversationIds \X Users
           /\ notices' \subseteq ConversationIds \X Users
           /\ inbox' \subseteq ConversationIds \X Users
           /\ told' \subseteq ConversationIds \X Users
<1>r. req[h] \in Request /\ Known(req[h])
  BY DEF TypeInv, TypeOK
<1>s. UNCHANGED sessVars
  BY DEF Step, checkExistingLike, createLike, createLikeDuplicate, afterLike,
         createConversation, createParticipant, createMatch, afterMatch,
         createNotificationMatched, createNotificationObjects, emitMatched
<1>t. SessTypeOK'
  BY <1>s, SessType DEF TypeInv, TypeOK
<1>n. At(h, "notify") \/ At(h, "object") => NewNotices(h) \subseteq ConversationIds \X Users
  BY <1>r DEF At, Known, NewNotices, Request
<1> USE <1>t DEF TypeInv, TypeOK, dbVars
<1>1. CASE checkExistingLike(h) \/ createLikeDuplicate(h) \/ afterLike(h)
           \/ afterMatch(h)
  BY <1>1 DEF checkExistingLike, createLikeDuplicate, afterLike, afterMatch
<1>2. CASE createLike(h)
  BY <1>2, <1>r DEF createLike, Request
<1>3. CASE createConversation(h)
  BY <1>3 DEF createConversation
<1>4. ASSUME NEW op \in Operations, createParticipant(h, op)
      PROVE  participants' \subseteq ConversationIds \X Users
  <2>1. <<req[h].conv, Member(h, op)>> \in ConversationIds \X Users
    BY <1>4, <1>r DEF createParticipant, Pending, At, Known, Member, Request
  <2> QED
    BY <1>4, <2>1 DEF createParticipant
<1>5. CASE \E op \in Operations : createParticipant(h, op)
  BY <1>4, <1>5 DEF createParticipant
<1>6. CASE createMatch(h)
  BY <1>6, <1>r DEF createMatch, NewMatch, Request
<1>7. CASE createNotificationMatched(h)
  BY <1>7, <1>n DEF createNotificationMatched
<1>8. CASE createNotificationObjects(h)
  BY <1>8, <1>n DEF createNotificationObjects
<1>9. CASE emitMatched(h)
  <2>1. Reached(h) \subseteq ConversationIds \X Users
    BY <1>9, <1>r, OwnerAssumption DEF emitMatched, At, Known, Reached, SessTypeOK
  <2> QED
    BY <1>9, <2>1 DEF emitMatched
<1> QED
  BY <1>1, <1>2, <1>3, <1>5, <1>6, <1>7, <1>8, <1>9 DEF Step

(* Every step of the system keeps TypeInv: one case per client, handler and  *)
(* fault action.                                                             *)
LEMMA TypeStep == TypeInv /\ [Next]_vars => TypeInv'
<1> SUFFICES ASSUME TypeInv, [Next]_vars PROVE TypeInv'
  OBVIOUS
<1> USE DEF TypeInv, TypeOK, dbVars
<1>1. ASSUME NEW h \in Handlers, NEW s \in Sockets, NEW v \in Users,
             createUserLike(h, s, v)
      PROVE  TypeInv'
  <2> DEFINE n == [Idle(owner[s]) EXCEPT !.stage = "check", !.to = v, !.sock = s]
  <2>1. n \in Request /\ Known(n)
    BY OwnerAssumption DEF Idle, Request, Stages, Known
  <2>2. req' = [req EXCEPT ![h] = n]
    BY <1>1 DEF createUserLike
  <2>3. SessTypeOK'
    BY <1>1, SessType DEF createUserLike
  <2> QED
    BY <1>1, <2>1, <2>2, <2>3, SlotUpdate DEF createUserLike
<1>2. ASSUME NEW h \in Handlers, Step(h) PROVE TypeInv'
  BY <1>2, StepSlot, StepDb
<1>3. CASE Connections
  BY <1>3, SessType, QuietSlot DEF Connections, SessNext
<1>4. ASSUME NEW u \in Users, NEW v \in Users, restCreateLike(u, v) PROVE TypeInv'
  BY <1>4, SessType, QuietSlot DEF restCreateLike
<1>5. ASSUME NEW h \in Handlers, Throw(h) PROVE TypeInv'
  BY <1>5, SessType, QuietSlot DEF Throw
<1>6. ASSUME NEW h \in Handlers, insertManyFails(h) PROVE TypeInv'
  <2>1. <<req[h].conv, req[h].from>> \in ConversationIds \X Users
    BY <1>6 DEF insertManyFails, At, Known, Request
  <2> QED
    BY <1>6, <2>1, SessType, QuietSlot DEF insertManyFails
<1>7. ASSUME NEW h \in Handlers, rejectOne(h) PROVE TypeInv'
  <2>1. PICK op \in Operations :
          /\ Pending(h, op)
          /\ req' = [req EXCEPT ![h].pending = @ \ {op}, ![h].rejected = TRUE]
    BY <1>7 DEF rejectOne
  <2> DEFINE p == req[h].pending \ {op}
  <2> DEFINE n == [req[h] EXCEPT !.pending = p, !.rejected = TRUE]
  <2>2. p \in SUBSET Operations
    BY DEF Request
  <2>3. n \in Request /\ Known(n)
    BY <2>1, <2>2 DEF Pending, At, Request, Known
  <2>4. req' = [req EXCEPT ![h] = n]
    BY <2>1
  <2> QED
    BY <1>7, <2>3, <2>4, SlotUpdate, SessType DEF rejectOne
<1>8. CASE Restart
  <2>1. SessTypeOK'
    BY <1>8, SessType DEF Restart, SessNext
  <2> QED
    BY <1>8, <2>1, IdleIsRequest, IdleKnown DEF Restart
<1>9. CASE UNCHANGED vars
  BY <1>9, SessType, QuietSlot DEF vars
<1> QED
  BY <1>1, <1>2, <1>3, <1>4, <1>5, <1>6, <1>7, <1>8, <1>9
     DEF Next, Environment, Work, Fault

(* The state of the matching is typed in every reachable state: above all, a *)
(* participant and a notification always name a conversation that exists.    *)
THEOREM TypeCorrect == Spec => []TypeOK
<1>1. Init => TypeInv
  BY IdleIsRequest, IdleKnown DEF Init, SessInit, TypeInv, TypeOK, SessTypeOK
<1>2. TypeInv => TypeOK
  BY DEF TypeInv
<1> QED
  BY <1>1, <1>2, TypeStep, PTL DEF Spec

-----------------------------------------------------------------------------
(* At most one match.  The inductive invariant says why: a like is stored    *)
(* once, so at most one request per pair stores the second of its two likes, *)
(* and only that request matches the pair.                                   *)

\* A request past its insert that saw the opposite like before it.
Winner(h) ==
    /\ req[h].stage \in {"liked", "match", "notify", "object", "emit"}
    /\ req[h].existingLiked

PairOf(h) == {req[h].from, req[h].to}

LikesOf(h) == {<<req[h].from, req[h].to>>, <<req[h].to, req[h].from>>}

\* What a request remembers of the opposite like is still true: no like is deleted.
SeenIsStored == \A h \in Handlers :
    req[h].existingLiked => <<req[h].to, req[h].from>> \in likes

\* A winner has stored its own like.
WinnerHasLike == \A h \in Handlers : Winner(h) => <<req[h].from, req[h].to>> \in likes

\* Only a request that saw the opposite like gets to the Promise.all.
MatchingSaw == \A h \in Handlers : At(h, "match") => req[h].existingLiked

\* A pair has one winner: its like was the second of the two.
OneWinner == \A g, h \in Handlers :
    Winner(g) /\ Winner(h) /\ PairOf(g) = PairOf(h) => g = h

\* A pair that a request is about to match is not matched yet.
NotYetMatched == \A h \in Handlers : AboutToMatch(h) => LikesOf(h) \cap matches = {}

IInv ==
    /\ TypeInv
    /\ SeenIsStored
    /\ WinnerHasLike
    /\ MatchingSaw
    /\ OneWinner
    /\ MatchImpliesMutualLikes
    /\ NotYetMatched
    /\ AtMostOneMatchPerPair

\* The slots move on without a new winner and without a new intent to match.
Tame ==
    \A h \in Handlers :
        /\ req[h]'.existingLiked => <<req[h]'.to, req[h]'.from>> \in likes
        /\ Winner(h)' => Winner(h) /\ UNCHANGED <<req[h].from, req[h].to>>
        /\ AboutToMatch(h)' => AboutToMatch(h)
        /\ At(h, "match")' => req[h]'.existingLiked

(* A step that is tame and adds at most likes keeps the invariant.           *)
LEMMA TameStep ==
    ASSUME IInv, TypeInv', Tame, likes \subseteq likes', matches' = matches
    PROVE  IInv'
<1>0. \A h \in Handlers : AboutToMatch(h) /\ MatchingSaw => Winner(h)
  BY DEF AboutToMatch, Winner, Pending, At, MatchingSaw
<1>0p. \A h \in Handlers : AboutToMatch(h)' /\ MatchingSaw' => Winner(h)'
  BY DEF AboutToMatch, Winner, Pending, At, MatchingSaw
<1>1. SeenIsStored'
  BY DEF Tame, SeenIsStored
<1>2. WinnerHasLike'
  BY DEF IInv, Tame, WinnerHasLike
<1>3. MatchingSaw'
  BY DEF Tame, MatchingSaw
<1>4. OneWinner'
  BY DEF IInv, Tame, OneWinner, PairOf
<1>5. MatchImpliesMutualLikes'
  BY DEF IInv, MatchImpliesMutualLikes
<1>6. NotYetMatched'
  BY <1>3, <1>0p DEF IInv, Tame, NotYetMatched, LikesOf
<1>7. AtMostOneMatchPerPair'
  BY DEF IInv, AtMostOneMatchPerPair
<1> QED
  BY <1>1, <1>2, <1>3, <1>4, <1>5, <1>6, <1>7 DEF IInv

(* Every step but the two inserts, of a like and of a match, is tame.        *)
LEMMA OtherStep ==
    ASSUME IInv, [Next]_vars,
           \A h \in Handlers : ~createLike(h) /\ ~createMatch(h)
    PROVE  Tame /\ likes \subseteq likes' /\ matches' = matches
<1> USE DEF Tame, At, Goto, Finish, Idle, Winner, AboutToMatch, Pending, dbVars
<1>r. req \in [Handlers -> Request] /\ SeenIsStored /\ MatchingSaw
  BY DEF IInv, TypeInv, TypeOK
<1> USE <1>r DEF SeenIsStored, MatchingSaw
<1>1. ASSUME NEW h \in Handlers, NEW s \in Sockets, NEW v \in Users,
             createUserLike(h, s, v)
      PROVE  Tame /\ likes \subseteq likes' /\ matches' = matches
  BY <1>1 DEF createUserLike
<1>2. ASSUME NEW h \in Handlers, Step(h)
      PROVE  Tame /\ likes \subseteq likes' /\ matches' = matches
  <2>1. CASE checkExistingLike(h)
    BY <2>1 DEF checkExistingLike, Request
  <2>2. CASE createLikeDuplicate(h)
    BY <2>2 DEF createLikeDuplicate
  <2>3. CASE afterLike(h)
    BY <2>3 DEF afterLike, IssueMatch, Request
  <2>4. CASE createConversation(h)
    BY <2>4 DEF createConversation, Request
  <2>5. CASE \E op \in Operations : createParticipant(h, op)
    BY <2>5 DEF createParticipant, Request
  <2>6. CASE afterMatch(h)
    BY <2>6 DEF afterMatch, Request
  <2>7. CASE createNotificationMatched(h)
    BY <2>7 DEF createNotificationMatched, Request
  <2>8. CASE createNotificationObjects(h)
    BY <2>8 DEF createNotificationObjects, Request
  <2>9. CASE emitMatched(h)
    BY <2>9 DEF emitMatched
  <2> QED
    BY <1>2, <2>1, <2>2, <2>3, <2>4, <2>5, <2>6, <2>7, <2>8, <2>9 DEF Step
<1>3. CASE Connections
  BY <1>3 DEF Connections
<1>4. ASSUME NEW u \in Users, NEW v \in Users, restCreateLike(u, v)
      PROVE  Tame /\ likes \subseteq likes' /\ matches' = matches
  BY <1>4 DEF restCreateLike
<1>5. ASSUME NEW h \in Handlers, Throw(h) \/ insertManyFails(h)
      PROVE  Tame /\ likes \subseteq likes' /\ matches' = matches
  BY <1>5 DEF Throw, insertManyFails
<1>6. ASSUME NEW h \in Handlers, rejectOne(h)
      PROVE  Tame /\ likes \subseteq likes' /\ matches' = matches
  BY <1>6 DEF rejectOne, Request
<1>7. CASE Restart
  BY <1>7 DEF Restart
<1>8. CASE UNCHANGED vars
  BY <1>8 DEF vars
<1> QED
  BY <1>1, <1>2, <1>3, <1>4, <1>5, <1>6, <1>7, <1>8
     DEF Next, Environment, Work, Fault

(* The insert of a like.  The like is new, so no other request has won the   *)
(* pair before and the pair is not matched: both need the like.              *)
LEMMA LikeStep ==
    ASSUME IInv, TypeInv', NEW h \in Handlers, createLike(h)
    PROVE  IInv'
<1> DEFINE u == req[h].from
           v == req[h].to
<1>0. /\ req \in [Handlers -> Request]
      /\ u \in Users /\ v \in Users
      /\ h \in DOMAIN req /\ req[h] \in Request
  BY DEF IInv, TypeInv, TypeOK, Request
<1>1. /\ <<u, v>> \notin likes
      /\ likes' = likes \cup {<<u, v>>}
      /\ matches' = matches
      /\ At(h, "like")
  BY DEF createLike
<1>2. /\ \A g \in Handlers : g # h => req'[g] = req[g]
      /\ req'[h] = [req[h] EXCEPT !.stage = "liked"]
  BY <1>0 DEF createLike, Goto
<1>3. /\ req'[h].stage = "liked"
      /\ req'[h].from = u /\ req'[h].to = v
      /\ req'[h].existingLiked = req[h].existingLiked
  BY <1>0, <1>2 DEF Request
<1>4. SeenIsStored'
  BY <1>1, <1>2, <1>3 DEF IInv, SeenIsStored
<1>5. WinnerHasLike'
  BY <1>1, <1>2, <1>3 DEF IInv, WinnerHasLike, Winner
<1>6. MatchingSaw'
  BY <1>1, <1>2, <1>3 DEF IInv, MatchingSaw, At
<1>7. ASSUME NEW g \in Handlers, g # h, Winner(g)
      PROVE  PairOf(g) # {u, v}
  <2>1. {<<req[g].from, req[g].to>>, <<req[g].to, req[g].from>>} \subseteq likes
    BY <1>7 DEF IInv, WinnerHasLike, SeenIsStored, Winner
  <2> QED
    BY <1>1, <2>1 DEF PairOf
<1>8. OneWinner'
  <2>1. PairOf(h)' = {u, v}
    BY <1>3 DEF PairOf
  <2>2. ASSUME NEW g \in Handlers, g # h
        PROVE  PairOf(g)' = PairOf(g) /\ (Winner(g)' => Winner(g))
    BY <1>2, <2>2 DEF PairOf, Winner
  <2>3. ASSUME NEW g \in Handlers, NEW k \in Handlers,
               Winner(g)', Winner(k)', PairOf(g)' = PairOf(k)'
        PROVE  g = k
    BY <1>7, <2>1, <2>2, <2>3 DEF IInv, OneWinner
  <2> QED
    BY <2>3 DEF OneWinner
<1>9. MatchImpliesMutualLikes'
  BY <1>1 DEF IInv, MatchImpliesMutualLikes
<1>10. LikesOf(h) \cap matches = {}
  BY <1>0, <1>1 DEF LikesOf, IInv, MatchImpliesMutualLikes
<1>11. NotYetMatched'
  BY <1>1, <1>2, <1>3, <1>10
     DEF IInv, NotYetMatched, AboutToMatch, At, Pending, LikesOf
<1>12. AtMostOneMatchPerPair'
  BY <1>1 DEF IInv, AtMostOneMatchPerPair
<1> QED
  BY <1>4, <1>5, <1>6, <1>8, <1>9, <1>11, <1>12 DEF IInv

(* The insert of a match.  The request is the only winner of its pair, so no *)
(* other request still means to match it.                                    *)
LEMMA MatchStep ==
    ASSUME IInv, TypeInv', NEW h \in Handlers, createMatch(h)
    PROVE  IInv'
<1> DEFINE u == req[h].from
           v == req[h].to
<1>0. /\ req \in [Handlers -> Request]
      /\ u \in Users /\ v \in Users
      /\ req[h] \in Request
  BY DEF IInv, TypeInv, TypeOK, Request
<1>1. /\ likes' = likes
      /\ matches' = matches \cup {<<v, u>>}
      /\ Pending(h, "match")
  BY DEF createMatch, NewMatch
<1>2. /\ \A g \in Handlers : g # h => req'[g] = req[g]
      /\ req'[h] = [req[h] EXCEPT !.pending = @ \ {"match"},
                                  !.rejected = @ \/ NewMatch(h) \in matches]
  BY <1>0 DEF createMatch
<1>3. /\ req'[h].stage = "match" /\ req'[h].existingLiked
      /\ req'[h].from = u /\ req'[h].to = v
      /\ "match" \notin req'[h].pending
  BY <1>0, <1>1, <1>2 DEF Request, Pending, At, IInv, MatchingSaw
<1>4. Winner(h) /\ AboutToMatch(h)
  BY <1>1 DEF Winner, AboutToMatch, Pending, At, IInv, MatchingSaw
<1>5. SeenIsStored'
  BY <1>1, <1>2, <1>3, <1>4 DEF IInv, SeenIsStored, Winner
<1>6. WinnerHasLike'
  BY <1>1, <1>2, <1>3, <1>4 DEF IInv, WinnerHasLike, Winner
<1>7. MatchingSaw'
  BY <1>1, <1>2, <1>3 DEF IInv, MatchingSaw, At
<1>8. OneWinner'
  <2>1. ASSUME NEW g \in Handlers
        PROVE  PairOf(g)' = PairOf(g) /\ (Winner(g)' => Winner(g))
    BY <1>2, <1>3, <1>4 DEF PairOf, Winner
  <2> QED
    BY <2>1 DEF IInv, OneWinner
<1>9. {<<u, v>>, <<v, u>>} \subseteq likes
  BY <1>4 DEF IInv, WinnerHasLike, SeenIsStored, Winner
<1>10. MatchImpliesMutualLikes'
  <2>1. \A m \in matches' : m \in matches \/ m = <<v, u>>
    BY <1>1
  <2> QED
    BY <1>1, <1>9, <2>1 DEF IInv, MatchImpliesMutualLikes
<1>11. ASSUME NEW g \in Handlers, AboutToMatch(g)'
       PROVE  LikesOf(g)' \cap matches' = {}
  <2>1. g # h
    BY <1>3, <1>11 DEF AboutToMatch, Pending, At
  <2>2. req'[g] = req[g]
    BY <1>2, <2>1
  <2>3. AboutToMatch(g) /\ LikesOf(g)' = LikesOf(g)
    BY <1>11, <2>2 DEF AboutToMatch, Pending, At, LikesOf
  <2>4. Winner(g)
    BY <2>3 DEF AboutToMatch, Winner, Pending, At, IInv, MatchingSaw
  <2>5. PairOf(g) # {u, v}
    BY <1>4, <2>1, <2>4 DEF IInv, OneWinner, PairOf
  <2>6. <<v, u>> \notin LikesOf(g)
    BY <2>5 DEF LikesOf, PairOf
  <2> QED
    BY <1>1, <2>3, <2>6 DEF IInv, NotYetMatched
<1>12. NotYetMatched'
  BY <1>11 DEF NotYetMatched
<1>13. <<u, v>> \notin matches
  BY <1>4 DEF IInv, NotYetMatched, LikesOf
<1>14. AtMostOneMatchPerPair'
  BY <1>1, <1>13 DEF IInv, AtMostOneMatchPerPair
<1> QED
  BY <1>5, <1>6, <1>7, <1>8, <1>10, <1>12, <1>14 DEF IInv

(* The invariant holds in every reachable state.                             *)
LEMMA InvStep == IInv /\ [Next]_vars => IInv'
<1> SUFFICES ASSUME IInv, [Next]_vars PROVE IInv'
  OBVIOUS
<1>1. TypeInv'
  BY TypeStep DEF IInv
<1>2. CASE \E h \in Handlers : createLike(h)
  BY <1>1, <1>2, LikeStep
<1>3. CASE \E h \in Handlers : createMatch(h)
  BY <1>1, <1>3, MatchStep
<1>4. CASE \A h \in Handlers : ~createLike(h) /\ ~createMatch(h)
  BY <1>1, <1>4, OtherStep, TameStep
<1> QED
  BY <1>2, <1>3, <1>4

LEMMA InvInit == Init => IInv
<1> SUFFICES ASSUME Init PROVE IInv
  OBVIOUS
<1>1. TypeInv
  BY IdleIsRequest, IdleKnown DEF Init, SessInit, TypeInv, TypeOK, SessTypeOK
<1> QED
  BY <1>1 DEF Init, IInv, Idle, At, Pending, Winner, AboutToMatch, SeenIsStored,
              WinnerHasLike, MatchingSaw, OneWinner, MatchImpliesMutualLikes,
              NotYetMatched, AtMostOneMatchPerPair

THEOREM Invariant == Spec => []IInv
BY InvInit, InvStep, PTL DEF Spec

(* Two users are never matched twice, in one direction or the other, for any *)
(* number of concurrent requests and REST likes and with failures and        *)
(* restarts: createUserLike needs no transaction for it.                     *)
THEOREM OneMatch == Spec => []AtMostOneMatchPerPair
<1>1. IInv => AtMostOneMatchPerPair
  BY DEF IInv
<1> QED
  BY <1>1, Invariant, PTL

(* Nobody is matched without having liked the other.                         *)
THEOREM MutualLikes == Spec => []MatchImpliesMutualLikes
<1>1. IInv => MatchImpliesMutualLikes
  BY DEF IInv
<1> QED
  BY <1>1, Invariant, PTL

(* A mutual like that was missed is never turned into a match by a later     *)
(* request: there is no action in the system that repairs it.                *)
THEOREM MissedForGood == Spec => LostMatchIsPermanent
<1>1. ASSUME IInv, [Next]_vars, NEW u \in Users, NEW v \in Users, Lost(u, v)
      PROVE  Lost(u, v)'
  <2>0. req \in [Handlers -> Request]
    BY <1>1 DEF IInv, TypeInv, TypeOK
  <2>1. CASE \E h \in Handlers : createLike(h)
    <3>1. PICK h \in Handlers : createLike(h)
      BY <2>1
    <3>2. {req[h].from, req[h].to} # {u, v}
      BY <1>1, <3>1 DEF createLike, Lost
    <3>3. /\ likes \subseteq likes' /\ matches' = matches
          /\ \A g \in Handlers : g # h => req'[g] = req[g]
          /\ req'[h] = [req[h] EXCEPT !.stage = "liked"]
      BY <2>0, <3>1 DEF createLike, Goto
    <3>4. req'[h].from = req[h].from /\ req'[h].to = req[h].to
      BY <2>0, <3>3 DEF Request
    <3> QED
      BY <1>1, <3>2, <3>3, <3>4 DEF Lost, AboutToMatch, At, Pending
  <2>2. CASE \E h \in Handlers : createMatch(h)
    <3>1. PICK h \in Handlers : createMatch(h)
      BY <2>2
    <3>2. {req[h].from, req[h].to} # {u, v}
      BY <1>1, <3>1 DEF createMatch, Lost, AboutToMatch
    <3>3. /\ likes' = likes /\ matches' = matches \cup {<<req[h].to, req[h].from>>}
          /\ \A g \in Handlers : g # h => req'[g] = req[g]
          /\ req'[h] = [req[h] EXCEPT !.pending = @ \ {"match"},
                                      !.rejected = @ \/ NewMatch(h) \in matches]
      BY <2>0, <3>1 DEF createMatch, NewMatch
    <3>4. req'[h].from = req[h].from /\ req'[h].to = req[h].to
      BY <2>0, <3>3 DEF Request
    <3>5. {<<u, v>>, <<v, u>>} \cap matches' = {}
      BY <1>1, <3>2, <3>3 DEF Lost
    <3>6. ASSUME NEW g \in Handlers, AboutToMatch(g)'
          PROVE  {req[g].from, req[g].to}' # {u, v}
      BY <1>1, <3>2, <3>3, <3>4, <3>6 DEF Lost, AboutToMatch, At, Pending
    <3> QED
      BY <1>1, <3>3, <3>5, <3>6 DEF Lost
  <2>3. CASE \A h \in Handlers : ~createLike(h) /\ ~createMatch(h)
    <3>1. Tame /\ likes \subseteq likes' /\ matches' = matches
      BY <1>1, <2>3, OtherStep
    <3>2. MatchingSaw'
      BY <3>1 DEF Tame, MatchingSaw
    <3>3. \A g \in Handlers : AboutToMatch(g)' =>
             AboutToMatch(g) /\ UNCHANGED <<req[g].from, req[g].to>>
      BY <3>1, <3>2 DEF Tame, MatchingSaw, AboutToMatch, Winner, At, Pending
    <3> QED
      BY <1>1, <3>1, <3>3 DEF Lost
  <2> QED
    BY <2>1, <2>2, <2>3
<1>2. IInv /\ [Next]_vars =>
        [\A u, v \in Users : Lost(u, v) => Lost(u, v)']_vars
  BY <1>1
<1> QED
  BY <1>2, Invariant, PTL DEF Spec, LostMatchIsPermanent

-----------------------------------------------------------------------------
(* The handlers keep the promise: a step is a Like, a Match or a stutter.    *)

Pairs == {{m[1], m[2]} : m \in matches}

(* The insert of a match is a Match step: the pair is new, unordered.        *)
LEMMA MatchRefines ==
    ASSUME IInv, NEW h \in Handlers, createMatch(h)
    PROVE  \E a, b \in Users : Promise!Match(a, b)
<1> DEFINE u == req[h].from
           v == req[h].to
<1>1. u \in Users /\ v \in Users /\ matches \subseteq Users \X Users
  BY DEF IInv, TypeInv, TypeOK, Request
<1>2. /\ likes' = likes
      /\ matches' = matches \cup {<<v, u>>}
      /\ Pending(h, "match")
  BY DEF createMatch, NewMatch
<1>3. Winner(h) /\ AboutToMatch(h)
  BY <1>2 DEF Winner, AboutToMatch, Pending, At, IInv, MatchingSaw
<1>4. {<<u, v>>, <<v, u>>} \subseteq likes
  BY <1>3 DEF IInv, WinnerHasLike, SeenIsStored, Winner
<1>5. <<u, v>> \notin matches /\ <<v, u>> \notin matches
  BY <1>3 DEF IInv, NotYetMatched, LikesOf
<1>6. ASSUME NEW m \in matches, {m[1], m[2]} = {u, v} PROVE FALSE
  <2>1. m = <<m[1], m[2]>>
    BY <1>1
  <2>2. m = <<u, v>> \/ m = <<v, u>>
    BY <1>6, <2>1
  <2> QED
    BY <1>5, <2>2
<1>7. {u, v} \notin Pairs
  BY <1>6 DEF Pairs
<1>8. Pairs' = Pairs \cup {{u, v}}
  <2>1. {<<v, u>>[1], <<v, u>>[2]} = {u, v}
    OBVIOUS
  <2>2. Pairs' = {{m[1], m[2]} : m \in matches \cup {<<v, u>>}}
    BY <1>2 DEF Pairs
  <2> QED
    BY <2>1, <2>2, Zenon DEF Pairs
<1> QED
  BY <1>1, <1>2, <1>4, <1>7, <1>8 DEF Promise!Match, Pairs

(* The other steps are a Like or leave likes and matches alone.              *)
LEMMA OtherRefines ==
    ASSUME IInv, [Next]_vars, \A h \in Handlers : ~createMatch(h)
    PROVE  \/ \E u, v \in Users : Promise!Like(u, v)
           \/ UNCHANGED <<likes, matches>>
<1>1. ASSUME NEW h \in Handlers, createLike(h)
      PROVE  Promise!Like(req[h].from, req[h].to)
  BY <1>1 DEF createLike, Promise!Like
<1>2. ASSUME NEW h \in Handlers, createLike(h)
      PROVE  req[h].from \in Users /\ req[h].to \in Users
  BY DEF IInv, TypeInv, TypeOK, Request
<1>3. ASSUME NEW u \in Users, NEW v \in Users, restCreateLike(u, v)
      PROVE  Promise!Like(u, v)
  BY <1>3 DEF restCreateLike, Promise!Like
<1>4. ASSUME NEW h \in Handlers, Step(h), ~createLike(h)
      PROVE  UNCHANGED <<likes, matches>>
  BY <1>4 DEF Step, checkExistingLike, createLikeDuplicate, afterLike,
              createConversation, createParticipant, afterMatch,
              createNotificationMatched, createNotificationObjects, emitMatched, dbVars
<1>5. ASSUME NEW h \in Handlers, Throw(h) \/ insertManyFails(h) \/ rejectOne(h)
      PROVE  UNCHANGED <<likes, matches>>
  BY <1>5 DEF Throw, insertManyFails, rejectOne, dbVars
<1>6. ASSUME \/ Restart \/ Connections
             \/ \E h \in Handlers, s \in Sockets, v \in Users : createUserLike(h, s, v)
             \/ UNCHANGED vars
      PROVE  UNCHANGED <<likes, matches>>
  BY <1>6 DEF Restart, Connections, createUserLike, vars, dbVars
<1> QED
  BY <1>1, <1>2, <1>3, <1>4, <1>5, <1>6 DEF Next, Environment, Work, Fault

(* createUserLike and the REST route implement the matching promise.         *)
THEOREM Refinement == Spec => KeepsPromise
<1>1. Init => Promise!Init
  BY DEF Init, Promise!Init
<1>2. IInv /\ [Next]_vars => [Promise!Next]_<<likes, Pairs>>
  <2> SUFFICES ASSUME IInv, [Next]_vars PROVE [Promise!Next]_<<likes, Pairs>>
    OBVIOUS
  <2>1. CASE \E h \in Handlers : createMatch(h)
    <3>1. PICK h \in Handlers : createMatch(h)
      BY <2>1
    <3> QED
      BY <3>1, MatchRefines DEF Promise!Next
  <2>2. CASE \A h \in Handlers : ~createMatch(h)
    BY <2>2, OtherRefines DEF Promise!Next, Pairs
  <2> QED
    BY <2>1, <2>2
<1> QED
  BY <1>1, <1>2, Invariant, PTL DEF Spec, KeepsPromise, Promise!Spec, Pairs

-----------------------------------------------------------------------------
(* One conversation per pair, and what is stored when a user is told.  A     *)
(* conversation belongs to the one request that made it, which is the one    *)
(* winner of its pair: nobody else adds participants to it, and the pair has *)
(* no other conversation.                                                    *)

\* The request has issued its Promise.all.
Begun(r) == r.stage \in {"match", "notify", "object", "emit"}

\* What a request knows: C are the conversations that are stored.
Local(r, C) ==
    /\ r.conv # NoConversation => r.conv \in C /\ Begun(r)
    /\ "conversation" \in r.pending => r.conv = NoConversation
    /\ Begun(r) => r.existingLiked
    /\ r.sock # NoSocket => owner[r.sock] = r.from
    /\ r.peer # NoSocket => owner[r.peer] = r.to

\* What a request has stored, in the matches M, the participants P and the inbox I.
Stored(r, M, P, I) ==
    /\ r.stage = "match" /\ ~r.rejected =>
          /\ "match" \in r.pending \/ <<r.to, r.from>> \in M
          /\ \/ {"conversation", "sender"} \cap r.pending # {}
             \/ <<r.conv, r.from>> \in P
          /\ \/ {"conversation", "receiver"} \cap r.pending # {}
             \/ <<r.conv, r.to>> \in P
    /\ r.stage \in {"notify", "object", "emit"} =>
          <<r.to, r.from>> \in M /\ {<<r.conv, r.from>>, <<r.conv, r.to>>} \subseteq P
    /\ r.stage = "emit" => {<<r.conv, r.from>>, <<r.conv, r.to>>} \subseteq I

LocalAll == \A h \in Handlers : Local(req[h], conversations)
StoredAll == \A h \in Handlers : Stored(req[h], matches, participants, inbox)

\* No two requests hold the same conversation.
OwnConversation == \A g, h \in Handlers :
    req[g].conv = req[h].conv /\ req[g].conv # NoConversation => g = h

\* Only the pair of its request is in the conversation of a request.
OwnParticipants == \A h \in Handlers : \A x \in Users :
    <<req[h].conv, x>> \in participants => x \in PairOf(h)

\* A participant is in a conversation that is stored.
InStored == \A c \in ConversationIds, x \in Users :
    <<c, x>> \in participants => c \in conversations

\* Two users of a conversation have liked each other.
TalkImpliesMutualLikes == \A c \in ConversationIds, u, v \in Users :
    u # v /\ {<<c, u>>, <<c, v>>} \subseteq participants
        => {<<u, v>>, <<v, u>>} \subseteq likes

\* The pair of a winner has no conversation but the winner's own.
WinnersOnly == \A h \in Handlers : Winner(h) /\ req[h].from # req[h].to =>
    \A c \in ConversationIds :
        {<<c, req[h].from>>, <<c, req[h].to>>} \subseteq participants => c = req[h].conv

TalkInv ==
    /\ IInv
    /\ RegisteredIsLive
    /\ LocalAll
    /\ StoredAll
    /\ OwnConversation
    /\ OwnParticipants
    /\ InStored
    /\ TalkImpliesMutualLikes
    /\ WinnersOnly
    /\ OneConversationPerPair
    /\ ToldWhenReady

\* Nothing in the database is taken back.
LEMMA OnlyGrows ==
    ASSUME [Next]_vars
    PROVE  /\ likes \subseteq likes' /\ matches \subseteq matches'
           /\ conversations \subseteq conversations' /\ participants \subseteq participants'
           /\ inbox \subseteq inbox'
<1>1. ASSUME NEW h \in Handlers, Step(h)
      PROVE  /\ likes \subseteq likes' /\ matches \subseteq matches'
             /\ conversations \subseteq conversations' /\ participants \subseteq participants'
             /\ inbox \subseteq inbox'
  BY <1>1 DEF Step, checkExistingLike, createLike, createLikeDuplicate, afterLike,
              createConversation, createParticipant, createMatch, afterMatch,
              createNotificationMatched, createNotificationObjects, emitMatched, dbVars
<1>2. ASSUME NEW h \in Handlers, NEW s \in Sockets, NEW v \in Users,
             createUserLike(h, s, v)
      PROVE  /\ likes \subseteq likes' /\ matches \subseteq matches'
             /\ conversations \subseteq conversations' /\ participants \subseteq participants'
             /\ inbox \subseteq inbox'
  BY <1>2 DEF createUserLike, dbVars
<1>3. ASSUME Connections \/ UNCHANGED vars
      PROVE  /\ likes \subseteq likes' /\ matches \subseteq matches'
             /\ conversations \subseteq conversations' /\ participants \subseteq participants'
             /\ inbox \subseteq inbox'
  BY <1>3 DEF Connections, vars, dbVars
<1>4. ASSUME NEW u \in Users, NEW v \in Users, restCreateLike(u, v)
      PROVE  /\ likes \subseteq likes' /\ matches \subseteq matches'
             /\ conversations \subseteq conversations' /\ participants \subseteq participants'
             /\ inbox \subseteq inbox'
  BY <1>4 DEF restCreateLike
<1>5. ASSUME Fault
      PROVE  /\ likes \subseteq likes' /\ matches \subseteq matches'
             /\ conversations \subseteq conversations' /\ participants \subseteq participants'
             /\ inbox \subseteq inbox'
  BY <1>5 DEF Fault, Throw, insertManyFails, rejectOne, Restart, dbVars
<1> QED
  BY <1>1, <1>2, <1>3, <1>4, <1>5 DEF Next, Environment, Work

\* What a request knows and has stored stays so when the database grows.
LEMMA GrowthKeeps ==
    ASSUME NEW r, NEW C, NEW D, C \subseteq D, NEW M, NEW N, M \subseteq N,
           NEW P, NEW Q, P \subseteq Q, NEW I, NEW J, I \subseteq J
    PROVE  /\ Local(r, C) => Local(r, D)
           /\ Stored(r, M, P, I) => Stored(r, N, Q, J)
BY DEF Local, Stored

\* A step that moves one request, to r, which knows and has stored what it must.
LEMMA OneSlot ==
    ASSUME TalkInv, [Next]_vars, NEW h \in Handlers, NEW r,
           req' = [req EXCEPT ![h] = r], Local(r, conversations'),
           Stored(r, matches', participants', inbox')
    PROVE  LocalAll' /\ StoredAll'
<1>1. req \in [Handlers -> Request]
  BY DEF TalkInv, IInv, TypeInv, TypeOK
<1>2. \A g \in Handlers : req'[g] = IF g = h THEN r ELSE req[g]
  BY <1>1
<1>3. ASSUME NEW g \in Handlers
      PROVE  /\ Local(req[g], conversations')
             /\ Stored(req[g], matches', participants', inbox')
  BY OnlyGrows, GrowthKeeps DEF TalkInv, LocalAll, StoredAll
<1> QED
  BY <1>2, <1>3 DEF LocalAll, StoredAll

\* A free slot knows nothing and has stored nothing.
LEMMA IdleSlot == \A C, M, P, I : \A u \in Users : Local(Idle(u), C) /\ Stored(Idle(u), M, P, I)
BY DEF Local, Stored, Begun, Idle

\* Nor does a step that frees a slot, or leaves all as they are, spoil anything.
LEMMA StillSlots ==
    ASSUME TalkInv, [Next]_vars, UNCHANGED req \/ \E h \in Handlers : Finish(h)
    PROVE  LocalAll' /\ StoredAll'
<1>1. CASE UNCHANGED req
  <2>1. ASSUME NEW g \in Handlers
        PROVE  /\ Local(req[g], conversations')
               /\ Stored(req[g], matches', participants', inbox')
    BY OnlyGrows, GrowthKeeps DEF TalkInv, LocalAll, StoredAll
  <2> QED
    BY <1>1, <2>1 DEF LocalAll, StoredAll
<1>2. ASSUME NEW h \in Handlers, Finish(h) PROVE LocalAll' /\ StoredAll'
  BY <1>2, IdleSlot, IdleIsRequest, OneSlot DEF Finish
<1> QED
  BY <1>1, <1>2

(* The socket of the peer is the peer's: the registry returns no other.      *)
LEMMA PeerIsTheirs ==
    ASSUME TalkInv, NEW u \in Users, getUserSocket(u) # NoSocket
    PROVE  owner[getUserSocket(u)] = u
BY DEF TalkInv, RegisteredIsLive, LiveOf

(* Each step of createUserLike leaves its request knowing and having stored  *)
(* what its next stage asks for.                                             *)
LEMMA StepSlots ==
    ASSUME TalkInv, NEW h \in Handlers, Step(h)
    PROVE  LocalAll' /\ StoredAll'
<1> DEFINE r == req[h]
<1>n. [Next]_vars
  BY DEF Next, Work
<1>r. r \in Request /\ Known(r) /\ Local(r, conversations) /\ Stored(r, matches, participants, inbox)
  BY DEF TalkInv, IInv, TypeInv, TypeOK, LocalAll, StoredAll
<1>g. Local(r, conversations') /\ Stored(r, matches', participants', inbox')
  BY <1>r, <1>n, OnlyGrows, GrowthKeeps
<1>idle. CASE Finish(h)
  BY <1>idle, <1>n, StillSlots
<1>1. CASE checkExistingLike(h)
  <2> DEFINE seen == <<r.to, r.from>> \in likes
  <2> DEFINE n == [r EXCEPT !.existingLiked = seen, !.stage = "like"]
  <2>1. req' = [req EXCEPT ![h] = n]
    BY <1>1 DEF checkExistingLike
  <2>2. r.stage = "check"
    BY <1>1 DEF checkExistingLike, At
  <2>3. Local(n, conversations') /\ Stored(n, matches', participants', inbox')
    BY <1>r, <1>g, <2>2 DEF Local, Stored, Begun, Request
  <2> QED
    BY <1>n, <2>1, <2>3, OneSlot
<1>2. CASE createLike(h)
  <2> DEFINE n == [r EXCEPT !.stage = "liked"]
  <2>1. req' = [req EXCEPT ![h] = n]
    BY <1>2 DEF createLike, Goto
  <2>2. r.stage = "like"
    BY <1>2 DEF createLike, At
  <2>3. Local(n, conversations') /\ Stored(n, matches', participants', inbox')
    BY <1>r, <1>g, <2>2 DEF Local, Stored, Begun, Request
  <2> QED
    BY <1>n, <2>1, <2>3, OneSlot
<1>3. CASE createLikeDuplicate(h)
  BY <1>3, <1>idle DEF createLikeDuplicate
<1>4. CASE afterLike(h) /\ req[h].existingLiked
  <2> DEFINE p == getUserSocket(r.to)
  <2> DEFINE n == [r EXCEPT !.stage = "match", !.peer = p,
                            !.pending = {"conversation", "match"}]
  <2>1. req' = [req EXCEPT ![h] = n]
    BY <1>4 DEF afterLike, IssueMatch
  <2>2. r.stage = "liked" /\ r.existingLiked
    BY <1>4 DEF afterLike, At
  <2>3. p # NoSocket => owner[p] = r.to
    BY <1>r, PeerIsTheirs DEF Request
  <2> HIDE DEF p
  <2>4. Local(n, conversations') /\ Stored(n, matches', participants', inbox')
    BY <1>r, <1>g, <2>2, <2>3 DEF Local, Stored, Begun, Request
  <2> QED
    BY <1>n, <2>1, <2>4, OneSlot
<1>5. CASE createConversation(h)
  <2>1. PICK c \in ConversationIds :
          /\ conversations' = conversations \cup {c}
          /\ req' = [req EXCEPT ![h].conv = c,
                                ![h].pending = (@ \ {"conversation"})
                                                 \cup {"sender", "receiver"}]
    BY <1>5 DEF createConversation
  <2> DEFINE p == (r.pending \ {"conversation"}) \cup {"sender", "receiver"}
  <2> DEFINE n == [r EXCEPT !.conv = c, !.pending = p]
  <2>2. req' = [req EXCEPT ![h] = n]
    BY <2>1
  <2>3. r.stage = "match" /\ c \in conversations'
    BY <1>5, <2>1 DEF createConversation, Pending, At
  <2>4. "conversation" \notin p /\ "sender" \in p /\ "receiver" \in p
        /\ ("match" \in r.pending => "match" \in p)
    OBVIOUS
  <2> HIDE DEF p
  <2>5. Local(n, conversations') /\ Stored(n, matches', participants', inbox')
    BY <1>r, <1>g, <2>3, <2>4 DEF Local, Stored, Begun, Request
  <2> QED
    BY <1>n, <2>2, <2>5, OneSlot
<1>6. ASSUME NEW op \in Operations, createParticipant(h, op)
      PROVE  LocalAll' /\ StoredAll'
  <2> DEFINE p == r.pending \ {op}
  <2> DEFINE n == [r EXCEPT !.pending = p]
  <2>1. req' = [req EXCEPT ![h] = n]
    BY <1>6 DEF createParticipant
  <2>2. r.stage = "match" /\ <<r.conv, Member(h, op)>> \in participants'
        /\ op \in {"sender", "receiver"}
    BY <1>6 DEF createParticipant, Pending, At
  <2>3. CASE op = "sender"
    <3>1. <<r.conv, r.from>> \in participants'
      BY <2>2, <2>3 DEF Member
    <3>2. Local(n, conversations') /\ Stored(n, matches', participants', inbox')
      BY <1>r, <1>g, <2>2, <2>3, <3>1 DEF Local, Stored, Begun, Request
    <3> QED
      BY <1>n, <2>1, <3>2, OneSlot
  <2>4. CASE op = "receiver"
    <3>1. <<r.conv, r.to>> \in participants'
      BY <2>2, <2>4 DEF Member
    <3>2. Local(n, conversations') /\ Stored(n, matches', participants', inbox')
      BY <1>r, <1>g, <2>2, <2>4, <3>1 DEF Local, Stored, Begun, Request
    <3> QED
      BY <1>n, <2>1, <3>2, OneSlot
  <2> QED
    BY <2>2, <2>3, <2>4
<1>7. CASE createMatch(h)
  <2> DEFINE p == r.pending \ {"match"}
  <2> DEFINE x == r.rejected \/ NewMatch(h) \in matches
  <2> DEFINE n == [r EXCEPT !.pending = p, !.rejected = x]
  <2>1. req' = [req EXCEPT ![h] = n]
    BY <1>7 DEF createMatch
  <2>2. r.stage = "match" /\ <<r.to, r.from>> \in matches'
    BY <1>7 DEF createMatch, NewMatch, Pending, At
  <2>3. r.rejected => x
    OBVIOUS
  <2> HIDE DEF x
  <2>4. Local(n, conversations') /\ Stored(n, matches', participants', inbox')
    BY <1>r, <1>g, <2>2, <2>3 DEF Local, Stored, Begun, Request
  <2> QED
    BY <1>n, <2>1, <2>4, OneSlot
<1>8. CASE afterMatch(h) /\ ~req[h].rejected
  <2> DEFINE n == [r EXCEPT !.stage = "notify"]
  <2>1. req' = [req EXCEPT ![h] = n]
    BY <1>8 DEF afterMatch, Goto
  <2>2. r.stage = "match" /\ r.pending = {} /\ ~r.rejected
    BY <1>8 DEF afterMatch, At
  <2>3. Local(n, conversations') /\ Stored(n, matches', participants', inbox')
    BY <1>r, <1>g, <2>2 DEF Local, Stored, Begun, Request
  <2> QED
    BY <1>n, <2>1, <2>3, OneSlot
<1>9. CASE createNotificationMatched(h)
  <2> DEFINE n == [r EXCEPT !.stage = "object"]
  <2>1. req' = [req EXCEPT ![h] = n]
    BY <1>9 DEF createNotificationMatched, Goto
  <2>2. r.stage = "notify"
    BY <1>9 DEF createNotificationMatched, At
  <2>3. Local(n, conversations') /\ Stored(n, matches', participants', inbox')
    BY <1>r, <1>g, <2>2 DEF Local, Stored, Begun, Request
  <2> QED
    BY <1>n, <2>1, <2>3, OneSlot
<1>10. CASE createNotificationObjects(h)
  <2> DEFINE n == [r EXCEPT !.stage = "emit"]
  <2>1. req' = [req EXCEPT ![h] = n]
    BY <1>10 DEF createNotificationObjects, Goto
  <2>2. r.stage = "object" /\ {<<r.conv, r.from>>, <<r.conv, r.to>>} \subseteq inbox'
    BY <1>10 DEF createNotificationObjects, NewNotices, At
  <2>3. Local(n, conversations') /\ Stored(n, matches', participants', inbox')
    BY <1>r, <1>g, <2>2 DEF Local, Stored, Begun, Request
  <2> QED
    BY <1>n, <2>1, <2>3, OneSlot
<1> QED
  BY <1>idle, <1>1, <1>2, <1>3, <1>4, <1>5, <1>6, <1>7, <1>8, <1>9, <1>10
     DEF Step, afterLike, afterMatch, emitMatched

(* The requests of all other steps: a new one, a failure, a restart.         *)
LEMMA SlotsKeep == TalkInv /\ [Next]_vars => LocalAll' /\ StoredAll'
<1> SUFFICES ASSUME TalkInv, [Next]_vars PROVE LocalAll' /\ StoredAll'
  OBVIOUS
<1>1. ASSUME NEW h \in Handlers, NEW s \in Sockets, NEW v \in Users,
             createUserLike(h, s, v)
      PROVE  LocalAll' /\ StoredAll'
  <2> DEFINE n == [Idle(owner[s]) EXCEPT !.stage = "check", !.to = v, !.sock = s]
  <2>1. req' = [req EXCEPT ![h] = n]
    BY <1>1 DEF createUserLike
  <2>2. Local(n, conversations') /\ Stored(n, matches', participants', inbox')
    BY DEF Local, Stored, Begun, Idle
  <2> QED
    BY <2>1, <2>2, OneSlot
<1>2. ASSUME NEW h \in Handlers, Step(h) PROVE LocalAll' /\ StoredAll'
  BY <1>2, StepSlots
<1>3. ASSUME NEW h \in Handlers, rejectOne(h) PROVE LocalAll' /\ StoredAll'
  <2> DEFINE r == req[h]
  <2>1. PICK op \in Operations :
          /\ Pending(h, op)
          /\ req' = [req EXCEPT ![h].pending = @ \ {op}, ![h].rejected = TRUE]
          /\ UNCHANGED dbVars
    BY <1>3 DEF rejectOne
  <2> DEFINE p == r.pending \ {op}
  <2> DEFINE n == [r EXCEPT !.pending = p, !.rejected = TRUE]
  <2>2. req' = [req EXCEPT ![h] = n]
    BY <2>1
  <2>3. r \in Request /\ Local(r, conversations) /\ r.stage = "match"
    BY <2>1 DEF Pending, At, TalkInv, IInv, TypeInv, TypeOK, LocalAll
  <2>4. Local(n, conversations') /\ Stored(n, matches', participants', inbox')
    BY <2>1, <2>3 DEF Local, Stored, Begun, Request, dbVars
  <2> QED
    BY <2>2, <2>4, OneSlot
<1>4. CASE Restart
  <2>1. \A h \in Handlers : req'[h] = Idle(Nobody)
    BY <1>4 DEF Restart
  <2> QED
    BY <2>1, IdleSlot, IdleIsRequest DEF LocalAll, StoredAll
<1>5. CASE Connections \/ UNCHANGED vars
  BY <1>5, StillSlots DEF Connections, vars
<1>6. ASSUME NEW u \in Users, NEW v \in Users, restCreateLike(u, v)
      PROVE  LocalAll' /\ StoredAll'
  BY <1>6, StillSlots DEF restCreateLike
<1>7. ASSUME NEW h \in Handlers, Throw(h) \/ insertManyFails(h)
      PROVE  LocalAll' /\ StoredAll'
  BY <1>7, StillSlots DEF Throw, insertManyFails
<1> QED
  BY <1>1, <1>2, <1>3, <1>4, <1>5, <1>6, <1>7 DEF Next, Environment, Work, Fault

\* Nobody enters a conversation, none is made, no request wins a pair.
Quiet ==
    /\ participants' = participants /\ conversations' = conversations
    /\ \A h \in Handlers :
         /\ req'[h].conv # NoConversation =>
               req'[h].conv = req[h].conv /\ PairOf(h)' = PairOf(h)
         /\ Winner(h)' => /\ Winner(h) /\ req'[h].conv = req[h].conv
                          /\ req'[h].from = req[h].from /\ req'[h].to = req[h].to

\* The part of TalkInv that is about who talks with whom.
Talk ==
    /\ OwnConversation /\ OwnParticipants /\ InStored
    /\ TalkImpliesMutualLikes /\ WinnersOnly /\ OneConversationPerPair

(* Quiet steps keep it.                                                      *)
LEMMA QuietKeeps ==
    ASSUME TalkInv, Quiet, likes \subseteq likes'
    PROVE  Talk'
<1> USE DEF TalkInv, Quiet
<1>0. participants \subseteq ConversationIds \X Users /\ NoConversation \notin ConversationIds
  BY NoConversationAssumption DEF IInv, TypeInv, TypeOK
<1>1. OwnConversation'
  BY DEF OwnConversation
<1>2. OwnParticipants'
  <2>1. ASSUME NEW h \in Handlers, NEW x \in Users, <<req'[h].conv, x>> \in participants
        PROVE  x \in PairOf(h)'
    <3>1. req'[h].conv # NoConversation
      BY <1>0, <2>1
    <3> QED
      BY <2>1, <3>1 DEF OwnParticipants
  <2> QED
    BY <2>1 DEF OwnParticipants
<1>3. InStored'
  BY DEF InStored
<1>4. TalkImpliesMutualLikes'
  BY DEF TalkImpliesMutualLikes
<1>5. WinnersOnly'
  BY DEF WinnersOnly
<1>6. OneConversationPerPair'
  BY DEF OneConversationPerPair
<1> QED
  BY <1>1, <1>2, <1>3, <1>4, <1>5, <1>6 DEF Talk

(* All steps are quiet, but for the inserts of a like, a conversation and a  *)
(* participant.                                                              *)
LEMMA MostAreQuiet ==
    ASSUME TalkInv, [Next]_vars,
           \A h \in Handlers : /\ ~createLike(h) /\ ~createConversation(h)
                               /\ \A op \in Operations : ~createParticipant(h, op)
    PROVE  Quiet
<1>r. req \in [Handlers -> Request] /\ LocalAll
  BY DEF TalkInv, IInv, TypeInv, TypeOK
<1>idle. ASSUME NEW h \in Handlers, Finish(h), participants' = participants,
                conversations' = conversations
         PROVE  Quiet
  <2>1. req'[h].stage = "idle" /\ req'[h].conv = NoConversation
    BY <1>r, <1>idle DEF Finish, Idle
  <2>2. \A g \in Handlers : g # h => req'[g] = req[g]
    BY <1>r, <1>idle DEF Finish
  <2>3. ASSUME NEW g \in Handlers, g # h
        PROVE  PairOf(g)' = PairOf(g)
    BY <2>2, <2>3 DEF PairOf
  <2> QED
    BY <1>idle, <2>1, <2>2, <2>3 DEF Quiet, Winner
<1>1. ASSUME NEW h \in Handlers, NEW s \in Sockets, NEW v \in Users,
             createUserLike(h, s, v)
      PROVE  Quiet
  BY <1>1, <1>r DEF createUserLike, Idle, Quiet, Winner, PairOf, dbVars
<1>2. ASSUME NEW h \in Handlers, Step(h) PROVE Quiet
  <2>1. CASE checkExistingLike(h)
    BY <2>1, <1>r DEF checkExistingLike, At, Quiet, Winner, PairOf, Request, dbVars
  <2>2. CASE createLikeDuplicate(h) \/ emitMatched(h)
    BY <2>2, <1>idle DEF createLikeDuplicate, emitMatched, dbVars
  <2>3. CASE afterLike(h) /\ req[h].existingLiked
    BY <2>3, <1>r DEF afterLike, IssueMatch, At, Quiet, Winner, PairOf, Request, dbVars
  <2>4. CASE afterLike(h) /\ ~req[h].existingLiked
    BY <2>4, <1>idle DEF afterLike, dbVars
  <2>5. CASE createMatch(h)
    BY <2>5, <1>r DEF createMatch, Pending, At, Quiet, Winner, PairOf, Request
  <2>6. CASE afterMatch(h) /\ ~req[h].rejected
    BY <2>6, <1>r DEF afterMatch, Goto, At, Quiet, Winner, PairOf, Request, dbVars
  <2>7. CASE afterMatch(h) /\ req[h].rejected
    BY <2>7, <1>idle DEF afterMatch, dbVars
  <2>8. CASE createNotificationMatched(h)
    BY <2>8, <1>r DEF createNotificationMatched, Goto, At, Quiet, Winner, PairOf, Request
  <2>9. CASE createNotificationObjects(h)
    BY <2>9, <1>r DEF createNotificationObjects, Goto, At, Quiet, Winner, PairOf, Request
  <2> QED
    BY <1>2, <2>1, <2>2, <2>3, <2>4, <2>5, <2>6, <2>7, <2>8, <2>9 DEF Step
<1>3. CASE Connections \/ UNCHANGED vars
  BY <1>3 DEF Connections, vars, dbVars, Quiet, Winner, PairOf
<1>4. ASSUME NEW u \in Users, NEW v \in Users, restCreateLike(u, v) PROVE Quiet
  BY <1>4 DEF restCreateLike, Quiet, Winner, PairOf
<1>5. ASSUME NEW h \in Handlers, Throw(h) \/ insertManyFails(h) PROVE Quiet
  BY <1>5, <1>idle DEF Throw, insertManyFails, dbVars
<1>6. ASSUME NEW h \in Handlers, rejectOne(h) PROVE Quiet
  BY <1>6, <1>r DEF rejectOne, Pending, At, Quiet, Winner, PairOf, Request, dbVars
<1>7. CASE Restart
  BY <1>7 DEF Restart, Idle, Quiet, Winner, dbVars
<1> QED
  BY <1>1, <1>2, <1>3, <1>4, <1>5, <1>6, <1>7 DEF Next, Environment, Work, Fault

(* The insert of a like makes a winner only of a pair that has not talked    *)
(* yet: a conversation of both would mean that the like was stored before.   *)
LEMMA LikeTalks ==
    ASSUME TalkInv, NEW h \in Handlers, createLike(h)
    PROVE  Talk'
<1> DEFINE u == req[h].from
           v == req[h].to
<1>0. /\ req \in [Handlers -> Request] /\ req[h] \in Request
      /\ u \in Users /\ v \in Users
      /\ participants \subseteq ConversationIds \X Users
      /\ NoConversation \notin ConversationIds
  BY NoConversationAssumption DEF TalkInv, IInv, TypeInv, TypeOK, Request
<1>1. /\ <<u, v>> \notin likes /\ likes \subseteq likes'
      /\ participants' = participants /\ conversations' = conversations
      /\ req[h].stage = "like"
  BY DEF createLike, At
<1>2. /\ \A g \in Handlers : g # h => req'[g] = req[g]
      /\ req'[h] = [req[h] EXCEPT !.stage = "liked"]
  BY <1>0 DEF createLike, Goto
<1>3. /\ req'[h].from = u /\ req'[h].to = v /\ req'[h].conv = req[h].conv
  BY <1>0, <1>2 DEF Request
<1>4. \A g \in Handlers : /\ req'[g].from = req[g].from /\ req'[g].to = req[g].to
                          /\ req'[g].conv = req[g].conv
  BY <1>2, <1>3
<1>5. OwnConversation'
  BY <1>4 DEF TalkInv, OwnConversation
<1>6. OwnParticipants'
  BY <1>1, <1>4 DEF TalkInv, OwnParticipants, PairOf
<1>7. InStored' /\ TalkImpliesMutualLikes' /\ OneConversationPerPair'
  BY <1>1 DEF TalkInv, InStored, TalkImpliesMutualLikes, OneConversationPerPair
<1>8. ASSUME NEW g \in Handlers, Winner(g)', req'[g].from # req'[g].to,
             NEW c \in ConversationIds,
             {<<c, req'[g].from>>, <<c, req'[g].to>>} \subseteq participants
      PROVE  c = req'[g].conv
  <2>1. CASE g = h
    <3>1. <<u, v>> \in likes
      BY <1>0, <1>3, <1>8, <2>1 DEF TalkInv, TalkImpliesMutualLikes
    <3> QED
      BY <1>1, <3>1
  <2>2. CASE g # h
    <3>1. Winner(g)
      BY <1>2, <1>8, <2>2 DEF Winner
    <3> QED
      BY <1>4, <1>8, <3>1 DEF TalkInv, WinnersOnly
  <2> QED
    BY <2>1, <2>2
<1>9. WinnersOnly'
  BY <1>1, <1>8 DEF WinnersOnly
<1> QED
  BY <1>5, <1>6, <1>7, <1>9 DEF Talk

(* A conversation that is made has nobody in it yet, and no other request.   *)
LEMMA ConversationTalks ==
    ASSUME TalkInv, NEW h \in Handlers, createConversation(h)
    PROVE  Talk'
<1>1. PICK k \in ConversationIds \ conversations :
        /\ conversations' = conversations \cup {k}
        /\ req' = [req EXCEPT ![h].conv = k,
                              ![h].pending = (@ \ {"conversation"})
                                               \cup {"sender", "receiver"}]
  BY DEF createConversation
<1>0. /\ req \in [Handlers -> Request] /\ req[h] \in Request
      /\ participants \subseteq ConversationIds \X Users
      /\ NoConversation \notin ConversationIds
      /\ participants' = participants /\ likes' = likes
      /\ req[h].stage = "match" /\ req[h].conv = NoConversation
  BY NoConversationAssumption
     DEF TalkInv, IInv, TypeInv, TypeOK, LocalAll, Local, createConversation, Pending, At
<1>2. /\ \A g \in Handlers : g # h => req'[g] = req[g]
      /\ req'[h].conv = k /\ req'[h].from = req[h].from /\ req'[h].to = req[h].to
      /\ req'[h].stage = req[h].stage /\ req'[h].existingLiked = req[h].existingLiked
  BY <1>0, <1>1 DEF Request
<1>3. \A x \in Users : <<k, x>> \notin participants
  BY <1>1 DEF TalkInv, InStored
<1>4. \A g \in Handlers : req[g].conv # k
  BY <1>1, <1>0 DEF TalkInv, LocalAll, Local
<1>5. OwnConversation'
  <2>1. ASSUME NEW f \in Handlers, NEW g \in Handlers, req'[f].conv = req'[g].conv,
               req'[f].conv # NoConversation
        PROVE  f = g
    BY <1>2, <1>4, <2>1 DEF TalkInv, OwnConversation
  <2> QED
    BY <2>1 DEF OwnConversation
<1>6. OwnParticipants'
  <2>1. ASSUME NEW g \in Handlers, NEW x \in Users, <<req'[g].conv, x>> \in participants
        PROVE  x \in PairOf(g)'
    <3>1. g # h
      BY <1>2, <1>3, <2>1
    <3>2. req'[g] = req[g]
      BY <1>2, <3>1
    <3>3. x \in PairOf(g)
      BY <2>1, <3>2 DEF TalkInv, OwnParticipants
    <3> QED
      BY <3>2, <3>3 DEF PairOf
  <2> QED
    BY <1>0, <2>1 DEF OwnParticipants
<1>7. InStored' /\ TalkImpliesMutualLikes'
  BY <1>0, <1>1 DEF TalkInv, InStored, TalkImpliesMutualLikes
<1>8. OneConversationPerPair'
  <2>1. ASSUME NEW c \in conversations', NEW d \in conversations', NEW u \in Users,
               NEW v \in Users, u # v,
               {<<c, u>>, <<c, v>>, <<d, u>>, <<d, v>>} \subseteq participants
        PROVE  c = d
    <3>1. c \in conversations /\ d \in conversations
      BY <1>1, <1>3, <2>1
    <3> QED
      BY <2>1, <3>1 DEF TalkInv, OneConversationPerPair
  <2> QED
    BY <1>0, <2>1 DEF OneConversationPerPair
<1>9. ASSUME NEW g \in Handlers, Winner(g)', req'[g].from # req'[g].to,
             NEW c \in ConversationIds,
             {<<c, req'[g].from>>, <<c, req'[g].to>>} \subseteq participants
      PROVE  c = req'[g].conv
  <2>1. Winner(g)
    BY <1>2, <1>9 DEF Winner
  <2>2. /\ req'[g].from = req[g].from /\ req'[g].to = req[g].to
    BY <1>2
  <2>3. c = req[g].conv
    BY <1>9, <2>1, <2>2 DEF TalkInv, WinnersOnly
  <2>4. g # h
    BY <1>0, <2>3
  <2> QED
    BY <1>2, <2>3, <2>4
<1>10. WinnersOnly'
  BY <1>0, <1>9 DEF WinnersOnly
<1> QED
  BY <1>5, <1>6, <1>7, <1>8, <1>10 DEF Talk

(* A participant enters the conversation of its request, and is of its pair: *)
(* no winner of another pair and no other conversation is touched.           *)
LEMMA ParticipantTalks ==
    ASSUME TalkInv, NEW h \in Handlers, NEW op \in Operations, createParticipant(h, op)
    PROVE  Talk'
<1> DEFINE k == req[h].conv
           m == Member(h, op)
<1>0. /\ req \in [Handlers -> Request] /\ req[h] \in Request
      /\ req[h].from \in Users /\ req[h].to \in Users
      /\ participants \subseteq ConversationIds \X Users
      /\ NoConversation \notin ConversationIds
      /\ likes' = likes /\ conversations' = conversations
      /\ participants' = participants \cup {<<k, m>>}
      /\ req[h].stage = "match" /\ op \in {"sender", "receiver"} /\ op \in req[h].pending
  BY NoConversationAssumption
     DEF TalkInv, IInv, TypeInv, TypeOK, Request, createParticipant, Pending, At
<1>1. k \in ConversationIds /\ k \in conversations /\ k # NoConversation
  BY <1>0 DEF TalkInv, IInv, TypeInv, Known, LocalAll, Local
<1>2. m \in PairOf(h) /\ m \in Users
  BY <1>0 DEF Member, PairOf
<1>3. Winner(h)
  BY <1>0 DEF TalkInv, LocalAll, Local, Begun, Winner
<1>4. {<<req[h].from, req[h].to>>, <<req[h].to, req[h].from>>} \subseteq likes
  BY <1>3 DEF TalkInv, IInv, WinnerHasLike, SeenIsStored, Winner
<1>5. \A g \in Handlers : /\ req'[g].from = req[g].from /\ req'[g].to = req[g].to
                          /\ req'[g].conv = req[g].conv /\ (Winner(g)' => Winner(g))
  BY <1>0 DEF createParticipant, Request, Winner
<1> HIDE DEF k, m
<1>i. \A x \in Users : <<k, x>> \in participants' => x \in PairOf(h)
  BY <1>0, <1>2 DEF TalkInv, OwnParticipants, k
<1>o. \A c \in ConversationIds, x \in Users :
        c # k /\ <<c, x>> \in participants' => <<c, x>> \in participants
  BY <1>0
<1>6. OwnConversation'
  BY <1>5 DEF TalkInv, OwnConversation
<1>7. OwnParticipants'
  <2>1. ASSUME NEW g \in Handlers, NEW x \in Users, <<req[g].conv, x>> \in participants'
        PROVE  x \in PairOf(g)
    <3>1. CASE req[g].conv = k
      <4>1. g = h
        BY <1>1, <3>1 DEF TalkInv, OwnConversation, k
      <4> QED
        BY <1>i, <2>1, <3>1, <4>1
    <3>2. CASE req[g].conv # k
      <4>1. <<req[g].conv, x>> \in participants
        BY <1>0, <2>1, <3>2
      <4> QED
        BY <4>1 DEF TalkInv, OwnParticipants
    <3> QED
      BY <3>1, <3>2
  <2> QED
    BY <1>5, <2>1 DEF OwnParticipants, PairOf
<1>8. InStored'
  BY <1>0, <1>1 DEF TalkInv, InStored
<1>9. TalkImpliesMutualLikes'
  <2>1. ASSUME NEW c \in ConversationIds, NEW u \in Users, NEW v \in Users, u # v,
               {<<c, u>>, <<c, v>>} \subseteq participants'
        PROVE  {<<u, v>>, <<v, u>>} \subseteq likes
    <3>1. CASE c = k
      <4>1. u \in PairOf(h) /\ v \in PairOf(h)
        BY <1>i, <2>1, <3>1
      <4> QED
        BY <1>4, <2>1, <4>1 DEF PairOf
    <3>2. CASE c # k
      BY <1>o, <2>1, <3>2 DEF TalkInv, TalkImpliesMutualLikes
    <3> QED
      BY <3>1, <3>2
  <2> QED
    BY <1>0, <2>1 DEF TalkImpliesMutualLikes
<1>10. WinnersOnly'
  <2>1. ASSUME NEW g \in Handlers, Winner(g), req[g].from # req[g].to,
               NEW c \in ConversationIds,
               {<<c, req[g].from>>, <<c, req[g].to>>} \subseteq participants'
        PROVE  c = req[g].conv
    <3>0. req[g].from \in Users /\ req[g].to \in Users
      BY <1>0 DEF Request
    <3>1. CASE c = k
      <4>1. req[g].from \in PairOf(h) /\ req[g].to \in PairOf(h)
        BY <1>i, <2>1, <3>0, <3>1
      <4>2. PairOf(g) = PairOf(h)
        BY <2>1, <4>1 DEF PairOf
      <4>3. g = h
        BY <1>3, <2>1, <4>2 DEF TalkInv, IInv, OneWinner
      <4> QED
        BY <3>1, <4>3 DEF k
    <3>2. CASE c # k
      BY <1>o, <2>1, <3>0, <3>2 DEF TalkInv, WinnersOnly
    <3> QED
      BY <3>1, <3>2
  <2> QED
    BY <1>5, <2>1 DEF WinnersOnly
<1>11. ASSUME NEW d \in conversations, NEW u \in Users, NEW v \in Users, u # v,
              {<<k, u>>, <<k, v>>, <<d, u>>, <<d, v>>} \subseteq participants'
       PROVE  d = k
  <2>1. u \in PairOf(h) /\ v \in PairOf(h)
    BY <1>i, <1>11
  <2>2. {u, v} = {req[h].from, req[h].to} /\ req[h].from # req[h].to
    BY <1>11, <2>1 DEF PairOf
  <2>3. d \in ConversationIds
    BY DEF TalkInv, IInv, TypeInv, TypeOK
  <2>4. {<<d, req[h].from>>, <<d, req[h].to>>} \subseteq participants'
    BY <1>11, <2>2
  <2>5. d # k => {<<d, req[h].from>>, <<d, req[h].to>>} \subseteq participants
    BY <1>0, <1>o, <2>3, <2>4
  <2> QED
    BY <1>3, <2>2, <2>3, <2>5 DEF TalkInv, WinnersOnly, k
<1>12. OneConversationPerPair'
  <2>1. ASSUME NEW c \in conversations, NEW d \in conversations, NEW u \in Users,
               NEW v \in Users, u # v,
               {<<c, u>>, <<c, v>>, <<d, u>>, <<d, v>>} \subseteq participants'
        PROVE  c = d
    <3>0. c \in ConversationIds /\ d \in ConversationIds
      BY DEF TalkInv, IInv, TypeInv, TypeOK
    <3>1. CASE c # k /\ d # k
      <4>1. {<<c, u>>, <<c, v>>, <<d, u>>, <<d, v>>} \subseteq participants
        BY <1>o, <2>1, <3>0, <3>1
      <4> QED
        BY <2>1, <4>1 DEF TalkInv, OneConversationPerPair
    <3> QED
      BY <1>11, <2>1, <3>1
  <2> QED
    BY <1>0, <2>1 DEF OneConversationPerPair
<1> QED
  BY <1>6, <1>7, <1>8, <1>9, <1>10, <1>12 DEF Talk

(* Who is told: the emit reaches sockets of the pair, and its request has    *)
(* stored everything by then.                                                *)
LEMMA ToldStep ==
    ASSUME TalkInv, [Next]_vars
    PROVE  ToldWhenReady'
<1>g. /\ matches \subseteq matches' /\ participants \subseteq participants'
      /\ inbox \subseteq inbox'
  BY OnlyGrows
<1>k. ASSUME NEW c \in ConversationIds, Ready(c) PROVE Ready(c)'
  <2>1. PICK u \in Users, v \in Users :
          <<u, v>> \in matches /\ {<<c, u>>, <<c, v>>} \subseteq participants \cap inbox
    BY <1>k DEF Ready
  <2>2. <<u, v>> \in matches' /\ {<<c, u>>, <<c, v>>} \subseteq participants' \cap inbox'
    BY <1>g, <2>1
  <2> QED
    BY <2>2 DEF Ready
<1>1. ASSUME NEW h \in Handlers, emitMatched(h) PROVE ToldWhenReady'
  <2> DEFINE r == req[h]
  <2>1. /\ r \in Request /\ r.stage = "emit"
        /\ r.from \in Users /\ r.to \in Users /\ r.conv \in ConversationIds
        /\ r.sock # NoSocket => owner[r.sock] = r.from
        /\ r.peer # NoSocket => owner[r.peer] = r.to
        /\ NoSocket \notin live
    BY <1>1, NoSocketAssumption
       DEF emitMatched, At, TalkInv, IInv, TypeInv, TypeOK, SessTypeOK, Request, Known,
           LocalAll, Local
  <2>2. /\ <<r.to, r.from>> \in matches
        /\ {<<r.conv, r.to>>, <<r.conv, r.from>>} \subseteq participants \cap inbox
    BY <2>1 DEF TalkInv, StoredAll, Stored
  <2>3. Ready(r.conv)
    BY <2>1, <2>2 DEF Ready
  <2>4. \A x \in Reached(h) : x = <<r.conv, r.from>> \/ x = <<r.conv, r.to>>
    BY <2>1 DEF Reached
  <2>5. told' = told \cup Reached(h)
    BY <1>1 DEF emitMatched
  <2>6. ASSUME NEW c \in ConversationIds, NEW u \in Users, <<c, u>> \in told'
        PROVE  <<c, u>> \in inbox' /\ Ready(c)'
    <3>1. CASE <<c, u>> \in told
      BY <1>g, <1>k, <3>1 DEF TalkInv, ToldWhenReady
    <3>2. CASE <<c, u>> \in Reached(h)
      <4>1. c = r.conv /\ <<c, u>> \in inbox
        BY <2>2, <2>4, <3>2
      <4> QED
        BY <1>g, <1>k, <2>3, <4>1
    <3> QED
      BY <2>5, <2>6, <3>1, <3>2
  <2> QED
    BY <2>6 DEF ToldWhenReady
<1>2. ASSUME told' = told PROVE ToldWhenReady'
  BY <1>2, <1>g, <1>k DEF TalkInv, ToldWhenReady
<1>3. ASSUME NEW h \in Handlers, Step(h), ~emitMatched(h) PROVE told' = told
  BY <1>3 DEF Step, checkExistingLike, createLike, createLikeDuplicate, afterLike,
              createConversation, createParticipant, createMatch, afterMatch,
              createNotificationMatched, createNotificationObjects
<1>4. ASSUME NEW h \in Handlers, NEW s \in Sockets, NEW v \in Users,
             createUserLike(h, s, v)
      PROVE  told' = told
  BY <1>4 DEF createUserLike
<1>5. ASSUME Connections \/ UNCHANGED vars PROVE told' = told
  BY <1>5 DEF Connections, vars
<1>6. ASSUME NEW u \in Users, NEW v \in Users, restCreateLike(u, v) PROVE told' = told
  BY <1>6 DEF restCreateLike
<1>7. ASSUME Fault PROVE told' = told
  BY <1>7 DEF Fault, Throw, insertManyFails, rejectOne, Restart
<1> QED
  BY <1>1, <1>2, <1>3, <1>4, <1>5, <1>6, <1>7 DEF Next, Environment, Work

(* The registry inside the matching is the one of Sessions.                  *)
LEMMA RegistryStep == SessTypeOK /\ RegisteredIsLive /\ [Next]_vars => RegisteredIsLive'
<1> SUFFICES ASSUME SessTypeOK, RegisteredIsLive, [Next]_vars PROVE RegisteredIsLive'
  OBVIOUS
<1>1. ASSUME Connections \/ Restart PROVE SessNext
  BY <1>1 DEF Connections, Restart, SessNext
<1>2. ASSUME NEW h \in Handlers, Step(h) PROVE UNCHANGED sessVars
  BY <1>2 DEF Step, checkExistingLike, createLike, createLikeDuplicate, afterLike,
              createConversation, createParticipant, createMatch, afterMatch,
              createNotificationMatched, createNotificationObjects, emitMatched
<1>3. ASSUME NEW h \in Handlers, NEW s \in Sockets, NEW v \in Users,
             createUserLike(h, s, v)
      PROVE  UNCHANGED sessVars
  BY <1>3 DEF createUserLike
<1>4. ASSUME NEW u \in Users, NEW v \in Users, restCreateLike(u, v)
      PROVE  UNCHANGED sessVars
  BY <1>4 DEF restCreateLike
<1>5. ASSUME NEW h \in Handlers, Throw(h) \/ insertManyFails(h) \/ rejectOne(h)
      PROVE  UNCHANGED sessVars
  BY <1>5 DEF Throw, insertManyFails, rejectOne
<1>6. ASSUME UNCHANGED vars PROVE UNCHANGED sessVars
  BY <1>6 DEF vars
<1>7. [SessNext]_sessVars
  BY <1>1, <1>2, <1>3, <1>4, <1>5, <1>6 DEF Next, Environment, Work, Fault
<1> QED
  BY <1>7, SessStep DEF SessInv

LEMMA TalkStep == TalkInv /\ [Next]_vars => TalkInv'
<1> SUFFICES ASSUME TalkInv, [Next]_vars PROVE TalkInv'
  OBVIOUS
<1>1. IInv'
  BY InvStep DEF TalkInv
<1>2. RegisteredIsLive'
  BY RegistryStep DEF TalkInv, IInv, TypeInv, TypeOK
<1>3. LocalAll' /\ StoredAll'
  BY SlotsKeep
<1>4. Talk'
  <2>1. CASE \E h \in Handlers : createLike(h)
    BY <2>1, LikeTalks
  <2>2. CASE \E h \in Handlers : createConversation(h)
    BY <2>2, ConversationTalks
  <2>3. CASE \E h \in Handlers, op \in Operations : createParticipant(h, op)
    BY <2>3, ParticipantTalks
  <2>4. CASE \A h \in Handlers : /\ ~createLike(h) /\ ~createConversation(h)
                                 /\ \A op \in Operations : ~createParticipant(h, op)
    BY <2>4, MostAreQuiet, QuietKeeps, OnlyGrows
  <2> QED
    BY <2>1, <2>2, <2>3, <2>4
<1>5. ToldWhenReady'
  BY ToldStep
<1> QED
  BY <1>1, <1>2, <1>3, <1>4, <1>5 DEF TalkInv, Talk

LEMMA TalkInit == Init => TalkInv
<1> SUFFICES ASSUME Init PROVE TalkInv
  OBVIOUS
<1>1. IInv
  BY InvInit
<1>2. RegisteredIsLive
  BY DEF Init, SessInit, RegisteredIsLive, getUserSocket
<1>3. \A h \in Handlers : req[h] = Idle(Nobody)
  BY DEF Init
<1>4. LocalAll /\ StoredAll
  BY <1>3, IdleSlot, IdleIsRequest DEF LocalAll, StoredAll
<1>5. OwnConversation /\ OwnParticipants /\ WinnersOnly
  BY <1>3 DEF Init, Idle, OwnConversation, OwnParticipants, WinnersOnly, Winner
<1>6. InStored /\ TalkImpliesMutualLikes /\ OneConversationPerPair /\ ToldWhenReady
  BY DEF Init, InStored, TalkImpliesMutualLikes, OneConversationPerPair, ToldWhenReady
<1> QED
  BY <1>1, <1>2, <1>4, <1>5, <1>6 DEF TalkInv

LEMMA Talking == Spec => []TalkInv
BY TalkInit, TalkStep, PTL DEF Spec

(* A pair never gets two conversations from its likes, for any users,        *)
(* sockets, requests, failures and restarts, although conversations have no  *)
(* unique key and nobody looks for an older one.                             *)
THEOREM OneConversation == Spec => []OneConversationPerPair
<1>1. TalkInv => OneConversationPerPair
  BY DEF TalkInv
<1> QED
  BY <1>1, Talking, PTL

(* Whoever is told about a match finds the match, the conversation with both *)
(* participants and both notifications stored, in whatever order the writes  *)
(* of the Promise.all are applied and whichever of them fail.                *)
THEOREM ToldIsReady == Spec => []ToldWhenReady
<1>1. TalkInv => ToldWhenReady
  BY DEF TalkInv
<1> QED
  BY <1>1, Talking, PTL

-----------------------------------------------------------------------------
(* Without failures: a match is complete, or its request is still at it.     *)

NoneRejected == \A h \in Handlers : ~req[h].rejected

Complete(u, v) ==
    \E c \in conversations : {<<c, u>>, <<c, v>>} \subseteq participants \cap inbox

CompleteOrServed == \A u, v \in Users :
    <<u, v>> \in matches =>
        \/ Complete(u, v)
        \/ \E h \in Handlers : Begun(req[h]) /\ req[h].from = v /\ req[h].to = u

CalmInv == TalkInv /\ NoneRejected /\ CompleteOrServed

(* A step without a failure rejects nothing: the one insert that an index    *)
(* could reject is of a match that is not there yet.                         *)
LEMMA NoneIsRejected ==
    ASSUME CalmInv, [Environment \/ Work]_vars
    PROVE  NoneRejected'
<1>r. req \in [Handlers -> Request] /\ NoneRejected
  BY DEF CalmInv, TalkInv, IInv, TypeInv, TypeOK
<1>1. ASSUME NEW h \in Handlers, createMatch(h) PROVE NoneRejected'
  <2>1. NewMatch(h) \notin matches
    BY <1>1 DEF createMatch, CalmInv, TalkInv, IInv, NotYetMatched, AboutToMatch, LikesOf,
                NewMatch
  <2> DEFINE n == [req[h] EXCEPT !.pending = @ \ {"match"},
                                 !.rejected = @ \/ NewMatch(h) \in matches]
  <2>2. req' = [req EXCEPT ![h] = n]
    BY <1>1 DEF createMatch
  <2>3. n.rejected = (req[h].rejected \/ NewMatch(h) \in matches)
    BY <1>r DEF Request
  <2>4. ~n.rejected
    BY <1>r, <2>1, <2>3 DEF NoneRejected
  <2> HIDE DEF n
  <2> QED
    BY <1>r, <2>2, <2>4 DEF NoneRejected
<1>2. ASSUME NEW h \in Handlers, Finish(h) PROVE NoneRejected'
  BY <1>r, <1>2 DEF Finish, Idle, NoneRejected
<1>3. ASSUME NEW h \in Handlers, Step(h), ~createMatch(h), ~Finish(h) PROVE NoneRejected'
  <2>1. ASSUME NEW op \in Operations, createParticipant(h, op) PROVE NoneRejected'
    BY <1>r, <2>1 DEF createParticipant, NoneRejected, Request
  <2>2. CASE createConversation(h)
    BY <1>r, <2>2 DEF createConversation, NoneRejected, Request
  <2>3. CASE checkExistingLike(h)
    BY <1>r, <2>3 DEF checkExistingLike, NoneRejected, Request
  <2>4. CASE createLike(h) \/ createNotificationMatched(h) \/ createNotificationObjects(h)
    BY <1>r, <2>4 DEF createLike, createNotificationMatched, createNotificationObjects,
                      Goto, NoneRejected, Request
  <2>5. CASE afterLike(h)
    BY <1>r, <1>3, <2>5 DEF afterLike, IssueMatch, NoneRejected, Request
  <2>6. CASE afterMatch(h)
    BY <1>r, <1>3, <2>6 DEF afterMatch, Goto, NoneRejected, Request
  <2>7. CASE createLikeDuplicate(h) \/ emitMatched(h)
    BY <1>3, <2>7 DEF createLikeDuplicate, emitMatched
  <2> QED
    BY <1>3, <2>1, <2>2, <2>3, <2>4, <2>5, <2>6, <2>7 DEF Step
<1>4. ASSUME NEW h \in Handlers, NEW s \in Sockets, NEW v \in Users,
             createUserLike(h, s, v)
      PROVE  NoneRejected'
  BY <1>r, <1>4 DEF createUserLike, Idle, NoneRejected
<1>5. ASSUME UNCHANGED req PROVE NoneRejected'
  BY <1>r, <1>5 DEF NoneRejected
<1>6. ASSUME Connections \/ UNCHANGED vars PROVE UNCHANGED req
  BY <1>6 DEF Connections, vars
<1>7. ASSUME NEW u \in Users, NEW v \in Users, restCreateLike(u, v) PROVE UNCHANGED req
  BY <1>7 DEF restCreateLike
<1> QED
  BY <1>1, <1>2, <1>3, <1>4, <1>5, <1>6, <1>7 DEF Environment, Work

\* A request that is at its Promise.all or beyond goes on, or has completed its match.
LEMMA GoesOn ==
    ASSUME CalmInv, [Environment \/ Work]_vars, NEW h \in Handlers, Begun(req[h])
    PROVE  \/ Begun(req'[h]) /\ req'[h].from = req[h].from /\ req'[h].to = req[h].to
           \/ Complete(req[h].to, req[h].from)
<1>r. /\ req \in [Handlers -> Request] /\ NoneRejected
      /\ req[h].from \in Users /\ req[h].to \in Users
  BY DEF CalmInv, TalkInv, IInv, TypeInv, TypeOK, Request
<1>1. ASSUME NEW g \in Handlers, g # h, \E r : req' = [req EXCEPT ![g] = r]
      PROVE  req'[h] = req[h]
  BY <1>r, <1>1
<1>2. ASSUME NEW g \in Handlers, Step(g), g # h PROVE req'[h] = req[h]
  BY <1>r, <1>2 DEF Step, checkExistingLike, createLike, createLikeDuplicate, afterLike,
              IssueMatch, Goto, Finish, createConversation, createParticipant, createMatch,
              afterMatch, createNotificationMatched, createNotificationObjects, emitMatched
<1>3. ASSUME Step(h)
      PROVE  \/ Begun(req'[h]) /\ req'[h].from = req[h].from /\ req'[h].to = req[h].to
             \/ Complete(req[h].to, req[h].from)
  <2>1. CASE emitMatched(h)
    <3>1. req[h].stage = "emit"
      BY <2>1 DEF emitMatched, At
    <3>2. /\ req[h].conv \in conversations
          /\ {<<req[h].conv, req[h].to>>, <<req[h].conv, req[h].from>>}
                \subseteq participants \cap inbox
      BY <3>1, NoConversationAssumption
         DEF CalmInv, TalkInv, IInv, TypeInv, Known, LocalAll, Local, StoredAll, Stored
    <3> QED
      BY <3>2 DEF Complete
  <2>2. ASSUME NEW op \in Operations, createParticipant(h, op)
        PROVE  Begun(req'[h]) /\ req'[h].from = req[h].from /\ req'[h].to = req[h].to
    BY <1>r, <2>2 DEF createParticipant, Begun, Request
  <2>3. CASE createConversation(h)
    BY <1>r, <2>3 DEF createConversation, Begun, Request
  <2>4. CASE createMatch(h)
    BY <1>r, <2>4 DEF createMatch, Begun, Request
  <2>5. CASE afterMatch(h)
    BY <1>r, <2>5 DEF afterMatch, Goto, NoneRejected, Begun, Request
  <2>6. CASE createNotificationMatched(h) \/ createNotificationObjects(h)
    BY <1>r, <2>6 DEF createNotificationMatched, createNotificationObjects, Goto, Begun, Request
  <2>7. ~(checkExistingLike(h) \/ createLike(h) \/ createLikeDuplicate(h) \/ afterLike(h))
    BY DEF checkExistingLike, createLike, createLikeDuplicate, afterLike, At, Begun
  <2> QED
    BY <1>3, <2>1, <2>2, <2>3, <2>4, <2>5, <2>6, <2>7 DEF Step
<1>4. ASSUME NEW g \in Handlers, NEW s \in Sockets, NEW v \in Users,
             createUserLike(g, s, v)
      PROVE  req'[h] = req[h]
  BY <1>r, <1>4 DEF createUserLike, IsIdle, Begun
<1>5. ASSUME Connections \/ UNCHANGED vars PROVE req'[h] = req[h]
  BY <1>5 DEF Connections, vars
<1>6. ASSUME NEW u \in Users, NEW v \in Users, restCreateLike(u, v) PROVE req'[h] = req[h]
  BY <1>6 DEF restCreateLike
<1> QED
  BY <1>2, <1>3, <1>4, <1>5, <1>6 DEF Environment, Work

LEMMA ServedStep ==
    ASSUME CalmInv, [Environment \/ Work]_vars
    PROVE  CompleteOrServed'
<1>n. [Next]_vars
  BY DEF Next
<1>g. /\ conversations \subseteq conversations' /\ participants \subseteq participants'
      /\ inbox \subseteq inbox'
  BY <1>n, OnlyGrows
<1>k. ASSUME NEW u \in Users, NEW v \in Users, Complete(u, v) PROVE Complete(u, v)'
  BY <1>g, <1>k DEF Complete
<1>u. req \in [Handlers -> Request]
  BY DEF CalmInv, TalkInv, IInv, TypeInv, TypeOK
<1>1. ASSUME NEW u \in Users, NEW v \in Users, <<u, v>> \in matches
      PROVE  \/ Complete(u, v)'
             \/ \E h \in Handlers : Begun(req'[h]) /\ req'[h].from = v /\ req'[h].to = u
  <2>1. CASE Complete(u, v)
    BY <1>k, <2>1
  <2>2. ASSUME NEW h \in Handlers, Begun(req[h]), req[h].from = v, req[h].to = u
        PROVE  \/ Complete(u, v)'
               \/ \E g \in Handlers : Begun(req'[g]) /\ req'[g].from = v /\ req'[g].to = u
    BY <1>k, <2>2, GoesOn
  <2> QED
    BY <1>1, <2>1, <2>2 DEF CalmInv, CompleteOrServed
<1>2. ASSUME NEW h \in Handlers, createMatch(h) PROVE CompleteOrServed'
  <2>1. matches' = matches \cup {<<req[h].to, req[h].from>>}
    BY <1>2 DEF createMatch, NewMatch
  <2>2. Begun(req'[h]) /\ req'[h].from = req[h].from /\ req'[h].to = req[h].to
    BY <1>u, <1>2 DEF createMatch, Pending, At, Begun, Request
  <2>3. \A u, v \in Users :
          <<u, v>> \in matches' => \/ <<u, v>> \in matches
                                   \/ u = req[h].to /\ v = req[h].from
    BY <2>1
  <2> QED
    BY <1>1, <2>2, <2>3 DEF CompleteOrServed
<1>3. ASSUME matches' = matches PROVE CompleteOrServed'
  BY <1>1, <1>3 DEF CompleteOrServed
<1>4. (\A h \in Handlers : ~createMatch(h)) => matches' = matches
  <2>1. (\E h \in Handlers : createLike(h)) => matches' = matches
    BY DEF createLike
  <2> QED
    BY <1>n, <2>1, OtherStep DEF CalmInv, TalkInv
<1> QED
  BY <1>2, <1>3, <1>4

LEMMA CalmStep == CalmInv /\ [Environment \/ Work]_vars => CalmInv'
<1>1. [Environment \/ Work]_vars => [Next]_vars
  BY DEF Next
<1> QED
  BY <1>1, TalkStep, NoneIsRejected, ServedStep DEF CalmInv

LEMMA CalmInit == Init => CalmInv
<1> SUFFICES ASSUME Init PROVE CalmInv
  OBVIOUS
<1>1. TalkInv
  BY TalkInit
<1> QED
  BY <1>1 DEF CalmInv, NoneRejected, CompleteOrServed, Init, Idle

(* Without failures every match is complete when its request has ended, for  *)
(* any number of requests, REST likes and disconnects meanwhile: one         *)
(* conversation with both users, and a notification for each of them.        *)
THEOREM SettledIsComplete == CalmSpec => []SettledMatchIsComplete
<1>1. CalmInv => SettledMatchIsComplete
  BY DEF CalmInv, CompleteOrServed, Complete, SettledMatchIsComplete, IsIdle, Begun
<1>2. CalmSpec => []CalmInv
  BY CalmInit, CalmStep, PTL DEF CalmSpec
<1> QED
  BY <1>1, <1>2, PTL
=============================================================================
