----------------------------- MODULE PaymentsProofs ----------------------------
(***************************************************************************)
(* Proofs about payments, for any users, requests and bounds.              *)
(***************************************************************************)
EXTENDS Payments, FiniteSetTheorems, WellFoundedInduction, TLAPS

(* What the argument needs of a request: that it is a record with a stage.   *)
(* Its other fields are in some set, whatever it is.                         *)
Fields(C) == [stage : Stages, type : Types, recipients : C, code : C, id : C]
Shape == \E C : req \in [Requests -> Fields(C)]

PaidInv ==
    /\ Shape
    /\ paid \in Nat /\ granted \in Nat /\ failed \in BOOLEAN
    /\ PaidIsGranted

\* Only request h moves, and it moves to a stage.
Moves(h, stage) ==
    /\ Shape'
    /\ \A g \in Requests : req'[g].stage = IF g = h THEN stage ELSE req[g].stage

-----------------------------------------------------------------------------
(* How the actions move a request.                                         *)

\* An assignment of a whole record is a move.
LEMMA SetMoves ==
    ASSUME Shape, NEW h \in Requests, NEW s \in Stages, NEW t \in Types, NEW r, NEW c, NEW i,
           req' = [req EXCEPT ![h] = [stage |-> s, type |-> t, recipients |-> r,
                                      code |-> c, id |-> i]]
    PROVE  Moves(h, s)
<1>1. PICK C : req \in [Requests -> Fields(C)]
  BY DEF Shape
<1>2. req \in [Requests -> Fields(C \cup {r, c, i})]
  BY <1>1 DEF Fields
<1>3. req' \in [Requests -> Fields(C \cup {r, c, i})]
  BY <1>2 DEF Fields
<1>4. Shape'
  BY <1>3 DEF Shape
<1> QED
  BY <1>1, <1>4 DEF Moves, Fields

\* Goto is a move.
LEMMA GotoMoves ==
    ASSUME Shape, NEW h \in Requests, NEW s \in Stages, Goto(h, s)
    PROVE  Moves(h, s)
<1>1. PICK C : req \in [Requests -> Fields(C)]
  BY DEF Shape
<1>2. req' \in [Requests -> Fields(C)]
  BY <1>1 DEF Goto, Fields
<1>3. Shape'
  BY <1>2 DEF Shape
<1> QED
  BY <1>1, <1>3 DEF Moves, Fields, Goto

\* Finish is a move to "idle".
LEMMA FinishMoves ==
    ASSUME Shape, NEW h \in Requests, Finish(h)
    PROVE  Moves(h, "idle")
<1>1. "idle" \in Stages /\ "SYSTEM" \in Types
  BY DEF Stages, Types
<1> QED
  BY <1>1, SetMoves DEF Finish, Idle, Handler

\* A request that begins moves from "idle" to its first stage.
LEMMA BeginMoves ==
    ASSUME Shape, NEW h \in Requests, NEW s \in Stages, NEW t \in Types, NEW r, NEW i,
           Begin(h, Handler(s, t, r, i))
    PROVE  Moves(h, s) /\ ~At(h, "grant") /\ failed' = failed
<1>1. req' = [req EXCEPT ![h] = [stage |-> s, type |-> t, recipients |-> r,
                                 code |-> 0, id |-> i]]
  BY DEF Begin, Handler
<1>2. Moves(h, s)
  BY <1>1, SetMoves
<1> QED
  BY <1>2 DEF Begin, At

-----------------------------------------------------------------------------
(* What a move does to the set of requests that are about to grant.        *)

\* Only finitely many requests are about to grant.
LEMMA GrantingFinite == IsFiniteSet(Granting) /\ Cardinality(Granting) \in Nat
<1>1. Granting \in SUBSET Requests
  BY DEF Granting
<1>2. IsFiniteSet(Granting)
  BY <1>1, RequestsAssumption, FS_Subset
<1> QED
  BY <1>2, FS_CardinalityType

\* A move that neither enters nor leaves "grant", or leaves it by a failure.
LEMMA OtherMove ==
    ASSUME PaidInv, NEW h \in Requests, NEW s \in Stages, Moves(h, s), s # "grant",
           UNCHANGED payVars, failed' \in BOOLEAN, failed => failed',
           At(h, "grant") => failed'
    PROVE  PaidInv'
<1>1. Granting' = Granting \ {h}
  BY DEF Granting, At, Moves
<1>2. Cardinality(Granting') = IF At(h, "grant") THEN Cardinality(Granting) - 1
                                                 ELSE Cardinality(Granting)
  BY <1>1, GrantingFinite, FS_RemoveElement DEF Granting
<1>3. PaidIsGranted'
  BY <1>2, GrantingFinite DEF PaidInv, PaidIsGranted, payVars
<1> QED
  BY <1>3 DEF PaidInv, Moves, payVars

\* A payment is made and its request is about to grant.
LEMMA PaidMove ==
    ASSUME PaidInv, NEW h \in Requests, Moves(h, "grant"), ~At(h, "grant"),
           paid' = paid + 1, granted' = granted, failed' = failed
    PROVE  PaidInv'
<1>1. Granting' = Granting \cup {h} /\ h \notin Granting
  BY DEF Granting, At, Moves
<1>2. Cardinality(Granting') = Cardinality(Granting) + 1
  BY <1>1, GrantingFinite, FS_AddElement
<1>3. PaidIsGranted'
  BY <1>2, GrantingFinite DEF PaidInv, PaidIsGranted
<1> QED
  BY <1>3 DEF PaidInv, Moves

\* The package of a request that is about to grant is granted.
LEMMA GrantedMove ==
    ASSUME PaidInv, NEW h \in Requests, Moves(h, "code"), At(h, "grant"),
           paid' = paid, granted' = granted + 1, failed' = failed
    PROVE  PaidInv'
<1>1. Granting' = Granting \ {h} /\ h \in Granting
  BY DEF Granting, At, Moves
<1>2. Cardinality(Granting') = Cardinality(Granting) - 1
  BY <1>1, GrantingFinite, FS_RemoveElement
<1>3. PaidIsGranted'
  BY <1>2, GrantingFinite DEF PaidInv, PaidIsGranted
<1> QED
  BY <1>3 DEF PaidInv, Moves

\* A restart grants nothing and takes nothing back.
LEMMA RestartKeeps == PaidInv /\ Restart /\ UNCHANGED payVars => PaidInv'
<1> SUFFICES ASSUME PaidInv, Restart, UNCHANGED payVars PROVE PaidInv'
  OBVIOUS
<1>1. req' \in [Requests -> Fields({<<>>, 0})] /\ \A h \in Requests : req'[h].stage = "idle"
  BY DEF Restart, Idle, Handler, Fields, Stages, Types
<1>2. Shape'
  BY <1>1 DEF Shape
<1>3. Granting' = {}
  BY <1>1 DEF Granting, At
<1>4. Cardinality(Granting') = 0
  BY <1>3, FS_EmptySet
<1>5. PaidIsGranted'
  BY <1>4, GrantingFinite DEF PaidInv, PaidIsGranted, payVars, Restart
<1> QED
  BY <1>2, <1>5 DEF PaidInv, payVars, Restart

-----------------------------------------------------------------------------
(* One lemma per part of the next-state relation.                          *)

\* Clients of the notifications begin requests or write documents.
LEMMA ClientsKeep == PaidInv /\ NoteClients /\ UNCHANGED payVars => PaidInv'
<1> SUFFICES ASSUME PaidInv, NoteClients, UNCHANGED payVars PROVE PaidInv'
  OBVIOUS
<1> USE DEF PaidInv, Stages, Types
<1>1. ASSUME NEW h \in Requests, NEW R \in Audiences, create(h, R) PROVE PaidInv'
  <2>1. Moves(h, "code") /\ ~At(h, "grant") /\ failed' = failed
    BY <1>1, BeginMoves DEF create
  <2> QED
    BY <2>1, OtherMove
<1>2. ASSUME NEW h \in Requests, NEW u \in Users, NEW v \in Users,
             createNotificationMatched(h, u, v)
      PROVE  PaidInv'
  <2>1. Moves(h, "code") /\ ~At(h, "grant") /\ failed' = failed
    BY <1>2, BeginMoves DEF createNotificationMatched
  <2> QED
    BY <2>1, OtherMove
<1>3. ASSUME NEW h \in Requests, NEW id \in Ids, active(h, id) PROVE PaidInv'
  <2>1. Moves(h, "activate") /\ ~At(h, "grant") /\ failed' = failed
    BY <1>3, BeginMoves DEF active
  <2> QED
    BY <2>1, OtherMove
<1>4. ASSUME UNCHANGED <<req, failed>> PROVE PaidInv'
  BY <1>4 DEF Shape, payVars, PaidIsGranted, Granting, At
<1>5. ASSUME NEW id \in Ids, inActive(id) \/ delete(id) PROVE PaidInv'
  BY <1>4, <1>5 DEF inActive, delete, history
<1>6. ASSUME NEW o \in objects, deleteObject(o) PROVE PaidInv'
  BY <1>4, <1>6 DEF deleteObject, history
<1>7. ASSUME NEW u \in Users, deleteAll(u) PROVE PaidInv'
  BY <1>4, <1>7 DEF deleteAll, history
<1>8. ASSUME NEW o \in objects, NEW value \in BOOLEAN, read(o, value) PROVE PaidInv'
  BY <1>4, <1>8 DEF read, history
<1>9. ASSUME NEW u \in Users, readAll(u) PROVE PaidInv'
  BY <1>4, <1>9 DEF readAll, history
<1> QED
  BY <1>1, <1>2, <1>3, <1>5, <1>6, <1>7, <1>8, <1>9 DEF NoteClients

\* The steps of a request between its calls move it on, never from "grant".
LEMMA StepsKeep ==
    ASSUME NEW h \in Requests, PaidInv, NoteStep(h), UNCHANGED payVars
    PROVE  PaidInv'
<1>1. PICK C : req \in [Requests -> Fields(C)]
  BY DEF PaidInv, Shape
<1>2. ASSUME getCode(h) PROVE Moves(h, "new") /\ ~At(h, "grant") /\ failed' = failed
  <2>1. req' \in [Requests -> Fields(C \cup {NextCode(notifications)})]
    <3> DEFINE c == NextCode(notifications)
    <3> DEFINE n == [req[h] EXCEPT !.stage = "new", !.code = c]
    <3>1. req' = [req EXCEPT ![h] = n]
      BY <1>2 DEF getCode
    <3> HIDE DEF c
    <3>2. req \in [Requests -> Fields(C \cup {c})]
      BY <1>1 DEF Fields
    <3>3. n \in Fields(C \cup {c})
      BY <3>2 DEF Fields, Stages
    <3> HIDE DEF n
    <3>4. req' \in [Requests -> Fields(C \cup {c})]
      BY <3>1, <3>2, <3>3
    <3> QED
      BY <3>4 DEF c
  <2>2. \A g \in Requests : req'[g].stage = IF g = h THEN "new" ELSE req[g].stage
    BY <1>1, <1>2 DEF getCode, Fields
  <2>3. req[h].stage = "code" /\ failed' = failed
    BY <1>2 DEF getCode, At, history
  <2> QED
    BY <2>1, <2>2, <2>3 DEF Moves, Shape, At
<1>3. ASSUME newDocuments(h) PROVE Moves(h, "insert") /\ ~At(h, "grant") /\ failed' = failed
  <2>1. req' \in [Requests -> Fields(C \cup {nextId})]
    <3> DEFINE c == nextId
    <3> DEFINE n == [req[h] EXCEPT !.stage = "insert", !.id = c]
    <3>1. req' = [req EXCEPT ![h] = n]
      BY <1>3 DEF newDocuments
    <3> HIDE DEF c
    <3>2. req \in [Requests -> Fields(C \cup {c})]
      BY <1>1 DEF Fields
    <3>3. n \in Fields(C \cup {c})
      BY <3>2 DEF Fields, Stages
    <3> HIDE DEF n
    <3>4. req' \in [Requests -> Fields(C \cup {c})]
      BY <3>1, <3>2, <3>3
    <3> QED
      BY <3>4 DEF c
  <2>2. \A g \in Requests : req'[g].stage = IF g = h THEN "insert" ELSE req[g].stage
    BY <1>1, <1>3 DEF newDocuments, Fields
  <2>3. req[h].stage = "new" /\ failed' = failed
    BY <1>3 DEF newDocuments, At, history
  <2> QED
    BY <2>1, <2>2, <2>3 DEF Moves, Shape, At
<1>4. ASSUME insert(h) PROVE Moves(h, "objects") /\ ~At(h, "grant") /\ failed' = failed
  <2>1. req' \in [Requests -> Fields(C \cup {0})]
    <3> DEFINE n == [req[h] EXCEPT !.stage = "objects", !.code = 0]
    <3>1. req' = [req EXCEPT ![h] = n]
      BY <1>4 DEF insert
    <3>2. req \in [Requests -> Fields(C \cup {0})]
      BY <1>1 DEF Fields
    <3>3. n \in Fields(C \cup {0})
      BY <3>2 DEF Fields, Stages
    <3> HIDE DEF n
    <3> QED
      BY <3>1, <3>2, <3>3
  <2>2. \A g \in Requests : req'[g].stage = IF g = h THEN "objects" ELSE req[g].stage
    BY <1>1, <1>4 DEF insert, Fields
  <2>3. req[h].stage = "insert" /\ failed' = failed
    BY <1>4 DEF insert, At, history
  <2> QED
    BY <2>1, <2>2, <2>3 DEF Moves, Shape, At
<1>5. ASSUME createMany(h) \/ createNotification(h)
      PROVE  Moves(h, "idle") /\ ~At(h, "grant") /\ failed' = failed
  BY <1>5, FinishMoves DEF PaidInv, createMany, createNotification, At, history
<1>6. ASSUME activate(h)
      PROVE  (Moves(h, "status") \/ Moves(h, "idle")) /\ ~At(h, "grant") /\ failed' = failed
  <2>1. Goto(h, "status") => Moves(h, "status")
    BY GotoMoves DEF PaidInv, Stages
  <2> QED
    BY <1>6, <2>1, FinishMoves DEF PaidInv, activate, At, history
<1>7. ASSUME updateStatusByNotificationId(h)
      PROVE  Moves(h, "tell") /\ ~At(h, "grant") /\ failed' = failed
  <2>1. "tell" \in Stages
    BY DEF Stages
  <2>2. Goto(h, "tell") /\ At(h, "status") /\ failed' = failed
    BY <1>7 DEF updateStatusByNotificationId, history
  <2> QED
    BY <2>1, <2>2, GotoMoves DEF PaidInv, At
<1>8. PICK s \in Stages \ {"grant"} : Moves(h, s) /\ ~At(h, "grant") /\ failed' = failed
  BY <1>2, <1>3, <1>4, <1>5, <1>6, <1>7 DEF NoteStep, Stages
<1> QED
  BY <1>8, OtherMove DEF PaidInv

\* A failure drops its request, and remembers that it did.
LEMMA FaultsKeep == PaidInv /\ NoteFault /\ UNCHANGED payVars => PaidInv'
<1> SUFFICES ASSUME PaidInv, NoteFault, UNCHANGED payVars PROVE PaidInv'
  OBVIOUS
<1>1. ASSUME NEW h \in Requests, Throw(h) \/ insertManyFails(h) PROVE PaidInv'
  <2>1. Moves(h, "idle") /\ failed' = TRUE
    BY <1>1, FinishMoves DEF PaidInv, Throw, insertManyFails
  <2> QED
    BY <2>1, OtherMove DEF Stages
<1> QED
  BY <1>1, RestartKeeps DEF NoteFault

\* Both routes, Stripe's answer and the grant.
LEMMA PaymentsKeep ==
    ASSUME NEW h \in Requests, PaidInv,
           PayStep(h) \/ \E u \in Users : createCharge(h, u) \/ createOrder(h, u)
    PROVE  PaidInv'
<1> USE DEF PaidInv, Stages, Types
<1>1. ASSUME NEW u \in Users, createCharge(h, u) PROVE PaidInv'
  <2>1. Moves(h, "charge") /\ ~At(h, "grant") /\ failed' = failed
    BY <1>1, BeginMoves DEF createCharge, Start
  <2> QED
    BY <1>1, <2>1, OtherMove DEF createCharge, Start, payVars
<1>2. ASSUME NEW u \in Users, createOrder(h, u) PROVE PaidInv'
  <2>1. Moves(h, "grant") /\ ~At(h, "grant") /\ failed' = failed
    BY <1>2, BeginMoves DEF createOrder, Start
  <2> QED
    BY <1>2, <2>1, PaidMove DEF createOrder, Start
<1>3. ASSUME charge(h) PROVE PaidInv'
  <2>1. Moves(h, "grant")
    BY <1>3, GotoMoves DEF charge
  <2> QED
    BY <1>3, <2>1, PaidMove DEF charge, At, history
<1>4. ASSUME grant(h) PROVE PaidInv'
  <2>1. PICK C : req \in [Requests -> Fields(C)]
    BY DEF Shape
  <2>2. req' \in [Requests -> Fields(C)]
    <3> DEFINE n == [req[h] EXCEPT !.stage = "code", !.type = "PAYMENT"]
    <3>1. req' = [req EXCEPT ![h] = n]
      BY <1>4 DEF grant, createNotificationPayment
    <3>2. n \in Fields(C)
      BY <2>1 DEF Fields, Stages, Types
    <3> HIDE DEF n
    <3> QED
      BY <2>1, <3>1, <3>2
  <2>3. Moves(h, "code")
    <3>1. \A g \in Requests : req'[g].stage = IF g = h THEN "code" ELSE req[g].stage
      BY <1>4, <2>1 DEF grant, createNotificationPayment, Fields
    <3> QED
      BY <2>2, <3>1 DEF Moves, Shape
  <2> QED
    BY <1>4, <2>3, GrantedMove DEF grant, history
<1> QED
  BY <1>1, <1>2, <1>3, <1>4 DEF PayStep

\* Every step of the next-state relation.
LEMMA PaidStep == PaidInv /\ [Next]_vars => PaidInv'
<1> SUFFICES ASSUME PaidInv, [Next]_vars PROVE PaidInv'
  OBVIOUS
<1>1. CASE PayClients \/ \E h \in Requests : PayStep(h)
  BY <1>1, PaymentsKeep DEF PayClients
<1>2. CASE NoteNext /\ UNCHANGED payVars
  BY <1>2, ClientsKeep, StepsKeep, FaultsKeep DEF NoteNext
<1>3. CASE UNCHANGED vars
  BY <1>3 DEF vars, noteVars, payVars, history, PaidInv, Shape, PaidIsGranted, Granting, At
<1> QED
  BY <1>1, <1>2, <1>3 DEF Next

\* Nobody has paid and no request is in flight.
LEMMA PaidInitially == PayInit => PaidInv
<1> SUFFICES ASSUME PayInit PROVE PaidInv
  OBVIOUS
<1>1. req \in [Requests -> Fields({<<>>, 0})]
  BY DEF PayInit, NoteInit, Idle, Handler, Fields, Stages, Types
<1>2. Granting = {}
  BY DEF PayInit, NoteInit, Granting, At, Idle, Handler
<1>3. Cardinality(Granting) = 0
  BY <1>2, FS_EmptySet
<1>4. Shape
  BY <1>1 DEF Shape
<1>5. PaidIsGranted
  BY <1>3 DEF PayInit, NoteInit, PaidIsGranted
<1> QED
  BY <1>4, <1>5 DEF PayInit, NoteInit, PaidInv

(* Whatever overlaps or fails, no package is granted without a charge or a   *)
(* reported order of its own; without a failure, none is paid for in vain.   *)
THEOREM Paid == Spec => []PaidIsGranted
<1>1. PaidInv => PaidIsGranted
  BY DEF PaidInv
<1> QED
  BY <1>1, PaidInitially, PaidStep, PTL DEF Spec

-----------------------------------------------------------------------------
(* Type correctness.  What a request carries depends on its stage: a code    *)
(* once it was read, ids once its documents were made, and a listener of a   *)
(* payment has one recipient.                                                *)

Formed(r, next) ==
    /\ r.stage \in {"code", "new", "insert", "objects"} => Len(r.recipients) # 0
    /\ r.stage \in {"new", "insert"} => r.code # 0
    /\ r.stage \in {"insert", "objects"} => r.id # 0 /\ r.id + Len(r.recipients) <= next
    /\ r.stage \in {"activate", "status", "tell"} => r.id # 0
    /\ r.stage \in {"charge", "grant"} => Len(r.recipients) = 1
    /\ r.type = "PAYMENT" => /\ r.stage \in {"code", "new", "insert", "objects"}
                             /\ Len(r.recipients) = 1

NoteInv == NoteTypeOK /\ \A h \in Requests : Formed(req[h], nextId)

\* Request h is assigned a whole record.
Made(s, t, r, c, i) == [stage |-> s, type |-> t, recipients |-> r, code |-> c, id |-> i]
Puts(h, s, t, r, c, i) == req' = [req EXCEPT ![h] = Made(s, t, r, c, i)]

(* A well-formed record leaves the requests well-formed.                     *)
LEMMA PutsIs ==
    ASSUME NoteInv, NEW h \in Requests, NEW s \in Stages, NEW t \in Types,
           NEW r \in Seq(SUBSET Users), NEW c \in Nat, NEW i \in 0..MaxId,
           Puts(h, s, t, r, c, i), nextId' \in Nat, nextId <= nextId',
           Formed(Made(s, t, r, c, i), nextId')
    PROVE  /\ req' \in [Requests -> Request]
           /\ \A g \in Requests : Formed(req'[g], nextId')
<1> DEFINE n == Made(s, t, r, c, i)
<1>1. n \in Request
  BY DEF Made, Request
<1>2. req \in [Requests -> Request] /\ nextId \in Nat
  BY NoteAssumption DEF NoteInv, NoteTypeOK
<1>3. ASSUME NEW g \in Requests PROVE Formed(req[g], nextId')
  <2>1. Formed(req[g], nextId) /\ req[g].id \in Nat /\ Len(req[g].recipients) \in Nat
    BY <1>2, NoteAssumption DEF NoteInv, Request
  <2> DEFINE a == req[g].id
             l == Len(req[g].recipients)
  <2>2. a \in Nat /\ l \in Nat /\ nextId \in Nat /\ nextId' \in Nat /\ nextId <= nextId'
    BY <1>2, <2>1
  <2>3. a + l <= nextId => a + l <= nextId'
    <3> HIDE DEF a, l
    <3> QED
      BY <2>2
  <2> QED
    BY <2>1, <2>3 DEF Formed
<1>4. req' = [req EXCEPT ![h] = n]
  BY DEF Puts
<1> HIDE DEF n
<1>5. req' \in [Requests -> Request]
  BY <1>1, <1>2, <1>4
<1>6. \A g \in Requests : req'[g] = IF g = h THEN n ELSE req[g]
  BY <1>2, <1>4
<1> QED
  BY <1>3, <1>5, <1>6 DEF n

\* The fields of a request.
LEMMA FieldsOf ==
    ASSUME NoteInv, NEW h \in Requests
    PROVE  /\ req[h].stage \in Stages /\ req[h].type \in Types
           /\ req[h].recipients \in Seq(SUBSET Users) /\ Count(h) \in Nat
           /\ req[h].code \in Nat /\ req[h].id \in 0..MaxId /\ req[h].id \in Nat
           /\ Formed(req[h], nextId)
<1>1. req[h] \in Request
  BY DEF NoteInv, NoteTypeOK
<1>2. /\ req[h].stage \in Stages /\ req[h].type \in Types
      /\ req[h].recipients \in Seq(SUBSET Users) /\ req[h].code \in Nat
      /\ req[h].id \in 0..MaxId
  BY <1>1 DEF Request
<1> QED
  BY <1>2, NoteAssumption DEF NoteInv, Count

\* The changes of a request, as whole records.
LEMMA ChangesOf ==
    ASSUME NoteInv, NEW h \in Requests, NEW s, NEW t, NEW c, NEW i
    PROVE  /\ Goto(h, s) <=>
                Puts(h, s, req[h].type, req[h].recipients, req[h].code, req[h].id)
           /\ req' = [req EXCEPT ![h].stage = s, ![h].code = c] <=>
                Puts(h, s, req[h].type, req[h].recipients, c, req[h].id)
           /\ req' = [req EXCEPT ![h].stage = s, ![h].id = i] <=>
                Puts(h, s, req[h].type, req[h].recipients, req[h].code, i)
           /\ req' = [req EXCEPT ![h].stage = s, ![h].type = t] <=>
                Puts(h, s, t, req[h].recipients, req[h].code, req[h].id)
<1>1. req[h] \in Request /\ req \in [Requests -> Request]
  BY DEF NoteInv, NoteTypeOK
<1>2. /\ [req[h] EXCEPT !.stage = s] =
             Made(s, req[h].type, req[h].recipients, req[h].code, req[h].id)
      /\ [req[h] EXCEPT !.stage = s, !.code = c] =
             Made(s, req[h].type, req[h].recipients, c, req[h].id)
      /\ [req[h] EXCEPT !.stage = s, !.id = i] =
             Made(s, req[h].type, req[h].recipients, req[h].code, i)
      /\ [req[h] EXCEPT !.stage = s, !.type = t] =
             Made(s, t, req[h].recipients, req[h].code, req[h].id)
  <2>1. ASSUME NEW p \in Request
        PROVE  [p EXCEPT !.stage = s] = Made(s, p.type, p.recipients, p.code, p.id)
    BY DEF Request, Made
  <2>2. ASSUME NEW p \in Request
        PROVE  [p EXCEPT !.stage = s, !.code = c] = Made(s, p.type, p.recipients, c, p.id)
    <3>1. [p EXCEPT !.stage = s, !.code = c] =
             [Made(s, p.type, p.recipients, p.code, p.id) EXCEPT !.code = c]
      BY <2>1
    <3> QED
      BY <3>1 DEF Made
  <2>3. ASSUME NEW p \in Request
        PROVE  [p EXCEPT !.stage = s, !.id = i] = Made(s, p.type, p.recipients, p.code, i)
    <3>1. [p EXCEPT !.stage = s, !.id = i] =
             [Made(s, p.type, p.recipients, p.code, p.id) EXCEPT !.id = i]
      BY <2>1
    <3> QED
      BY <3>1 DEF Made
  <2>4. ASSUME NEW p \in Request
        PROVE  [p EXCEPT !.stage = s, !.type = t] = Made(s, t, p.recipients, p.code, p.id)
    <3>1. [p EXCEPT !.stage = s, !.type = t] =
             [Made(s, p.type, p.recipients, p.code, p.id) EXCEPT !.type = t]
      BY <2>1
    <3> QED
      BY <3>1 DEF Made
  <2> QED
    BY <1>1, <2>1, <2>2, <2>3, <2>4
<1>3. /\ [req EXCEPT ![h].stage = s] = [req EXCEPT ![h] = [req[h] EXCEPT !.stage = s]]
      /\ [req EXCEPT ![h].stage = s, ![h].code = c] =
           [req EXCEPT ![h] = [req[h] EXCEPT !.stage = s, !.code = c]]
      /\ [req EXCEPT ![h].stage = s, ![h].id = i] =
           [req EXCEPT ![h] = [req[h] EXCEPT !.stage = s, !.id = i]]
      /\ [req EXCEPT ![h].stage = s, ![h].type = t] =
           [req EXCEPT ![h] = [req[h] EXCEPT !.stage = s, !.type = t]]
  BY <1>1
<1> QED
  BY <1>2, <1>3 DEF Goto, Puts

\* A free slot is well-formed.
LEMMA IdleIs ==
    /\ Idle = Made("idle", "SYSTEM", <<>>, 0, 0) /\ Idle \in Request
    /\ \A next : Formed(Idle, next)
    /\ "idle" \in Stages /\ "SYSTEM" \in Types /\ <<>> \in Seq(SUBSET Users)
    /\ 0 \in 0..MaxId
<1>1. /\ "idle" \in Stages /\ "SYSTEM" \in Types /\ <<>> \in Seq(SUBSET Users)
      /\ 0 \in 0..MaxId
  BY NoteAssumption DEF Stages, Types
<1>2. Idle = Made("idle", "SYSTEM", <<>>, 0, 0)
  BY DEF Idle, Handler, Made
<1>3. Made("idle", "SYSTEM", <<>>, 0, 0) \in Request
  BY <1>1 DEF Made, Request
<1>4. \A next : Formed(Made("idle", "SYSTEM", <<>>, 0, 0), next)
  BY DEF Formed, Made
<1> QED
  BY <1>1, <1>2, <1>3, <1>4

\* The ids of the documents that a request has made.
Span(r) == {i \in Ids : r.id <= i /\ i < r.id + Len(r.recipients)}

(* The documents of a request have the ids that it took.                     *)
LEMMA NewIs ==
    ASSUME NoteInv, NEW h \in Requests, At(h, "insert"), NEW i \in 1..Count(h)
    PROVE  /\ New(h, i) \in Notification /\ New(h, i).id \in Span(req[h])
           /\ New(h, i).id = req[h].id + i - 1 /\ New(h, i).code = req[h].code + i - 1
           /\ New(h, i).type = req[h].type /\ ~New(h, i).active /\ New(h, i).deletable
<1> DEFINE a == req[h].id
           l == Count(h)
           c == req[h].code
<1>1. /\ a \in Nat /\ l \in Nat /\ c \in Nat /\ a # 0 /\ c # 0 /\ a + l <= nextId
      /\ nextId \in 1..(MaxId + 1) /\ MaxId \in Nat /\ req[h].type \in Types
  BY FieldsOf, NoteAssumption DEF NoteInv, NoteTypeOK, Formed, At, Count
<1>2. i \in 1..l
  OBVIOUS
<1>3. /\ New(h, i) = [id |-> a + i - 1, code |-> c + i - 1, type |-> req[h].type,
                      active |-> FALSE, deletable |-> TRUE]
  BY DEF New
<1>4. Span(req[h]) = {j \in 1..MaxId : a <= j /\ j < a + l}
  BY DEF Span, Count, Ids
<1> HIDE DEF a, l, c
<1>5. /\ a + i - 1 \in 1..MaxId /\ a <= a + i - 1 /\ a + i - 1 < a + l
      /\ c + i - 1 \in Nat \ {0}
  BY <1>1, <1>2
<1>6. New(h, i) \in Notification
  BY <1>1, <1>3, <1>5 DEF Notification, Ids
<1>7. New(h, i).id = a + i - 1 /\ New(h, i).code = c + i - 1
      /\ New(h, i).type = req[h].type /\ ~New(h, i).active /\ New(h, i).deletable
  BY <1>3
<1> QED
  BY <1>4, <1>5, <1>6, <1>7 DEF a, c

(* The objects of a request are inactive and belong to its documents.        *)
LEMMA NewObjectsAre ==
    ASSUME NoteInv, NEW h \in Requests, At(h, "objects"), NEW o \in NewObjects(h)
    PROVE  o \in NotificationObject /\ o.notification \in Span(req[h]) /\ ~o.active
<1> DEFINE a == req[h].id
           l == Count(h)
<1>1. /\ a \in Nat /\ l \in Nat /\ a # 0 /\ a + l <= nextId
      /\ nextId \in 1..(MaxId + 1) /\ MaxId \in Nat
      /\ req[h].recipients \in Seq(SUBSET Users) /\ l = Len(req[h].recipients)
  BY FieldsOf, NoteAssumption DEF NoteInv, NoteTypeOK, Formed, At, Count
<1>2. PICK i \in 1..Count(h) : \E u \in req[h].recipients[i] :
        o = [notification |-> a + i - 1, recipient |-> u, active |-> FALSE, isRead |-> FALSE]
  BY DEF NewObjects
<1>u. PICK u \in req[h].recipients[i] :
        o = [notification |-> a + i - 1, recipient |-> u, active |-> FALSE, isRead |-> FALSE]
  BY <1>2
<1>3. i \in 1..l /\ u \in Users
  BY <1>1
<1>4. Span(req[h]) = {j \in 1..MaxId : a <= j /\ j < a + l}
  BY DEF Span, Count, Ids
<1> HIDE DEF a, l
<1>5. a + i - 1 \in 1..MaxId /\ a <= a + i - 1 /\ a + i - 1 < a + l
  BY <1>1, <1>3
<1>6. o.notification = a + i - 1 /\ ~o.active
  BY <1>u
<1>7. o \in NotificationObject
  BY <1>u, <1>3, <1>5 DEF NotificationObject, Ids
<1> QED
  BY <1>4, <1>5, <1>6, <1>7

(* The last notification exists, as ids are bounded.                         *)
LEMMA LastIs ==
    ASSUME NEW N, N \subseteq Notification, N # {}
    PROVE  Last(N) \in N /\ \A n \in N : n.id <= Last(N).id
<1> DEFINE below == {ss \in Nat \X Nat : ss[1] < ss[2]}
           S == {MaxId - n.id : n \in N}
<1>1. IsWellFoundedOn(below, Nat)
  BY NatLessThanWellFounded DEF OpToRel
<1>2. \A n \in N : n.id \in 1..MaxId
  BY DEF Notification, Ids
<1>3. S \subseteq Nat /\ S # {}
  BY <1>2, NoteAssumption
<1>4. PICK x \in S : \A y \in S : <<y, x>> \notin below
  <2> HIDE DEF below, S
  <2> QED
    BY <1>1, <1>3, WFMin
<1>5. PICK m \in N : x = MaxId - m.id
  OBVIOUS
<1>6. ASSUME NEW n \in N PROVE n.id <= m.id
  <2>1. /\ MaxId - n.id \in Nat /\ MaxId - m.id \in Nat
        /\ n.id \in Nat /\ m.id \in Nat /\ MaxId \in Nat
    BY <1>2, NoteAssumption
  <2>2. <<MaxId - n.id, MaxId - m.id>> \notin below
    BY <1>4, <1>5
  <2>3. ~(MaxId - n.id < MaxId - m.id)
    BY <2>1, <2>2
  <2> QED
    BY <2>1, <2>3
<1> QED
  BY <1>6 DEF Last

LEMMA NextCodeIs ==
    ASSUME NEW N, N \subseteq Notification
    PROVE  NextCode(N) \in Nat /\ NextCode(N) # 0
<1>1. N # {} => Last(N).code \in Nat
  BY LastIs DEF Notification
<1> QED
  BY <1>1 DEF NextCode

-----------------------------------------------------------------------------
(* What each step does to the requests, as whole records.                    *)

\* A request begins, with what its first stage needs.
Begins(h, s, t, r, i) ==
    /\ s \in {"activate", "code", "charge", "grant"} /\ t \in {"SYSTEM", "MATCHED"}
    /\ r \in Seq(SUBSET Users) /\ i \in 0..MaxId
    /\ s = "activate" => i # 0 /\ Exists(i)
    /\ s = "code" => Len(r) # 0
    /\ s \in {"charge", "grant"} => Len(r) = 1
    /\ Begin(h, Handler(s, t, r, i))

LEMMA BeginIs ==
    ASSUME NoteInv, NEW h \in Requests, NEW s, NEW t, NEW r, NEW i, Begins(h, s, t, r, i)
    PROVE  Puts(h, s, t, r, 0, i) /\ NoteInv'
<1>1. Puts(h, s, t, r, 0, i)
  BY DEF Begins, Begin, Handler, Puts, Made
<1>2. /\ s \in Stages /\ t \in Types /\ 0 \in Nat /\ nextId' = nextId /\ nextId \in Nat
      /\ nextId <= nextId
  BY NoteAssumption DEF Stages, Types, Begins, Begin, dbVars, NoteInv, NoteTypeOK
<1>3. Formed(Made(s, t, r, 0, i), nextId')
  BY DEF Formed, Made, Begins
<1>4. req' \in [Requests -> Request] /\ \A g \in Requests : Formed(req'[g], nextId')
  BY <1>1, <1>2, <1>3, PutsIs DEF Begins
<1>5. overlapped' \in BOOLEAN
  BY DEF Begins, Begin
<1> QED
  BY <1>1, <1>4, <1>5 DEF NoteInv, NoteTypeOK, Begins, Begin, dbVars

LEMMA FinishIs ==
    ASSUME NoteInv, NEW h \in Requests, Finish(h), UNCHANGED nextId
    PROVE  /\ Puts(h, "idle", "SYSTEM", <<>>, 0, 0)
           /\ req' \in [Requests -> Request]
           /\ \A g \in Requests : Formed(req'[g], nextId')
<1>1. Puts(h, "idle", "SYSTEM", <<>>, 0, 0)
  BY IdleIs DEF Finish, Puts
<1>2. nextId' = nextId /\ nextId \in Nat /\ nextId <= nextId /\ 0 \in Nat
  BY NoteAssumption DEF NoteInv, NoteTypeOK
<1>3. Formed(Made("idle", "SYSTEM", <<>>, 0, 0), nextId')
  BY IdleIs
<1> QED
  BY <1>1, <1>2, <1>3, IdleIs, PutsIs

LEMMA GetCodeIs ==
    ASSUME NoteInv, NEW h \in Requests, getCode(h)
    PROVE  /\ Puts(h, "new", req[h].type, req[h].recipients, NextCode(notifications), req[h].id)
           /\ NoteInv'
<1> DEFINE c == NextCode(notifications)
<1>1. c \in Nat /\ c # 0
  BY NextCodeIs DEF NoteInv, NoteTypeOK
<1>2. req' = [req EXCEPT ![h].stage = "new", ![h].code = c] /\ req[h].stage = "code"
  BY DEF getCode, At
<1> HIDE DEF c
<1>3. Puts(h, "new", req[h].type, req[h].recipients, c, req[h].id)
  BY <1>2, ChangesOf
<1>4. Formed(Made("new", req[h].type, req[h].recipients, c, req[h].id), nextId)
  BY <1>1, <1>2, FieldsOf DEF Formed, Made
<1>5. nextId' = nextId /\ nextId \in Nat /\ nextId <= nextId /\ "new" \in Stages
  BY NoteAssumption DEF NoteInv, NoteTypeOK, getCode, dbVars, Stages
<1>6. req' \in [Requests -> Request] /\ \A g \in Requests : Formed(req'[g], nextId')
  BY <1>1, <1>3, <1>4, <1>5, FieldsOf, PutsIs
<1> QED
  BY <1>3, <1>6 DEF NoteInv, NoteTypeOK, getCode, dbVars, history, c

LEMMA NewDocumentsIs ==
    ASSUME NoteInv, NEW h \in Requests, newDocuments(h)
    PROVE  /\ Puts(h, "insert", req[h].type, req[h].recipients, req[h].code, nextId)
           /\ Count(h) \in Nat /\ nextId' = nextId + Count(h) /\ NoteInv'
<1> DEFINE l == Count(h)
<1>1. /\ l \in Nat /\ nextId \in 1..(MaxId + 1) /\ MaxId \in Nat /\ bounds.ids \in 0..MaxId
      /\ nextId + l <= bounds.ids + 1 /\ nextId' = nextId + l
      /\ req[h].stage = "new" /\ l = Len(req[h].recipients)
      /\ req' = [req EXCEPT ![h].stage = "insert", ![h].id = nextId]
  BY FieldsOf, NoteAssumption DEF NoteInv, NoteTypeOK, newDocuments, At, Count
<1> HIDE DEF l
<1>2. /\ nextId' \in 1..(MaxId + 1) /\ nextId' \in Nat /\ nextId <= nextId'
      /\ nextId \in Nat /\ nextId # 0
  <2>1. /\ l \in Nat /\ MaxId \in Nat /\ bounds.ids \in Nat /\ bounds.ids <= MaxId
        /\ nextId + l <= bounds.ids + 1 /\ nextId' = nextId + l /\ nextId \in Nat /\ nextId # 0
    BY <1>1
  <2> QED
    BY <2>1
<1>3. l # 0
  BY <1>1, FieldsOf DEF Formed
<1>4. nextId \in 0..MaxId
  <2>1. /\ l \in Nat /\ nextId \in Nat /\ MaxId \in Nat /\ bounds.ids \in Nat
        /\ bounds.ids <= MaxId /\ nextId + l <= bounds.ids + 1
    BY <1>1, <1>2
  <2> QED
    BY <1>3, <2>1
<1>5. Puts(h, "insert", req[h].type, req[h].recipients, req[h].code, nextId)
  BY <1>1, ChangesOf
<1>6. Formed(Made("insert", req[h].type, req[h].recipients, req[h].code, nextId), nextId')
  <2>1. Formed(req[h], nextId)
    BY FieldsOf
  <2>2. req[h].stage = "new" /\ nextId + Len(req[h].recipients) <= nextId' /\ nextId # 0
    BY <1>1, <1>2
  <2> QED
    BY <2>1, <2>2 DEF Formed, Made
<1>7. req' \in [Requests -> Request] /\ \A g \in Requests : Formed(req'[g], nextId')
  <2>1. "insert" \in Stages
    BY DEF Stages
  <2> QED
    BY <1>2, <1>4, <1>5, <1>6, <2>1, FieldsOf, PutsIs
<1> QED
  BY <1>1, <1>2, <1>5, <1>7 DEF NoteInv, NoteTypeOK, newDocuments, history, l

-----------------------------------------------------------------------------
(* What the updates of documents keep.                                       *)

\* One is the other after some updates: an update writes neither id, code nor type.
SameNote(n, w) == w.id = n.id /\ w.code = n.code /\ w.type = n.type

Opened(n, x) == IF n.id = x THEN [n EXCEPT !.active = TRUE, !.deletable = FALSE] ELSE n
Closed(n, x) == IF n.id = x THEN [n EXCEPT !.active = FALSE] ELSE n

LEMMA OpenedIs ==
    ASSUME NEW n \in Notification, NEW x
    PROVE  /\ Opened(n, x) \in Notification /\ SameNote(n, Opened(n, x))
           /\ n.id = x => Opened(n, x).active /\ ~Opened(n, x).deletable
           /\ n.id # x => Opened(n, x) = n
<1>1. CASE n.id # x
  BY <1>1 DEF Opened, SameNote
<1>2. CASE n.id = x
  <2> DEFINE m == [n EXCEPT !.active = TRUE]
  <2>1. m \in Notification /\ SameNote(n, m) /\ m.active
    BY DEF Notification, SameNote
  <2>2. Opened(n, x) = [m EXCEPT !.deletable = FALSE]
    BY <1>2 DEF Opened
  <2> HIDE DEF m
  <2>3. /\ Opened(n, x) \in Notification /\ SameNote(m, Opened(n, x))
        /\ Opened(n, x).active = m.active /\ ~Opened(n, x).deletable
    BY <2>1, <2>2 DEF Notification, SameNote
  <2> QED
    BY <1>2, <2>1, <2>3 DEF SameNote
<1> QED
  BY <1>1, <1>2

LEMMA ClosedIs ==
    ASSUME NEW n \in Notification, NEW x
    PROVE  /\ Closed(n, x) \in Notification /\ SameNote(n, Closed(n, x))
           /\ Closed(n, x).deletable = n.deletable
           /\ Closed(n, x).active => n.active
BY DEF Closed, SameNote, Notification

LEMMA ObjectIs ==
    ASSUME NEW o \in NotificationObject, NEW value \in BOOLEAN
    PROVE  /\ Activated(o) \in NotificationObject /\ Activated(o).active
           /\ Activated(o).notification = o.notification
           /\ [o EXCEPT !.isRead = value] \in NotificationObject
           /\ [o EXCEPT !.isRead = value].notification = o.notification
           /\ [o EXCEPT !.isRead = value].active = o.active
BY DEF Activated, NotificationObject

\* Each notification of the one is one of the other, and the reverse.
SameNotes(N, W) ==
    /\ \A w \in W : \E n \in N : SameNote(n, w)
    /\ \A n \in N : \E w \in W : SameNote(n, w)

(* Reading an object changes neither its notification nor its status.        *)
LEMMA MarkedAre ==
    ASSUME NoteInv, NEW O, NEW value \in BOOLEAN, objects' = Marked(O, value)
    PROVE  /\ objects' \subseteq NotificationObject
           /\ \A p \in objects' : \E o \in objects :
                p.notification = o.notification /\ p.active = o.active
<1>1. ASSUME NEW p \in objects'
      PROVE  /\ p \in NotificationObject
             /\ \E o \in objects : p.notification = o.notification /\ p.active = o.active
  <2>1. PICK o \in objects : p = IF o \in O THEN [o EXCEPT !.isRead = value] ELSE o
    BY <1>1 DEF Marked
  <2>2. o \in NotificationObject
    BY DEF NoteInv, NoteTypeOK
  <2> QED
    BY <2>1, <2>2, ObjectIs
<1> QED
  BY <1>1

LEMMA InsertIs ==
    ASSUME NoteInv, NEW h \in Requests, insert(h)
    PROVE  /\ Puts(h, "objects", req[h].type, req[h].recipients, 0, req[h].id)
           /\ NoteInv'
<1>1. req' = [req EXCEPT ![h].stage = "objects", ![h].code = 0] /\ req[h].stage = "insert"
  BY DEF insert, At
<1>2. Puts(h, "objects", req[h].type, req[h].recipients, 0, req[h].id)
  BY <1>1, ChangesOf
<1>3. Formed(Made("objects", req[h].type, req[h].recipients, 0, req[h].id), nextId)
  BY <1>1, FieldsOf DEF Formed, Made
<1>4. /\ nextId' = nextId /\ nextId \in Nat /\ nextId <= nextId /\ "objects" \in Stages
      /\ 0 \in Nat
  BY NoteAssumption DEF NoteInv, NoteTypeOK, insert, Stages
<1>5. req' \in [Requests -> Request] /\ \A g \in Requests : Formed(req'[g], nextId')
  BY <1>2, <1>3, <1>4, FieldsOf, PutsIs
<1>6. notifications' \subseteq Notification
  BY NewIs DEF insert, NoteInv, NoteTypeOK
<1> QED
  BY <1>2, <1>5, <1>6 DEF NoteInv, NoteTypeOK, insert, history

LEMMA CreateManyIs ==
    ASSUME NoteInv, NEW h \in Requests, createMany(h)
    PROVE  Puts(h, "idle", "SYSTEM", <<>>, 0, 0) /\ NoteInv'
<1>1. /\ Puts(h, "idle", "SYSTEM", <<>>, 0, 0)
      /\ req' \in [Requests -> Request] /\ \A g \in Requests : Formed(req'[g], nextId')
  BY FinishIs DEF createMany
<1>2. objects' \subseteq NotificationObject
  BY NewObjectsAre DEF createMany, NoteInv, NoteTypeOK
<1> QED
  BY <1>1, <1>2 DEF NoteInv, NoteTypeOK, createMany, history

LEMMA ActivateIs ==
    ASSUME NoteInv, NEW h \in Requests, activate(h)
    PROVE  /\ \/ /\ Puts(h, "status", req[h].type, req[h].recipients, req[h].code, req[h].id)
                 /\ Exists(req[h].id)
                 /\ notifications' = {Opened(n, req[h].id) : n \in notifications}
              \/ Puts(h, "idle", "SYSTEM", <<>>, 0, 0) /\ UNCHANGED notifications
           /\ NoteInv'
<1>1. CASE Exists(req[h].id)
  <2>1. /\ notifications' = {Opened(n, req[h].id) : n \in notifications}
        /\ Goto(h, "status") /\ req[h].stage = "activate"
    <3>1. /\ notifications' =
               {IF n.id = req[h].id THEN [n EXCEPT !.active = TRUE, !.deletable = FALSE]
                                    ELSE n : n \in notifications}
          /\ Goto(h, "status") /\ req[h].stage = "activate"
      BY <1>1, Zenon DEF activate, At
    <3> QED
      BY <3>1, Zenon DEF Opened
  <2>2. Puts(h, "status", req[h].type, req[h].recipients, req[h].code, req[h].id)
    BY <2>1, ChangesOf
  <2>3. Formed(Made("status", req[h].type, req[h].recipients, req[h].code, req[h].id), nextId)
    BY <2>1, FieldsOf DEF Formed, Made
  <2>4. nextId' = nextId /\ nextId \in Nat /\ nextId <= nextId /\ "status" \in Stages
    <3>1. nextId' = nextId
      BY Zenon DEF activate
    <3> QED
      BY <3>1, NoteAssumption DEF NoteInv, NoteTypeOK, Stages
  <2>5. req' \in [Requests -> Request] /\ \A g \in Requests : Formed(req'[g], nextId')
    BY <2>2, <2>3, <2>4, FieldsOf, PutsIs
  <2>6. notifications' \subseteq Notification
    BY <2>1, OpenedIs DEF NoteInv, NoteTypeOK
  <2> QED
    BY <1>1, <2>1, <2>2, <2>5, <2>6 DEF NoteInv, NoteTypeOK, activate, history
<1>2. CASE ~Exists(req[h].id)
  <2>1. Finish(h) /\ UNCHANGED <<nextId, notifications>>
    BY <1>2 DEF activate
  <2>2. /\ Puts(h, "idle", "SYSTEM", <<>>, 0, 0)
        /\ req' \in [Requests -> Request] /\ \A g \in Requests : Formed(req'[g], nextId')
    BY <2>1, FinishIs
  <2> QED
    BY <2>1, <2>2 DEF NoteInv, NoteTypeOK, activate, history
<1> QED
  BY <1>1, <1>2

LEMMA UpdateStatusIs ==
    ASSUME NoteInv, NEW h \in Requests, updateStatusByNotificationId(h)
    PROVE  /\ Puts(h, "tell", req[h].type, req[h].recipients, req[h].code, req[h].id)
           /\ \A p \in objects' : \E o \in objects :
                /\ p.notification = o.notification
                /\ o.notification = req[h].id => p.active
                /\ o.notification # req[h].id => p = o
           /\ NoteInv'
<1>1. Goto(h, "tell") /\ req[h].stage = "status"
  BY DEF updateStatusByNotificationId, At
<1>2. Puts(h, "tell", req[h].type, req[h].recipients, req[h].code, req[h].id)
  BY <1>1, ChangesOf
<1>3. Formed(Made("tell", req[h].type, req[h].recipients, req[h].code, req[h].id), nextId)
  BY <1>1, FieldsOf DEF Formed, Made
<1>4. nextId' = nextId /\ nextId \in Nat /\ nextId <= nextId /\ "tell" \in Stages
  BY NoteAssumption DEF NoteInv, NoteTypeOK, updateStatusByNotificationId, Stages
<1>5. req' \in [Requests -> Request] /\ \A g \in Requests : Formed(req'[g], nextId')
  BY <1>2, <1>3, <1>4, FieldsOf, PutsIs
<1>6. \A p \in objects' : \E o \in objects :
        /\ p \in NotificationObject
        /\ p.notification = o.notification
        /\ o.notification = req[h].id => p.active
        /\ o.notification # req[h].id => p = o
  <2>1. ASSUME NEW p \in objects'
        PROVE  \E o \in objects :
                 p = IF o.notification = req[h].id THEN Activated(o) ELSE o
    BY <2>1 DEF updateStatusByNotificationId
  <2>2. \A o \in objects : o \in NotificationObject
    BY DEF NoteInv, NoteTypeOK
  <2>3. \A o \in objects : /\ Activated(o) \in NotificationObject /\ Activated(o).active
                            /\ Activated(o).notification = o.notification
    BY <2>2, ObjectIs
  <2> QED
    BY <2>1, <2>2, <2>3
<1>7. objects' \subseteq NotificationObject
  BY <1>6
<1> QED
  BY <1>2, <1>5, <1>6, <1>7 DEF NoteInv, NoteTypeOK, updateStatusByNotificationId, history

LEMMA TellIs ==
    ASSUME NoteInv, NEW h \in Requests, createNotification(h)
    PROVE  Puts(h, "idle", "SYSTEM", <<>>, 0, 0) /\ NoteInv'
<1>1. /\ Puts(h, "idle", "SYSTEM", <<>>, 0, 0)
      /\ req' \in [Requests -> Request] /\ \A g \in Requests : Formed(req'[g], nextId')
  BY FinishIs DEF createNotification, dbVars
<1> QED
  BY <1>1 DEF NoteInv, NoteTypeOK, createNotification, dbVars, history

LEMMA FailureIs ==
    ASSUME NoteInv, NEW h \in Requests, Throw(h) \/ insertManyFails(h)
    PROVE  /\ Puts(h, "idle", "SYSTEM", <<>>, 0, 0)
           /\ req[h].type # "PAYMENT" /\ failed' = TRUE
           /\ deleted' = deleted /\ nextId' = nextId
           /\ \/ notifications' = notifications
              \/ /\ At(h, "insert")
                 /\ \E k \in 0..(Count(h) - 1) :
                      notifications' = notifications \cup {New(h, i) : i \in 1..k}
           /\ \/ objects' = objects
              \/ At(h, "objects") /\ \E S \in SUBSET NewObjects(h) : objects' = objects \cup S
           /\ NoteInv'
<1>1. Finish(h) /\ nextId' = nextId
  BY DEF Throw, insertManyFails, dbVars
<1>2. /\ Puts(h, "idle", "SYSTEM", <<>>, 0, 0)
      /\ req' \in [Requests -> Request] /\ \A g \in Requests : Formed(req'[g], nextId')
  BY <1>1, FinishIs
<1>3. /\ req[h].type # "PAYMENT" /\ failed' = TRUE
      /\ bounds' = bounds /\ deleted' = deleted /\ overlapped' = overlapped
      /\ \/ notifications' = notifications
         \/ /\ At(h, "insert")
            /\ \E k \in 0..(Count(h) - 1) :
                 notifications' = notifications \cup {New(h, i) : i \in 1..k}
      /\ \/ objects' = objects
         \/ At(h, "objects") /\ \E S \in SUBSET NewObjects(h) : objects' = objects \cup S
  <2>1. CASE Throw(h)
    <3>1. /\ req[h].type # "PAYMENT" /\ failed' = TRUE
          /\ bounds' = bounds /\ deleted' = deleted /\ overlapped' = overlapped
          /\ notifications' = notifications /\ objects' = objects
      BY <2>1 DEF Throw, dbVars
    <3> QED
      BY <3>1, Zenon
  <2>2. CASE insertManyFails(h)
    <3>1. /\ req[h].type # "PAYMENT" /\ failed' = TRUE
          /\ bounds' = bounds /\ deleted' = deleted /\ overlapped' = overlapped
      BY <2>2, Zenon DEF insertManyFails
    <3>2. \/ /\ At(h, "insert") /\ objects' = objects
             /\ \E k \in 0..(Count(h) - 1) :
                   notifications' = notifications \cup {New(h, i) : i \in 1..k}
          \/ /\ At(h, "objects") /\ notifications' = notifications
             /\ \E S \in SUBSET NewObjects(h) : objects' = objects \cup S
      BY <2>2, Zenon DEF insertManyFails
    <3> QED
      BY <3>1, <3>2, Zenon
  <2> QED
    BY <2>1, <2>2, Zenon
<1>4. notifications' \subseteq Notification
  <2>1. CASE notifications' = notifications
    BY <2>1 DEF NoteInv, NoteTypeOK
  <2>2. ASSUME At(h, "insert"), NEW k \in 0..(Count(h) - 1),
               notifications' = notifications \cup {New(h, i) : i \in 1..k}
        PROVE  notifications' \subseteq Notification
    <3>1. 1..k \subseteq 1..Count(h)
      BY FieldsOf
    <3> QED
      BY <2>2, <3>1, NewIs DEF NoteInv, NoteTypeOK
  <2> QED
    BY <1>3, <2>1, <2>2
<1>5. objects' \subseteq NotificationObject
  BY <1>3, NewObjectsAre DEF NoteInv, NoteTypeOK
<1> QED
  BY <1>1, <1>2, <1>3, <1>4, <1>5 DEF NoteInv, NoteTypeOK

LEMMA ChargeIs ==
    ASSUME NoteInv, NEW h \in Requests, charge(h)
    PROVE  Puts(h, "grant", req[h].type, req[h].recipients, req[h].code, req[h].id) /\ NoteInv'
<1>1. Goto(h, "grant") /\ req[h].stage = "charge"
  BY DEF charge, At
<1>2. Puts(h, "grant", req[h].type, req[h].recipients, req[h].code, req[h].id)
  BY <1>1, ChangesOf
<1>3. Formed(Made("grant", req[h].type, req[h].recipients, req[h].code, req[h].id), nextId)
  BY <1>1, FieldsOf DEF Formed, Made
<1>4. nextId' = nextId /\ nextId \in Nat /\ nextId <= nextId /\ "grant" \in Stages
  BY NoteAssumption DEF NoteInv, NoteTypeOK, charge, dbVars, Stages
<1>5. req' \in [Requests -> Request] /\ \A g \in Requests : Formed(req'[g], nextId')
  BY <1>2, <1>3, <1>4, FieldsOf, PutsIs
<1> QED
  BY <1>2, <1>5 DEF NoteInv, NoteTypeOK, charge, dbVars, history

LEMMA GrantIs ==
    ASSUME NoteInv, NEW h \in Requests, grant(h)
    PROVE  Puts(h, "code", "PAYMENT", req[h].recipients, req[h].code, req[h].id) /\ NoteInv'
<1>1. /\ req' = [req EXCEPT ![h].stage = "code", ![h].type = "PAYMENT"]
      /\ req[h].stage = "grant"
  BY DEF grant, createNotificationPayment, At
<1>2. Puts(h, "code", "PAYMENT", req[h].recipients, req[h].code, req[h].id)
  BY <1>1, ChangesOf
<1>3. Formed(Made("code", "PAYMENT", req[h].recipients, req[h].code, req[h].id), nextId)
  <2>1. Len(req[h].recipients) = 1
    BY <1>1, FieldsOf DEF Formed
  <2> DEFINE n == Made("code", "PAYMENT", req[h].recipients, req[h].code, req[h].id)
  <2>2. n.stage = "code" /\ Len(n.recipients) = 1
    BY <2>1 DEF Made
  <2> HIDE DEF n
  <2>3. Formed(n, nextId)
    BY <2>2 DEF Formed
  <2> QED
    BY <2>3 DEF n
<1>4. /\ nextId' = nextId /\ nextId \in Nat /\ nextId <= nextId /\ "code" \in Stages
      /\ "PAYMENT" \in Types
  <2>1. nextId' = nextId
    BY DEF grant, dbVars
  <2>2. nextId \in Nat /\ nextId <= nextId
    BY NoteAssumption DEF NoteInv, NoteTypeOK
  <2> QED
    BY <2>1, <2>2 DEF Stages, Types
<1>5. req' \in [Requests -> Request] /\ \A g \in Requests : Formed(req'[g], nextId')
  BY <1>2, <1>3, <1>4, FieldsOf, PutsIs
<1> QED
  BY <1>2, <1>5 DEF NoteInv, NoteTypeOK, grant, dbVars, history

LEMMA RestartIs ==
    ASSUME NoteInv, Restart
    PROVE  (\A h \in Requests : req'[h] = Idle) /\ NoteInv'
<1>1. req' = [h \in Requests |-> Idle]
  BY DEF Restart
<1>2. req' \in [Requests -> Request] /\ \A h \in Requests : Formed(req'[h], nextId')
  BY <1>1, IdleIs
<1> QED
  BY <1>1, <1>2 DEF NoteInv, NoteTypeOK, Restart, dbVars

\* Objects are read or deleted.
ObjectsOnly ==
    /\ UNCHANGED <<bounds, notifications, nextId, req, history>>
    /\ objects' \subseteq NotificationObject
    /\ \A p \in objects' : \E o \in objects :
         p.notification = o.notification /\ p.active = o.active

LEMMA ObjectsAre ==
    ASSUME NoteInv,
           \/ \E o \in objects : deleteObject(o) \/ \E value \in BOOLEAN : read(o, value)
           \/ \E u \in Users : deleteAll(u) \/ readAll(u)
    PROVE  ObjectsOnly
<1>t. objects \subseteq NotificationObject
  BY DEF NoteInv, NoteTypeOK
<1>1. ASSUME NEW o \in objects, deleteObject(o) PROVE ObjectsOnly
  BY <1>t, <1>1 DEF deleteObject, ObjectsOnly
<1>2. ASSUME NEW o \in objects, NEW value \in BOOLEAN, read(o, value) PROVE ObjectsOnly
  <2>1. objects' = Marked({o}, value) /\ UNCHANGED <<bounds, notifications, nextId, req, history>>
    BY <1>2 DEF read
  <2> QED
    BY <2>1, MarkedAre DEF ObjectsOnly
<1>3. ASSUME NEW u \in Users, deleteAll(u) PROVE ObjectsOnly
  BY <1>t, <1>3 DEF deleteAll, ObjectsOnly
<1>4. ASSUME NEW u \in Users, readAll(u) PROVE ObjectsOnly
  <2>1. /\ objects' = Marked({o \in objects : o.recipient = u}, TRUE)
        /\ UNCHANGED <<bounds, notifications, nextId, req, history>>
    BY <1>4 DEF readAll
  <2>2. TRUE \in BOOLEAN
    OBVIOUS
  <2> QED
    BY <2>1, <2>2, MarkedAre DEF ObjectsOnly
<1> QED
  BY <1>1, <1>2, <1>3, <1>4

LEMMA InActiveIs ==
    ASSUME NoteInv, NEW x \in Ids, inActive(x)
    PROVE  /\ notifications' = {Closed(n, x) : n \in notifications}
           /\ UNCHANGED <<bounds, objects, nextId, req, history>>
           /\ NoteInv'
<1>1. notifications' = {IF n.id = x THEN [n EXCEPT !.active = FALSE] ELSE n :
                        n \in notifications}
  BY Zenon DEF inActive
<1>2. notifications' = {Closed(n, x) : n \in notifications}
  BY <1>1, Zenon DEF Closed
<1>3. UNCHANGED <<bounds, objects, nextId, req, history>>
  BY Zenon DEF inActive
<1>4. notifications' \subseteq Notification
  BY <1>2, ClosedIs DEF NoteInv, NoteTypeOK
<1> QED
  BY <1>2, <1>3, <1>4 DEF NoteInv, NoteTypeOK, history

LEMMA DeleteIs ==
    ASSUME NoteInv, NEW x \in Ids, delete(x)
    PROVE  NoteInv'
<1>1. ASSUME NEW n \in notifications PROVE n.type \in Types
  BY DEF NoteInv, NoteTypeOK, Notification
<1>2. deleted' \subseteq Ids \X Types
  BY <1>1 DEF NoteInv, NoteTypeOK, delete
<1> QED
  BY <1>2 DEF NoteInv, NoteTypeOK, delete

LEMMA ObjectsOnlyIs == NoteInv /\ ObjectsOnly => NoteInv'
BY DEF NoteInv, NoteTypeOK, ObjectsOnly, history

(* The steps of the system, one by one.  Every invariant below is proved     *)
(* along this list.                                                          *)
Steps ==
    \/ /\ \E h \in Requests : \E s, t, r, i : Begins(h, s, t, r, i)
       /\ granted' = granted
    \/ (\E h \in Requests : NoteStep(h)) /\ UNCHANGED granted
    \/ \E h \in Requests : charge(h) \/ grant(h)
    \/ (\E h \in Requests : Throw(h) \/ insertManyFails(h)) /\ UNCHANGED granted
    \/ Restart /\ UNCHANGED granted
    \/ (\E x \in Ids : inActive(x) \/ delete(x)) /\ UNCHANGED granted
    \/ ObjectsOnly /\ UNCHANGED granted

LEMMA NextIs == NoteInv /\ Next => Steps
<1> SUFFICES ASSUME NoteInv, Next PROVE Steps
  OBVIOUS
<1>l. \A R : Len(<<R>>) = 1
  OBVIOUS
<1>0. 0 \in 0..MaxId
  BY NoteAssumption
<1>1. ASSUME NEW h \in Requests, NEW R \in Audiences, create(h, R)
      PROVE  Begins(h, "code", "SYSTEM", <<R>>, 0)
  <2>1. <<R>> \in Seq(SUBSET Users)
    BY NoteAssumption
  <2> QED
    BY <1>0, <1>1, <1>l, <2>1 DEF create, Begins
<1>2. ASSUME NEW h \in Requests, NEW u \in Users, NEW v \in Users,
             createNotificationMatched(h, u, v)
      PROVE  Begins(h, "code", "MATCHED", <<{u}, {v}>>, 0)
  <2>1. <<{u}, {v}>> \in Seq(SUBSET Users) /\ Len(<<{u}, {v}>>) = 2
    OBVIOUS
  <2> QED
    BY <1>0, <1>2, <2>1 DEF createNotificationMatched, Begins
<1>3. ASSUME NEW h \in Requests, NEW id \in Ids, active(h, id)
      PROVE  Begins(h, "activate", "SYSTEM", <<>>, id)
  <2>1. id \in 0..MaxId /\ id # 0
    BY NoteAssumption DEF Ids
  <2> QED
    BY <1>3, <2>1 DEF active, Begins
<1>4. ASSUME NEW h \in Requests, NEW u \in Users, NEW s \in {"charge", "grant"},
             Start(h, u, s)
      PROVE  Begins(h, s, "SYSTEM", <<{u}>>, 0) /\ granted' = granted
  <2>1. <<{u}>> \in Seq(SUBSET Users)
    OBVIOUS
  <2> QED
    BY <1>0, <1>4, <1>l, <2>1 DEF Start, Begins
<1>5. CASE PayClients
  BY <1>4, <1>5 DEF PayClients, createCharge, createOrder, Steps
<1>6. CASE \E h \in Requests : PayStep(h)
  BY <1>6 DEF PayStep, Steps
<1>7. CASE NoteNext /\ UNCHANGED payVars
  <2>1. UNCHANGED granted
    BY <1>7 DEF payVars
  <2>2. CASE NoteClients
    BY <1>1, <1>2, <1>3, <2>1, <2>2, ObjectsAre DEF NoteClients, Steps
  <2>3. CASE (\E h \in Requests : NoteStep(h)) \/ NoteFault
    BY <2>1, <2>3 DEF NoteFault, Steps
  <2> QED
    BY <1>7, <2>2, <2>3 DEF NoteNext
<1> QED
  BY <1>5, <1>6, <1>7 DEF Next

(* Every step keeps the types.                                               *)
LEMMA NoteKeeps == NoteInv /\ [Next]_vars => NoteInv'
<1> SUFFICES ASSUME NoteInv, [Next]_vars PROVE NoteInv'
  OBVIOUS
<1>1. ASSUME NEW h \in Requests, NoteStep(h) PROVE NoteInv'
  BY <1>1, GetCodeIs, NewDocumentsIs, InsertIs, CreateManyIs, ActivateIs, UpdateStatusIs,
     TellIs DEF NoteStep
<1>2. CASE UNCHANGED vars
  BY <1>2 DEF vars, noteVars, dbVars, history, NoteInv, NoteTypeOK
<1>3. CASE Steps
  BY <1>1, <1>3, BeginIs, ChargeIs, GrantIs, FailureIs, RestartIs, InActiveIs, DeleteIs,
     ObjectsOnlyIs DEF Steps
<1> QED
  BY <1>2, <1>3, NextIs

LEMMA NoteStart == PayInit => NoteInv
<1> SUFFICES ASSUME PayInit PROVE NoteInv
  OBVIOUS
<1>1. /\ req \in [Requests -> Request] /\ \A h \in Requests : Formed(req[h], nextId)
  BY IdleIs DEF PayInit, NoteInit
<1>2. nextId \in 1..(MaxId + 1)
  BY NoteAssumption DEF PayInit, NoteInit
<1>3. /\ bounds \in Bounds /\ notifications = {} /\ objects = {} /\ deleted = {}
      /\ overlapped = FALSE /\ failed = FALSE
  BY DEF PayInit, NoteInit
<1> QED
  BY <1>1, <1>2, <1>3 DEF NoteInv, NoteTypeOK

(* Notifications, their objects and the requests stay typed for any users,   *)
(* audiences and bounds: a request never inserts what it has not made.       *)
THEOREM NoteTypes == Spec => []NoteTypeOK
<1>1. NoteInv => NoteTypeOK
  BY DEF NoteInv
<1> QED
  BY <1>1, NoteStart, NoteKeeps, PTL DEF Spec

-----------------------------------------------------------------------------
(* Ids.  An id is born when its notification is stored, before its objects   *)
(* are and before it can be activated, and it stays born when the            *)
(* notification is deleted.  Documents that a request has made and not yet   *)
(* inserted are unborn and nobody else's.                                    *)

IdsOf(N) == {n.id : n \in N}
Deleted == {d[1] : d \in deleted}
Born == IdsOf(notifications) \cup Deleted

\* What the notifications N and the born ids B are to a request.
Fits(r, N, B) ==
    /\ r.stage = "insert" => Span(r) \cap B = {}
    /\ r.stage = "objects" => Span(r) \subseteq B
    /\ r.stage \in {"activate", "status"} => r.id \in B
    /\ r.stage = "status" => \A n \in N : n.id = r.id => ~n.deletable

AllFit == \A h \in Requests : Fits(req[h], notifications, Born)

Apart == \A g, h \in Requests :
    At(g, "insert") /\ At(h, "insert") /\ g # h => Span(req[g]) \cap Span(req[h]) = {}

OneEach ==
    /\ \A m, n \in notifications : m.id = n.id => m = n
    /\ \A n \in notifications : n.id \notin Deleted

BornInv ==
    /\ AllFit
    /\ Apart
    /\ OneEach
    /\ \A i \in Born : i < nextId
    /\ \A o \in objects : o.notification \in Born
    /\ MarkedWasActivated

\* An object's notification is born and, when the object is active, not deletable.
Sound(o, N, B) ==
    o.notification \in B /\ \A n \in N : o.active /\ n.id = o.notification => ~n.deletable

LEMMA SoundAre == BornInv => \A o \in objects : Sound(o, notifications, Born)
BY DEF BornInv, Sound, MarkedWasActivated

\* A request moves; the others still fit.
LEMMA MoveFits ==
    ASSUME NoteInv, BornInv, NEW h \in Requests, NEW s, NEW t, NEW r, NEW c, NEW i,
           Puts(h, s, t, r, c, i),
           \A g \in Requests : g # h => Fits(req[g], notifications', Born'),
           Fits(Made(s, t, r, c, i), notifications', Born'),
           s = "insert" => \A g \in Requests : g # h /\ At(g, "insert") =>
               Span(req[g]) \cap Span(Made(s, t, r, c, i)) = {}
    PROVE  AllFit' /\ Apart'
<1> DEFINE n == Made(s, t, r, c, i)
<1>1. \A g \in Requests : req'[g] = IF g = h THEN n ELSE req[g]
  BY DEF Puts, NoteInv, NoteTypeOK
<1>2. n.stage = s
  BY DEF Made
<1> HIDE DEF n
<1>3. AllFit'
  BY <1>1 DEF AllFit, n
<1>4. ASSUME NEW f \in Requests, NEW g \in Requests, f # g,
             req'[f].stage = "insert", req'[g].stage = "insert"
      PROVE  Span(req'[f]) \cap Span(req'[g]) = {}
  <2>1. CASE f # h /\ g # h
    BY <1>1, <1>4, <2>1 DEF BornInv, Apart, At
  <2>2. CASE f = h
    <3>1. s = "insert" /\ g # h /\ At(g, "insert") /\ req'[g] = req[g] /\ req'[f] = n
      BY <1>1, <1>2, <1>4, <2>2 DEF At
    <3> QED
      BY <3>1 DEF n
  <2>3. CASE g = h
    <3>1. s = "insert" /\ f # h /\ At(f, "insert") /\ req'[f] = req[f] /\ req'[g] = n
      BY <1>1, <1>2, <1>4, <2>3 DEF At
    <3> QED
      BY <3>1 DEF n
  <2> QED
    BY <2>1, <2>2, <2>3
<1>5. Apart'
  BY <1>4 DEF Apart, At
<1> QED
  BY <1>3, <1>5

\* A request moves, and objects may be written, but no notification.
LEMMA MoveBorn ==
    ASSUME NoteInv, BornInv, NEW h \in Requests, NEW s, NEW t, NEW r, NEW c, NEW i,
           Puts(h, s, t, r, c, i), notifications' = notifications, deleted' = deleted,
           nextId' \in Nat, nextId <= nextId', \A o \in objects' : Sound(o, notifications, Born),
           Fits(Made(s, t, r, c, i), notifications, Born),
           s = "insert" => \A g \in Requests : g # h /\ At(g, "insert") =>
               Span(req[g]) \cap Span(Made(s, t, r, c, i)) = {}
    PROVE  BornInv'
<1>1. Born' = Born
  BY DEF Born, Deleted
<1>2. AllFit' /\ Apart'
  BY <1>1, MoveFits DEF BornInv, AllFit
<1>3. OneEach' /\ MarkedWasActivated' /\ \A o \in objects' : o.notification \in Born'
  BY <1>1 DEF BornInv, OneEach, Deleted, MarkedWasActivated, Sound
<1>4. \A i1 \in Born' : i1 < nextId'
  <2>1. Born \subseteq Nat /\ nextId \in Nat
    BY NoteAssumption DEF NoteInv, NoteTypeOK, Born, IdsOf, Deleted, Notification, Ids
  <2> QED
    BY <1>1, <2>1 DEF BornInv
<1> QED
  BY <1>2, <1>3, <1>4 DEF BornInv

\* Documents are inserted by a request that made them: its ids are born.
LEMMA InsertBorn ==
    ASSUME NoteInv, BornInv, NEW h \in Requests, At(h, "insert"), NEW k \in 0..Count(h),
           notifications' = notifications \cup {New(h, j) : j \in 1..k},
           objects' = objects, deleted' = deleted, nextId' = nextId,
           NEW s, NEW t, NEW c, NEW i, NEW r, Puts(h, s, t, r, c, i),
           \/ s = "idle"
           \/ s = "objects" /\ k = Count(h) /\ i = req[h].id /\ r = req[h].recipients
    PROVE  BornInv'
<1> DEFINE new == {New(h, j) : j \in 1..k}
<1>1. 1..k \subseteq 1..Count(h) /\ Count(h) \in Nat
  BY FieldsOf
<1>2. \A n \in new : /\ n.id \in Span(req[h]) /\ ~n.active /\ n.deletable
  BY <1>1, NewIs
<1>3. Span(req[h]) \cap Born = {}
  BY DEF BornInv, AllFit, Fits, At
<1>4. IdsOf(new) \subseteq Span(req[h]) /\ Born' = Born \cup IdsOf(new) /\ Deleted' = Deleted
  BY <1>2 DEF Born, IdsOf, Deleted
<1>5. ASSUME s = "objects" PROVE Span(req[h]) \subseteq IdsOf(new)
  <2>1. ASSUME NEW x \in Span(req[h]) PROVE x \in IdsOf(new)
    <3> DEFINE a == req[h].id
               l == Count(h)
    <3>1. /\ a \in Nat /\ l \in Nat /\ x \in Nat /\ a <= x /\ x < a + l /\ k = l
      BY <1>5, <2>1, FieldsOf, NoteAssumption DEF Span, Ids, Count
    <3> HIDE DEF a, l
    <3>2. x - a + 1 \in 1..k /\ a + (x - a + 1) - 1 = x
      BY <3>1
    <3>3. New(h, x - a + 1).id = a + (x - a + 1) - 1
      BY <1>1, <3>2, NewIs DEF a
    <3> QED
      BY <3>2, <3>3 DEF IdsOf
  <2> QED
    BY <2>1
<1>6. ASSUME NEW g \in Requests, g # h PROVE Fits(req[g], notifications', Born')
  <2>1. Fits(req[g], notifications, Born)
    BY DEF BornInv, AllFit
  <2>2. req[g].stage = "insert" => Span(req[g]) \cap Span(req[h]) = {}
    BY <1>6 DEF BornInv, Apart, At
  <2>3. \A n \in notifications' : n \in notifications \/ n.id \in Span(req[h])
    BY <1>2
  <2> HIDE DEF new
  <2> QED
    BY <1>3, <1>4, <2>1, <2>2, <2>3 DEF Fits
<1>7. Fits(Made(s, t, r, c, i), notifications', Born')
  <2>1. CASE s = "idle"
    BY <2>1 DEF Fits, Made
  <2>2. CASE s = "objects"
    <3>1. Span(Made(s, t, r, c, i)) = Span(req[h])
      BY <2>2 DEF Made, Span
    <3> HIDE DEF new
    <3> QED
      BY <1>4, <1>5, <2>2, <3>1 DEF Fits, Made
  <2> QED
    BY <2>1, <2>2
<1>8. AllFit' /\ Apart'
  BY <1>6, <1>7, MoveFits
<1>9. OneEach'
  <2>1. ASSUME NEW m \in notifications', NEW n \in notifications', m.id = n.id
        PROVE  m = n
    <3>1. CASE m \in new /\ n \in new
      <4>1. PICK p \in 1..k : m = New(h, p)
        BY <3>1
      <4>2. PICK q \in 1..k : n = New(h, q)
        BY <3>1
      <4>3. /\ New(h, p).id = req[h].id + p - 1 /\ New(h, q).id = req[h].id + q - 1
            /\ req[h].id \in Nat
        BY <1>1, NewIs, FieldsOf
      <4> DEFINE a == req[h].id
      <4>4. a \in Nat /\ p \in Nat /\ q \in Nat /\ a + p - 1 = a + q - 1
        BY <2>1, <4>1, <4>2, <4>3
      <4> HIDE DEF a
      <4>5. p = q
        BY <4>4
      <4> QED
        BY <4>1, <4>2, <4>5
    <3>2. CASE m \in notifications /\ n \in notifications
      BY <2>1, <3>2 DEF BornInv, OneEach
    <3>3. \A x \in notifications : x.id \in Born
      BY DEF Born, IdsOf
    <3> HIDE DEF new
    <3> QED
      BY <1>2, <1>3, <2>1, <3>1, <3>2, <3>3 DEF new
  <2>2. \A n \in notifications' : n.id \notin Deleted'
    <3>1. Deleted \subseteq Born
      BY DEF Born
    <3> HIDE DEF new
    <3> QED
      BY <1>2, <1>3, <1>4, <3>1 DEF BornInv, OneEach, new
  <2> QED
    BY <2>1, <2>2 DEF OneEach
<1>10. \A x \in Born' : x < nextId'
  <2>1. ASSUME NEW x \in Span(req[h]) PROVE x < nextId
    <3> DEFINE a == req[h].id
               l == Count(h)
    <3>1. /\ a \in Nat /\ l \in Nat /\ x \in Nat /\ nextId \in Nat /\ x < a + l
          /\ a + l <= nextId
      BY <2>1, FieldsOf, NoteAssumption DEF Span, Ids, Count, Formed, At, NoteInv, NoteTypeOK
    <3> HIDE DEF a, l
    <3> QED
      BY <3>1
  <2> HIDE DEF new
  <2> QED
    BY <1>4, <2>1 DEF BornInv
<1>11. \A o \in objects' : o.notification \in Born'
  BY <1>4 DEF BornInv
<1>12. MarkedWasActivated'
  <2>1. ASSUME NEW o \in objects, NEW n \in notifications', o.active, n.id = o.notification
        PROVE  ~n.deletable
    <3>1. n.id \in Born
      BY <2>1 DEF BornInv
    <3>2. n \in notifications
      BY <1>2, <1>3, <3>1
    <3> QED
      BY <2>1, <3>2 DEF BornInv, MarkedWasActivated
  <2> QED
    BY <2>1 DEF MarkedWasActivated
<1> QED
  BY <1>8, <1>9, <1>10, <1>11, <1>12 DEF BornInv

\* Some notifications are written, none is created or deleted.
LEMMA ChangeBorn ==
    ASSUME NoteInv, BornInv, SameNotes(notifications, notifications'),
           \A m, n \in notifications' : m.id = n.id => m = n,
           \A w \in notifications' : \E n \in notifications :
               SameNote(n, w) /\ (w.deletable => n.deletable),
           objects' = objects, deleted' = deleted, nextId' = nextId
    PROVE  /\ Born' = Born /\ OneEach'
           /\ \A i \in Born' : i < nextId'
           /\ \A o \in objects' : o.notification \in Born'
           /\ MarkedWasActivated'
           /\ \A h \in Requests : Fits(req[h], notifications', Born')
<1>1. IdsOf(notifications') = IdsOf(notifications) /\ Deleted' = Deleted
  BY DEF IdsOf, SameNotes, SameNote, Deleted
<1>2. Born' = Born
  BY <1>1 DEF Born
<1>3. OneEach'
  BY <1>1 DEF BornInv, OneEach, SameNote
<1>4. MarkedWasActivated'
  <2>1. ASSUME NEW o \in objects, NEW w \in notifications', o.active, w.id = o.notification
        PROVE  ~w.deletable
    <3>1. PICK n \in notifications : SameNote(n, w) /\ (w.deletable => n.deletable)
      OBVIOUS
    <3> QED
      BY <2>1, <3>1 DEF SameNote, BornInv, MarkedWasActivated
  <2> QED
    BY <2>1 DEF MarkedWasActivated
<1>5. ASSUME NEW h \in Requests PROVE Fits(req[h], notifications', Born')
  <2>1. Fits(req[h], notifications, Born)
    BY DEF BornInv, AllFit
  <2>2. ASSUME req[h].stage = "status", NEW w \in notifications', w.id = req[h].id
        PROVE  ~w.deletable
    <3>1. PICK n \in notifications : SameNote(n, w) /\ (w.deletable => n.deletable)
      OBVIOUS
    <3> QED
      BY <2>1, <2>2, <3>1 DEF SameNote, Fits
  <2> QED
    BY <1>2, <2>1, <2>2 DEF Fits
<1> QED
  BY <1>2, <1>3, <1>4, <1>5 DEF BornInv

LEMMA ActivateBorn ==
    ASSUME NoteInv, BornInv, NEW h \in Requests, activate(h)
    PROVE  BornInv'
<1> DEFINE x == req[h].id
<1>0. objects' = objects /\ deleted' = deleted /\ nextId' = nextId /\ nextId \in Nat
      /\ nextId <= nextId
  <2>1. objects' = objects /\ deleted' = deleted /\ nextId' = nextId
    BY Zenon DEF activate, history
  <2> QED
    BY <2>1, NoteAssumption DEF NoteInv, NoteTypeOK
<1>1. CASE /\ Puts(h, "status", req[h].type, req[h].recipients, req[h].code, req[h].id)
           /\ Exists(req[h].id)
           /\ notifications' = {Opened(n, req[h].id) : n \in notifications}
  <2>t. \A n \in notifications :
           /\ SameNote(n, Opened(n, x)) /\ (n.id # x => Opened(n, x) = n)
           /\ n.id = x => ~Opened(n, x).deletable
    BY OpenedIs DEF NoteInv, NoteTypeOK
  <2>1. SameNotes(notifications, notifications')
    BY <1>1, <2>t DEF SameNotes
  <2>2. \A w \in notifications' : \E n \in notifications :
               SameNote(n, w) /\ (w.deletable => n.deletable)
    BY <1>1, <2>t
  <2>3. \A m, n \in notifications' : m.id = n.id => m = n
    BY <1>1, <2>t DEF SameNote, BornInv, OneEach
  <2>4. \A w \in notifications' : w.id = x => ~w.deletable
    BY <1>1, <2>t DEF SameNote
  <2>5. x \in Born
    BY <1>1 DEF Exists, Born, IdsOf
  <2>6. /\ Born' = Born /\ OneEach'
        /\ \A i \in Born' : i < nextId'
        /\ \A o \in objects' : o.notification \in Born'
        /\ MarkedWasActivated'
        /\ \A g \in Requests : Fits(req[g], notifications', Born')
    BY <1>0, <2>1, <2>2, <2>3, ChangeBorn
  <2>7. Fits(Made("status", req[h].type, req[h].recipients, req[h].code, req[h].id),
             notifications', Born')
    BY <2>4, <2>5, <2>6 DEF Fits, Made
  <2>8. AllFit' /\ Apart'
    BY <1>1, <2>6, <2>7, MoveFits
  <2> QED
    BY <2>6, <2>8 DEF BornInv
<1>2. CASE Puts(h, "idle", "SYSTEM", <<>>, 0, 0) /\ UNCHANGED notifications
  <2>1. Fits(Made("idle", "SYSTEM", <<>>, 0, 0), notifications, Born)
    BY DEF Fits, Made
  <2> QED
    BY <1>0, <1>2, <2>1, SoundAre, MoveBorn
<1> QED
  BY <1>1, <1>2, ActivateIs

LEMMA InActiveBorn ==
    ASSUME NoteInv, BornInv, NEW x \in Ids, inActive(x)
    PROVE  BornInv'
<1>1. /\ notifications' = {Closed(n, x) : n \in notifications}
      /\ UNCHANGED <<bounds, objects, nextId, req, history>>
  BY InActiveIs
<1>t. \A n \in notifications :
         /\ SameNote(n, Closed(n, x)) /\ Closed(n, x).deletable = n.deletable
  BY ClosedIs DEF NoteInv, NoteTypeOK
<1>2. SameNotes(notifications, notifications')
  BY <1>1, <1>t DEF SameNotes
<1>3. \A w \in notifications' : \E n \in notifications :
               SameNote(n, w) /\ (w.deletable => n.deletable)
  BY <1>1, <1>t
<1>4. \A m, n \in notifications' : m.id = n.id => m = n
  BY <1>1, <1>t DEF SameNote, BornInv, OneEach
<1>5. /\ Born' = Born /\ OneEach'
      /\ \A i \in Born' : i < nextId'
      /\ \A o \in objects' : o.notification \in Born'
      /\ MarkedWasActivated'
      /\ \A g \in Requests : Fits(req[g], notifications', Born')
  BY <1>1, <1>2, <1>3, <1>4, ChangeBorn DEF history
<1>6. AllFit' /\ Apart'
  BY <1>1, <1>5 DEF AllFit, Apart, At, BornInv
<1> QED
  BY <1>5, <1>6 DEF BornInv

\* A deleted notification stays born.
LEMMA DeleteBorn ==
    ASSUME NoteInv, BornInv, NEW x \in Ids, delete(x)
    PROVE  BornInv'
<1>1. /\ notifications' = {n \in notifications : n.id # x} /\ Exists(x)
      /\ deleted' = deleted \cup {<<x, n.type>> : n \in {m \in notifications : m.id = x}}
      /\ objects' = objects /\ nextId' = nextId /\ req' = req
  BY DEF delete
<1>2. Deleted' = Deleted \cup {x}
  <2>1. Deleted' = Deleted \cup {d[1] : d \in {<<x, n.type>> :
                                                n \in {m \in notifications : m.id = x}}}
    BY <1>1 DEF Deleted
  <2>2. {d[1] : d \in {<<x, n.type>> : n \in {m \in notifications : m.id = x}}} = {x}
    <3> DEFINE D == {<<x, n.type>> : n \in {m \in notifications : m.id = x}}
    <3>1. PICK m \in notifications : m.id = x
      BY <1>1 DEF Exists
    <3>2. <<x, m.type>> \in D /\ \A d \in D : d[1] = x
      BY <3>1
    <3> HIDE DEF D
    <3>3. {d[1] : d \in D} = {x}
      BY <3>2
    <3> QED
      BY <3>3 DEF D
  <2> QED
    BY <2>1, <2>2
<1>3. Born' = Born
  <2>1. IdsOf(notifications') = IdsOf(notifications) \ {x} /\ x \in IdsOf(notifications)
    BY <1>1 DEF IdsOf, Exists
  <2> QED
    BY <1>2, <2>1 DEF Born
<1>4. OneEach'
  BY <1>1, <1>2 DEF BornInv, OneEach
<1>5. AllFit' /\ Apart'
  BY <1>1, <1>3 DEF BornInv, AllFit, Apart, Fits, At
<1>6. MarkedWasActivated' /\ \A o \in objects' : o.notification \in Born'
  BY <1>1, <1>3 DEF BornInv, MarkedWasActivated
<1> QED
  BY <1>1, <1>3, <1>4, <1>5, <1>6 DEF BornInv

\* Ids are numbers, the next one is greater than all that were born.
LEMMA BornAre == NoteInv => Born \subseteq Nat /\ nextId \in Nat
BY NoteAssumption DEF NoteInv, NoteTypeOK, Born, IdsOf, Deleted, Notification, Ids

\* The documents that are made take ids that nobody has.
LEMMA NewDocumentsBorn ==
    ASSUME NoteInv, BornInv, NEW h \in Requests, newDocuments(h)
    PROVE  BornInv'
<1> DEFINE n == Made("insert", req[h].type, req[h].recipients, req[h].code, nextId)
<1>1. /\ Puts(h, "insert", req[h].type, req[h].recipients, req[h].code, nextId)
      /\ Count(h) \in Nat /\ nextId' = nextId + Count(h)
  BY NewDocumentsIs
<1>2. nextId \in Nat /\ nextId' \in Nat /\ nextId <= nextId'
  BY <1>1, BornAre
<1>3. /\ notifications' = notifications /\ deleted' = deleted /\ objects' = objects
  BY DEF newDocuments, history
<1>4. \A i \in Span(n) : nextId <= i
  BY DEF Span, Made
<1>5. ASSUME NEW i \in Born PROVE i \notin Span(n)
  BY <1>2, <1>4, BornAre DEF BornInv
<1>6. ASSUME NEW g \in Requests, At(g, "insert"), NEW i \in Span(req[g]) PROVE i \notin Span(n)
  <2> DEFINE a == req[g].id
             l == Count(g)
  <2>1. a \in Nat /\ l \in Nat /\ i \in Nat /\ i < a + l /\ a + l <= nextId
    BY <1>6, FieldsOf, NoteAssumption DEF Span, Ids, Count, At, Formed
  <2> HIDE DEF a, l, n
  <2>2. i < nextId
    BY <1>2, <2>1
  <2> QED
    BY <1>2, <1>4, <2>1, <2>2
<1>7. Fits(n, notifications, Born)
  BY <1>5 DEF Fits, Made
<1>8. \A g \in Requests : g # h /\ At(g, "insert") => Span(req[g]) \cap Span(n) = {}
  BY <1>6
<1> HIDE DEF n
<1> QED
  BY <1>1, <1>2, <1>3, <1>7, <1>8, SoundAre, MoveBorn DEF n

\* Objects are stored, all or some, for notifications that were.
LEMMA ObjectsBorn ==
    ASSUME NoteInv, BornInv, NEW h \in Requests, At(h, "objects"),
           NEW S \in SUBSET NewObjects(h), objects' = objects \cup S,
           notifications' = notifications, deleted' = deleted, nextId' = nextId,
           Puts(h, "idle", "SYSTEM", <<>>, 0, 0)
    PROVE  BornInv'
<1>1. Span(req[h]) \subseteq Born
  BY DEF BornInv, AllFit, Fits, At
<1>2. \A o \in S : Sound(o, notifications, Born)
  BY <1>1, NewObjectsAre DEF Sound
<1>3. Fits(Made("idle", "SYSTEM", <<>>, 0, 0), notifications, Born)
  BY DEF Fits, Made
<1>4. nextId' \in Nat /\ nextId <= nextId'
  BY BornAre
<1> QED
  BY <1>2, <1>3, <1>4, SoundAre, MoveBorn

\* Objects are activated for a notification that was.
LEMMA StatusBorn ==
    ASSUME NoteInv, BornInv, NEW h \in Requests, updateStatusByNotificationId(h)
    PROVE  BornInv'
<1>1. /\ Puts(h, "tell", req[h].type, req[h].recipients, req[h].code, req[h].id)
      /\ \A p \in objects' : \E o \in objects :
           /\ p.notification = o.notification
           /\ o.notification = req[h].id => p.active
           /\ o.notification # req[h].id => p = o
  BY UpdateStatusIs
<1>2. At(h, "status") /\ notifications' = notifications /\ deleted' = deleted /\ nextId' = nextId
  BY DEF updateStatusByNotificationId, history
<1>3. Fits(req[h], notifications, Born)
  BY DEF BornInv, AllFit
<1>4. ASSUME NEW p \in objects' PROVE Sound(p, notifications, Born)
  <2>1. PICK o \in objects : /\ p.notification = o.notification
                             /\ o.notification # req[h].id => p = o
    BY <1>1
  <2>2. Sound(o, notifications, Born)
    BY SoundAre
  <2> QED
    BY <1>2, <1>3, <2>1, <2>2 DEF Sound, Fits, At
<1>5. Fits(Made("tell", req[h].type, req[h].recipients, req[h].code, req[h].id),
           notifications, Born)
  BY DEF Fits, Made
<1>6. nextId' \in Nat /\ nextId <= nextId'
  BY <1>2, BornAre
<1> QED
  BY <1>1, <1>2, <1>4, <1>5, <1>6, MoveBorn

\* A failure leaves what was stored before it.
LEMMA FailureBorn ==
    ASSUME NoteInv, BornInv, NEW h \in Requests, Throw(h) \/ insertManyFails(h)
    PROVE  BornInv'
<1>1. /\ Puts(h, "idle", "SYSTEM", <<>>, 0, 0)
      /\ deleted' = deleted /\ nextId' = nextId
      /\ \/ notifications' = notifications
         \/ /\ At(h, "insert")
            /\ \E k \in 0..(Count(h) - 1) :
                 notifications' = notifications \cup {New(h, i) : i \in 1..k}
      /\ \/ objects' = objects
         \/ At(h, "objects") /\ \E S \in SUBSET NewObjects(h) : objects' = objects \cup S
  BY FailureIs
<1>2. Fits(Made("idle", "SYSTEM", <<>>, 0, 0), notifications, Born)
  BY DEF Fits, Made
<1>3. nextId' \in Nat /\ nextId <= nextId'
  BY <1>1, BornAre
<1>4. CASE notifications' = notifications /\ objects' = objects
  BY <1>1, <1>2, <1>3, <1>4, SoundAre, MoveBorn
<1>5. CASE notifications' = notifications /\ At(h, "objects")
           /\ \E S \in SUBSET NewObjects(h) : objects' = objects \cup S
  BY <1>1, <1>5, ObjectsBorn
<1>6. ASSUME At(h, "insert"), NEW k \in 0..(Count(h) - 1), objects' = objects,
             notifications' = notifications \cup {New(h, i) : i \in 1..k}
      PROVE  BornInv'
  <2>1. k \in 0..Count(h)
    BY FieldsOf
  <2> QED
    BY <1>1, <1>6, <2>1, InsertBorn
<1>7. ~(At(h, "insert") /\ At(h, "objects"))
  BY DEF At
<1> QED
  BY <1>1, <1>4, <1>5, <1>6, <1>7

\* The steps of a request.
LEMMA StepBorn ==
    ASSUME NoteInv, BornInv, NEW h \in Requests,
           NoteStep(h) \/ charge(h) \/ grant(h)
    PROVE  BornInv'
<1>n. nextId \in Nat /\ nextId <= nextId
  BY BornAre
<1>1. CASE getCode(h)
  <2>1. Puts(h, "new", req[h].type, req[h].recipients, NextCode(notifications), req[h].id)
    BY <1>1, GetCodeIs
  <2>2. /\ notifications' = notifications /\ deleted' = deleted /\ objects' = objects
        /\ nextId' = nextId
    BY <1>1 DEF getCode, dbVars, history
  <2>3. Fits(Made("new", req[h].type, req[h].recipients, NextCode(notifications), req[h].id),
             notifications, Born)
    BY DEF Fits, Made
  <2> QED
    BY <1>n, <2>1, <2>2, <2>3, SoundAre, MoveBorn
<1>2. CASE insert(h)
  <2>1. Puts(h, "objects", req[h].type, req[h].recipients, 0, req[h].id)
    BY <1>2, InsertIs
  <2>2. /\ At(h, "insert") /\ deleted' = deleted /\ objects' = objects /\ nextId' = nextId
        /\ notifications' = notifications \cup {New(h, i) : i \in 1..Count(h)}
    BY <1>2 DEF insert, history
  <2>3. Count(h) \in 0..Count(h)
    BY FieldsOf
  <2> QED
    BY <2>1, <2>2, <2>3, InsertBorn
<1>3. CASE createMany(h)
  <2>1. Puts(h, "idle", "SYSTEM", <<>>, 0, 0)
    BY <1>3, CreateManyIs
  <2>2. /\ At(h, "objects") /\ deleted' = deleted /\ notifications' = notifications
        /\ nextId' = nextId /\ objects' = objects \cup NewObjects(h)
    BY <1>3 DEF createMany, history
  <2> QED
    BY <2>1, <2>2, ObjectsBorn
<1>4. CASE createNotification(h)
  <2>1. Puts(h, "idle", "SYSTEM", <<>>, 0, 0)
    BY <1>4, TellIs
  <2>2. /\ notifications' = notifications /\ deleted' = deleted /\ objects' = objects
        /\ nextId' = nextId
    BY <1>4 DEF createNotification, dbVars, history
  <2>3. Fits(Made("idle", "SYSTEM", <<>>, 0, 0), notifications, Born)
    BY DEF Fits, Made
  <2> QED
    BY <1>n, <2>1, <2>2, <2>3, SoundAre, MoveBorn
<1>5. CASE charge(h)
  <2>1. Puts(h, "grant", req[h].type, req[h].recipients, req[h].code, req[h].id)
    BY <1>5, ChargeIs
  <2>2. /\ notifications' = notifications /\ deleted' = deleted /\ objects' = objects
        /\ nextId' = nextId
    BY <1>5 DEF charge, dbVars, history
  <2>3. Fits(Made("grant", req[h].type, req[h].recipients, req[h].code, req[h].id),
             notifications, Born)
    BY DEF Fits, Made
  <2> QED
    BY <1>n, <2>1, <2>2, <2>3, SoundAre, MoveBorn
<1>6. CASE grant(h)
  <2>1. Puts(h, "code", "PAYMENT", req[h].recipients, req[h].code, req[h].id)
    BY <1>6, GrantIs
  <2>2. /\ notifications' = notifications /\ deleted' = deleted /\ objects' = objects
        /\ nextId' = nextId
    BY <1>6 DEF grant, dbVars, history
  <2>3. Fits(Made("code", "PAYMENT", req[h].recipients, req[h].code, req[h].id),
             notifications, Born)
    BY DEF Fits, Made
  <2> QED
    BY <1>n, <2>1, <2>2, <2>3, SoundAre, MoveBorn
<1> QED
  BY <1>1, <1>2, <1>3, <1>4, <1>5, <1>6, NewDocumentsBorn, ActivateBorn, StatusBorn DEF NoteStep

\* A request begins; one that activates a notification has seen it.
LEMMA BeginBorn ==
    ASSUME NoteInv, BornInv, NEW h \in Requests, NEW s, NEW t, NEW r, NEW i,
           Begins(h, s, t, r, i)
    PROVE  BornInv'
<1>1. Puts(h, s, t, r, 0, i)
  BY BeginIs
<1>2. /\ notifications' = notifications /\ deleted' = deleted /\ objects' = objects
      /\ nextId' = nextId
  BY DEF Begins, Begin, dbVars
<1>3. s = "activate" => i \in Born
  BY DEF Begins, Exists, Born, IdsOf
<1>4. s \in {"activate", "code", "charge", "grant"}
  BY DEF Begins
<1>5. Fits(Made(s, t, r, 0, i), notifications, Born) /\ s # "insert"
  BY <1>3, <1>4 DEF Fits, Made
<1>6. nextId' \in Nat /\ nextId <= nextId'
  BY <1>2, BornAre
<1> QED
  BY <1>1, <1>2, <1>5, <1>6, SoundAre, MoveBorn

\* Every step of the next-state relation.
LEMMA BornKeeps == NoteInv /\ BornInv /\ [Next]_vars => BornInv'
<1> SUFFICES ASSUME NoteInv, BornInv, [Next]_vars PROVE BornInv'
  OBVIOUS
<1>1. CASE UNCHANGED vars
  BY <1>1 DEF vars, noteVars, dbVars, history, BornInv, AllFit, Apart, At, OneEach, Born,
              Deleted, MarkedWasActivated
<1>2. ASSUME Restart PROVE BornInv'
  <2>1. \A h \in Requests : req'[h].stage = "idle"
    BY <1>2, RestartIs DEF Idle, Handler
  <2>2. AllFit' /\ Apart'
    BY <2>1 DEF AllFit, Fits, Apart, At
  <2> QED
    BY <1>2, <2>2 DEF Restart, dbVars, BornInv, OneEach, Born, Deleted, MarkedWasActivated
<1>3. ASSUME ObjectsOnly PROVE BornInv'
  <2>1. /\ notifications' = notifications /\ deleted' = deleted /\ nextId' = nextId
        /\ req' = req
        /\ \A p \in objects' : \E o \in objects :
             p.notification = o.notification /\ p.active = o.active
    BY <1>3 DEF ObjectsOnly, history
  <2>2. MarkedWasActivated' /\ \A o \in objects' : o.notification \in Born
    BY <2>1 DEF BornInv, MarkedWasActivated
  <2> QED
    BY <2>1, <2>2 DEF BornInv, AllFit, Apart, At, OneEach, Born, Deleted
<1>4. CASE Steps
  BY <1>2, <1>3, <1>4, BeginBorn, StepBorn, FailureBorn, InActiveBorn, DeleteBorn DEF Steps
<1> QED
  BY <1>1, <1>4, NextIs

LEMMA BornStart == PayInit => BornInv
<1> SUFFICES ASSUME PayInit PROVE BornInv
  OBVIOUS
<1>1. /\ notifications = {} /\ objects = {} /\ deleted = {}
      /\ \A h \in Requests : req[h].stage = "idle"
  BY DEF PayInit, NoteInit, Idle, Handler
<1>2. Born = {}
  BY <1>1 DEF Born, IdsOf, Deleted
<1> QED
  BY <1>1, <1>2 DEF BornInv, AllFit, Fits, Apart, At, OneEach, MarkedWasActivated

LEMMA BornAlways == Spec => [](NoteInv /\ BornInv)
BY NoteStart, NoteKeeps, BornStart, BornKeeps, PTL DEF Spec

(* No object outlives a notification that was not deleted, nor precedes one: *)
(* also when the insert of the notifications stopped in the middle, when the *)
(* process restarted between the two inserts, and whatever overlaps.         *)
THEOREM Orphans == Spec => []OrphansWereDeleted
<1>1. BornInv => OrphansWereDeleted
  BY DEF BornInv, Born, IdsOf, Deleted, OrphansWereDeleted, Exists
<1> QED
  BY <1>1, BornAlways, PTL

(* No object is marked active that no administrator has activated: an        *)
(* activation whose notification is deleted and whose id no other document   *)
(* can take never reaches the objects of another.  The mark only: a          *)
(* recipient's list (getByUserId) reads objects whatever their status.       *)
THEOREM MarkedActive == Spec => []MarkedWasActivated
<1>1. BornInv => MarkedWasActivated
  BY DEF BornInv
<1> QED
  BY <1>1, BornAlways, PTL

-----------------------------------------------------------------------------
(* Requests that do not overlap.  The code that the one in flight has read   *)
(* stays greater than every other until its documents are inserted, also     *)
(* when notifications are deleted meanwhile; and nobody can activate a       *)
(* notification between its insert and that of its objects.                  *)

InOrder(N) == \A m, n \in N : m.id < n.id <=> m.code < n.code

Reaches(n, O) == \A o \in O : o.notification = n.id => o.active

\* What the request in flight has ahead of it.
Waits(r, N) ==
    /\ r.stage \in {"new", "insert"} => \A n \in N : n.code < r.code
    /\ r.stage = "insert" => \A n \in N : n.id < r.id
    /\ r.stage = "objects" => \A n \in N : n.id \in Span(r) => ~n.active

SoleInv == ~overlapped =>
    /\ \A g, h \in Requests : At(g, "idle") \/ At(h, "idle") \/ g = h
    /\ InOrder(notifications)
    /\ \A h \in Requests : Waits(req[h], notifications)
    /\ ~failed => \A n \in notifications : n.active =>
         Reaches(n, objects) \/ \E h \in Requests : At(h, "status") /\ req[h].id = n.id

\* The one request moves, or one begins while there is none.
LEMMA SoleMove ==
    ASSUME NoteInv, SoleInv, ~overlapped, NEW h \in Requests,
           ~At(h, "idle") \/ \A g \in Requests : At(g, "idle"),
           NEW s, NEW t, NEW r, NEW c, NEW i, Puts(h, s, t, r, c, i),
           InOrder(notifications'), Waits(Made(s, t, r, c, i), notifications'),
           failed' \/ \A n \in notifications' : n.active =>
               Reaches(n, objects') \/ (s = "status" /\ i = n.id)
    PROVE  SoleInv'
<1> DEFINE n == Made(s, t, r, c, i)
<1>1. \A g \in Requests : req'[g] = IF g = h THEN n ELSE req[g]
  BY DEF Puts, NoteInv, NoteTypeOK
<1>2. \A g \in Requests : g # h => At(g, "idle")
  BY DEF SoleInv
<1>3. n.stage = s /\ n.id = i
  BY DEF Made
<1>4. Waits(n, notifications')
  OBVIOUS
<1> HIDE DEF n
<1>5. \A g \in Requests : g # h => req'[g].stage = "idle"
  BY <1>1, <1>2 DEF At
<1>6. \A g \in Requests : Waits(req'[g], notifications')
  BY <1>1, <1>4, <1>5 DEF Waits
<1>7. ~failed' => \A m \in notifications' : m.active =>
         \/ Reaches(m, objects')
         \/ \E g \in Requests : req'[g].stage = "status" /\ req'[g].id = m.id
  BY <1>1, <1>3
<1> QED
  BY <1>5, <1>6, <1>7 DEF SoleInv, At

\* While the one request is elsewhere, each active notification has its objects active.
LEMMA SoleReaches ==
    ASSUME SoleInv, ~overlapped, ~failed, NEW h \in Requests, ~At(h, "status"),
           ~At(h, "idle") \/ \A g \in Requests : At(g, "idle")
    PROVE  \A n \in notifications : n.active => Reaches(n, objects)
BY DEF SoleInv, At

\* The next code is greater than all, since the last notification has the greatest.
LEMMA NextCodeTops ==
    ASSUME NoteInv, InOrder(notifications)
    PROVE  \A n \in notifications : n.code < NextCode(notifications)
<1> SUFFICES ASSUME NEW n \in notifications PROVE n.code < NextCode(notifications)
  OBVIOUS
<1> DEFINE m == Last(notifications)
<1>1. m \in notifications /\ n.id <= m.id
  BY LastIs DEF NoteInv, NoteTypeOK
<1>2. n.id \in Nat /\ m.id \in Nat /\ n.code \in Nat /\ m.code \in Nat
  BY <1>1, NoteAssumption DEF NoteInv, NoteTypeOK, Notification, Ids
<1>3. NextCode(notifications) = m.code + 1
  BY DEF NextCode
<1> HIDE DEF m
<1>4. m.id < n.id <=> m.code < n.code
  BY <1>1 DEF InOrder
<1> QED
  BY <1>1, <1>2, <1>3, <1>4

\* Documents of a request that waited are stored in order.
LEMMA InsertInOrder ==
    ASSUME NoteInv, NEW h \in Requests, At(h, "insert"), InOrder(notifications),
           Waits(req[h], notifications), NEW k \in 0..Count(h)
    PROVE  InOrder(notifications \cup {New(h, j) : j \in 1..k})
<1> DEFINE new == {New(h, j) : j \in 1..k}
           a == req[h].id
           c == req[h].code
<1>1. 1..k \subseteq 1..Count(h) /\ Count(h) \in Nat /\ a \in Nat /\ c \in Nat
  BY FieldsOf
<1>2. ASSUME NEW p \in 1..k, NEW q \in 1..k
      PROVE  New(h, p).id < New(h, q).id <=> New(h, p).code < New(h, q).code
  <2>1. /\ New(h, p).id = a + p - 1 /\ New(h, q).id = a + q - 1
        /\ New(h, p).code = c + p - 1 /\ New(h, q).code = c + q - 1
        /\ p \in Nat /\ q \in Nat
    BY <1>1, NewIs
  <2> HIDE DEF a, c
  <2> QED
    BY <1>1, <2>1
<1>3. ASSUME NEW n \in notifications, NEW q \in 1..k
      PROVE  /\ n.id < New(h, q).id /\ n.code < New(h, q).code
             /\ ~(New(h, q).id < n.id) /\ ~(New(h, q).code < n.code)
  <2>1. /\ New(h, q).id = a + q - 1 /\ New(h, q).code = c + q - 1 /\ q \in Nat /\ q # 0
    BY <1>1, NewIs
  <2>2. n.id \in Nat /\ n.code \in Nat
    BY NoteAssumption DEF NoteInv, NoteTypeOK, Notification, Ids
  <2>3. n.id < a /\ n.code < c
    BY DEF Waits, At
  <2> HIDE DEF a, c
  <2> QED
    BY <1>1, <2>1, <2>2, <2>3
<1>4. ASSUME NEW m \in notifications \cup new, NEW n \in notifications \cup new
      PROVE  m.id < n.id <=> m.code < n.code
  <2>1. CASE m \in notifications /\ n \in notifications
    BY <2>1 DEF InOrder
  <2>2. CASE m \in new
    <3>1. PICK p \in 1..k : m = New(h, p)
      BY <2>2
    <3> QED
      BY <1>2, <1>3, <3>1
  <2>3. CASE n \in new
    <3>1. PICK p \in 1..k : n = New(h, p)
      BY <2>3
    <3> QED
      BY <1>2, <1>3, <3>1
  <2> QED
    BY <2>1, <2>2, <2>3
<1> QED
  BY <1>4 DEF InOrder

\* A step of the one request that writes no document.
LEMMA QuietSole ==
    ASSUME NoteInv, SoleInv, ~overlapped, NEW h \in Requests,
           ~At(h, "idle") \/ \A g \in Requests : At(g, "idle"), ~At(h, "status"),
           NEW s, NEW t, NEW r, NEW c, NEW i, Puts(h, s, t, r, c, i),
           notifications' = notifications, objects' = objects, failed => failed',
           failed \in BOOLEAN,
           Waits(Made(s, t, r, c, i), notifications)
    PROVE  SoleInv'
<1>1. ~failed => \A n \in notifications : n.active => Reaches(n, objects)
  BY SoleReaches
<1> QED
  BY <1>1, SoleMove DEF SoleInv

LEMMA InsertSole ==
    ASSUME NoteInv, BornInv, SoleInv, ~overlapped, NEW h \in Requests, At(h, "insert"),
           NEW k \in 0..Count(h),
           notifications' = notifications \cup {New(h, j) : j \in 1..k}, objects' = objects,
           failed => failed', failed \in BOOLEAN,
           NEW s, NEW t, NEW c, NEW i, NEW r, Puts(h, s, t, r, c, i),
           \/ s = "idle"
           \/ s = "objects" /\ i = req[h].id /\ r = req[h].recipients
    PROVE  SoleInv'
<1> DEFINE new == {New(h, j) : j \in 1..k}
<1>1. 1..k \subseteq 1..Count(h)
  BY FieldsOf
<1>2. \A n \in new : ~n.active
  BY <1>1, NewIs
<1>3. InOrder(notifications')
  BY InsertInOrder DEF SoleInv
<1>4. Waits(Made(s, t, r, c, i), notifications')
  <2>1. CASE s = "idle"
    BY <2>1 DEF Waits, Made
  <2>2. CASE s = "objects"
    <3>1. Span(Made(s, t, r, c, i)) = Span(req[h])
      BY <2>2 DEF Made, Span
    <3>2. Span(req[h]) \cap IdsOf(notifications) = {}
      BY DEF BornInv, AllFit, Fits, At, Born
    <3>3. \A n \in notifications' : n.id \in Span(req[h]) => ~n.active
      <4> HIDE DEF new
      <4> QED
        BY <1>2, <3>2 DEF IdsOf, new
    <3>4. Made(s, t, r, c, i).stage = "objects"
      BY <2>2 DEF Made
    <3> QED
      BY <3>1, <3>3, <3>4 DEF Waits
  <2> QED
    BY <2>1, <2>2
<1>5. ~At(h, "idle") /\ ~At(h, "status")
  BY DEF At
<1>6. ~failed => \A n \in notifications : n.active => Reaches(n, objects)
  BY <1>5, SoleReaches
<1>7. failed' \/ \A n \in notifications' : n.active => Reaches(n, objects')
  <2> HIDE DEF new
  <2> QED
    BY <1>2, <1>6 DEF new
<1> QED
  BY <1>3, <1>4, <1>5, <1>7, SoleMove

\* Objects are stored, all or some; their notifications are not active yet.
LEMMA ObjectsSole ==
    ASSUME NoteInv, SoleInv, ~overlapped, NEW h \in Requests, At(h, "objects"),
           NEW S \in SUBSET NewObjects(h), objects' = objects \cup S,
           notifications' = notifications, failed => failed', failed \in BOOLEAN,
           Puts(h, "idle", "SYSTEM", <<>>, 0, 0)
    PROVE  SoleInv'
<1>1. ~At(h, "idle") /\ ~At(h, "status")
  BY DEF At
<1>2. Waits(Made("idle", "SYSTEM", <<>>, 0, 0), notifications)
  BY DEF Waits, Made
<1>3. ~failed => \A n \in notifications : n.active => Reaches(n, objects)
  BY <1>1, SoleReaches
<1>4. \A n \in notifications : n.id \in Span(req[h]) => ~n.active
  BY DEF SoleInv, Waits, At
<1>5. \A o \in S : o.notification \in Span(req[h])
  BY NewObjectsAre
<1>6. failed' \/ \A n \in notifications : n.active => Reaches(n, objects')
  BY <1>3, <1>4, <1>5 DEF Reaches
<1> QED
  BY <1>1, <1>2, <1>6, SoleMove DEF SoleInv

\* An update that writes neither ids nor codes keeps the order.
LEMMA ChangeInOrder ==
    ASSUME InOrder(notifications),
           \A w \in notifications' : \E n \in notifications : SameNote(n, w)
    PROVE  InOrder(notifications')
<1>1. ASSUME NEW v \in notifications', NEW w \in notifications'
      PROVE  v.id < w.id <=> v.code < w.code
  <2>1. PICK m \in notifications : SameNote(m, v)
    OBVIOUS
  <2>2. PICK n \in notifications : SameNote(n, w)
    OBVIOUS
  <2> QED
    BY <2>1, <2>2 DEF InOrder, SameNote
<1> QED
  BY <1>1 DEF InOrder

LEMMA ActivateSole ==
    ASSUME NoteInv, SoleInv, ~overlapped, NEW h \in Requests, activate(h), failed \in BOOLEAN
    PROVE  SoleInv'
<1>1. objects' = objects /\ failed' = failed /\ At(h, "activate")
  BY Zenon DEF activate, history
<1>2. ~At(h, "idle") /\ ~At(h, "status")
  BY <1>1 DEF At
<1>3. CASE /\ Puts(h, "status", req[h].type, req[h].recipients, req[h].code, req[h].id)
           /\ notifications' = {Opened(n, req[h].id) : n \in notifications}
  <2>t. \A n \in notifications :
           /\ SameNote(n, Opened(n, req[h].id))
           /\ n.id # req[h].id => Opened(n, req[h].id) = n
    BY OpenedIs DEF NoteInv, NoteTypeOK
  <2>1. InOrder(notifications')
    BY <1>3, <2>t, ChangeInOrder DEF SoleInv
  <2>2. Waits(Made("status", req[h].type, req[h].recipients, req[h].code, req[h].id),
              notifications')
    BY DEF Waits, Made
  <2>3. ~failed => \A n \in notifications : n.active => Reaches(n, objects)
    BY <1>2, SoleReaches
  <2>4. failed' \/ \A w \in notifications' : w.active =>
            Reaches(w, objects') \/ ("status" = "status" /\ req[h].id = w.id)
    BY <1>1, <1>3, <2>t, <2>3 DEF SameNote
  <2> QED
    BY <1>2, <1>3, <2>1, <2>2, <2>4, SoleMove
<1>4. CASE Puts(h, "idle", "SYSTEM", <<>>, 0, 0) /\ UNCHANGED notifications
  <2>1. Waits(Made("idle", "SYSTEM", <<>>, 0, 0), notifications)
    BY DEF Waits, Made
  <2> QED
    BY <1>1, <1>2, <1>4, <2>1, QuietSole
<1> QED
  BY <1>3, <1>4, ActivateIs

\* The objects that were not active become active.
LEMMA StatusSole ==
    ASSUME NoteInv, SoleInv, ~overlapped, NEW h \in Requests, updateStatusByNotificationId(h)
    PROVE  SoleInv'
<1>1. /\ Puts(h, "tell", req[h].type, req[h].recipients, req[h].code, req[h].id)
      /\ \A p \in objects' : \E o \in objects :
           /\ p.notification = o.notification
           /\ o.notification = req[h].id => p.active
           /\ o.notification # req[h].id => p = o
  BY UpdateStatusIs
<1>2. At(h, "status") /\ notifications' = notifications /\ failed' = failed
  BY DEF updateStatusByNotificationId, history
<1>3. ~At(h, "idle")
  BY <1>2 DEF At
<1>4. Waits(Made("tell", req[h].type, req[h].recipients, req[h].code, req[h].id),
            notifications)
  BY DEF Waits, Made
<1>5. ASSUME ~failed, NEW n \in notifications, n.active PROVE Reaches(n, objects')
  <2>1. n.id = req[h].id \/ Reaches(n, objects)
    BY <1>2, <1>5 DEF SoleInv, At
  <2> QED
    BY <1>1, <2>1 DEF Reaches
<1>6. failed \in BOOLEAN
  BY DEF NoteInv, NoteTypeOK
<1> QED
  BY <1>1, <1>2, <1>3, <1>4, <1>5, <1>6, SoleMove DEF SoleInv

LEMMA FailureSole ==
    ASSUME NoteInv, BornInv, SoleInv, ~overlapped, NEW h \in Requests,
           Throw(h) \/ insertManyFails(h)
    PROVE  SoleInv'
<1>1. /\ Puts(h, "idle", "SYSTEM", <<>>, 0, 0)
      /\ failed' = TRUE
      /\ \/ notifications' = notifications
         \/ /\ At(h, "insert")
            /\ \E k \in 0..(Count(h) - 1) :
                 notifications' = notifications \cup {New(h, i) : i \in 1..k}
      /\ \/ objects' = objects
         \/ At(h, "objects") /\ \E S \in SUBSET NewObjects(h) : objects' = objects \cup S
  BY FailureIs
<1>2. ~At(h, "idle")
  BY DEF Throw, insertManyFails, At
<1>3. Waits(Made("idle", "SYSTEM", <<>>, 0, 0), notifications')
  BY DEF Waits, Made
<1>4. InOrder(notifications')
  <2>1. ASSUME At(h, "insert"), NEW k \in 0..(Count(h) - 1)
        PROVE  InOrder(notifications \cup {New(h, i) : i \in 1..k})
    <3>1. k \in 0..Count(h)
      BY FieldsOf
    <3> QED
      BY <2>1, <3>1, InsertInOrder DEF SoleInv
  <2> QED
    BY <1>1, <2>1 DEF SoleInv
<1> QED
  BY <1>1, <1>2, <1>3, <1>4, SoleMove

\* The steps of the one request.
LEMMA StepSole ==
    ASSUME NoteInv, BornInv, SoleInv, ~overlapped, NEW h \in Requests,
           NoteStep(h) \/ charge(h) \/ grant(h)
    PROVE  SoleInv'
<1>f. failed \in BOOLEAN
  BY DEF NoteInv, NoteTypeOK
<1>1. CASE getCode(h)
  <2>1. Puts(h, "new", req[h].type, req[h].recipients, NextCode(notifications), req[h].id)
    BY <1>1, GetCodeIs
  <2>2. /\ notifications' = notifications /\ objects' = objects /\ failed' = failed
        /\ ~At(h, "idle") /\ ~At(h, "status")
    BY <1>1 DEF getCode, dbVars, history, At
  <2>3. \A n \in notifications : n.code < NextCode(notifications)
    BY NextCodeTops DEF SoleInv
  <2>4. Waits(Made("new", req[h].type, req[h].recipients, NextCode(notifications), req[h].id),
              notifications)
    BY <2>3 DEF Waits, Made
  <2> QED
    BY <1>f, <2>1, <2>2, <2>4, QuietSole
<1>2. CASE newDocuments(h)
  <2>1. Puts(h, "insert", req[h].type, req[h].recipients, req[h].code, nextId)
    BY <1>2, NewDocumentsIs
  <2>2. /\ notifications' = notifications /\ objects' = objects /\ failed' = failed
        /\ ~At(h, "idle") /\ ~At(h, "status") /\ At(h, "new")
    BY <1>2 DEF newDocuments, history, At
  <2>3. \A n \in notifications : n.code < req[h].code
    BY <2>2 DEF SoleInv, Waits, At
  <2>4. \A n \in notifications : n.id < nextId
    BY DEF BornInv, Born, IdsOf
  <2>5. Waits(Made("insert", req[h].type, req[h].recipients, req[h].code, nextId),
              notifications)
    BY <2>3, <2>4 DEF Waits, Made
  <2> QED
    BY <1>f, <2>1, <2>2, <2>5, QuietSole
<1>3. CASE insert(h)
  <2>1. Puts(h, "objects", req[h].type, req[h].recipients, 0, req[h].id)
    BY <1>3, InsertIs
  <2>2. /\ At(h, "insert") /\ objects' = objects /\ failed' = failed
        /\ notifications' = notifications \cup {New(h, i) : i \in 1..Count(h)}
    BY <1>3 DEF insert, history
  <2>3. Count(h) \in 0..Count(h)
    BY FieldsOf
  <2> QED
    BY <1>f, <2>1, <2>2, <2>3, InsertSole
<1>4. CASE createMany(h)
  <2>1. Puts(h, "idle", "SYSTEM", <<>>, 0, 0)
    BY <1>4, CreateManyIs
  <2>2. /\ At(h, "objects") /\ notifications' = notifications /\ failed' = failed
        /\ objects' = objects \cup NewObjects(h)
    BY <1>4 DEF createMany, history
  <2> QED
    BY <1>f, <2>1, <2>2, ObjectsSole
<1>5. CASE createNotification(h)
  <2>1. Puts(h, "idle", "SYSTEM", <<>>, 0, 0)
    BY <1>5, TellIs
  <2>2. /\ notifications' = notifications /\ objects' = objects /\ failed' = failed
        /\ ~At(h, "idle") /\ ~At(h, "status")
    BY <1>5 DEF createNotification, dbVars, history, At
  <2>3. Waits(Made("idle", "SYSTEM", <<>>, 0, 0), notifications)
    BY DEF Waits, Made
  <2> QED
    BY <1>f, <2>1, <2>2, <2>3, QuietSole
<1>6. CASE charge(h)
  <2>1. Puts(h, "grant", req[h].type, req[h].recipients, req[h].code, req[h].id)
    BY <1>6, ChargeIs
  <2>2. /\ notifications' = notifications /\ objects' = objects /\ failed' = failed
        /\ ~At(h, "idle") /\ ~At(h, "status")
    BY <1>6 DEF charge, dbVars, history, At
  <2>3. Waits(Made("grant", req[h].type, req[h].recipients, req[h].code, req[h].id),
              notifications)
    BY DEF Waits, Made
  <2> QED
    BY <1>f, <2>1, <2>2, <2>3, QuietSole
<1>7. CASE grant(h)
  <2>1. Puts(h, "code", "PAYMENT", req[h].recipients, req[h].code, req[h].id)
    BY <1>7, GrantIs
  <2>2. /\ notifications' = notifications /\ objects' = objects /\ failed' = failed
        /\ ~At(h, "idle") /\ ~At(h, "status")
    BY <1>7 DEF grant, dbVars, history, At
  <2>3. Waits(Made("code", "PAYMENT", req[h].recipients, req[h].code, req[h].id),
              notifications)
    BY DEF Waits, Made
  <2> QED
    BY <1>f, <2>1, <2>2, <2>3, QuietSole
<1> QED
  BY <1>f, <1>1, <1>2, <1>3, <1>4, <1>5, <1>6, <1>7, ActivateSole, StatusSole DEF NoteStep

\* A request that overlaps with nobody begins while none is in flight.
LEMMA BeginSole ==
    ASSUME NoteInv, SoleInv, ~overlapped', NEW h \in Requests, NEW s, NEW t, NEW r, NEW i,
           Begins(h, s, t, r, i)
    PROVE  SoleInv'
<1>1. Puts(h, s, t, r, 0, i)
  BY BeginIs
<1>2. /\ notifications' = notifications /\ objects' = objects /\ failed' = failed
      /\ ~overlapped /\ InFlight = {} /\ failed \in BOOLEAN
  BY DEF Begins, Begin, dbVars, NoteInv, NoteTypeOK
<1>3. \A g \in Requests : At(g, "idle")
  BY <1>2 DEF InFlight
<1>4. ~At(h, "status")
  BY <1>3 DEF At
<1>5. Waits(Made(s, t, r, 0, i), notifications)
  BY DEF Waits, Made, Begins
<1> QED
  BY <1>1, <1>2, <1>3, <1>4, <1>5, QuietSole

\* Documents are written by no request in flight: notifications are closed or
\* deleted, objects are read or deleted.
LEMMA OutsideSole ==
    ASSUME NoteInv, SoleInv, ~overlapped, req' = req, failed' = failed,
           \A w \in notifications' : \E n \in notifications :
               SameNote(n, w) /\ (w.active => n.active),
           \A p \in objects' : \E o \in objects :
               p.notification = o.notification /\ p.active = o.active
    PROVE  SoleInv'
<1>1. InOrder(notifications')
  BY ChangeInOrder DEF SoleInv
<1>2. ASSUME NEW h \in Requests PROVE Waits(req[h], notifications')
  <2>1. Waits(req[h], notifications)
    BY DEF SoleInv
  <2>2. ASSUME NEW w \in notifications'
        PROVE  /\ req[h].stage \in {"new", "insert"} => w.code < req[h].code
               /\ req[h].stage = "insert" => w.id < req[h].id
               /\ req[h].stage = "objects" => (w.id \in Span(req[h]) => ~w.active)
    <3>1. PICK n \in notifications : SameNote(n, w) /\ (w.active => n.active)
      OBVIOUS
    <3> QED
      BY <2>1, <3>1 DEF Waits, SameNote
  <2> QED
    BY <2>2 DEF Waits
<1>3. ASSUME ~failed, NEW w \in notifications', w.active
      PROVE  Reaches(w, objects') \/ \E h \in Requests : At(h, "status") /\ req[h].id = w.id
  <2>1. PICK n \in notifications : SameNote(n, w) /\ (w.active => n.active)
    OBVIOUS
  <2>2. Reaches(n, objects) \/ \E h \in Requests : At(h, "status") /\ req[h].id = n.id
    BY <1>3, <2>1 DEF SoleInv
  <2> QED
    BY <2>1, <2>2 DEF Reaches, SameNote
<1> QED
  BY <1>1, <1>2, <1>3 DEF SoleInv, At

\* Every step of the next-state relation.
LEMMA SoleKeeps == NoteInv /\ BornInv /\ SoleInv /\ [Next]_vars => SoleInv'
<1> SUFFICES ASSUME NoteInv, BornInv, SoleInv, [Next]_vars, ~overlapped' PROVE SoleInv'
  BY DEF SoleInv
<1>1. CASE UNCHANGED vars
  BY <1>1 DEF vars, noteVars, dbVars, history, SoleInv, At
<1>2. ASSUME Restart PROVE SoleInv'
  <2>1. /\ \A h \in Requests : req'[h].stage = "idle"
        /\ notifications' = notifications /\ failed' = TRUE /\ overlapped' = overlapped
    BY <1>2, RestartIs DEF Idle, Handler, Restart, dbVars
  <2> QED
    BY <2>1 DEF SoleInv, At, Waits
<1>3. ASSUME ObjectsOnly PROVE SoleInv'
  <2>1. /\ notifications' = notifications /\ req' = req /\ failed' = failed
        /\ overlapped' = overlapped
        /\ \A p \in objects' : \E o \in objects :
             p.notification = o.notification /\ p.active = o.active
    BY <1>3 DEF ObjectsOnly, history
  <2>2. \A n \in notifications : SameNote(n, n)
    BY DEF SameNote
  <2> QED
    BY <2>1, <2>2, OutsideSole
<1>4. ASSUME NEW x \in Ids, inActive(x) PROVE SoleInv'
  <2>1. /\ notifications' = {Closed(n, x) : n \in notifications}
        /\ objects' = objects /\ req' = req /\ failed' = failed /\ overlapped' = overlapped
    BY <1>4, InActiveIs DEF history
  <2>2. \A n \in notifications :
           SameNote(n, Closed(n, x)) /\ (Closed(n, x).active => n.active)
    BY ClosedIs DEF NoteInv, NoteTypeOK
  <2> QED
    BY <2>1, <2>2, OutsideSole
<1>5. ASSUME NEW x \in Ids, delete(x) PROVE SoleInv'
  <2>1. /\ notifications' \subseteq notifications
        /\ objects' = objects /\ req' = req /\ failed' = failed /\ overlapped' = overlapped
    BY <1>5 DEF delete
  <2>2. \A n \in notifications : SameNote(n, n)
    BY DEF SameNote
  <2> QED
    BY <2>1, <2>2, OutsideSole
<1>6. ASSUME NEW h \in Requests, NoteStep(h) \/ charge(h) \/ grant(h) PROVE SoleInv'
  <2>1. overlapped' = overlapped
    BY <1>6, Zenon DEF NoteStep, getCode, newDocuments, insert, createMany, activate,
       updateStatusByNotificationId, createNotification, charge, grant, history
  <2> QED
    BY <1>6, <2>1, StepSole
<1>7. ASSUME NEW h \in Requests, Throw(h) \/ insertManyFails(h) PROVE SoleInv'
  <2>1. overlapped' = overlapped
    BY <1>7, Zenon DEF Throw, insertManyFails
  <2> QED
    BY <1>7, <2>1, FailureSole
<1>8. CASE Steps
  BY <1>2, <1>3, <1>4, <1>5, <1>6, <1>7, <1>8, BeginSole DEF Steps
<1> QED
  BY <1>1, <1>8, NextIs

LEMMA SoleStart == PayInit => SoleInv
<1> SUFFICES ASSUME PayInit PROVE SoleInv
  OBVIOUS
<1>1. notifications = {} /\ \A h \in Requests : req[h].stage = "idle"
  BY DEF PayInit, NoteInit, Idle, Handler
<1> QED
  BY <1>1 DEF SoleInv, InOrder, Waits, At

LEMMA SoleAlways == Spec => [](NoteInv /\ BornInv /\ SoleInv)
BY NoteStart, NoteKeeps, BornStart, BornKeeps, SoleStart, SoleKeeps, PTL DEF Spec

(* Codes are unique and ordered like the ids until two requests overlap:     *)
(* deletions, failed requests and partial inserts do not disturb them.       *)
THEOREM Codes == Spec => []SoleCodesAreUnique
<1>1. SoleInv => SoleCodesAreUnique
  BY DEF SoleInv, InOrder, SoleCodesAreUnique
<1> QED
  BY <1>1, SoleAlways, PTL

(* A recipient whose object is stored sees an active notification, once no   *)
(* activation is under way: no object is stored after its activation.        *)
THEOREM Activation == Spec => []ActivationReachesAll
<1>1. SoleInv => ActivationReachesAll
  BY DEF SoleInv, Reaches, ActivationReachesAll, At
<1> QED
  BY <1>1, SoleAlways, PTL

-----------------------------------------------------------------------------
(* Counting the notices of payments: those stored, those deleted and those   *)
(* that a listener has yet to store.                                         *)

PaidIn(N) == {n \in N : n.type = "PAYMENT"}
PaidOut == {d \in deleted : d[2] = "PAYMENT"}
Pending(r) == r.type = "PAYMENT" /\ r.stage \in {"code", "new", "insert"}
Listening == {h \in Requests : Pending(req[h])}

NoticeInv ==
    /\ IsFiniteSet(notifications) /\ IsFiniteSet(deleted)
    /\ granted \in Nat /\ failed \in BOOLEAN
    /\ NoticePerPackage

LEMMA NoticesAre ==
    /\ Notices = Cardinality(PaidIn(notifications)) + Cardinality(PaidOut)
    /\ Notices' = Cardinality(PaidIn(notifications')) + Cardinality(PaidOut')
    /\ Unnoticed = Cardinality(Listening) /\ Unnoticed' = Cardinality(Listening')
BY DEF Notices, PaidIn, PaidOut, Unnoticed, Listening, Pending

LEMMA CountsAre ==
    ASSUME NoticeInv
    PROVE  /\ IsFiniteSet(PaidIn(notifications)) /\ Cardinality(PaidIn(notifications)) \in Nat
           /\ IsFiniteSet(PaidOut) /\ Cardinality(PaidOut) \in Nat
           /\ IsFiniteSet(Listening) /\ Cardinality(Listening) \in Nat
           /\ Notices \in Nat /\ Unnoticed \in Nat
<1>1. /\ PaidIn(notifications) \in SUBSET notifications /\ PaidOut \in SUBSET deleted
      /\ Listening \in SUBSET Requests
  BY DEF PaidIn, PaidOut, Listening
<1>2. IsFiniteSet(PaidIn(notifications)) /\ IsFiniteSet(PaidOut) /\ IsFiniteSet(Listening)
  BY <1>1, RequestsAssumption, FS_Subset DEF NoticeInv
<1>3. /\ Cardinality(PaidIn(notifications)) \in Nat /\ Cardinality(PaidOut) \in Nat
      /\ Cardinality(Listening) \in Nat
  BY <1>2, FS_CardinalityType
<1> QED
  BY <1>2, <1>3, NoticesAre

\* A step that neither grants a package nor stores or loses a notice.
LEMMA SteadyNotices ==
    ASSUME NoticeInv, Notices' = Notices, Unnoticed' = Unnoticed, granted' = granted,
           failed => failed', failed' \in BOOLEAN,
           IsFiniteSet(notifications'), IsFiniteSet(deleted')
    PROVE  NoticeInv'
BY DEF NoticeInv, NoticePerPackage

\* A request moves.
LEMMA MoveListening ==
    ASSUME NoteInv, NEW h \in Requests, NEW s, NEW t, NEW r, NEW c, NEW i,
           Puts(h, s, t, r, c, i)
    PROVE  Listening' = IF t = "PAYMENT" /\ s \in {"code", "new", "insert"}
                          THEN Listening \cup {h} ELSE Listening \ {h}
<1> DEFINE n == Made(s, t, r, c, i)
<1>1. \A g \in Requests : req'[g] = IF g = h THEN n ELSE req[g]
  BY DEF Puts, NoteInv, NoteTypeOK
<1>2. n.stage = s /\ n.type = t
  BY DEF Made
<1> HIDE DEF n
<1> QED
  BY <1>1, <1>2 DEF Listening, Pending

\* A request moves that neither starts nor stops to owe a notice, and no
\* notice is stored or deleted.
LEMMA MoveNotices ==
    ASSUME NoteInv, NoticeInv, NEW h \in Requests, NEW s, NEW t, NEW r, NEW c, NEW i,
           Puts(h, s, t, r, c, i),
           Pending(req[h]) <=> t = "PAYMENT" /\ s \in {"code", "new", "insert"},
           PaidIn(notifications') = PaidIn(notifications), IsFiniteSet(notifications'),
           deleted' = deleted, granted' = granted, failed => failed', failed' \in BOOLEAN
    PROVE  NoticeInv'
<1>1. Listening' = Listening
  BY MoveListening DEF Listening
<1>2. Unnoticed' = Unnoticed
  BY <1>1, NoticesAre
<1>3. PaidOut' = PaidOut
  BY DEF PaidOut
<1>4. Notices' = Notices
  BY <1>3, NoticesAre
<1> QED
  BY <1>2, <1>4, SteadyNotices DEF NoticeInv

\* Only the new notifications of a listener are notices of a payment.
LEMMA NewNotices ==
    ASSUME NoteInv, NoticeInv, NEW h \in Requests, At(h, "insert"), NEW k \in 0..Count(h),
           notifications' = notifications \cup {New(h, j) : j \in 1..k}
    PROVE  /\ IsFiniteSet(notifications')
           /\ req[h].type # "PAYMENT" => PaidIn(notifications') = PaidIn(notifications)
<1> DEFINE new == {New(h, j) : j \in 1..k}
<1>1. 1..k \subseteq 1..Count(h) /\ k \in Nat
  BY FieldsOf
<1>2. \A n \in new : n.type = req[h].type
  BY <1>1, NewIs
<1>3. IsFiniteSet(1..k)
  BY <1>1, FS_Interval
<1>4. IsFiniteSet(new)
  <2>1. [j \in 1..k |-> New(h, j)] \in Surjection(1..k, new)
    BY DEF Surjection
  <2> QED
    BY <1>3, <2>1, FS_Surjection
<1> HIDE DEF new
<1>5. IsFiniteSet(notifications \cup new)
  BY <1>4, FS_Union DEF NoticeInv
<1>6. notifications' = notifications \cup new
  BY DEF new
<1> QED
  BY <1>2, <1>5, <1>6 DEF PaidIn

\* A listener stores its notice.
LEMMA InsertNotices ==
    ASSUME NoteInv, BornInv, NoticeInv, NEW h \in Requests, insert(h), granted' = granted
    PROVE  NoticeInv'
<1>1. /\ At(h, "insert") /\ deleted' = deleted /\ failed' = failed
      /\ notifications' = notifications \cup {New(h, j) : j \in 1..Count(h)}
  BY DEF insert, history
<1>2. Puts(h, "objects", req[h].type, req[h].recipients, 0, req[h].id)
  BY InsertIs
<1>3. Count(h) \in 0..Count(h) /\ Count(h) \in Nat
  BY FieldsOf
<1>4. /\ IsFiniteSet(notifications')
      /\ req[h].type # "PAYMENT" => PaidIn(notifications') = PaidIn(notifications)
  BY <1>1, <1>3, NewNotices
<1>5. CASE req[h].type # "PAYMENT"
  BY <1>1, <1>2, <1>4, <1>5, MoveNotices DEF Pending, NoticeInv
<1>6. CASE req[h].type = "PAYMENT"
  <2>1. Count(h) = 1
    BY <1>6, FieldsOf DEF Formed, Count
  <2>2. /\ New(h, 1).type = "PAYMENT" /\ New(h, 1).id \in Span(req[h])
    BY <1>1, <1>6, <2>1, NewIs
  <2>3. New(h, 1) \notin notifications
    BY <1>1, <2>2 DEF BornInv, AllFit, Fits, At, Born, IdsOf
  <2>4. {New(h, j) : j \in 1..Count(h)} = {New(h, 1)}
    BY <2>1
  <2>5. PaidIn(notifications') = PaidIn(notifications) \cup {New(h, 1)}
    BY <1>1, <2>2, <2>4 DEF PaidIn
  <2>6. New(h, 1) \notin PaidIn(notifications)
    BY <2>3 DEF PaidIn
  <2>7. Cardinality(PaidIn(notifications')) = Cardinality(PaidIn(notifications)) + 1
    BY <2>5, <2>6, CountsAre, FS_AddElement
  <2>8. Listening' = Listening \ {h} /\ h \in Listening
    BY <1>1, <1>2, <1>6, MoveListening DEF Listening, Pending, At
  <2>9. Cardinality(Listening') = Cardinality(Listening) - 1
    BY <2>8, CountsAre, FS_RemoveElement
  <2>10. PaidOut' = PaidOut
    BY <1>1 DEF PaidOut
  <2>11. Notices' = Notices + 1 /\ Unnoticed' = Unnoticed - 1
    BY <2>7, <2>9, <2>10, CountsAre, NoticesAre
  <2>12. Notices \in Nat /\ Unnoticed \in Nat
    BY CountsAre
  <2> QED
    BY <1>1, <1>4, <2>11, <2>12 DEF NoticeInv, NoticePerPackage
<1> QED
  BY <1>5, <1>6

\* One notification is replaced by one of the same type.
LEMMA ReplaceNotices ==
    ASSUME NoteInv, BornInv, NoticeInv, NEW n \in notifications, NEW w, SameNote(n, w),
           notifications' = (notifications \ {n}) \cup {w}
    PROVE  /\ IsFiniteSet(notifications')
           /\ Cardinality(PaidIn(notifications')) = Cardinality(PaidIn(notifications))
<1>1. IsFiniteSet(notifications \ {n})
  BY FS_RemoveElement DEF NoticeInv
<1>2. IsFiniteSet(notifications')
  BY <1>1, FS_AddElement
<1>3. w \notin notifications \ {n}
  BY DEF SameNote, BornInv, OneEach
<1>4. CASE n.type # "PAYMENT"
  <2>1. PaidIn(notifications') = PaidIn(notifications)
    BY <1>4 DEF PaidIn, SameNote
  <2> QED
    BY <1>2, <2>1
<1>5. CASE n.type = "PAYMENT"
  <2> DEFINE P == PaidIn(notifications)
  <2>1. PaidIn(notifications') = (P \ {n}) \cup {w} /\ n \in P /\ w \notin P \ {n}
    BY <1>3, <1>5 DEF PaidIn, SameNote
  <2>2. IsFiniteSet(P) /\ Cardinality(P) \in Nat
    BY CountsAre
  <2> HIDE DEF P
  <2>3. IsFiniteSet(P \ {n}) /\ Cardinality(P \ {n}) = Cardinality(P) - 1
    BY <2>1, <2>2, FS_RemoveElement
  <2>4. Cardinality((P \ {n}) \cup {w}) = Cardinality(P \ {n}) + 1
    BY <2>1, <2>3, FS_AddElement
  <2> DEFINE c == Cardinality(P)
  <2>5. Cardinality(P \ {n}) = c - 1 /\ c \in Nat
    BY <2>2, <2>3
  <2> HIDE DEF c
  <2>6. Cardinality((P \ {n}) \cup {w}) = c
    BY <2>4, <2>5
  <2>7. Cardinality(PaidIn(notifications')) = c
    BY <2>1, <2>6
  <2> QED
    BY <1>2, <2>7 DEF P, c
<1> QED
  BY <1>4, <1>5

\* An activated or closed notification is the same notice.
LEMMA SameNotices ==
    ASSUME NoteInv, BornInv, NoticeInv, NEW x,
           \/ notifications' = {Opened(n, x) : n \in notifications}
           \/ notifications' = {Closed(n, x) : n \in notifications}
    PROVE  /\ IsFiniteSet(notifications')
           /\ Cardinality(PaidIn(notifications')) = Cardinality(PaidIn(notifications))
<1>1. CASE \A n \in notifications : n.id # x
  <2>1. notifications' = notifications
    BY <1>1 DEF Opened, Closed
  <2> QED
    BY <2>1 DEF NoticeInv
<1>2. ASSUME NEW n \in notifications, n.id = x
      PROVE  /\ IsFiniteSet(notifications')
             /\ Cardinality(PaidIn(notifications')) = Cardinality(PaidIn(notifications))
  <2>1. \A m \in notifications : m # n => m.id # x
    BY <1>2 DEF BornInv, OneEach
  <2>2. \A m \in notifications : m.id # x => Opened(m, x) = m /\ Closed(m, x) = m
    BY DEF Opened, Closed
  <2>3. SameNote(n, Opened(n, x)) /\ SameNote(n, Closed(n, x))
    BY OpenedIs, ClosedIs DEF NoteInv, NoteTypeOK
  <2>4. CASE notifications' = {Opened(m, x) : m \in notifications}
    <3>1. notifications' = (notifications \ {n}) \cup {Opened(n, x)}
      BY <2>1, <2>2, <2>4
    <3> QED
      BY <2>3, <3>1, ReplaceNotices
  <2>5. CASE notifications' = {Closed(m, x) : m \in notifications}
    <3>1. notifications' = (notifications \ {n}) \cup {Closed(n, x)}
      BY <2>1, <2>2, <2>5
    <3> QED
      BY <2>3, <3>1, ReplaceNotices
  <2> QED
    BY <2>4, <2>5
<1> QED
  BY <1>1, <1>2

LEMMA ActivateNotices ==
    ASSUME NoteInv, BornInv, NoticeInv, NEW h \in Requests, activate(h), granted' = granted
    PROVE  NoticeInv'
<1>1. At(h, "activate") /\ deleted' = deleted /\ failed' = failed
  BY Zenon DEF activate, history
<1>2. ~Pending(req[h])
  BY <1>1 DEF Pending, At
<1>3. CASE /\ Puts(h, "status", req[h].type, req[h].recipients, req[h].code, req[h].id)
           /\ notifications' = {Opened(n, req[h].id) : n \in notifications}
  <2>1. /\ IsFiniteSet(notifications')
        /\ Cardinality(PaidIn(notifications')) = Cardinality(PaidIn(notifications))
    BY <1>3, SameNotices
  <2>2. Listening' = Listening
    BY <1>2, <1>3, MoveListening DEF Listening
  <2>3. PaidOut' = PaidOut
    BY <1>1 DEF PaidOut
  <2>4. Notices' = Notices /\ Unnoticed' = Unnoticed
    BY <2>1, <2>2, <2>3, NoticesAre
  <2> QED
    BY <1>1, <2>1, <2>4, SteadyNotices DEF NoticeInv
<1>4. CASE Puts(h, "idle", "SYSTEM", <<>>, 0, 0) /\ UNCHANGED notifications
  BY <1>1, <1>2, <1>4, MoveNotices DEF NoticeInv
<1> QED
  BY <1>3, <1>4, ActivateIs

LEMMA InActiveNotices ==
    ASSUME NoteInv, BornInv, NoticeInv, NEW x \in Ids, inActive(x), granted' = granted
    PROVE  NoticeInv'
<1>1. /\ notifications' = {Closed(n, x) : n \in notifications}
      /\ req' = req /\ deleted' = deleted /\ failed' = failed
  BY InActiveIs DEF history
<1>2. /\ IsFiniteSet(notifications')
      /\ Cardinality(PaidIn(notifications')) = Cardinality(PaidIn(notifications))
  BY <1>1, SameNotices
<1>3. Listening' = Listening /\ PaidOut' = PaidOut
  BY <1>1 DEF Listening, PaidOut
<1>4. Notices' = Notices /\ Unnoticed' = Unnoticed
  BY <1>2, <1>3, NoticesAre
<1> QED
  BY <1>1, <1>2, <1>4, SteadyNotices DEF NoticeInv

\* A deleted notice is counted as deleted.
LEMMA DeleteNotices ==
    ASSUME NoteInv, BornInv, NoticeInv, NEW x \in Ids, delete(x), granted' = granted
    PROVE  NoticeInv'
<1>1. /\ notifications' = {n \in notifications : n.id # x} /\ Exists(x)
      /\ deleted' = deleted \cup {<<x, n.type>> : n \in {m \in notifications : m.id = x}}
      /\ req' = req /\ failed' = failed
  BY DEF delete
<1>2. PICK n \in notifications : n.id = x
  BY <1>1 DEF Exists
<1>3. \A m \in notifications : m.id = x <=> m = n
  BY <1>2 DEF BornInv, OneEach
<1>4. notifications' = notifications \ {n} /\ {m \in notifications : m.id = x} = {n}
  BY <1>1, <1>3
<1>5. deleted' = deleted \cup {<<x, n.type>>}
  BY <1>1, <1>4
<1>6. <<x, n.type>> \notin deleted
  <2>1. x \notin Deleted
    BY <1>2 DEF BornInv, OneEach
  <2> QED
    BY <2>1 DEF Deleted
<1>7. IsFiniteSet(notifications') /\ IsFiniteSet(deleted')
  BY <1>4, <1>5, FS_RemoveElement, FS_AddElement DEF NoticeInv
<1>8. Listening' = Listening
  BY <1>1 DEF Listening
<1>9. Notices' = Notices
  <2>1. CASE n.type # "PAYMENT"
    <3>1. PaidIn(notifications') = PaidIn(notifications) /\ PaidOut' = PaidOut
      BY <1>4, <1>5, <2>1 DEF PaidIn, PaidOut
    <3> QED
      BY <3>1, NoticesAre
  <2>2. CASE n.type = "PAYMENT"
    <3>1. /\ PaidIn(notifications') = PaidIn(notifications) \ {n}
          /\ n \in PaidIn(notifications)
      BY <1>4, <2>2 DEF PaidIn
    <3>2. PaidOut' = PaidOut \cup {<<x, n.type>>} /\ <<x, n.type>> \notin PaidOut
      BY <1>5, <1>6, <2>2 DEF PaidOut
    <3>3. Cardinality(PaidIn(notifications')) = Cardinality(PaidIn(notifications)) - 1
      <4>1. IsFiniteSet(PaidIn(notifications))
        BY CountsAre
      <4> QED
        BY <3>1, <4>1, FS_RemoveElement
    <3>4. Cardinality(PaidOut') = Cardinality(PaidOut) + 1
      <4>1. IsFiniteSet(PaidOut)
        BY CountsAre
      <4> QED
        BY <3>2, <4>1, FS_AddElement
    <3> QED
      BY <3>3, <3>4, CountsAre, NoticesAre
  <2> QED
    BY <2>1, <2>2
<1>10. Unnoticed' = Unnoticed
  BY <1>8, NoticesAre
<1> QED
  BY <1>1, <1>7, <1>9, <1>10, SteadyNotices DEF NoticeInv

\* A granted package owes a notice.
LEMMA GrantNotices ==
    ASSUME NoteInv, NoticeInv, NEW h \in Requests, grant(h)
    PROVE  NoticeInv'
<1>1. /\ At(h, "grant") /\ granted' = granted + 1 /\ failed' = failed
      /\ notifications' = notifications /\ deleted' = deleted
  BY DEF grant, dbVars, history
<1>2. Puts(h, "code", "PAYMENT", req[h].recipients, req[h].code, req[h].id)
  BY GrantIs
<1>3. Listening' = Listening \cup {h} /\ h \notin Listening
  BY <1>1, <1>2, MoveListening DEF Listening, Pending, At
<1>4. Cardinality(Listening') = Cardinality(Listening) + 1
  BY <1>3, CountsAre, FS_AddElement
<1>5. PaidOut' = PaidOut
  BY <1>1 DEF PaidOut
<1>6. Notices' = Notices /\ Unnoticed' = Unnoticed + 1
  BY <1>1, <1>4, <1>5, NoticesAre
<1>7. Notices \in Nat /\ Unnoticed \in Nat
  BY CountsAre
<1> QED
  BY <1>1, <1>6, <1>7 DEF NoticeInv, NoticePerPackage

\* A request fails, never a listener: its failure is a restart.
LEMMA FailureNotices ==
    ASSUME NoteInv, NoticeInv, NEW h \in Requests, Throw(h) \/ insertManyFails(h),
           granted' = granted
    PROVE  NoticeInv'
<1>1. /\ Puts(h, "idle", "SYSTEM", <<>>, 0, 0)
      /\ req[h].type # "PAYMENT" /\ failed' = TRUE /\ deleted' = deleted
      /\ \/ notifications' = notifications
         \/ /\ At(h, "insert")
            /\ \E k \in 0..(Count(h) - 1) :
                 notifications' = notifications \cup {New(h, i) : i \in 1..k}
  BY FailureIs
<1>2. IsFiniteSet(notifications') /\ PaidIn(notifications') = PaidIn(notifications)
  <2>1. ASSUME At(h, "insert"), NEW k \in 0..(Count(h) - 1),
               notifications' = notifications \cup {New(h, i) : i \in 1..k}
        PROVE  IsFiniteSet(notifications') /\ PaidIn(notifications') = PaidIn(notifications)
    <3>1. k \in 0..Count(h)
      BY FieldsOf
    <3> QED
      BY <1>1, <2>1, <3>1, NewNotices
  <2> QED
    BY <1>1, <2>1 DEF NoticeInv
<1> QED
  BY <1>1, <1>2, MoveNotices DEF Pending

\* The steps of a request.
LEMMA StepNotices ==
    ASSUME NoteInv, BornInv, NoticeInv, NEW h \in Requests,
           \/ NoteStep(h) /\ granted' = granted
           \/ charge(h) \/ grant(h)
    PROVE  NoticeInv'
<1>f. IsFiniteSet(notifications) /\ failed \in BOOLEAN
  BY DEF NoticeInv
<1>1. CASE getCode(h) /\ granted' = granted
  <2>1. Puts(h, "new", req[h].type, req[h].recipients, NextCode(notifications), req[h].id)
    BY <1>1, GetCodeIs
  <2>2. /\ At(h, "code") /\ notifications' = notifications /\ deleted' = deleted
        /\ failed' = failed
    BY <1>1 DEF getCode, dbVars, history
  <2> QED
    BY <1>f, <1>1, <2>1, <2>2, MoveNotices DEF Pending, At
<1>2. CASE newDocuments(h) /\ granted' = granted
  <2>1. Puts(h, "insert", req[h].type, req[h].recipients, req[h].code, nextId)
    BY <1>2, NewDocumentsIs
  <2>2. /\ At(h, "new") /\ notifications' = notifications /\ deleted' = deleted
        /\ failed' = failed
    BY <1>2 DEF newDocuments, history
  <2> QED
    BY <1>f, <1>2, <2>1, <2>2, MoveNotices DEF Pending, At
<1>3. CASE createMany(h) /\ granted' = granted
  <2>1. Puts(h, "idle", "SYSTEM", <<>>, 0, 0)
    BY <1>3, CreateManyIs
  <2>2. /\ At(h, "objects") /\ notifications' = notifications /\ deleted' = deleted
        /\ failed' = failed
    BY <1>3 DEF createMany, history
  <2> QED
    BY <1>f, <1>3, <2>1, <2>2, MoveNotices DEF Pending, At
<1>4. CASE updateStatusByNotificationId(h) /\ granted' = granted
  <2>1. Puts(h, "tell", req[h].type, req[h].recipients, req[h].code, req[h].id)
    BY <1>4, UpdateStatusIs
  <2>2. /\ At(h, "status") /\ notifications' = notifications /\ deleted' = deleted
        /\ failed' = failed
    BY <1>4 DEF updateStatusByNotificationId, history
  <2> QED
    BY <1>f, <1>4, <2>1, <2>2, MoveNotices DEF Pending, At
<1>5. CASE createNotification(h) /\ granted' = granted
  <2>1. Puts(h, "idle", "SYSTEM", <<>>, 0, 0)
    BY <1>5, TellIs
  <2>2. /\ At(h, "tell") /\ notifications' = notifications /\ deleted' = deleted
        /\ failed' = failed
    BY <1>5 DEF createNotification, dbVars, history
  <2> QED
    BY <1>f, <1>5, <2>1, <2>2, MoveNotices DEF Pending, At
<1>6. CASE charge(h)
  <2>1. Puts(h, "grant", req[h].type, req[h].recipients, req[h].code, req[h].id)
    BY <1>6, ChargeIs
  <2>2. /\ At(h, "charge") /\ notifications' = notifications /\ deleted' = deleted
        /\ failed' = failed /\ granted' = granted
    BY <1>6 DEF charge, dbVars, history
  <2> QED
    BY <1>f, <2>1, <2>2, MoveNotices DEF Pending, At
<1> QED
  BY <1>1, <1>2, <1>3, <1>4, <1>5, <1>6, InsertNotices, ActivateNotices, GrantNotices
     DEF NoteStep

\* Every step of the next-state relation.
LEMMA NoticesKeep == NoteInv /\ BornInv /\ NoticeInv /\ [Next]_vars => NoticeInv'
<1> SUFFICES ASSUME NoteInv, BornInv, NoticeInv, [Next]_vars PROVE NoticeInv'
  OBVIOUS
<1>f. failed \in BOOLEAN
  BY DEF NoticeInv
<1>1. CASE UNCHANGED vars
  BY <1>1 DEF vars, noteVars, payVars, dbVars, history, NoticeInv, NoticePerPackage, Notices,
              Unnoticed
<1>2. ASSUME Restart, granted' = granted PROVE NoticeInv'
  <2>1. /\ \A h \in Requests : req'[h].stage = "idle"
        /\ notifications' = notifications /\ deleted' = deleted /\ failed' = TRUE
    BY <1>2, RestartIs DEF Idle, Handler, Restart, dbVars
  <2>2. Listening' = {}
    BY <2>1 DEF Listening, Pending
  <2>3. Unnoticed' = 0
    BY <2>2, NoticesAre, FS_EmptySet
  <2>4. Notices' = Notices
    BY <2>1 DEF Notices
  <2>5. Notices \in Nat /\ Unnoticed \in Nat
    BY CountsAre
  <2> QED
    BY <1>2, <2>1, <2>3, <2>4, <2>5 DEF NoticeInv, NoticePerPackage
<1>3. ASSUME ObjectsOnly, granted' = granted PROVE NoticeInv'
  BY <1>3 DEF ObjectsOnly, history, NoticeInv, NoticePerPackage, Notices, Unnoticed
<1>4. ASSUME NEW h \in Requests, NEW s, NEW t, NEW r, NEW i, Begins(h, s, t, r, i),
             granted' = granted
      PROVE  NoticeInv'
  <2>1. Puts(h, s, t, r, 0, i) /\ t # "PAYMENT"
    BY <1>4, BeginIs DEF Begins
  <2>2. /\ At(h, "idle") /\ notifications' = notifications /\ deleted' = deleted
        /\ failed' = failed
    BY <1>4 DEF Begins, Begin, dbVars
  <2>3. ~Pending(req[h])
    BY <2>2 DEF Pending, At
  <2> QED
    BY <1>f, <1>4, <2>1, <2>2, <2>3, MoveNotices DEF NoticeInv
<1>5. CASE Steps
  BY <1>2, <1>3, <1>4, <1>5, StepNotices, FailureNotices, InActiveNotices, DeleteNotices
     DEF Steps
<1> QED
  BY <1>1, <1>5, NextIs

LEMMA NoticesStart == PayInit => NoticeInv
<1> SUFFICES ASSUME PayInit PROVE NoticeInv
  OBVIOUS
<1>1. /\ notifications = {} /\ deleted = {} /\ granted = 0 /\ failed = FALSE
      /\ \A h \in Requests : req[h].stage = "idle"
  BY DEF PayInit, NoteInit, Idle, Handler
<1>2. PaidIn(notifications) = {} /\ PaidOut = {} /\ Listening = {}
  BY <1>1 DEF PaidIn, PaidOut, Listening, Pending
<1>3. Notices = 0 /\ Unnoticed = 0
  BY <1>2, NoticesAre, FS_EmptySet
<1>4. NoticePerPackage /\ granted \in Nat /\ failed \in BOOLEAN
  <2>1. Notices + Unnoticed = granted /\ Notices + Unnoticed <= granted /\ granted \in Nat
    BY <1>1, <1>3
  <2>2. failed \in BOOLEAN
    BY <1>1
  <2> QED
    BY <2>1, <2>2 DEF NoticePerPackage
<1>5. IsFiniteSet(notifications) /\ IsFiniteSet(deleted)
  BY <1>1, FS_EmptySet
<1> QED
  BY <1>4, <1>5 DEF NoticeInv

(* 'Payment successful' is stored once for each package that was granted     *)
(* and never for another, whatever overlaps, is deleted or activated; it is  *)
(* lost only by a failure, although nobody waits for the listener.           *)
THEOREM Noticed == Spec => []NoticePerPackage
<1>1. NoticeInv => NoticePerPackage
  BY DEF NoticeInv
<1> QED
  BY <1>1, NoteStart, NoteKeeps, BornStart, BornKeeps, NoticesStart, NoticesKeep, PTL DEF Spec

-----------------------------------------------------------------------------
(* The bound on payments: a card that is being charged counts as paid.       *)

BoundInv == bounds.payments \in Nat /\ paid + Cardinality(Charging) <= bounds.payments

LEMMA ChargingFinite == IsFiniteSet(Charging) /\ Cardinality(Charging) \in Nat
<1>1. Charging \in SUBSET Requests
  BY DEF Charging
<1>2. IsFiniteSet(Charging)
  BY <1>1, RequestsAssumption, FS_Subset
<1> QED
  BY <1>2, FS_CardinalityType

\* A request moves.
LEMMA MoveCharging ==
    ASSUME NoteInv, NEW h \in Requests, NEW s, NEW t, NEW r, NEW c, NEW i,
           Puts(h, s, t, r, c, i)
    PROVE  Charging' = IF s = "charge" THEN Charging \cup {h} ELSE Charging \ {h}
<1> DEFINE n == Made(s, t, r, c, i)
<1>1. \A g \in Requests : req'[g] = IF g = h THEN n ELSE req[g]
  BY DEF Puts, NoteInv, NoteTypeOK
<1>2. n.stage = s
  BY DEF Made
<1> HIDE DEF n
<1> QED
  BY <1>1, <1>2 DEF Charging, At

\* The notifications charge nobody.
LEMMA NoteCharging ==
    ASSUME NoteInv, NoteNext
    PROVE  Charging' \subseteq Charging /\ bounds' = bounds
<1>1. ASSUME NEW h \in Requests, NEW R \in Audiences, create(h, R)
      PROVE  Charging' \subseteq Charging /\ bounds' = bounds
  <2>1. Puts(h, "code", "SYSTEM", <<R>>, 0, 0) /\ bounds' = bounds
    BY <1>1 DEF create, Begin, Handler, Puts, Made, dbVars
  <2> QED
    BY <2>1, MoveCharging
<1>2. ASSUME NEW h \in Requests, NEW u \in Users, NEW v \in Users,
             createNotificationMatched(h, u, v)
      PROVE  Charging' \subseteq Charging /\ bounds' = bounds
  <2>1. Puts(h, "code", "MATCHED", <<{u}, {v}>>, 0, 0) /\ bounds' = bounds
    BY <1>2 DEF createNotificationMatched, Begin, Handler, Puts, Made, dbVars
  <2> QED
    BY <2>1, MoveCharging
<1>3. ASSUME NEW h \in Requests, NEW id \in Ids, active(h, id)
      PROVE  Charging' \subseteq Charging /\ bounds' = bounds
  <2>1. Puts(h, "activate", "SYSTEM", <<>>, 0, id) /\ bounds' = bounds
    BY <1>3 DEF active, Begin, Handler, Puts, Made, dbVars
  <2> QED
    BY <2>1, MoveCharging
<1>4. ASSUME req' = req, bounds' = bounds
      PROVE  Charging' \subseteq Charging /\ bounds' = bounds
  BY <1>4 DEF Charging, At
<1>5. ASSUME NEW x \in Ids, inActive(x) \/ delete(x) PROVE req' = req /\ bounds' = bounds
  BY <1>5, InActiveIs DEF delete
<1>6. ASSUME NEW h \in Requests, NoteStep(h)
      PROVE  Charging' \subseteq Charging /\ bounds' = bounds
  <2>1. bounds' = bounds
    BY <1>6, Zenon DEF NoteStep, getCode, newDocuments, insert, createMany, activate,
       updateStatusByNotificationId, createNotification, dbVars
  <2>2. \E s, t, r, c, i : s # "charge" /\ Puts(h, s, t, r, c, i)
    BY <1>6, GetCodeIs, NewDocumentsIs, InsertIs, CreateManyIs, ActivateIs, UpdateStatusIs,
       TellIs DEF NoteStep
  <2> QED
    BY <2>1, <2>2, MoveCharging
<1>7. ASSUME NEW h \in Requests, Throw(h) \/ insertManyFails(h)
      PROVE  Charging' \subseteq Charging /\ bounds' = bounds
  <2>1. bounds' = bounds
    BY <1>7, Zenon DEF Throw, insertManyFails, dbVars
  <2>2. Puts(h, "idle", "SYSTEM", <<>>, 0, 0)
    BY <1>7, FailureIs
  <2> QED
    BY <1>7, <2>1, <2>2, MoveCharging
<1>8. ASSUME Restart PROVE Charging' \subseteq Charging /\ bounds' = bounds
  <2>1. \A h \in Requests : req'[h].stage = "idle"
    BY <1>8, RestartIs DEF Idle, Handler
  <2> QED
    BY <1>8, <2>1 DEF Charging, At, Restart, dbVars
<1>9. ASSUME ObjectsOnly PROVE req' = req /\ bounds' = bounds
  BY <1>9 DEF ObjectsOnly
<1>10. CASE NoteClients
  BY <1>1, <1>2, <1>3, <1>4, <1>5, <1>9, <1>10, ObjectsAre DEF NoteClients
<1>11. CASE NoteFault
  BY <1>7, <1>8, <1>11 DEF NoteFault
<1> QED
  BY <1>6, <1>10, <1>11 DEF NoteNext

LEMMA BoundKeeps == PaidInv /\ NoteInv /\ BoundInv /\ [Next]_vars => BoundInv'
<1> SUFFICES ASSUME PaidInv, NoteInv, BoundInv, [Next]_vars PROVE BoundInv'
  OBVIOUS
<1>n. /\ Cardinality(Charging) \in Nat /\ IsFiniteSet(Charging) /\ paid \in Nat
      /\ bounds.payments \in Nat /\ paid + Cardinality(Charging) <= bounds.payments
  BY ChargingFinite DEF PaidInv, BoundInv
<1>1. CASE NoteNext /\ UNCHANGED payVars
  <2>1. Charging' \in SUBSET Charging /\ bounds' = bounds /\ paid' = paid
    BY <1>1, NoteCharging DEF payVars
  <2>2. IsFiniteSet(Charging')
    BY <1>n, <2>1, FS_Subset
  <2>3. Cardinality(Charging') <= Cardinality(Charging) /\ Cardinality(Charging') \in Nat
    BY <1>n, <2>1, <2>2, FS_Subset, FS_CardinalityType
  <2> QED
    BY <1>n, <2>1, <2>3 DEF BoundInv
<1>2. ASSUME NEW h \in Requests, NEW u \in Users, createCharge(h, u) PROVE BoundInv'
  <2>1. Puts(h, "charge", "SYSTEM", <<{u}>>, 0, 0) /\ bounds' = bounds /\ paid' = paid
        /\ paid + Cardinality(Charging) < bounds.payments
    BY <1>2 DEF createCharge, Start, Begin, Handler, Puts, Made, dbVars
  <2>2. Charging' = Charging \cup {h}
    BY <2>1, MoveCharging
  <2>3. /\ Cardinality(Charging') <= Cardinality(Charging) + 1
        /\ Cardinality(Charging') \in Nat
    <3>1. \/ Cardinality(Charging \cup {h}) = Cardinality(Charging)
          \/ Cardinality(Charging \cup {h}) = Cardinality(Charging) + 1
      BY <1>n, FS_AddElement
    <3> QED
      BY <1>n, <2>2, <3>1
  <2> QED
    BY <1>n, <2>1, <2>3 DEF BoundInv
<1>3. ASSUME NEW h \in Requests, NEW u \in Users, createOrder(h, u) PROVE BoundInv'
  <2>1. Puts(h, "grant", "SYSTEM", <<{u}>>, 0, 0) /\ bounds' = bounds /\ paid' = paid + 1
        /\ paid + Cardinality(Charging) < bounds.payments /\ At(h, "idle")
    BY <1>3 DEF createOrder, Start, Begin, Handler, Puts, Made, dbVars
  <2>2. Charging' = Charging
    BY <2>1, MoveCharging DEF Charging, At
  <2> QED
    BY <1>n, <2>1, <2>2 DEF BoundInv
<1>4. ASSUME NEW h \in Requests, charge(h) PROVE BoundInv'
  <2>1. Puts(h, "grant", req[h].type, req[h].recipients, req[h].code, req[h].id)
    BY <1>4, ChargeIs
  <2>2. bounds' = bounds /\ paid' = paid + 1 /\ At(h, "charge")
    BY <1>4 DEF charge, dbVars
  <2>3. Charging' = Charging \ {h} /\ h \in Charging
    BY <2>1, <2>2, MoveCharging DEF Charging
  <2>4. Cardinality(Charging') = Cardinality(Charging) - 1
    BY <1>n, <2>3, FS_RemoveElement
  <2> QED
    BY <1>n, <2>2, <2>4 DEF BoundInv
<1>5. ASSUME NEW h \in Requests, grant(h) PROVE BoundInv'
  <2>1. Puts(h, "code", "PAYMENT", req[h].recipients, req[h].code, req[h].id)
    BY <1>5, GrantIs
  <2>2. bounds' = bounds /\ paid' = paid /\ At(h, "grant")
    BY <1>5 DEF grant, dbVars
  <2>3. Charging' = Charging
    BY <2>1, <2>2, MoveCharging DEF Charging, At
  <2> QED
    BY <1>n, <2>2, <2>3 DEF BoundInv
<1>6. CASE UNCHANGED vars
  BY <1>6 DEF vars, noteVars, payVars, dbVars, BoundInv, Charging, At
<1> QED
  BY <1>1, <1>2, <1>3, <1>4, <1>5, <1>6 DEF Next, PayClients, PayStep

(* Payments stay typed, and no more packages are granted than the behaviour  *)
(* has payments.                                                             *)
THEOREM PayTypes == Spec => []PayTypeOK
<1>1. PayInit => BoundInv
  <2> SUFFICES ASSUME PayInit PROVE BoundInv
    OBVIOUS
  <2>1. paid = 0 /\ bounds \in Bounds /\ \A h \in Requests : req[h].stage = "idle"
    BY DEF PayInit, NoteInit, Idle, Handler
  <2>2. Charging = {}
    BY <2>1 DEF Charging, At
  <2>3. Cardinality(Charging) = 0 /\ bounds.payments \in Nat
    BY <2>1, <2>2, FS_EmptySet, NoteAssumption
  <2> QED
    BY <2>1, <2>3 DEF BoundInv
<1>2. PaidInv /\ NoteInv /\ BoundInv => PayTypeOK
  <2> SUFFICES ASSUME PaidInv, NoteInv, BoundInv PROVE PayTypeOK
    OBVIOUS
  <2>1. /\ paid \in Nat /\ granted \in Nat /\ bounds.payments \in Nat
        /\ Cardinality(Charging) \in Nat /\ Cardinality(Granting) \in Nat
        /\ granted + Cardinality(Granting) <= paid
        /\ paid + Cardinality(Charging) <= bounds.payments
    BY ChargingFinite, GrantingFinite DEF PaidInv, PaidIsGranted, BoundInv
  <2>2. paid \in 0..bounds.payments /\ granted \in 0..bounds.payments
    BY <2>1
  <2> QED
    BY <2>2 DEF PayTypeOK, NoteInv
<1> QED
  BY <1>1, <1>2, PaidInitially, PaidStep, NoteStart, NoteKeeps, BoundKeeps, PTL DEF Spec
=============================================================================
