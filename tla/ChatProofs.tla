------------------------------- MODULE ChatProofs ------------------------------
(***************************************************************************)
(* Proofs about one conversation, for any participants, requests and       *)
(* bounds.                                                                 *)
(***************************************************************************)
EXTENDS Chat, SequenceTheorems, FiniteSetTheorems, WellFoundedInduction, TLAPS

\* A request in a conversation of n messages.
Formed(q, n) ==
    /\ q \in Request
    /\ q.stage \in {"attach", "inserted", "rejoin", "last", "read", "deactivate"} =>
          q.message \in 1..n
    /\ q.message \in 0..n

\* The instants that are stored, or carried by an operation, have passed.
Passed ==
    /\ \A m \in Members : timeJoined[m] <= now /\ (timeLeft[m] # Never => timeLeft[m] <= now)
    /\ \A h \in Requests : req[h].at <= now

BaseInv ==
    /\ TypeOK
    /\ \A h \in Requests :
          /\ Formed(req[h], Len(messages))
          /\ req[h].stage # "idle" => h \in bounds.requests
    /\ Len(messages) + Cardinality(Sending) <= bounds.messages
    /\ lastMessage <= Len(messages) /\ everLast \subseteq 1..Len(messages)
    /\ Passed

\* Only request h moves, and is q afterwards.
Moves(h, q) == req' = [req EXCEPT ![h] = q]

-----------------------------------------------------------------------------
(* How requests move.                                                      *)

LEMMA IdleIs ==
    /\ Idle \in Request /\ Idle.stage = "idle" /\ Idle.message = 0 /\ Idle.at = 0
    /\ Idle.who \in Members /\ Idle.cached = 0 /\ Idle.list = {}
    /\ \A n \in Nat : Formed(Idle, n)
<1>1. Someone \in Members
  BY ChatAssumption DEF Someone
<1> QED
  BY <1>1, ChatAssumption DEF Idle, Request, Stages, MessageIds, Time, Formed

(* The first message at or after an instant.                                 *)
LEMMA FirstIs ==
    ASSUME NEW S, S \subseteq Nat, S # {}
    PROVE  First(S) \in S
<1> DEFINE below == {ss \in Nat \X Nat : ss[1] < ss[2]}
<1>1. IsWellFoundedOn(below, Nat)
  BY NatLessThanWellFounded DEF OpToRel
<1>2. PICK i \in S : \A j \in S : <<j, i>> \notin below
  <2> HIDE DEF below
  <2> QED
    BY <1>1, WFMin
<1>3. ASSUME NEW j \in S PROVE i <= j
  <2>1. i \in Nat /\ j \in Nat /\ <<j, i>> \notin below
    BY <1>2
  <2>2. ~(j < i)
    BY <2>1
  <2> QED
    BY <2>1, <2>2
<1> QED
  BY <1>3 DEF First

\* Request h, moved to a stage, with its message and its instant.
Moved(h, s, i, t) ==
    [stage |-> s, who |-> req[h].who, attachments |-> req[h].attachments,
     message |-> i, cached |-> req[h].cached, to |-> req[h].to, list |-> req[h].list, at |-> t]

LEMMA MovedIs ==
    ASSUME BaseInv, NEW h \in Requests, NEW s, NEW i, NEW t
    PROVE  /\ req[h] \in Request
           /\ Goto(h, s) <=> Moves(h, Moved(h, s, req[h].message, req[h].at))
           /\ req' = [req EXCEPT ![h].stage = s, ![h].message = i] <=>
                Moves(h, Moved(h, s, i, req[h].at))
           /\ req' = [req EXCEPT ![h].stage = s, ![h].at = t] <=>
                Moves(h, Moved(h, s, req[h].message, t))
           /\ s \in {"participants", "fetch", "emit"} /\ i \in 0..Len(messages) /\ t \in Time =>
                /\ Moved(h, s, i, t) \in Request
                /\ Formed(Moved(h, s, i, t), Len(messages))
           /\ s \in Stages /\ i \in 1..Len(messages) /\ t \in Time =>
                /\ Moved(h, s, i, t) \in Request
                /\ Formed(Moved(h, s, i, t), Len(messages))
<1>1. req[h] \in Request /\ req \in [Requests -> Request]
  BY DEF BaseInv, TypeOK
<1>2. /\ [req[h] EXCEPT !.stage = s] = Moved(h, s, req[h].message, req[h].at)
      /\ [req[h] EXCEPT !.stage = s, !.message = i] = Moved(h, s, i, req[h].at)
      /\ [req[h] EXCEPT !.stage = s, !.at = t] = Moved(h, s, req[h].message, t)
  <2> DEFINE new(p, i1, t1) == [stage |-> s, who |-> p.who, attachments |-> p.attachments,
                                message |-> i1, cached |-> p.cached, to |-> p.to,
                                list |-> p.list, at |-> t1]
  <2>1. ASSUME NEW p \in Request PROVE [p EXCEPT !.stage = s] = new(p, p.message, p.at)
    BY DEF Request
  <2>2. ASSUME NEW p \in Request
        PROVE  [p EXCEPT !.stage = s, !.message = i] = new(p, i, p.at)
    <3>1. [p EXCEPT !.stage = s, !.message = i] = [new(p, p.message, p.at) EXCEPT !.message = i]
      BY <2>1
    <3> QED
      BY <3>1
  <2>3. ASSUME NEW p \in Request
        PROVE  [p EXCEPT !.stage = s, !.at = t] = new(p, p.message, t)
    <3>1. [p EXCEPT !.stage = s, !.at = t] = [new(p, p.message, p.at) EXCEPT !.at = t]
      BY <2>1
    <3> QED
      BY <3>1
  <2> QED
    BY <1>1, <2>1, <2>2, <2>3 DEF Moved
<1>3. /\ [req EXCEPT ![h].stage = s] = [req EXCEPT ![h] = [req[h] EXCEPT !.stage = s]]
      /\ [req EXCEPT ![h].stage = s, ![h].message = i] =
           [req EXCEPT ![h] = [req[h] EXCEPT !.stage = s, !.message = i]]
      /\ [req EXCEPT ![h].stage = s, ![h].at = t] =
           [req EXCEPT ![h] = [req[h] EXCEPT !.stage = s, !.at = t]]
  BY <1>1
<1>4. ASSUME s \in Stages, i \in 0..Len(messages), t \in Time,
             s \in {"participants", "fetch", "emit"} \/ i # 0
      PROVE  /\ Moved(h, s, i, t) \in Request
             /\ Formed(Moved(h, s, i, t), Len(messages))
  <2>1. i \in MessageIds /\ (i # 0 => i \in 1..Len(messages))
    BY <1>4, ChatAssumption DEF MessageIds, BaseInv, TypeOK
  <2>2. Moved(h, s, i, t) \in Request /\ Moved(h, s, i, t).stage = s /\ Moved(h, s, i, t).message = i
    BY <1>1, <1>4, <2>1 DEF Moved, Request
  <2> QED
    BY <1>4, <2>1, <2>2 DEF Formed
<1>5. ASSUME s \in Stages, i \in 1..Len(messages), t \in Time
      PROVE  /\ Moved(h, s, i, t) \in Request
             /\ Formed(Moved(h, s, i, t), Len(messages))
  <2>1. i \in 0..Len(messages) /\ i # 0
    BY <1>5 DEF BaseInv, TypeOK
  <2> QED
    BY <1>4, <1>5, <2>1
<1>6. req[h] \in Request
  BY <1>1
<1>7. /\ Goto(h, s) <=> Moves(h, Moved(h, s, req[h].message, req[h].at))
      /\ req' = [req EXCEPT ![h].stage = s, ![h].message = i] <=>
           Moves(h, Moved(h, s, i, req[h].at))
      /\ req' = [req EXCEPT ![h].stage = s, ![h].at = t] <=>
           Moves(h, Moved(h, s, req[h].message, t))
  <2>1. [req EXCEPT ![h].stage = s] = [req EXCEPT ![h] = Moved(h, s, req[h].message, req[h].at)]
    BY <1>2, <1>3
  <2>2. [req EXCEPT ![h].stage = s, ![h].message = i] =
          [req EXCEPT ![h] = Moved(h, s, i, req[h].at)]
    BY <1>2, <1>3
  <2>3. [req EXCEPT ![h].stage = s, ![h].at = t] =
          [req EXCEPT ![h] = Moved(h, s, req[h].message, t)]
    BY <1>2, <1>3
  <2> QED
    BY <2>1, <2>2, <2>3 DEF Goto, Moves
<1> QED
  BY <1>4, <1>5, <1>6, <1>7 DEF Stages

(* A request moves and messages are added or rewritten.                      *)
LEMMA BaseMove ==
    ASSUME BaseInv, NEW h \in bounds.requests, NEW q, Moves(h, q), h \in Requests,
           Formed(q, Len(messages')), q.at <= now,
           UNCHANGED <<bounds, now>>,
           messages' \in Seq(Message), Len(messages') \in {Len(messages), Len(messages) + 1},
           q.stage = "insert" =>
              Len(messages') = Len(messages) /\ Len(messages) + Cardinality(Sending) < bounds.messages,
           Len(messages') = Len(messages) + 1 => req[h].stage = "insert" /\ q.stage # "insert",
           timeJoined' \in [Members -> Time], timeLeft' \in [Members -> Time \cup {Never}],
           \A m \in Members : timeJoined'[m] <= now /\ (timeLeft'[m] # Never => timeLeft'[m] <= now),
           lastMessage' \in 0..Len(messages'), everLast' \subseteq 1..Len(messages'),
           gone' \in [Members -> SUBSET MessageIds]
    PROVE  BaseInv'
<1>1. /\ req \in [Requests -> Request] /\ bounds \in Bounds /\ Len(messages) \in Nat
      /\ bounds.messages \in Nat /\ bounds.messages <= MaxMessages /\ MaxMessages \in Nat
  BY ChatAssumption DEF BaseInv, TypeOK
<1>2. q \in Request /\ req' \in [Requests -> Request] /\ req'[h] = q
      /\ \A g \in Requests : g # h => req'[g] = req[g]
  BY <1>1 DEF Moves, Formed
<1>3. Sending \in SUBSET Requests /\ IsFiniteSet(Sending) /\ Cardinality(Sending) \in Nat
  BY ChatAssumption, FS_Subset, FS_CardinalityType DEF Sending
<1>4. Sending' = IF q.stage = "insert" THEN Sending \cup {h} ELSE Sending \ {h}
  BY <1>2 DEF Sending, At
<1>5. /\ Cardinality(Sending \cup {h}) <= Cardinality(Sending) + 1
      /\ Cardinality(Sending \ {h}) =
           IF req[h].stage = "insert" THEN Cardinality(Sending) - 1 ELSE Cardinality(Sending)
      /\ Cardinality(Sending \cup {h}) \in Nat /\ Cardinality(Sending \ {h}) \in Nat
  <2>1. h \in Sending <=> req[h].stage = "insert"
    BY DEF Sending, At
  <2>2. /\ IsFiniteSet(Sending \cup {h})
        /\ Cardinality(Sending \cup {h}) =
             IF h \in Sending THEN Cardinality(Sending) ELSE Cardinality(Sending) + 1
    BY <1>3, FS_AddElement
  <2>3. /\ IsFiniteSet(Sending \ {h})
        /\ Cardinality(Sending \ {h}) =
             IF h \in Sending THEN Cardinality(Sending) - 1 ELSE Cardinality(Sending)
    BY <1>3, FS_RemoveElement
  <2>4. Cardinality(Sending \cup {h}) \in Nat /\ Cardinality(Sending \ {h}) \in Nat
    BY <2>2, <2>3, FS_CardinalityType
  <2> QED
    BY <1>3, <2>1, <2>2, <2>3, <2>4
<1>6. Len(messages') + Cardinality(Sending') <= bounds'.messages
  <2>1. /\ bounds' = bounds /\ bounds.messages \in Nat /\ Len(messages) \in Nat
        /\ Len(messages) + Cardinality(Sending) <= bounds.messages
    BY <1>1 DEF BaseInv
  <2>2. CASE q.stage = "insert"
    <3>1. Sending' = Sending \cup {h} /\ Len(messages') = Len(messages)
      BY <1>4, <2>2
    <3> QED
      BY <1>3, <1>5, <2>1, <2>2, <3>1
  <2>3. CASE q.stage # "insert"
    <3>1. Sending' = Sending \ {h}
      BY <1>4, <2>3
    <3>2. CASE Len(messages') = Len(messages)
      BY <1>3, <1>5, <2>1, <3>1, <3>2
    <3>3. CASE Len(messages') = Len(messages) + 1
      BY <1>3, <1>5, <2>1, <3>1, <3>3
    <3> QED
      BY <3>2, <3>3
  <2> QED
    BY <2>2, <2>3
<1>7. Len(messages') <= MaxMessages /\ Len(messages') \in Nat /\ Cardinality(Sending') \in Nat
  <2>1. Cardinality(Sending') \in Nat
    BY <1>4, <1>5
  <2>2. Len(messages') \in Nat /\ bounds'.messages <= MaxMessages
    BY <1>1
  <2> QED
    BY <1>1, <1>6, <2>1, <2>2
<1>8. \A g \in Requests : Formed(req'[g], Len(messages')) /\ req'[g].at <= now'
                          /\ (req'[g].stage # "idle" => g \in bounds'.requests)
  <2> SUFFICES ASSUME NEW g \in Requests, g # h
               PROVE  Formed(req[g], Len(messages')) /\ req[g].at <= now
                      /\ (req[g].stage # "idle" => g \in bounds.requests)
    BY <1>2
  <2>1. Formed(req[g], Len(messages)) /\ req[g].message \in Nat
    BY <1>1, ChatAssumption DEF BaseInv, Request, MessageIds
  <2>2. 1..Len(messages) \subseteq 1..Len(messages')
    BY <1>1
  <2> QED
    BY <2>1, <2>2 DEF BaseInv, Passed, Formed
<1>9. lastMessage' \in MessageIds /\ everLast' \subseteq MessageIds /\ lastMessage' <= Len(messages')
  BY <1>1, <1>7 DEF MessageIds
<1> QED
  BY <1>1, <1>2, <1>6, <1>7, <1>8, <1>9 DEF BaseInv, TypeOK, Passed

(* How each step moves its request.                                          *)
LEMMA StepIs ==
    ASSUME BaseInv, NEW h \in Requests
    PROVE  /\ insertMessage(h) =>
                Moves(h, Moved(h, IF req[h].attachments THEN "attach" ELSE "inserted",
                               Len(messages) + 1, req[h].at))
           /\ createMany(h) => Moves(h, Moved(h, "inserted", req[h].message, req[h].at))
           /\ issueRejoin(h) => Moves(h, Moved(h, "rejoin", req[h].message, now))
           /\ updateManyTimeJoined(h) => Moves(h, Moved(h, "last", req[h].message, req[h].at))
           /\ updateLastMessage(h) =>
                IF Deleting(h) THEN Moves(h, Moved(h, "emit", req[h].message, req[h].at))
                               ELSE Moves(h, Idle)
           /\ emitMessages(h) => Moves(h, Idle)
           /\ readConversation(h) =>
                IF lastMessage = req[h].message
                  THEN Moves(h, Moved(h, "last", req[h].message, req[h].at))
                  ELSE Moves(h, Idle)
           /\ deactivate(h) => Moves(h, Moved(h, "participants", req[h].message, req[h].at))
           /\ getParticipants(h) =>
                Moves(h, Moved(h, "fetch", req[h].message, timeJoined[req[h].who]))
           /\ leftConversation(h) => Moves(h, Idle)
           /\ Throw(h) => Moves(h, Idle)
<1> USE MovedIs
<1>1. insertMessage(h) =>
        Moves(h, Moved(h, IF req[h].attachments THEN "attach" ELSE "inserted",
                       Len(messages) + 1, req[h].at))
  BY DEF insertMessage
<1>2. /\ createMany(h) => Moves(h, Moved(h, "inserted", req[h].message, req[h].at))
      /\ deactivate(h) => Moves(h, Moved(h, "participants", req[h].message, req[h].at))
      /\ updateManyTimeJoined(h) => Moves(h, Moved(h, "last", req[h].message, req[h].at))
  BY DEF createMany, deactivate, updateManyTimeJoined
<1>3. /\ issueRejoin(h) => Moves(h, Moved(h, "rejoin", req[h].message, now))
      /\ getParticipants(h) =>
           Moves(h, Moved(h, "fetch", req[h].message, timeJoined[req[h].who]))
  BY DEF issueRejoin, getParticipants
<1>4. /\ updateLastMessage(h) =>
            IF Deleting(h) THEN Moves(h, Moved(h, "emit", req[h].message, req[h].at))
                           ELSE Moves(h, Idle)
      /\ emitMessages(h) => Moves(h, Idle)
      /\ leftConversation(h) => Moves(h, Idle)
      /\ Throw(h) => Moves(h, Idle)
  BY DEF updateLastMessage, emitMessages, leftConversation, Throw, Finish, Moves
<1>5. readConversation(h) =>
        IF lastMessage = req[h].message
          THEN Moves(h, Moved(h, "last", req[h].message, req[h].at))
          ELSE Moves(h, Idle)
  BY DEF readConversation, Finish, Moves
<1> QED
  BY <1>1, <1>2, <1>3, <1>4, <1>5

LEMMA FetchIs ==
    ASSUME BaseInv, NEW h \in Requests, fetchMessages(h)
    PROVE  \E q : /\ Moves(h, q) /\ Formed(q, Len(messages)) /\ q.at = req[h].at
                  /\ q.stage = "emit" \/ (q.stage = "last" /\ Deleting(h))
                  /\ q.cached = req[h].cached /\ q.list = MessagesSince(req[h].at)
<1> DEFINE p == req[h]
           seen == MessagesSince(p.at)
           new(s, i) == [stage |-> s, who |-> p.who, attachments |-> p.attachments,
                         message |-> i, cached |-> p.cached, to |-> p.to, list |-> seen,
                         at |-> p.at]
<1>1. p \in Request /\ Formed(p, Len(messages)) /\ req \in [Requests -> Request]
  BY DEF BaseInv, TypeOK
<1>2. seen \subseteq 1..Len(messages) /\ 0..Len(messages) \subseteq MessageIds
  BY ChatAssumption DEF MessagesSince, BaseInv, TypeOK, MessageIds
<1>3. ASSUME NEW s \in {"last", "emit"}, NEW i \in 0..Len(messages), s = "emit" \/ i # 0
      PROVE  Formed(new(s, i), Len(messages))
  <2>1. seen \in SUBSET MessageIds /\ i \in MessageIds
    BY <1>2
  <2> HIDE DEF seen
  <2>2. new(s, i) \in Request
    BY <1>1, <1>3, <2>1 DEF Request, Stages
  <2> QED
    BY <1>3, <2>2 DEF Formed
<1>6. ASSUME NEW s PROVE [p EXCEPT !.stage = s, !.list = seen] = new(s, p.message)
  <2> DEFINE old == [stage |-> s, who |-> p.who, attachments |-> p.attachments,
                     message |-> p.message, cached |-> p.cached, to |-> p.to,
                     list |-> p.list, at |-> p.at]
  <2> HIDE DEF seen
  <2>1. [p EXCEPT !.stage = s] = old
    BY <1>1 DEF Request
  <2>2. [p EXCEPT !.stage = s, !.list = seen] = [old EXCEPT !.list = seen]
    BY <2>1
  <2> QED
    BY <2>2
<1>4. CASE /\ Deleting(h) /\ seen # {}
           /\ req' = [req EXCEPT ![h].stage = "last", ![h].list = seen, ![h].message = First(seen)]
  <2>1. First(seen) \in 0..Len(messages) /\ First(seen) # 0
    <3>2. Len(messages) \in Nat
      BY DEF BaseInv, TypeOK
    <3> HIDE DEF seen
    <3>3. seen \subseteq Nat /\ seen # {} /\ seen \subseteq 1..Len(messages)
      BY <1>2, <1>4, <3>2
    <3>1. First(seen) \in 1..Len(messages)
      BY <3>3, FirstIs
    <3> QED
      BY <3>1, <3>2
  <2>2. Formed(new("last", First(seen)), Len(messages))
    BY <1>3, <2>1
  <2>3. Moves(h, new("last", First(seen)))
    <3> HIDE DEF seen
    <3>1. \A f : [p EXCEPT !.stage = "last", !.list = seen, !.message = f] =
                 [[p EXCEPT !.stage = "last", !.list = seen] EXCEPT !.message = f]
      OBVIOUS
    <3>2. [p EXCEPT !.stage = "last", !.list = seen] = new("last", p.message)
      BY <1>6
    <3>3. \A f : [new("last", p.message) EXCEPT !.message = f] = new("last", f)
      OBVIOUS
    <3> HIDE DEF new
    <3> QED
      BY <1>1, <1>4, <3>1, <3>2, <3>3 DEF Moves
  <2> QED
    BY <1>4, <2>2, <2>3
<1>5. CASE req' = [req EXCEPT ![h].stage = "emit", ![h].list = seen]
  <2>1. Formed(new("emit", p.message), Len(messages))
    BY <1>1, <1>3 DEF Formed
  <2>2. Moves(h, new("emit", p.message))
    <3> HIDE DEF seen
    <3>1. [p EXCEPT !.stage = "emit", !.list = seen] = new("emit", p.message)
      BY <1>6
    <3> QED
      BY <1>1, <1>5, <3>1 DEF Moves
  <2> QED
    BY <2>1, <2>2
<1> QED
  BY <1>4, <1>5 DEF fetchMessages

(* What steps do to the messages.                                            *)
LEMMA RewriteIs ==
    ASSUME BaseInv, NEW h \in Requests
    PROVE  /\ deactivate(h) =>
                /\ messages' \in Seq(Message) /\ Len(messages') = Len(messages)
                /\ \A j \in 1..Len(messages) :
                      /\ messages'[j].createdAt = messages[j].createdAt
                      /\ messages'[j].attachments = messages[j].attachments
                      /\ messages'[j].active <=> messages[j].active /\ j # req[h].message
           /\ createMany(h) =>
                /\ messages' \in Seq(Message) /\ Len(messages') = Len(messages)
                /\ \A j \in 1..Len(messages) :
                      /\ messages'[j].createdAt = messages[j].createdAt
                      /\ messages'[j].active = messages[j].active
                      /\ messages'[j].attachments =
                           IF j = req[h].message THEN "stored" ELSE messages[j].attachments
<1>1. messages \in Seq(Message) /\ \A j \in 1..Len(messages) : messages[j] \in Message
  BY ElementOfSeq DEF BaseInv, TypeOK
<1>2. ASSUME deactivate(h)
      PROVE  /\ messages' \in Seq(Message) /\ Len(messages') = Len(messages)
             /\ \A j \in 1..Len(messages) :
                   /\ messages'[j].createdAt = messages[j].createdAt
                   /\ messages'[j].attachments = messages[j].attachments
                   /\ messages'[j].active <=> messages[j].active /\ j # req[h].message
  <2> DEFINE i == req[h].message
             new == [messages[i] EXCEPT !.active = FALSE]
  <2>1. i \in 1..Len(messages)
    BY <1>2 DEF BaseInv, Formed, deactivate, At
  <2>2. /\ new \in Message /\ new.createdAt = messages[i].createdAt
        /\ new.attachments = messages[i].attachments /\ new.active = FALSE
    BY <1>1, <2>1 DEF Message
  <2>3. messages' = [messages EXCEPT ![i] = new]
    BY <1>2 DEF deactivate
  <2> HIDE DEF new, i
  <2>4. /\ messages' \in Seq(Message) /\ Len(messages') = Len(messages)
        /\ \A j \in 1..Len(messages) : messages'[j] = IF j = i THEN new ELSE messages[j]
    BY <1>1, <2>1, <2>2, <2>3, ExceptSeq
  <2> QED
    BY <1>1, <2>2, <2>4 DEF i, Message
<1>3. ASSUME createMany(h)
      PROVE  /\ messages' \in Seq(Message) /\ Len(messages') = Len(messages)
             /\ \A j \in 1..Len(messages) :
                   /\ messages'[j].createdAt = messages[j].createdAt
                   /\ messages'[j].active = messages[j].active
                   /\ messages'[j].attachments =
                        IF j = req[h].message THEN "stored" ELSE messages[j].attachments
  <2> DEFINE i == req[h].message
             new == [messages[i] EXCEPT !.attachments = "stored"]
  <2>1. i \in 1..Len(messages)
    BY <1>3 DEF BaseInv, Formed, createMany, At
  <2>2. /\ new \in Message /\ new.createdAt = messages[i].createdAt
        /\ new.attachments = "stored" /\ new.active = messages[i].active
    BY <1>1, <2>1 DEF Message
  <2>3. messages' = [messages EXCEPT ![i] = new]
    BY <1>3 DEF createMany
  <2> HIDE DEF new, i
  <2>4. /\ messages' \in Seq(Message) /\ Len(messages') = Len(messages)
        /\ \A j \in 1..Len(messages) : messages'[j] = IF j = i THEN new ELSE messages[j]
    BY <1>1, <2>1, <2>2, <2>3, ExceptSeq
  <2> QED
    BY <1>1, <2>2, <2>4 DEF i
<1> QED
  BY <1>2, <1>3

LEMMA InsertIs ==
    ASSUME BaseInv, NEW h \in Requests, insertMessage(h)
    PROVE  /\ messages' \in Seq(Message) /\ Len(messages') = Len(messages) + 1
           /\ \A j \in 1..Len(messages) : messages'[j] = messages[j]
           /\ messages'[Len(messages) + 1].active = TRUE
           /\ messages'[Len(messages) + 1].attachments =
                IF req[h].attachments THEN "missing" ELSE "none"
<1> DEFINE new == [by |-> req[h].who, createdAt |-> req[h].at, active |-> TRUE,
                   attachments |-> IF req[h].attachments THEN "missing" ELSE "none"]
<1>1. messages \in Seq(Message) /\ req[h] \in Request
  BY DEF BaseInv, TypeOK
<1>2. /\ new \in Message /\ new.active = TRUE
      /\ new.attachments = IF req[h].attachments THEN "missing" ELSE "none"
  BY <1>1 DEF Message, Request
<1>3. messages' = Append(messages, new)
  BY DEF insertMessage
<1> HIDE DEF new
<1> QED
  BY <1>1, <1>2, <1>3, AppendProperties

(* How requests begin.                                                       *)
LEMMA SendIs ==
    ASSUME BaseInv, NEW h \in Requests, NEW m \in Members, NEW a \in bounds.attachments,
           sendMessage(h, m, a)
    PROVE  \E q : /\ Begin(h, q) /\ Moves(h, q) /\ Formed(q, Len(messages)) /\ q.at = now
                  /\ q.stage = "insert" /\ q.who = m /\ q.cached = 0 /\ q.list = {}
<1> DEFINE q == [Idle EXCEPT !.stage = "insert", !.who = m, !.attachments = a, !.at = now]
<1>1. now \in Time /\ a \in BOOLEAN
  BY ChatAssumption DEF BaseInv, TypeOK
<1>2. q \in Request /\ q.stage = "insert" /\ q.who = m /\ q.at = now /\ q.cached = 0
      /\ q.message = 0 /\ q.list = {}
  BY <1>1, IdleIs DEF Request, Stages
<1>4. 0 \in 0..Len(messages)
  BY DEF BaseInv, TypeOK
<1>3. Begin(h, q)
  BY DEF sendMessage
<1> HIDE DEF q
<1> QED
  BY <1>2, <1>3, <1>4 DEF Begin, Moves, Formed

LEMMA LeaveIs ==
    ASSUME BaseInv, NEW h \in Requests, NEW m \in Members, deleteConversation(h, m)
    PROVE  \E q : /\ Begin(h, q) /\ Moves(h, q) /\ Formed(q, Len(messages)) /\ q.at = now
                  /\ q.stage = "leave" /\ q.who = m /\ q.cached = 0 /\ q.list = {}
<1> DEFINE q == [Idle EXCEPT !.stage = "leave", !.who = m, !.at = now]
<1>1. now \in Time
  BY DEF BaseInv, TypeOK
<1>2. q \in Request /\ q.stage = "leave" /\ q.who = m /\ q.at = now /\ q.cached = 0
      /\ q.message = 0 /\ q.list = {}
  BY <1>1, IdleIs DEF Request, Stages
<1>4. 0 \in 0..Len(messages)
  BY DEF BaseInv, TypeOK
<1>3. Begin(h, q)
  BY DEF deleteConversation
<1> HIDE DEF q
<1> QED
  BY <1>2, <1>3, <1>4 DEF Begin, Moves, Formed

LEMMA EditIs ==
    ASSUME BaseInv, NEW h \in Requests, NEW i \in MessageIds, updateMessage(h, i)
    PROVE  \E q : /\ Begin(h, q) /\ Moves(h, q) /\ Formed(q, Len(messages)) /\ q.at = 0
                  /\ q.stage = "read" /\ q.cached = 0 /\ q.list = {}
<1> DEFINE q == [Idle EXCEPT !.stage = "read", !.message = i]
<1>1. /\ q \in Request /\ q.stage = "read" /\ q.message = i /\ q.at = 0 /\ q.cached = 0
      /\ q.list = {}
  BY IdleIs DEF Request, Stages
<1>2. Begin(h, q) /\ i \in 1..Len(messages) /\ i \in 0..Len(messages)
  BY DEF updateMessage, BaseInv, TypeOK
<1> HIDE DEF q
<1> QED
  BY <1>1, <1>2 DEF Begin, Moves, Formed

LEMMA RemoveIs ==
    ASSUME BaseInv, NEW h \in Requests, NEW m \in Members, NEW to \in Members,
           NEW i \in MessageIds, NEW c \in MessageIds, deleteMessage(h, m, to, i, c)
    PROVE  \E q : /\ Begin(h, q) /\ Moves(h, q) /\ Formed(q, Len(messages)) /\ q.at = 0
                  /\ q.stage = "deactivate" /\ q.list = {}
<1> DEFINE q == [Idle EXCEPT !.stage = "deactivate", !.who = m, !.to = to, !.message = i,
                             !.cached = c]
<1>1. q \in Request /\ q.stage = "deactivate" /\ q.message = i /\ q.at = 0 /\ q.list = {}
  BY IdleIs DEF Request, Stages
<1>2. Begin(h, q) /\ i \in 1..Len(messages) /\ i \in 0..Len(messages)
  BY DEF deleteMessage, BaseInv, TypeOK
<1> HIDE DEF q
<1> QED
  BY <1>1, <1>2 DEF Begin, Moves, Formed

LEMMA AskIs ==
    ASSUME BaseInv, NEW h \in Requests, NEW m \in Members, requestAllMessages(h, m)
    PROVE  \E q : /\ Begin(h, q) /\ Moves(h, q) /\ Formed(q, Len(messages)) /\ q.at = 0
                  /\ q.stage = "participants" /\ q.message = 0 /\ q.cached = 0 /\ q.list = {}
<1> DEFINE q == [Idle EXCEPT !.stage = "participants", !.who = m, !.to = m]
<1>1. /\ q \in Request /\ q.stage = "participants" /\ q.message = 0 /\ q.cached = 0 /\ q.at = 0
      /\ q.list = {}
  BY IdleIs DEF Request, Stages
<1>2. Begin(h, q) /\ 0 \in 0..Len(messages)
  BY DEF requestAllMessages, BaseInv, TypeOK
<1> HIDE DEF q
<1> QED
  BY <1>1, <1>2 DEF Begin, Moves, Formed

(* What the invariant says of a request in flight.                           *)
LEMMA BusyIs ==
    ASSUME BaseInv, NEW h \in Requests, req[h].stage # "idle"
    PROVE  /\ h \in bounds.requests /\ req[h] \in Request /\ Formed(req[h], Len(messages))
           /\ req[h].at \in Time /\ req[h].at <= now /\ req[h].who \in Members
           /\ now \in Time /\ Time \subseteq Nat /\ Len(messages) \in Nat
BY ChatAssumption DEF BaseInv, TypeOK, Request, Passed, Time

(* A request moves and nothing else changes.                                 *)
LEMMA BaseLook ==
    ASSUME BaseInv, NEW h \in Requests, h \in bounds.requests, NEW q, Moves(h, q),
           Formed(q, Len(messages)), q.at <= now,
           q.stage = "insert" => Len(messages) + Cardinality(Sending) < bounds.messages,
           UNCHANGED <<now, dbVars>>
    PROVE  BaseInv'
<1>1. /\ messages \in Seq(Message) /\ Len(messages) \in Nat
      /\ timeJoined \in [Members -> Time] /\ timeLeft \in [Members -> Time \cup {Never}]
      /\ lastMessage \in 0..Len(messages) /\ everLast \subseteq 1..Len(messages)
      /\ \A m \in Members : timeJoined[m] <= now /\ (timeLeft[m] # Never => timeLeft[m] <= now)
      /\ gone \in [Members -> SUBSET MessageIds]
  BY DEF BaseInv, TypeOK, Passed, MessageIds
<1>2. Len(messages) # Len(messages) + 1
  BY <1>1
<1> QED
  BY <1>1, <1>2, BaseMove DEF dbVars

LEMMA BaseBegin ==
    ASSUME BaseInv, NEW h \in Requests, NEW q, Begin(h, q), Moves(h, q),
           Formed(q, Len(messages)), q.at \in {0, now},
           q.stage = "insert" => Len(messages) + Cardinality(Sending) < bounds.messages
    PROVE  BaseInv'
<1>1. q.at <= now
  BY ChatAssumption DEF BaseInv, TypeOK, Time
<1> QED
  BY <1>1, BaseLook DEF Begin

LEMMA ClientsKeep == BaseInv /\ Clients => BaseInv'
<1> SUFFICES ASSUME BaseInv, NEW h \in Requests,
                    \/ \E m \in Members, a \in bounds.attachments : sendMessage(h, m, a)
                    \/ \E m \in Members : deleteConversation(h, m)
                    \/ \E i \in MessageIds : updateMessage(h, i)
                    \/ \E m \in Members : requestAllMessages(h, m)
                    \/ \E m, to \in Members, i, c \in MessageIds : deleteMessage(h, m, to, i, c)
             PROVE  BaseInv'
  BY DEF Clients
<1>1. ASSUME NEW m \in Members, NEW a \in bounds.attachments, sendMessage(h, m, a) PROVE BaseInv'
  BY <1>1, SendIs, BaseBegin DEF sendMessage
<1>2. ASSUME NEW m \in Members, deleteConversation(h, m) PROVE BaseInv'
  BY <1>2, LeaveIs, BaseBegin
<1>3. ASSUME NEW i \in MessageIds, updateMessage(h, i) PROVE BaseInv'
  BY <1>3, EditIs, BaseBegin
<1>4. ASSUME NEW m \in Members, NEW to \in Members, NEW i \in MessageIds, NEW c \in MessageIds,
             deleteMessage(h, m, to, i, c)
      PROVE  BaseInv'
  BY <1>4, RemoveIs, BaseBegin
<1>5. ASSUME NEW m \in Members, requestAllMessages(h, m) PROVE BaseInv'
  BY <1>5, AskIs, BaseBegin
<1> QED
  BY <1>1, <1>2, <1>3, <1>4, <1>5

(* A step that moves its request to q and touches messages only.             *)
LEMMA BaseMessages ==
    ASSUME BaseInv, NEW h \in Requests, req[h].stage # "idle", NEW q, Moves(h, q),
           Formed(q, Len(messages')), q.at <= now, q.stage # "insert",
           messages' \in Seq(Message), Len(messages') \in {Len(messages), Len(messages) + 1},
           Len(messages') = Len(messages) + 1 => req[h].stage = "insert",
           UNCHANGED <<bounds, now, timeJoined, timeLeft, lastMessage, everLast, gone>>
    PROVE  BaseInv'
<1>1. /\ timeJoined \in [Members -> Time] /\ timeLeft \in [Members -> Time \cup {Never}]
      /\ \A m \in Members : timeJoined[m] <= now /\ (timeLeft[m] # Never => timeLeft[m] <= now)
  BY DEF BaseInv, TypeOK, Passed
<1>2. /\ lastMessage \in 0..Len(messages') /\ everLast \subseteq 1..Len(messages')
      /\ gone \in [Members -> SUBSET MessageIds]
  BY DEF BaseInv, TypeOK, MessageIds
<1> QED
  BY <1>1, <1>2, BusyIs, BaseMove

(* A step that moves its request to q and touches instants only.             *)
LEMMA BaseTimes ==
    ASSUME BaseInv, NEW h \in Requests, req[h].stage # "idle", NEW q, Moves(h, q),
           Formed(q, Len(messages)), q.at <= now, q.stage # "insert",
           timeJoined' \in [Members -> Time], timeLeft' \in [Members -> Time \cup {Never}],
           \A m \in Members : timeJoined'[m] <= now /\ (timeLeft'[m] # Never => timeLeft'[m] <= now),
           gone' \in [Members -> SUBSET MessageIds],
           UNCHANGED <<bounds, now, messages, lastMessage, everLast>>
    PROVE  BaseInv'
<1>1. /\ messages \in Seq(Message) /\ Len(messages) \in Nat /\ Len(messages) # Len(messages) + 1
      /\ lastMessage \in 0..Len(messages) /\ everLast \subseteq 1..Len(messages)
  BY DEF BaseInv, TypeOK, MessageIds
<1> QED
  BY <1>1, BusyIs, BaseMove

LEMMA StepsKeep == ASSUME BaseInv, NEW h \in Requests, Step(h) PROVE BaseInv'
<1> DEFINE N == Len(messages)
<1>0. req[h].stage # "idle"
  BY DEF Step, insertMessage, createMany, issueRejoin, updateManyTimeJoined, updateLastMessage,
         readConversation, deactivate, getParticipants, fetchMessages, emitMessages,
         leftConversation, At
<1>1. /\ h \in bounds.requests /\ req[h] \in Request /\ Formed(req[h], Len(messages))
      /\ req[h].at \in Time /\ req[h].at <= now /\ req[h].who \in Members
      /\ now \in Time /\ Time \subseteq Nat /\ Len(messages) \in Nat
  BY <1>0, BusyIs
<1>2. ASSUME insertMessage(h) PROVE BaseInv'
  <2> DEFINE s == IF req[h].attachments THEN "attach" ELSE "inserted"
             q == Moved(h, s, N + 1, req[h].at)
  <2>1. Moves(h, q) /\ messages' \in Seq(Message) /\ Len(messages') = N + 1 /\ req[h].stage = "insert"
    BY <1>2, StepIs, InsertIs DEF insertMessage, At
  <2>2. N + 1 <= MaxMessages
    <3>1. Sending \in SUBSET Requests /\ h \in Sending
      BY <2>1 DEF Sending, At
    <3>2. IsFiniteSet(Sending) /\ Cardinality(Sending) \in Nat /\ Cardinality(Sending) # 0
      BY <3>1, ChatAssumption, FS_Subset, FS_CardinalityType, FS_EmptySet
    <3>3. bounds.messages \in Nat /\ bounds.messages <= MaxMessages /\ MaxMessages \in Nat
      BY ChatAssumption DEF BaseInv, TypeOK
    <3>4. N + Cardinality(Sending) <= bounds.messages /\ N \in Nat
      BY <1>1 DEF BaseInv
    <3> HIDE DEF N
    <3> QED
      BY <3>2, <3>3, <3>4
  <2>3. q.stage = s /\ q.at = req[h].at /\ q.message = N + 1
    BY DEF Moved
  <2>4. s \in {"attach", "inserted"} /\ N + 1 \in MessageIds /\ N + 1 \in 1..(N + 1)
    BY <1>1, <2>2, ChatAssumption DEF MessageIds
  <2>5. q \in Request
    BY <1>1, <2>4 DEF Moved, Request, Stages
  <2> HIDE DEF q, s
  <2>6. Formed(q, N + 1)
    BY <2>3, <2>4, <2>5 DEF Formed
  <2> QED
    BY <1>0, <1>1, <1>2, <2>1, <2>3, <2>4, <2>6, BaseMessages DEF insertMessage
<1>3. ASSUME createMany(h) PROVE BaseInv'
  <2> DEFINE q == Moved(h, "inserted", req[h].message, req[h].at)
  <2>1. /\ Moves(h, q) /\ messages' \in Seq(Message) /\ Len(messages') = N
        /\ req[h].message \in 1..N
    BY <1>1, <1>3, StepIs, RewriteIs DEF createMany, At, Formed
  <2>2. Formed(q, N) /\ q.stage = "inserted" /\ q.at = req[h].at
    BY <1>1, <2>1, MovedIs DEF Moved, Stages
  <2>3. Len(messages') \in {N, N + 1} /\ Len(messages') # N + 1
    BY <1>1, <2>1
  <2>4. UNCHANGED <<bounds, now, timeJoined, timeLeft, lastMessage, everLast, gone>>
    BY <1>3 DEF createMany
  <2> HIDE DEF q
  <2> QED
    BY <1>0, <1>1, <2>1, <2>2, <2>3, <2>4, BaseMessages
<1>4. ASSUME deactivate(h) PROVE BaseInv'
  <2> DEFINE q == Moved(h, "participants", req[h].message, req[h].at)
  <2>1. /\ Moves(h, q) /\ messages' \in Seq(Message) /\ Len(messages') = N
        /\ req[h].message \in 1..N
    BY <1>1, <1>4, StepIs, RewriteIs DEF deactivate, At, Formed
  <2>2. Formed(q, N) /\ q.stage = "participants" /\ q.at = req[h].at
    BY <1>1, <2>1, MovedIs DEF Moved, Stages
  <2>3. Len(messages') \in {N, N + 1} /\ Len(messages') # N + 1
    BY <1>1, <2>1
  <2>4. UNCHANGED <<bounds, now, timeJoined, timeLeft, lastMessage, everLast, gone>>
    BY <1>4 DEF deactivate
  <2> HIDE DEF q
  <2> QED
    BY <1>0, <1>1, <2>1, <2>2, <2>3, <2>4, BaseMessages
<1>5. ASSUME issueRejoin(h) PROVE BaseInv'
  <2> DEFINE q == Moved(h, "rejoin", req[h].message, now)
  <2>1. Moves(h, q) /\ req[h].message \in 1..N
    BY <1>1, <1>5, StepIs DEF issueRejoin, At, Formed
  <2>2. Formed(q, N) /\ q.stage = "rejoin" /\ q.at = now
    BY <1>1, <2>1, MovedIs DEF Moved, Stages
  <2> HIDE DEF q
  <2> QED
    BY <1>1, <1>5, <2>1, <2>2, BaseLook DEF issueRejoin
<1>6. ASSUME getParticipants(h) PROVE BaseInv'
  <2> DEFINE t == timeJoined[req[h].who]
             q == Moved(h, "fetch", req[h].message, t)
  <2>1. Moves(h, q) /\ req[h].message \in 0..N
    BY <1>1, <1>6, StepIs DEF getParticipants, At, Formed
  <2>2. t \in Time /\ t <= now
    BY <1>1 DEF BaseInv, TypeOK, Passed
  <2>3. Formed(q, N) /\ q.stage = "fetch" /\ q.at = t
    BY <1>1, <2>1, <2>2, MovedIs DEF Moved, Stages
  <2> HIDE DEF q, t
  <2> QED
    BY <1>1, <1>6, <2>1, <2>2, <2>3, BaseLook DEF getParticipants
<1>7. ASSUME NEW i \in 1..N, Moves(h, Moved(h, "last", i, req[h].at)), UNCHANGED <<now, dbVars>>
      PROVE  BaseInv'
  <2> DEFINE q == Moved(h, "last", i, req[h].at)
  <2>1. Formed(q, N) /\ q.stage = "last" /\ q.at = req[h].at /\ Moves(h, q)
    BY <1>1, <1>7, MovedIs DEF Moved, Stages
  <2> HIDE DEF q
  <2> QED
    BY <1>1, <1>7, <2>1, BaseLook
<1>8. ASSUME Moves(h, Idle), UNCHANGED <<now, dbVars>> PROVE BaseInv'
  BY <1>1, <1>8, IdleIs, BaseLook
<1>9. ASSUME readConversation(h) PROVE BaseInv'
  BY <1>1, <1>7, <1>8, <1>9, StepIs DEF readConversation, At, Formed
<1>10. ASSUME fetchMessages(h) PROVE BaseInv'
  <2>1. PICK q : /\ Moves(h, q) /\ Formed(q, N) /\ q.at = req[h].at
                 /\ q.stage \in {"emit", "last"}
    BY <1>10, FetchIs
  <2> QED
    BY <1>1, <1>10, <2>1, BaseLook DEF fetchMessages
<1>14. ASSUME emitMessages(h) PROVE BaseInv'
  BY <1>8, <1>14, StepIs DEF emitMessages
<1>11. ASSUME updateManyTimeJoined(h) PROVE BaseInv'
  <2> DEFINE q == Moved(h, "last", req[h].message, req[h].at)
  <2>1. Moves(h, q) /\ req[h].message \in 1..N
    BY <1>1, <1>11, StepIs DEF updateManyTimeJoined, At, Formed
  <2>2. Formed(q, N) /\ q.stage = "last" /\ q.at = req[h].at
    BY <1>1, <2>1, MovedIs DEF Moved, Stages
  <2>3. /\ timeJoined' \in [Members -> Time] /\ timeLeft' \in [Members -> Time \cup {Never}]
        /\ \A m \in Members : timeJoined'[m] <= now /\ timeLeft'[m] = Never
    BY <1>1, <1>11 DEF updateManyTimeJoined, BaseInv, TypeOK, Passed
  <2> HIDE DEF q
  <2> QED
    BY <1>0, <1>1, <1>11, <2>1, <2>2, <2>3, BaseTimes DEF updateManyTimeJoined, BaseInv, TypeOK
<1>12. ASSUME leftConversation(h) PROVE BaseInv'
  <2>1. /\ timeJoined' \in [Members -> Time] /\ timeLeft' \in [Members -> Time \cup {Never}]
        /\ \A m \in Members : timeJoined'[m] <= now /\ (timeLeft'[m] # Never => timeLeft'[m] <= now)
    BY <1>1, <1>12 DEF leftConversation, BaseInv, TypeOK, Passed
  <2>2. Moves(h, Idle) /\ Formed(Idle, N) /\ Idle.at <= now /\ Idle.stage # "insert"
    BY <1>1, <1>12, StepIs, IdleIs
  <2>3. gone' \in [Members -> SUBSET MessageIds]
    <3>1. DeletedAt(req[h].at) \subseteq MessageIds
      BY ChatAssumption DEF DeletedAt, BaseInv, TypeOK, MessageIds
    <3> QED
      BY <1>1, <1>12, <3>1 DEF leftConversation, BaseInv, TypeOK
  <2> QED
    BY <1>0, <1>12, <2>1, <2>2, <2>3, BaseTimes DEF leftConversation
<1>13. ASSUME updateLastMessage(h) PROVE BaseInv'
  <2>1. req[h].message \in 1..N
    BY <1>1, <1>13 DEF updateLastMessage, At, Formed
  <2>2. /\ messages \in Seq(Message) /\ N # N + 1
        /\ timeJoined \in [Members -> Time] /\ timeLeft \in [Members -> Time \cup {Never}]
        /\ \A m \in Members : timeJoined[m] <= now /\ (timeLeft[m] # Never => timeLeft[m] <= now)
        /\ everLast \subseteq 1..N /\ gone \in [Members -> SUBSET MessageIds]
    BY <1>1 DEF BaseInv, TypeOK, Passed
  <2>3. lastMessage' \in 0..N /\ everLast' \subseteq 1..N
    <3>1. lastMessage' = req[h].message /\ everLast' = everLast \cup {req[h].message}
      BY <1>13 DEF updateLastMessage
    <3>2. req[h].message \in 0..N
      BY <1>1, <2>1
    <3> QED
      BY <2>1, <2>2, <3>1, <3>2
  <2>4. \E q : Moves(h, q) /\ Formed(q, N) /\ q.at <= now /\ q.stage # "insert"
    <3>1. CASE Moves(h, Idle)
      BY <1>1, <3>1, IdleIs
    <3>2. CASE Moves(h, Moved(h, "emit", req[h].message, req[h].at))
      <4> DEFINE q == Moved(h, "emit", req[h].message, req[h].at)
      <4>1. Formed(q, N) /\ q.stage = "emit" /\ q.at = req[h].at
        BY <1>1, <2>1, MovedIs DEF Moved, Stages
      <4> HIDE DEF q
      <4> QED
        BY <1>1, <3>2, <4>1 DEF q
    <3> QED
      BY <1>13, <3>1, <3>2, StepIs
  <2> QED
    BY <1>1, <1>13, <2>2, <2>3, <2>4, BaseMove DEF updateLastMessage
<1> QED
  BY <1>2, <1>3, <1>4, <1>5, <1>6, <1>9, <1>10, <1>11, <1>12, <1>13, <1>14 DEF Step

LEMMA FaultsKeep ==
    BaseInv /\ ((\E h \in Requests : Throw(h)) \/ Restart \/ Tick) => BaseInv'
<1>1. ASSUME BaseInv, NEW h \in Requests, Throw(h) PROVE BaseInv'
  <2>1. h \in bounds.requests /\ Idle.at <= now
    BY <1>1, BusyIs, IdleIs DEF Throw, At
  <2> QED
    BY <1>1, <2>1, StepIs, IdleIs, BaseLook DEF Throw
<1>2. ASSUME BaseInv, Restart PROVE BaseInv'
  <2>1. /\ req' \in [Requests -> Request] /\ \A h \in Requests : req'[h] = Idle
        /\ UNCHANGED <<now, dbVars>>
    BY <1>2, IdleIs DEF Restart
  <2>2. Sending' = {}
    BY <2>1, IdleIs DEF Sending, At
  <2>3. Cardinality(Sending') = 0 /\ Cardinality(Sending) \in Nat
    BY <2>2, ChatAssumption, FS_EmptySet, FS_Subset, FS_CardinalityType DEF Sending
  <2>4. Len(messages) + 0 <= bounds.messages
    BY <1>2, <2>3, ChatAssumption DEF BaseInv, TypeOK
  <2>5. 0 <= now
    BY <1>2, ChatAssumption DEF BaseInv, TypeOK, Time
  <2> QED
    BY <1>2, <2>1, <2>3, <2>4, <2>5, IdleIs DEF BaseInv, TypeOK, Passed, dbVars
<1>3. ASSUME BaseInv, Tick PROVE BaseInv'
  <2>1. now \in Nat /\ now' = now + 1 /\ now' \in Time
    BY <1>3, ChatAssumption DEF Tick, BaseInv, TypeOK, Time
  <2>2. UNCHANGED <<dbVars, req>>
    BY <1>3 DEF Tick
  <2>3. TypeOK'
    BY <1>3, <2>1, <2>2 DEF BaseInv, TypeOK, dbVars
  <2>4. \A t \in Nat : t <= now => t <= now'
    BY <2>1
  <2>5. /\ \A m \in Members : /\ timeJoined[m] \in Nat
                              /\ timeLeft[m] # Never => timeLeft[m] \in Nat
        /\ \A h \in Requests : req[h].at \in Nat
    BY <1>3, ChatAssumption DEF BaseInv, TypeOK, Time, Request
  <2>6. Passed'
    BY <1>3, <2>2, <2>4, <2>5 DEF BaseInv, Passed, dbVars
  <2>7. Sending' = Sending
    BY <2>2 DEF Sending, At
  <2> QED
    BY <1>3, <2>2, <2>3, <2>6, <2>7 DEF BaseInv, dbVars
<1> QED
  BY <1>1, <1>2, <1>3

LEMMA BaseStep == BaseInv /\ [Next]_vars => BaseInv'
<1>1. BaseInv /\ UNCHANGED vars => BaseInv'
  BY DEF vars, dbVars, BaseInv, TypeOK, Passed, Sending, At
<1> QED
  BY <1>1, ClientsKeep, StepsKeep, FaultsKeep DEF Next

LEMMA BaseInitially == Init => BaseInv
<1> SUFFICES ASSUME Init PROVE BaseInv
  OBVIOUS
<1>1. \A h \in Requests : req[h] = Idle
  BY DEF Init
<1>2. Sending = {}
  BY <1>1, IdleIs DEF Sending, At
<1>3. Cardinality(Sending) = 0
  BY <1>2, FS_EmptySet
<1>4. messages \in Seq(Message) /\ Len(messages) = 0 /\ 0 <= MaxMessages
  BY EmptySeq, ChatAssumption DEF Init
<1>5. bounds \in Bounds /\ bounds.messages \in Nat
  BY ChatAssumption DEF Init
<1>6. TypeOK
  BY <1>1, <1>4, <1>5, IdleIs, ChatAssumption DEF Init, TypeOK, Time, MessageIds
<1>7. Passed
  BY <1>1, IdleIs, ChatAssumption DEF Init, Passed
<1> QED
  BY <1>1, <1>3, <1>4, <1>5, <1>6, <1>7, IdleIs DEF Init, BaseInv

LEMMA BaseInvariant == Spec => []BaseInv
BY BaseInitially, BaseStep, PTL DEF Spec

(* The conversation, its participants and the requests stay well-formed.     *)
THEOREM ChatTypes == Spec => []TypeOK
<1>1. BaseInv => TypeOK
  BY DEF BaseInv
<1> QED
  BY <1>1, BaseInvariant, PTL

-----------------------------------------------------------------------------
(* Who is shown the conversation.                                            *)

(* A conversation leaves a user's list only by that user's own delete,       *)
(* whatever sends, edits and deletes of others overlap with it.              *)
THEOREM OnlyOwn == Spec => OnlyOwnDeleteHides
<1> DEFINE Own == \A m \in Members : Listed(m) /\ ~Listed(m)' =>
                     \E h \in Requests : At(h, "leave") /\ req[h].who = m
<1>1. BaseInv /\ [Next]_vars => Own
  <2> SUFFICES ASSUME BaseInv, [Next]_vars, NEW m \in Members, Listed(m), ~Listed(m)'
               PROVE  \E h \in Requests : At(h, "leave") /\ req[h].who = m
    OBVIOUS
  <2>1. ~(timeLeft'[m] = timeLeft[m] /\ timeJoined'[m] = timeJoined[m]) /\ timeLeft'[m] # Never
    BY DEF Listed
  <2>2. ASSUME NEW h \in Requests, Step(h) PROVE leftConversation(h) \/ updateManyTimeJoined(h)
    <3>1. ~(insertMessage(h) \/ createMany(h) \/ issueRejoin(h) \/ updateLastMessage(h))
      BY <2>1 DEF insertMessage, createMany, issueRejoin, updateLastMessage, dbVars
    <3>2. ~(readConversation(h) \/ deactivate(h) \/ getParticipants(h) \/ fetchMessages(h)
              \/ emitMessages(h))
      BY <2>1 DEF readConversation, deactivate, getParticipants, fetchMessages, emitMessages, dbVars
    <3> QED
      BY <2>2, <3>1, <3>2 DEF Step
  <2>3. ASSUME NEW h \in Requests, leftConversation(h) PROVE req[h].who = m /\ At(h, "leave")
    BY <2>1, <2>3 DEF leftConversation, BaseInv, TypeOK
  <2>4. ASSUME NEW h \in Requests, updateManyTimeJoined(h) PROVE FALSE
    BY <2>1, <2>4 DEF updateManyTimeJoined
  <2>5. ~(Clients \/ Tick \/ Restart \/ UNCHANGED vars) /\ \A h \in Requests : ~Throw(h)
    <3>1. ~Clients
      <4>1. ASSUME NEW h, NEW q PROVE ~Begin(h, q)
        BY <2>1 DEF Begin, dbVars
      <4> QED
        BY <4>1 DEF Clients, sendMessage, deleteConversation, updateMessage, deleteMessage,
             requestAllMessages
    <3> QED
      BY <2>1, <3>1 DEF Tick, Restart, Throw, vars, dbVars
  <2> QED
    BY <2>2, <2>3, <2>4, <2>5 DEF Next
<1>2. BaseInv /\ [Next]_vars => [Own]_vars
  BY <1>1
<1>3. Spec => [][Own]_vars
  <2> HIDE DEF Own
  <2> QED
    BY <1>2, BaseInvariant, PTL DEF Spec
<1> QED
  BY <1>3 DEF OnlyOwnDeleteHides

-----------------------------------------------------------------------------
(* Deleted history.                                                          *)

\* What a participant deleted is older than the delete and than every rejoin that
\* is under way or, once one has brought the conversation back, than that one.
GoneInv ==
    \A m \in Members : \A i \in gone[m] :
        /\ i \in 1..Len(messages)
        /\ messages[i].createdAt < now
        /\ IF HasLeft(m)
             THEN /\ messages[i].createdAt < timeLeft[m]
                  /\ \A h \in Requests : At(h, "rejoin") => messages[i].createdAt < req[h].at
             ELSE messages[i].createdAt < timeJoined[m]

\* The messages are as old as they were.
Kept == \A i \in 1..Len(messages) : i \in 1..Len(messages') /\ messages'[i].createdAt = messages[i].createdAt

\* No instant is stored, and a request that takes one takes it now.
LEMMA GoneMove ==
    ASSUME BaseInv, GoneInv, NEW h \in Requests, NEW q, Moves(h, q), Kept,
           q.stage = "rejoin" => q.at = now,
           UNCHANGED <<now, timeJoined, timeLeft, gone>>
    PROVE  GoneInv'
<1> SUFFICES ASSUME NEW m \in Members, NEW i \in gone[m]
             PROVE  /\ i \in 1..Len(messages')
                    /\ messages'[i].createdAt < now
                    /\ IF HasLeft(m)
                         THEN /\ messages'[i].createdAt < timeLeft[m]
                              /\ \A g \in Requests :
                                    req'[g].stage = "rejoin" => messages'[i].createdAt < req'[g].at
                         ELSE messages'[i].createdAt < timeJoined[m]
  BY DEF GoneInv, HasLeft, At
<1>1. req'[h] = q /\ \A g \in Requests : g # h => req'[g] = req[g]
  BY DEF Moves, BaseInv, TypeOK
<1>2. i \in 1..Len(messages')  /\ messages'[i].createdAt = messages[i].createdAt
  BY DEF GoneInv, Kept
<1> QED
  BY <1>1, <1>2 DEF GoneInv, At

\* Everybody who has left joins again, at the instant of request h.
LEMMA GoneRejoin == BaseInv /\ GoneInv /\ (\E h \in Requests : updateManyTimeJoined(h)) => GoneInv'
<1> SUFFICES ASSUME BaseInv, GoneInv, NEW h \in Requests, updateManyTimeJoined(h),
                    NEW m \in Members, NEW i \in gone[m]
             PROVE  /\ i \in 1..Len(messages)
                    /\ messages[i].createdAt < now
                    /\ ~HasLeft(m)' /\ messages[i].createdAt < timeJoined'[m]
  BY DEF GoneInv, updateManyTimeJoined
<1>1. ~HasLeft(m)'
  BY DEF updateManyTimeJoined, HasLeft
<1>2. timeJoined'[m] = IF HasLeft(m) THEN req[h].at ELSE timeJoined[m]
  BY DEF updateManyTimeJoined
<1> QED
  BY <1>1, <1>2 DEF GoneInv, updateManyTimeJoined

\* One participant leaves.
LEMMA GoneLeave == BaseInv /\ GoneInv /\ (\E h \in Requests : leftConversation(h)) => GoneInv'
<1> SUFFICES ASSUME BaseInv, GoneInv, NEW h \in Requests, leftConversation(h),
                    NEW m \in Members, NEW i \in gone'[m]
             PROVE  /\ i \in 1..Len(messages)
                    /\ messages[i].createdAt < now
                    /\ IF HasLeft(m)'
                         THEN /\ messages[i].createdAt < timeLeft'[m]
                              /\ \A g \in Requests :
                                    At(g, "rejoin")' => messages[i].createdAt < req'[g].at
                         ELSE messages[i].createdAt < timeJoined[m]
  BY DEF GoneInv, leftConversation
<1>1. /\ Moves(h, Idle) /\ req'[h] = Idle /\ \A g \in Requests : g # h => req'[g] = req[g]
      /\ At(h, "leave")
  <2>1. Moves(h, Idle) /\ At(h, "leave")
    BY StepIs DEF leftConversation
  <2> QED
    BY <2>1 DEF Moves, BaseInv, TypeOK
<1>2. \A g \in Requests : At(g, "rejoin")' => At(g, "rejoin") /\ req'[g] = req[g]
  BY <1>1, IdleIs DEF At
<1>3. CASE m # req[h].who
  <2>1. gone'[m] = gone[m] /\ timeLeft'[m] = timeLeft[m]
    BY <1>3 DEF leftConversation, BaseInv, TypeOK
  <2> QED
    BY <1>2, <2>1 DEF GoneInv, HasLeft
<1>4. CASE m = req[h].who
  <2>1. gone'[m] = DeletedAt(req[h].at) /\ timeLeft'[m] = req[h].at
    BY <1>4 DEF leftConversation, BaseInv, TypeOK
  <2>2. i \in 1..Len(messages) /\ messages[i].createdAt < req[h].at
    BY <2>1 DEF DeletedAt, BaseInv, TypeOK
  <2>3. \A g \in Requests : At(g, "rejoin") => messages[i].createdAt < req[g].at
    BY <2>1 DEF DeletedAt
  <2>4. req[h].at \in Nat /\ req[h].at <= now /\ now \in Nat /\ messages[i].createdAt \in Nat
    <3>1. messages[i] \in Message
      BY <2>2, ElementOfSeq DEF BaseInv, TypeOK
    <3> QED
      BY <3>1, ChatAssumption DEF BaseInv, TypeOK, Passed, Request, Message, Time
  <2>5. HasLeft(m)'
    BY <2>1, <2>4, ChatAssumption DEF HasLeft
  <2>6. messages[i].createdAt < now
    BY <2>2, <2>4
  <2> QED
    BY <1>2, <2>1, <2>2, <2>3, <2>5, <2>6
<1> QED
  BY <1>3, <1>4

LEMMA GoneStep == BaseInv /\ GoneInv /\ [Next]_vars => GoneInv'
<1> SUFFICES ASSUME BaseInv, GoneInv, [Next]_vars PROVE GoneInv'
  OBVIOUS
<1>1. ASSUME UNCHANGED messages PROVE Kept
  BY <1>1 DEF Kept
<1>2. ASSUME NEW h \in Requests, NEW q, Moves(h, q), q.stage = "rejoin" => q.at = now,
             UNCHANGED <<now, messages, timeJoined, timeLeft, gone>>
      PROVE  GoneInv'
  BY <1>1, <1>2, GoneMove
<1>3. CASE Clients
  <2>1. ASSUME NEW h \in Requests, NEW q, Begin(h, q), Moves(h, q), q.stage # "rejoin" PROVE GoneInv'
    BY <1>2, <2>1 DEF Begin, dbVars
  <2>2. ASSUME NEW h \in Requests, NEW m \in Members, NEW a \in bounds.attachments,
               sendMessage(h, m, a)
        PROVE  GoneInv'
    BY <2>1, <2>2, SendIs
  <2>3. ASSUME NEW h \in Requests, NEW m \in Members, deleteConversation(h, m) PROVE GoneInv'
    BY <2>1, <2>3, LeaveIs
  <2>4. ASSUME NEW h \in Requests, NEW i \in MessageIds, updateMessage(h, i) PROVE GoneInv'
    BY <2>1, <2>4, EditIs
  <2>5. ASSUME NEW h \in Requests, NEW m \in Members, requestAllMessages(h, m) PROVE GoneInv'
    BY <2>1, <2>5, AskIs
  <2>6. ASSUME NEW h \in Requests, NEW m \in Members, NEW to \in Members, NEW i \in MessageIds,
               NEW c \in MessageIds, deleteMessage(h, m, to, i, c)
        PROVE  GoneInv'
    BY <2>1, <2>6, RemoveIs
  <2> QED
    BY <1>3, <2>2, <2>3, <2>4, <2>5, <2>6 DEF Clients
<1>4. ASSUME NEW h \in Requests, Step(h) PROVE GoneInv'
  <2>1. ASSUME NEW s, NEW i, NEW t, Moves(h, Moved(h, s, i, t)), s = "rejoin" => t = now,
               UNCHANGED <<now, messages, timeJoined, timeLeft, gone>>
        PROVE  GoneInv'
    <3>1. Moved(h, s, i, t).stage = s /\ Moved(h, s, i, t).at = t
      BY DEF Moved
    <3> HIDE DEF Moved
    <3> QED
      BY <1>2, <2>1, <3>1
  <2>2. ASSUME Moves(h, Idle), UNCHANGED <<now, messages, timeJoined, timeLeft, gone>> PROVE GoneInv'
    BY <1>2, <2>2, IdleIs
  <2>3. ASSUME insertMessage(h) \/ createMany(h) \/ deactivate(h) PROVE GoneInv'
    <3>1. Len(messages) \in Nat
      BY DEF BaseInv, TypeOK
    <3>2. Kept
      <4>1. CASE insertMessage(h)
        <5>1. /\ Len(messages') = Len(messages) + 1
              /\ \A j \in 1..Len(messages) : messages'[j] = messages[j]
          BY <4>1, InsertIs
        <5>2. 1..Len(messages) \subseteq 1..Len(messages')
          BY <3>1, <5>1
        <5> QED
          BY <5>1, <5>2 DEF Kept
      <4>2. CASE createMany(h) \/ deactivate(h)
        <5>1. /\ Len(messages') = Len(messages)
              /\ \A j \in 1..Len(messages) : messages'[j].createdAt = messages[j].createdAt
          BY <4>2, RewriteIs
        <5> QED
          BY <5>1 DEF Kept
      <4> QED
        BY <2>3, <4>1, <4>2
    <3>3. UNCHANGED <<now, timeJoined, timeLeft, gone>>
      BY <2>3 DEF insertMessage, createMany, deactivate
    <3>4. PICK q : Moves(h, q) /\ q.stage # "rejoin"
      <4>1. ASSUME NEW s, NEW i, NEW t PROVE Moved(h, s, i, t).stage = s
        BY DEF Moved
      <4> QED
        BY <2>3, <4>1, StepIs
    <3> QED
      BY <3>2, <3>3, <3>4, GoneMove
  <2>4. ASSUME issueRejoin(h) PROVE GoneInv'
    BY <2>1, <2>4, StepIs DEF issueRejoin, dbVars
  <2>5. ASSUME updateLastMessage(h) PROVE GoneInv'
    BY <2>1, <2>2, <2>5, StepIs DEF updateLastMessage
  <2>6. ASSUME readConversation(h) \/ getParticipants(h) \/ emitMessages(h) PROVE GoneInv'
    <3>1. UNCHANGED <<now, messages, timeJoined, timeLeft, gone>>
      BY <2>6 DEF readConversation, getParticipants, emitMessages, dbVars
    <3> QED
      BY <2>1, <2>2, <2>6, <3>1, StepIs
  <2>7. ASSUME fetchMessages(h) PROVE GoneInv'
    <3>1. UNCHANGED <<now, messages, timeJoined, timeLeft, gone>>
      BY <2>7 DEF fetchMessages, dbVars
    <3>2. PICK q : Moves(h, q) /\ q.stage # "rejoin"
      BY <2>7, FetchIs
    <3> QED
      BY <1>2, <3>1, <3>2
  <2> QED
    BY <1>4, <2>3, <2>4, <2>5, <2>6, <2>7, GoneRejoin, GoneLeave DEF Step
<1>5. ASSUME NEW h \in Requests, Throw(h) PROVE GoneInv'
  BY <1>2, <1>5, StepIs, IdleIs DEF Throw, dbVars
<1>6. CASE Restart
  BY <1>6, IdleIs DEF Restart, GoneInv, HasLeft, At, dbVars
<1>7. CASE Tick
  <2>1. /\ now \in Nat /\ now' = now + 1
        /\ UNCHANGED <<messages, timeJoined, timeLeft, gone, req>>
    BY <1>7, ChatAssumption DEF Tick, dbVars, BaseInv, TypeOK, Time
  <2>2. ASSUME NEW m \in Members, NEW i \in gone[m] PROVE messages[i].createdAt < now'
    <3>1. messages[i] \in Message
      BY <2>2, ElementOfSeq DEF GoneInv, BaseInv, TypeOK
    <3>2. messages[i].createdAt \in Nat
      BY <3>1, ChatAssumption DEF Message, Time
    <3>3. messages[i].createdAt < now
      BY <2>2 DEF GoneInv
    <3> QED
      BY <2>1, <3>2, <3>3
  <2> QED
    BY <2>1, <2>2 DEF GoneInv, HasLeft, At
<1>8. CASE UNCHANGED vars
  BY <1>8 DEF vars, dbVars, GoneInv, HasLeft, At
<1> QED
  BY <1>3, <1>4, <1>5, <1>6, <1>7, <1>8 DEF Next

LEMMA GoneInvariant == Spec => []GoneInv
<1>1. Init => GoneInv
  BY DEF Init, GoneInv
<1> QED
  BY <1>1, BaseInvariant, GoneStep, PTL DEF Spec

(* What a user deleted with a conversation is not among the messages that    *)
(* user is sent once the conversation is back in the list, whatever deletes  *)
(* and messages overlap.                                                     *)
THEOREM HistoryIsGone == Spec => []HistoryStaysDeleted
<1>1. BaseInv /\ GoneInv => HistoryStaysDeleted
  <2> SUFFICES ASSUME BaseInv, GoneInv, NEW m \in Members, Listed(m), NEW i \in gone[m]
               PROVE  ~(messages[i].createdAt >= timeJoined[m])
    BY DEF HistoryStaysDeleted, MessagesSince
  <2>1. messages[i] \in Message
    BY ElementOfSeq DEF GoneInv, BaseInv, TypeOK
  <2>2. /\ messages[i].createdAt \in Nat /\ timeJoined[m] \in Nat
        /\ timeLeft[m] # Never => timeLeft[m] \in Nat
    BY <2>1, ChatAssumption DEF Message, Time, BaseInv, TypeOK
  <2>3. CASE HasLeft(m)
    BY <2>2, <2>3 DEF GoneInv, HasLeft, Listed
  <2>4. CASE ~HasLeft(m)
    BY <2>2, <2>4 DEF GoneInv
  <2> QED
    BY <2>3, <2>4
<1> QED
  BY <1>1, BaseInvariant, GoneInvariant, PTL

-----------------------------------------------------------------------------
(* The lists that are sent.                                                  *)

\* A list that was read has stored messages from the instant of its request on.
ListFits(q) ==
    \A i \in q.list : /\ q.stage \in {"last", "emit"}
                      /\ i \in 1..Len(messages) /\ messages[i].createdAt >= q.at

ListInv == \A h \in Requests : ListFits(req[h])

\* One request moves, and the messages stay as old as they were.
LEMMA ListMove ==
    ASSUME BaseInv, ListInv, NEW h \in Requests, NEW q, Moves(h, q), ListFits(q), Kept
    PROVE  ListInv'
<1> SUFFICES ASSUME NEW g \in Requests, NEW i \in req'[g].list
             PROVE  /\ req'[g].stage \in {"last", "emit"}
                    /\ i \in 1..Len(messages') /\ messages'[i].createdAt >= req'[g].at
  BY DEF ListInv, ListFits
<1>1. req'[g] = IF g = h THEN q ELSE req[g]
  BY DEF Moves, BaseInv, TypeOK
<1>2. ListFits(req'[g])
  BY <1>1 DEF ListInv
<1>3. /\ req'[g].stage \in {"last", "emit"}
      /\ i \in 1..Len(messages) /\ messages[i].createdAt >= req'[g].at
  BY <1>2 DEF ListFits
<1> QED
  BY <1>3 DEF Kept

LEMMA ListStep == BaseInv /\ ListInv /\ [Next]_vars => ListInv'
<1> SUFFICES ASSUME BaseInv, ListInv, [Next]_vars PROVE ListInv'
  OBVIOUS
<1>1. ASSUME UNCHANGED messages PROVE Kept
  BY <1>1 DEF Kept
<1>2. ASSUME NEW q, q.list = {} PROVE ListFits(q)
  BY <1>2 DEF ListFits
<1>3. CASE Clients
  <2>1. ASSUME NEW h \in Requests, NEW q, Begin(h, q), Moves(h, q), q.list = {} PROVE ListInv'
    BY <1>1, <1>2, <2>1, ListMove DEF Begin, dbVars
  <2>2. ASSUME NEW h \in Requests, NEW m \in Members, NEW a \in bounds.attachments,
               sendMessage(h, m, a)
        PROVE  ListInv'
    BY <2>1, <2>2, SendIs
  <2>3. ASSUME NEW h \in Requests, NEW m \in Members, deleteConversation(h, m) PROVE ListInv'
    BY <2>1, <2>3, LeaveIs
  <2>4. ASSUME NEW h \in Requests, NEW i \in MessageIds, updateMessage(h, i) PROVE ListInv'
    BY <2>1, <2>4, EditIs
  <2>5. ASSUME NEW h \in Requests, NEW m \in Members, requestAllMessages(h, m) PROVE ListInv'
    BY <2>1, <2>5, AskIs
  <2>6. ASSUME NEW h \in Requests, NEW m \in Members, NEW to \in Members, NEW i \in MessageIds,
               NEW c \in MessageIds, deleteMessage(h, m, to, i, c)
        PROVE  ListInv'
    BY <2>1, <2>6, RemoveIs
  <2> QED
    BY <1>3, <2>2, <2>3, <2>4, <2>5, <2>6 DEF Clients
<1>4. ASSUME NEW h \in Requests, Step(h) PROVE ListInv'
  \* Before the messages are read there is no list.
  <2>1. ASSUME NEW s, NEW i, NEW t, req[h].stage \notin {"last", "emit"},
               Moves(h, Moved(h, s, i, t)), Kept
        PROVE  ListInv'
    <3>1. Moved(h, s, i, t).list = req[h].list
      BY DEF Moved
    <3>2. req[h].list = {}
      BY <2>1 DEF ListInv, ListFits
    <3>3. ListFits(Moved(h, s, i, t))
      BY <1>2, <3>1, <3>2
    <3> QED
      BY <2>1, <3>3, ListMove
  <2>2. ASSUME Moves(h, Idle), UNCHANGED messages PROVE ListInv'
    BY <1>1, <1>2, <2>2, IdleIs, ListMove
  <2>3. ASSUME insertMessage(h) PROVE ListInv'
    <3>1. /\ Len(messages') = Len(messages) + 1
          /\ \A j \in 1..Len(messages) : messages'[j] = messages[j]
      BY <2>3, InsertIs
    <3>2. 1..Len(messages) \subseteq 1..Len(messages')
      BY <3>1 DEF BaseInv, TypeOK
    <3>3. Kept
      BY <3>1, <3>2 DEF Kept
    <3>4. req[h].stage \notin {"last", "emit"}
      BY <2>3 DEF insertMessage, At
    <3> QED
      BY <2>1, <2>3, <3>3, <3>4, StepIs
  <2>4. ASSUME createMany(h) \/ deactivate(h) PROVE ListInv'
    <3>1. /\ Len(messages') = Len(messages)
          /\ \A j \in 1..Len(messages) : messages'[j].createdAt = messages[j].createdAt
      BY <2>4, RewriteIs
    <3>2. Kept
      BY <3>1 DEF Kept
    <3>3. req[h].stage \notin {"last", "emit"}
      BY <2>4 DEF createMany, deactivate, At
    <3> QED
      BY <2>1, <2>4, <3>2, <3>3, StepIs
  <2>5. ASSUME issueRejoin(h) \/ updateManyTimeJoined(h) \/ getParticipants(h) PROVE ListInv'
    <3>1. UNCHANGED messages /\ req[h].stage \notin {"last", "emit"}
      BY <2>5 DEF issueRejoin, updateManyTimeJoined, getParticipants, At, dbVars
    <3> QED
      BY <1>1, <2>1, <2>5, <3>1, StepIs
  <2>6. ASSUME readConversation(h) PROVE ListInv'
    <3>1. UNCHANGED messages /\ req[h].stage \notin {"last", "emit"}
      BY <2>6 DEF readConversation, At, dbVars
    <3> QED
      BY <1>1, <2>1, <2>2, <2>6, <3>1, StepIs
  <2>7. ASSUME updateLastMessage(h) PROVE ListInv'
    <3> DEFINE q == Moved(h, "emit", req[h].message, req[h].at)
    <3>1. UNCHANGED messages
      BY <2>7 DEF updateLastMessage
    <3>2. q.list = req[h].list /\ q.stage = "emit" /\ q.at = req[h].at
      BY DEF Moved
    <3> HIDE DEF q
    <3>3. ListFits(q)
      BY <3>2 DEF ListInv, ListFits
    <3>4. Moves(h, q) \/ Moves(h, Idle)
      BY <2>7, StepIs DEF q
    <3> QED
      BY <1>1, <2>2, <3>1, <3>3, <3>4, ListMove
  <2>8. ASSUME fetchMessages(h) PROVE ListInv'
    <3>1. UNCHANGED messages
      BY <2>8 DEF fetchMessages, dbVars
    <3>2. PICK q : /\ Moves(h, q) /\ q.stage \in {"last", "emit"} /\ q.at = req[h].at
                   /\ q.list = MessagesSince(req[h].at)
      BY <2>8, FetchIs
    <3>3. ListFits(q)
      BY <3>2 DEF ListFits, MessagesSince, BaseInv, TypeOK
    <3> QED
      BY <1>1, <3>1, <3>2, <3>3, ListMove
  <2>9. ASSUME emitMessages(h) \/ leftConversation(h) PROVE ListInv'
    <3>1. UNCHANGED messages
      BY <2>9 DEF emitMessages, leftConversation, dbVars
    <3> QED
      BY <2>2, <2>9, <3>1, StepIs
  <2> QED
    BY <1>4, <2>3, <2>4, <2>5, <2>6, <2>7, <2>8, <2>9 DEF Step
<1>5. ASSUME NEW h \in Requests, Throw(h) PROVE ListInv'
  <2>1. Moves(h, Idle) /\ UNCHANGED messages
    BY <1>5, StepIs DEF Throw, dbVars
  <2> QED
    BY <1>1, <1>2, <2>1, IdleIs, ListMove
<1>6. CASE Restart
  BY <1>6, IdleIs DEF Restart, ListInv, ListFits
<1>7. CASE Tick \/ UNCHANGED vars
  BY <1>7 DEF Tick, vars, dbVars, ListInv, ListFits
<1> QED
  BY <1>3, <1>4, <1>5, <1>6, <1>7 DEF Next

LEMMA ListInvariant == Spec => []ListInv
<1>1. Init => ListInv
  BY IdleIs DEF Init, ListInv, ListFits
<1> QED
  BY <1>1, BaseInvariant, ListStep, PTL DEF Spec

(* A list that is sent leaves out what those who get it deleted with the     *)
(* conversation, if they had it back by the instant from which the list was  *)
(* read, whatever deletes and messages overlap.                              *)
THEOREM ListsAreRight == Spec => []ListsLeaveDeletedOut
<1>1. BaseInv /\ GoneInv /\ ListInv => ListsLeaveDeletedOut
  <2> SUFFICES ASSUME BaseInv, GoneInv, ListInv, NEW h \in Requests, NEW m \in Members,
                      Listed(m), timeJoined[m] <= req[h].at, NEW i \in gone[m],
                      i \in req[h].list
               PROVE  FALSE
    BY DEF ListsLeaveDeletedOut, BaseInv, TypeOK, Request
  <2>1. messages[i] \in Message /\ messages[i].createdAt >= req[h].at
    BY ElementOfSeq DEF GoneInv, ListInv, ListFits, BaseInv, TypeOK
  <2>2. /\ messages[i].createdAt \in Nat /\ timeJoined[m] \in Nat /\ req[h].at \in Nat
        /\ timeLeft[m] # Never => timeLeft[m] \in Nat
    BY <2>1, ChatAssumption DEF Message, Time, BaseInv, TypeOK, Request
  <2>3. messages[i].createdAt >= timeJoined[m]
    BY <2>1, <2>2
  <2>4. CASE HasLeft(m)
    BY <2>2, <2>3, <2>4 DEF GoneInv, HasLeft, Listed
  <2>5. CASE ~HasLeft(m)
    BY <2>2, <2>3, <2>5 DEF GoneInv
  <2> QED
    BY <2>4, <2>5
<1> QED
  BY <1>1, BaseInvariant, GoneInvariant, ListInvariant, PTL

-----------------------------------------------------------------------------
(* The last message.                                                         *)

AllActive == \A i \in 1..Len(messages) : messages[i].active

\* No message waits for its attachments, but perhaps message i.
Stored(s, i) == \A j \in 1..Len(s) : j # i => s[j].attachments # "missing"

\* What the only request q has still to do for the messages s and the last one.
Fits(q, s, last) ==
    /\ q.stage \in {"idle", "insert", "read", "deactivate", "participants", "fetch", "emit",
                    "leave"} => last = Len(s) /\ Stored(s, 0)
    /\ q.stage = "attach" => q.message = Len(s) /\ Stored(s, Len(s))
    /\ q.stage \in {"inserted", "rejoin", "last"} => q.message = Len(s) /\ Stored(s, 0)
    /\ q.stage \notin {"idle", "deactivate"} => q.cached = 0

Only(h) == \A g \in Requests : g # h => req[g].stage = "idle"

NewestInv ==
    Sequential /\ ~bounds.faults /\ AllActive =>
        \A h \in Requests : Only(h) => Fits(req[h], messages, lastMessage)

LEMMA OnlyIs ==
    ASSUME BaseInv, Sequential, NEW h \in Requests, h \in bounds.requests
    PROVE  Only(h)
<1>1. bounds.requests \in SUBSET Requests
  BY ChatAssumption DEF BaseInv, TypeOK
<1>2. IsFiniteSet(bounds.requests)
  BY <1>1, ChatAssumption, FS_Subset
<1>3. PICK r : bounds.requests = {r}
  BY <1>2, FS_Singleton DEF Sequential
<1> QED
  BY <1>3 DEF BaseInv, Only

LEMMA NewestMove ==
    ASSUME BaseInv, BaseInv', NEW h \in Requests, h \in bounds.requests, NEW q, Moves(h, q),
           UNCHANGED bounds,
           Sequential /\ ~bounds.faults /\ AllActive' => Fits(q, messages', lastMessage')
    PROVE  NewestInv'
<1> SUFFICES ASSUME Sequential, ~bounds.faults, AllActive', NEW k \in Requests, Only(k)'
             PROVE  Fits(req'[k], messages', lastMessage')
  BY DEF NewestInv, Sequential
<1>1. Fits(q, messages', lastMessage')
  OBVIOUS
<1>2. req'[h] = q /\ \A g \in Requests : g # h => req'[g] = req[g]
  BY DEF Moves, BaseInv, TypeOK
<1>3. CASE k = h
  BY <1>1, <1>2, <1>3
<1>4. CASE k # h
  <2>1. req[k].stage = "idle"
    BY <1>4, OnlyIs DEF Only
  <2>2. q.stage = "idle"
    BY <1>2, <1>4 DEF Only
  <2>3. lastMessage' = Len(messages') /\ Stored(messages', 0)
    BY <1>1, <2>2 DEF Fits
  <2> QED
    BY <1>2, <1>4, <2>1, <2>3 DEF Fits
<1> QED
  BY <1>3, <1>4

LEMMA NewestBegin ==
    ASSUME BaseInv, BaseInv', NewestInv, NEW h \in Requests, NEW q, Begin(h, q), Moves(h, q),
           q.stage \in {"insert", "read", "deactivate", "participants", "leave"},
           q.stage # "deactivate" => q.cached = 0
    PROVE  NewestInv'
<1>1. h \in bounds.requests /\ req[h].stage = "idle" /\ UNCHANGED dbVars
  BY DEF Begin, At
<1>2. Sequential /\ ~bounds.faults /\ AllActive' => Fits(q, messages', lastMessage')
  <2> SUFFICES ASSUME Sequential, ~bounds.faults, AllActive' PROVE Fits(q, messages', lastMessage')
    OBVIOUS
  <2>1. AllActive
    BY <1>1 DEF AllActive, dbVars
  <2>2. Fits(req[h], messages, lastMessage)
    BY <1>1, <2>1, OnlyIs DEF NewestInv
  <2>3. lastMessage = Len(messages) /\ Stored(messages, 0)
    BY <1>1, <2>2 DEF Fits
  <2> QED
    BY <1>1, <2>3 DEF Fits, dbVars
<1> QED
  BY <1>1, <1>2, NewestMove DEF dbVars

LEMMA NewestSteps ==
    ASSUME BaseInv, BaseInv', NewestInv, NEW h \in Requests, Step(h)
    PROVE  NewestInv'
<1>0. req[h].stage # "idle" /\ UNCHANGED bounds
  BY DEF Step, insertMessage, createMany, issueRejoin, updateManyTimeJoined, updateLastMessage,
         readConversation, deactivate, getParticipants, fetchMessages, emitMessages,
         leftConversation, At, dbVars
<1>1. /\ h \in bounds.requests /\ Formed(req[h], Len(messages)) /\ Len(messages) \in Nat
      /\ req[h] \in Request
  BY <1>0, BusyIs
<1>2. SUFFICES ASSUME Sequential, ~bounds.faults, AllActive'
               PROVE  \E q : Moves(h, q) /\ Fits(q, messages', lastMessage')
  <2>1. CASE Sequential /\ ~bounds.faults /\ AllActive'
    BY <1>0, <1>1, <1>2, <2>1, NewestMove
  <2>2. CASE ~(Sequential /\ ~bounds.faults /\ AllActive')
    BY <1>0, <2>2 DEF NewestInv, Sequential
  <2> QED
    BY <2>1, <2>2
<1>3. ASSUME AllActive PROVE Fits(req[h], messages, lastMessage)
  BY <1>1, <1>2, <1>3, OnlyIs DEF NewestInv
<1>4. ASSUME UNCHANGED messages PROVE AllActive
  BY <1>2, <1>4 DEF AllActive
<1>5. ASSUME NEW s, NEW i, NEW t
      PROVE  /\ Moved(h, s, i, t).stage = s /\ Moved(h, s, i, t).message = i
             /\ Moved(h, s, i, t).cached = req[h].cached
  BY DEF Moved
<1>6. ASSUME insertMessage(h) PROVE \E q : Moves(h, q) /\ Fits(q, messages', lastMessage')
  <2> DEFINE N == Len(messages)
             s == IF req[h].attachments THEN "attach" ELSE "inserted"
             q == Moved(h, s, N + 1, req[h].at)
  <2>1. /\ Moves(h, q) /\ Len(messages') = N + 1 /\ (\A j \in 1..N : messages'[j] = messages[j])
        /\ messages'[N + 1].attachments = IF req[h].attachments THEN "missing" ELSE "none"
    BY <1>6, StepIs, InsertIs
  <2>2. AllActive
    BY <1>1, <1>2, <2>1 DEF AllActive
  <2>3. lastMessage = N /\ Stored(messages, 0) /\ req[h].cached = 0
    BY <1>3, <1>6, <2>2 DEF insertMessage, At, Fits
  <2>4. q.stage = s /\ q.message = N + 1 /\ q.cached = req[h].cached /\ s \in {"attach", "inserted"}
    BY <1>5
  <2>5. Stored(messages', N + 1) /\ (s = "inserted" => Stored(messages', 0))
    BY <1>1, <2>1, <2>3 DEF Stored
  <2> HIDE DEF q, s
  <2>6. Fits(q, messages', lastMessage')
    BY <2>1, <2>3, <2>4, <2>5 DEF Fits
  <2> QED
    BY <2>1, <2>6
<1>7. ASSUME createMany(h) PROVE \E q : Moves(h, q) /\ Fits(q, messages', lastMessage')
  <2> DEFINE q == Moved(h, "inserted", req[h].message, req[h].at)
  <2>1. /\ Moves(h, q) /\ Len(messages') = Len(messages)
        /\ \A j \in 1..Len(messages) :
              /\ messages'[j].active = messages[j].active
              /\ messages'[j].attachments =
                   IF j = req[h].message THEN "stored" ELSE messages[j].attachments
    BY <1>7, StepIs, RewriteIs
  <2>2. AllActive
    BY <1>2, <2>1 DEF AllActive
  <2>3. req[h].message = Len(messages) /\ Stored(messages, Len(messages)) /\ req[h].cached = 0
    BY <1>3, <1>7, <2>2 DEF createMany, At, Fits
  <2>4. Stored(messages', 0)
    BY <2>1, <2>3 DEF Stored
  <2>5. q.stage = "inserted" /\ q.message = req[h].message /\ q.cached = req[h].cached
    BY <1>5
  <2> HIDE DEF q
  <2>6. Fits(q, messages', lastMessage')
    BY <2>1, <2>3, <2>4, <2>5 DEF Fits
  <2> QED
    BY <2>1, <2>6
<1>8. ASSUME NEW s \in {"rejoin", "last"}, NEW t, Moves(h, Moved(h, s, req[h].message, t)),
             req[h].stage \in {"inserted", "rejoin"}, UNCHANGED messages
      PROVE  \E q : Moves(h, q) /\ Fits(q, messages', lastMessage')
  <2>1. req[h].message = Len(messages) /\ Stored(messages, 0) /\ req[h].cached = 0
    BY <1>3, <1>4, <1>8 DEF Fits
  <2> DEFINE q == Moved(h, s, req[h].message, t)
  <2>2. q.stage = s /\ q.message = req[h].message /\ q.cached = req[h].cached
    BY <1>5
  <2> HIDE DEF q
  <2>3. Fits(q, messages', lastMessage')
    BY <1>8, <2>1, <2>2 DEF Fits
  <2> QED
    BY <1>8, <2>3 DEF q
<1>9. ASSUME issueRejoin(h) PROVE \E q : Moves(h, q) /\ Fits(q, messages', lastMessage')
  BY <1>8, <1>9, StepIs DEF issueRejoin, At, dbVars
<1>10. ASSUME updateManyTimeJoined(h) PROVE \E q : Moves(h, q) /\ Fits(q, messages', lastMessage')
  BY <1>8, <1>10, StepIs DEF updateManyTimeJoined, At
<1>11. ASSUME updateLastMessage(h) PROVE \E q : Moves(h, q) /\ Fits(q, messages', lastMessage')
  <2>1. req[h].message = Len(messages) /\ Stored(messages, 0) /\ ~Deleting(h)
    BY <1>3, <1>4, <1>11 DEF updateLastMessage, At, Fits, Deleting
  <2>2. lastMessage' = Len(messages') /\ Stored(messages', 0)
    BY <1>11, <2>1 DEF updateLastMessage
  <2>3. Fits(Idle, messages', lastMessage')
    BY <2>2, IdleIs DEF Fits
  <2> QED
    BY <1>11, <2>1, <2>3, StepIs
<1>12. ASSUME readConversation(h) PROVE \E q : Moves(h, q) /\ Fits(q, messages', lastMessage')
  <2>1. UNCHANGED <<messages, lastMessage>> /\ req[h].stage = "read"
    BY <1>12 DEF readConversation, At, dbVars
  <2>2. lastMessage = Len(messages) /\ Stored(messages, 0) /\ req[h].cached = 0
    BY <1>3, <1>4, <2>1 DEF Fits
  <2>3. CASE Moves(h, Idle)
    BY <2>1, <2>2, <2>3, IdleIs DEF Fits
  <2>4. CASE lastMessage = req[h].message /\ Moves(h, Moved(h, "last", req[h].message, req[h].at))
    <3> DEFINE q == Moved(h, "last", req[h].message, req[h].at)
    <3>1. q.stage = "last" /\ q.message = req[h].message /\ q.cached = req[h].cached
      BY <1>5
    <3> HIDE DEF q
    <3>2. Fits(q, messages', lastMessage')
      BY <2>1, <2>2, <2>4, <3>1 DEF Fits
    <3> QED
      BY <2>4, <3>2 DEF q
  <2> QED
    BY <1>12, <2>3, <2>4, StepIs
<1>13. ASSUME deactivate(h) PROVE FALSE
  <2>1. req[h].message \in 1..Len(messages)
    BY <1>1, <1>13 DEF deactivate, At, Formed
  <2>2. Len(messages') = Len(messages) /\ ~messages'[req[h].message].active
    BY <1>13, <2>1, RewriteIs
  <2> QED
    BY <1>2, <2>1, <2>2 DEF AllActive
<1>14. ASSUME getParticipants(h) \/ fetchMessages(h) \/ emitMessages(h)
       PROVE  \E q : Moves(h, q) /\ Fits(q, messages', lastMessage')
  <2>1. /\ UNCHANGED <<messages, lastMessage>>
        /\ req[h].stage \in {"participants", "fetch", "emit"}
    BY <1>14 DEF getParticipants, fetchMessages, emitMessages, At, dbVars
  <2>2. lastMessage = Len(messages) /\ Stored(messages, 0) /\ req[h].cached = 0
    BY <1>3, <1>4, <2>1 DEF Fits
  <2>3. PICK q : Moves(h, q) /\ q.stage \in {"idle", "fetch", "emit"} /\ q.cached = 0
    <3>1. CASE getParticipants(h)
      BY <1>5, <2>2, <3>1, StepIs
    <3>2. CASE fetchMessages(h)
      BY <2>2, <3>2, FetchIs DEF Deleting
    <3>3. CASE emitMessages(h)
      BY <3>3, StepIs, IdleIs
    <3> QED
      BY <1>14, <3>1, <3>2, <3>3
  <2>4. Fits(q, messages', lastMessage')
    BY <2>1, <2>2, <2>3 DEF Fits
  <2> QED
    BY <2>3, <2>4
<1>15. ASSUME leftConversation(h) PROVE \E q : Moves(h, q) /\ Fits(q, messages', lastMessage')
  <2>1. UNCHANGED <<messages, lastMessage>> /\ req[h].stage = "leave" /\ Moves(h, Idle)
    BY <1>15, StepIs DEF leftConversation, At
  <2>2. lastMessage = Len(messages) /\ Stored(messages, 0)
    BY <1>3, <1>4, <2>1 DEF Fits
  <2> QED
    BY <2>1, <2>2, IdleIs DEF Fits
<1> QED
  BY <1>6, <1>7, <1>9, <1>10, <1>11, <1>12, <1>13, <1>14, <1>15 DEF Step

LEMMA NewestStep == BaseInv /\ BaseInv' /\ NewestInv /\ [Next]_vars => NewestInv'
<1> SUFFICES ASSUME BaseInv, BaseInv', NewestInv, [Next]_vars PROVE NewestInv'
  OBVIOUS
<1>1. CASE Clients
  <2>1. ASSUME NEW h \in Requests, NEW m \in Members, NEW a \in bounds.attachments,
               sendMessage(h, m, a)
        PROVE  NewestInv'
    BY <2>1, SendIs, NewestBegin
  <2>2. ASSUME NEW h \in Requests, NEW m \in Members, deleteConversation(h, m) PROVE NewestInv'
    BY <2>2, LeaveIs, NewestBegin
  <2>3. ASSUME NEW h \in Requests, NEW i \in MessageIds, updateMessage(h, i) PROVE NewestInv'
    BY <2>3, EditIs, NewestBegin
  <2>4. ASSUME NEW h \in Requests, NEW m \in Members, NEW to \in Members, NEW i \in MessageIds,
               NEW c \in MessageIds, deleteMessage(h, m, to, i, c)
        PROVE  NewestInv'
    BY <2>4, RemoveIs, NewestBegin
  <2>5. ASSUME NEW h \in Requests, NEW m \in Members, requestAllMessages(h, m) PROVE NewestInv'
    BY <2>5, AskIs, NewestBegin
  <2> QED
    BY <1>1, <2>1, <2>2, <2>3, <2>4, <2>5 DEF Clients
<1>2. CASE (\E h \in Requests : Throw(h)) \/ Restart
  BY <1>2 DEF Throw, Restart, NewestInv, dbVars
<1>3. CASE Tick \/ UNCHANGED vars
  BY <1>3 DEF Tick, vars, dbVars, NewestInv, Sequential, AllActive, Only
<1> QED
  BY <1>1, <1>2, <1>3, NewestSteps DEF Next

LEMMA NewestInvariant == Spec => []NewestInv
<1>1. Init => NewestInv
  <2> SUFFICES ASSUME Init PROVE NewestInv
    OBVIOUS
  <2>1. Len(messages) = 0 /\ lastMessage = 0 /\ \A h \in Requests : req[h].stage = "idle"
    BY EmptySeq, IdleIs DEF Init
  <2> QED
    BY <2>1 DEF NewestInv, Fits, Stored
<1> QED
  BY <1>1, BaseInvariant, NewestStep, PTL DEF Spec

(* Between requests that do not overlap or fail, and as long as no message   *)
(* has been deleted, the last message is the newest one, and attachments are *)
(* stored.                                                                   *)
THEOREM NewestIsLast == Spec => []LastIsNewest
<1>1. BaseInv /\ NewestInv => LastIsNewest
  <2> SUFFICES ASSUME BaseInv, NewestInv, Sequential, ~bounds.faults,
                      \A h \in Requests : At(h, "idle"),
                      \A i \in DOMAIN messages : messages[i].active
               PROVE  /\ lastMessage = Len(messages)
                      /\ \A i \in DOMAIN messages : messages[i].attachments # "missing"
    BY DEF LastIsNewest
  <2>1. DOMAIN messages = 1..Len(messages) /\ Len(messages) \in Nat
    BY DEF BaseInv, TypeOK
  <2>2. bounds.requests \in SUBSET Requests
    BY ChatAssumption DEF BaseInv, TypeOK
  <2>3. IsFiniteSet(bounds.requests)
    BY <2>2, ChatAssumption, FS_Subset
  <2>4. PICK h \in Requests : bounds.requests = {h}
    BY <2>2, <2>3, FS_Singleton DEF Sequential
  <2>5. Fits(req[h], messages, lastMessage) /\ req[h].stage = "idle"
    BY <2>1, <2>4, OnlyIs DEF NewestInv, AllActive, At
  <2>6. \A i \in 1..Len(messages) : i # 0
    BY <2>1
  <2> QED
    BY <2>1, <2>5, <2>6 DEF Fits, Stored
<1> QED
  BY <1>1, BaseInvariant, NewestInvariant, PTL
=============================================================================
