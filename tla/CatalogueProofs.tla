---------------------------- MODULE CatalogueProofs ----------------------------
(***************************************************************************)
(* Proofs about the administered collections, for any collection, number   *)
(* of requests and page size.                                              *)
(***************************************************************************)
EXTENDS Browsing, FiniteSetTheorems, TLAPS

\* What a request in flight is about.
Formed(q) ==
    /\ q \in Request
    /\ q.stage \in {"key", "default", "last", "new", "insert", "write"} =>
          q.key \in Keys /\ q.flag \in Flags
    /\ q.stage \in {"last", "new", "insert"} => q.op = "create"
    /\ q.op = "create" /\ q.stage # "insert" => q.id = 0
    /\ q.stage \in {"new", "insert"} => q.code > 0
    /\ q.stage = "insert" => q.id \in Ids
    /\ q.stage \in {"count", "status"} => world.kind = "package"

BaseInv ==
    /\ TypeOK
    /\ UniqueIndexes(docs)
    /\ \A d \in docs : d.id < nextId
    /\ \A r \in Requests :
          Formed(req[r]) /\ (req[r].stage = "insert" => req[r].id < nextId)

Codes(D) == {d.code : d \in D}

\* Codes are ordered like ids.
Ordered(D) == \A d, e \in D : d.id < e.id <=> d.code < e.code

\* Codes have no gaps, no create has read a code above the next one, and what a
\* create has read was there before its id was made.
NumberedInv ==
    ~world.deletes =>
        /\ Ordered(docs)
        /\ \E n \in Nat :
              /\ Codes(docs) = 1..n
              /\ \A r \in Requests : req[r].stage \in {"new", "insert"} => req[r].code <= n + 1
        /\ \A r \in Requests : req[r].stage = "insert" =>
              \A d \in docs : d.code < req[r].code => d.id < req[r].id

\* What a request has found of the collection D, and what stays so as long as
\* it is alone: no document has its key or a greater code, no other one is the
\* default, one more may be active.
Free(q, D) ==
    /\ q.op = "create" /\ q.stage \in {"default", "last", "new", "insert"} =>
          \A d \in D : d.key # q.key
    /\ q.stage \in {"new", "insert"} => \A d \in D : d.code < q.code
    /\ q.stage = "insert" => \A d \in D : d.id < q.id

Undefaulted(q, D) ==
    /\ q.flag /\ q.stage \in {"last", "new", "insert"} => \A d \in D : ~d.flag
    /\ q.flag /\ q.stage = "write" => \A d \in D : d.flag => d.id = q.id

ActiveIds(D) == {d.id : d \in {e \in D : e.flag}}

Activates(q, D) == q.flag /\ q.stage = "status" => Cardinality(ActiveIds(D)) < MaxActive

Found(q, D) ==
    /\ Free(q, D)
    /\ HasDefault /\ world.flagged <= 1 => Undefaulted(q, D)
    /\ world.kind = "package" /\ world.flagged <= MaxActive => Activates(q, D)

\* What holds of the collection D when requests do not overlap.
Kept(D) ==
    /\ Ordered(D)
    /\ HasDefault /\ world.flagged <= 1 => \A i, j \in ActiveIds(D) : i = j
    /\ world.kind = "package" /\ world.flagged <= MaxActive =>
          Cardinality(ActiveIds(D)) <= MaxActive

\* No request is in flight besides this one.
Alone == \A r, s \in Requests : req[r].stage # "idle" /\ req[s].stage # "idle" => r = s

SoleInv ==
    world.requests <= 1 =>
        Alone /\ Kept(docs) /\ \A r \in Requests : Found(req[r], docs)

\* Only request r moves, and is n afterwards.
Moves(r, n) == Formed(n) /\ req' = [req EXCEPT ![r] = n]

\* Documents keep their ids and codes.
Rewritten(D, E) ==
    \E f \in [D -> Doc] :
        /\ E = {f[d] : d \in D}
        /\ \A d \in D : f[d].id = d.id /\ f[d].code = d.code

-----------------------------------------------------------------------------
(* Numbers.                                                                *)

Above(V, v) == Cardinality({w \in V : w > v})

(* Of n numbers, as many are above each as it has predecessors from the top: *)
(* 0 to n - 1, each for one of them.                                         *)
LEMMA AboveLess ==
    ASSUME NEW V, V \subseteq Nat, IsFiniteSet(V), NEW v \in V, NEW w \in V, v < w
    PROVE  Above(V, w) < Above(V, v)
<1> DEFINE Over(x) == {y \in V : y > x}
<1>1. \A x : /\ IsFiniteSet(Over(x)) /\ Cardinality(Over(x)) \in Nat
             /\ Above(V, x) = Cardinality(Over(x))
  BY FS_Subset, FS_CardinalityType DEF Above
<1>2. Over(w) \in SUBSET Over(v) /\ w \in Over(v) /\ w \notin Over(w)
  <2>1. v \in Nat /\ w \in Nat /\ \A x \in V : x \in Nat
    OBVIOUS
  <2>2. \A x \in V : x > w => x > v
    BY <2>1
  <2>3. w > v /\ ~(w > w)
    BY <2>1
  <2> QED
    BY <2>2, <2>3
<1> HIDE DEF Over
<1>3. /\ Cardinality(Over(w)) <= Cardinality(Over(v))
      /\ Cardinality(Over(v)) = Cardinality(Over(w)) => Over(v) = Over(w)
  BY <1>1, <1>2, FS_Subset
<1> QED
  BY <1>1, <1>2, <1>3

LEMMA AboveBound ==
    ASSUME NEW V, V \subseteq Nat, IsFiniteSet(V), NEW v \in V
    PROVE  Above(V, v) \in 0..(Cardinality(V) - 1)
<1> DEFINE Over == {y \in V : y > v}
<1>1. Over \in SUBSET V /\ v \in V /\ v \notin Over
  <2>1. v \in Nat
    OBVIOUS
  <2> QED
    BY <2>1
<1>2. Above(V, v) = Cardinality(Over)
  BY DEF Above
<1> HIDE DEF Over
<1>3. /\ IsFiniteSet(Over) /\ Cardinality(Over) <= Cardinality(V)
      /\ Cardinality(V) = Cardinality(Over) => V = Over
  BY <1>1, FS_Subset
<1>4. Cardinality(V) \in Nat /\ Cardinality(Over) \in Nat
  BY <1>3, FS_CardinalityType
<1> QED
  BY <1>1, <1>2, <1>3, <1>4

(* A finite set of numbers has a greatest.                                   *)
LEMMA Greatest ==
    ASSUME NEW V, V \subseteq Nat, IsFiniteSet(V), V # {}
    PROVE  \E m \in V : \A v \in V : v <= m
<1> DEFINE last == Cardinality(V) - 1
           above == [v \in V |-> Above(V, v)]
<1>1. Cardinality(V) \in Nat \ {0}
  BY FS_CardinalityType, FS_EmptySet
<1>2. above \in Injection(V, 0..last)
  <2>1. above \in [V -> 0..last]
    BY AboveBound
  <2>2. ASSUME NEW v \in V, NEW w \in V, above[v] = above[w] PROVE v = w
    <3>1. Above(V, v) = Above(V, w) /\ v \in Nat /\ w \in Nat
      BY <2>2
    <3>0. Above(V, v) \in 0..(Cardinality(V) - 1)
      BY AboveBound
    <3>2. ~(v < w) /\ ~(w < v)
      <4>1. v < w => Above(V, w) < Above(V, v)
        BY AboveLess
      <4>2. w < v => Above(V, v) < Above(V, w)
        BY AboveLess
      <4> QED
        BY <3>0, <3>1, <4>1, <4>2
    <3> QED
      BY <3>1, <3>2
  <2> QED
    BY <2>1, <2>2 DEF Injection, IsInjective
<1>3. IsFiniteSet(0..last) /\ Cardinality(0..last) = Cardinality(V) /\ 0 \in 0..last
  <2>1. last \in Nat /\ Cardinality(V) = last - 0 + 1
    BY <1>1
  <2> HIDE DEF last
  <2> QED
    BY <2>1, FS_Interval
<1>4. above \in Surjection(V, 0..last)
  <2> HIDE DEF above, last
  <2> QED
    BY <1>2, <1>3, FS_Injection
<1>5. PICK m \in V : Above(V, m) = 0
  <2>1. PICK m \in V : above[m] = 0
    <3> HIDE DEF above, last
    <3> QED
      BY <1>3, <1>4 DEF Surjection
  <2> QED
    BY <2>1
<1>6. {w \in V : w > m} = {}
  <2>1. IsFiniteSet({w \in V : w > m})
    BY FS_Subset
  <2> QED
    BY <1>5, <2>1, FS_EmptySet DEF Above
<1>7. m \in Nat /\ \A v \in V : v \in Nat /\ ~(v > m)
  BY <1>6
<1> QED
  BY <1>7

-----------------------------------------------------------------------------
(* Documents.                                                              *)

(* A collection is finite, and has as many documents as ids and as codes.    *)
LEMMA Counted ==
    ASSUME NEW D, D \subseteq Doc, UniqueIndexes(D)
    PROVE  /\ IsFiniteSet(D) /\ IsFiniteSet(IdsOf(D)) /\ IdsOf(D) \subseteq Nat
           /\ Cardinality(IdsOf(D)) = Cardinality(D)
           /\ Cardinality(Codes(D)) = Cardinality(D)
<1>1. \A d \in D : d.id \in Ids
  BY DEF Doc
<1>2. Ids \subseteq Nat /\ IsFiniteSet(Ids)
  BY CatalogueAssumption, FS_Interval DEF Ids
<1>3. IdsOf(D) \subseteq Nat /\ IsFiniteSet(IdsOf(D))
  <2>1. IdsOf(D) \in SUBSET Ids
    BY <1>1 DEF IdsOf
  <2> QED
    BY <1>2, <2>1, FS_Subset
<1> DEFINE id == [d \in D |-> d.id]
           code == [d \in D |-> d.code]
<1>4. id \in Bijection(D, IdsOf(D))
  BY DEF IdsOf, UniqueIndexes, Bijection, Injection, Surjection, IsInjective
<1>5. code \in Bijection(D, Codes(D))
  BY DEF Codes, UniqueIndexes, Bijection, Injection, Surjection, IsInjective
<1> HIDE DEF id, code
<1>6. IsFiniteSet(D)
  BY <1>3, <1>4, FS_Injection DEF Bijection
<1>7. /\ ExistsBijection(D, IdsOf(D)) /\ ExistsBijection(D, Codes(D))
  BY <1>4, <1>5 DEF ExistsBijection
<1> QED
  BY <1>3, <1>6, <1>7, FS_Bijection

(* There is a last document.                                                 *)
LEMMA LastIs ==
    ASSUME NEW D, D \subseteq Doc, UniqueIndexes(D), D # {}
    PROVE  Last(D) \in D /\ \A e \in D : e.id <= Last(D).id
<1>1. IdsOf(D) # {}
  BY DEF IdsOf
<1>2. PICK m \in IdsOf(D) : \A i \in IdsOf(D) : i <= m
  BY <1>1, Counted, Greatest
<1>3. PICK d \in D : d.id = m
  BY DEF IdsOf
<1>4. \A e \in D : e.id <= d.id
  BY <1>2, <1>3 DEF IdsOf
<1> QED
  BY <1>4 DEF Last

(* A write changes neither ids nor codes.                                    *)
LEMMA RewrittenKeeps ==
    ASSUME NEW D, NEW E, D \subseteq Doc, Rewritten(D, E)
    PROVE  /\ E \subseteq Doc
           /\ Codes(E) = Codes(D) /\ IdsOf(E) = IdsOf(D)
           /\ \A e \in E : \E d \in D : e.id = d.id /\ e.code = d.code
<1>1. PICK f \in [D -> Doc] :
        /\ E = {f[d] : d \in D}
        /\ \A d \in D : f[d].id = d.id /\ f[d].code = d.code
  BY DEF Rewritten
<1>2. E \subseteq Doc
  BY <1>1
<1>3. \A e \in E : \E d \in D : e.id = d.id /\ e.code = d.code
  BY <1>1
<1>4. \A d \in D : \E e \in E : e.id = d.id /\ e.code = d.code
  BY <1>1
<1> QED
  BY <1>2, <1>3, <1>4 DEF Codes, IdsOf

(* What write and writeStatus do to the collection, unless the index rejects *)
(* it.                                                                       *)
LEMMA WriteIs ==
    ASSUME BaseInv, NEW r \in Requests, write(r)
    PROVE  docs' = docs \/ (Rewritten(docs, docs') /\ UniqueIndexes(docs'))
<1> DEFINE f == [d \in docs |-> IF d.id = req[r].id THEN Written(r, d) ELSE d]
           new == {f[d] : d \in docs}
<1>1. req[r].key \in Keys /\ req[r].flag \in BOOLEAN
  BY DEF write, At, BaseInv, Formed, Request
<1>2. ASSUME NEW d \in docs
      PROVE  f[d] \in Doc /\ f[d].id = d.id /\ f[d].code = d.code
  <2>1. d \in Doc
    BY DEF BaseInv, TypeOK
  <2>2. Written(r, d) \in Doc /\ Written(r, d).id = d.id /\ Written(r, d).code = d.code
    BY <1>1, <2>1 DEF Written, Doc
  <2> QED
    BY <2>1, <2>2
<1>3. docs' = IF UniqueIndexes(new) THEN new ELSE docs
  <2>1. new = {IF d.id = req[r].id THEN Written(r, d) ELSE d : d \in docs}
    OBVIOUS
  <2> QED
    BY <2>1 DEF write
<1>4. f \in [docs -> Doc]
  BY <1>2
<1> HIDE DEF f
<1>5. Rewritten(docs, new)
  BY <1>2, <1>4 DEF Rewritten
<1> QED
  BY <1>3, <1>5

-----------------------------------------------------------------------------
(* How requests move.                                                      *)

(* A free slot.                                                              *)
LEMMA IdleIs ==
    /\ Formed(Idle) /\ Idle \in Request
    /\ Idle.stage = "idle" /\ Idle.op = "create" /\ Idle.id = 0
BY CatalogueAssumption DEF Formed, Idle, Request, Stages, Ids, NoKey

\* Request n is about the same as q.
About(n, q) ==
    n.op = q.op /\ n.id = q.id /\ n.key = q.key /\ n.flag = q.flag

(* A request goes on to a stage of its own kind.                             *)
LEMMA GotoIs ==
    ASSUME TypeOK, NEW r \in Requests, Formed(req[r]), NEW s, Goto(r, s),
           \/ /\ s \in {"default", "last", "write"} /\ req[r].stage \in {"key", "default"}
              /\ s = "last" => req[r].op = "create"
           \/ s = "status" /\ req[r].stage = "count"
    PROVE  \E n : Moves(r, n) /\ n.stage = s /\ About(n, req[r])
<1> DEFINE n == [req[r] EXCEPT !.stage = s]
<1>1. req' = [req EXCEPT ![r] = n]
  BY DEF Goto
<1>2. s \in Stages /\ req[r] \in Request
  BY DEF Stages, Formed
<1>3. /\ n \in Request /\ n.stage = s /\ n.code = req[r].code /\ About(n, req[r])
  BY <1>2 DEF Request, About
<1> HIDE DEF n
<1>4. Formed(n)
  BY <1>3 DEF Formed, About
<1> QED
  BY <1>1, <1>3, <1>4 DEF Moves

(* A request begins: create, update or updateStatus.                         *)
LEMMA CreateIs ==
    ASSUME BaseInv, NEW r \in Requests, NEW k \in Keys, NEW f \in BOOLEAN, create(r, k, f)
    PROVE  \E n : Moves(r, n) /\ n.stage = "key" /\ n.op = "create"
<1> DEFINE n == [Idle EXCEPT !.stage = "key", !.key = k, !.flag = f]
<1>1. req' = [req EXCEPT ![r] = n] /\ f \in Flags
  BY DEF create, Begin
<1>2. /\ n \in Request /\ n.stage = "key" /\ n.op = "create" /\ n.id = 0 /\ n.key = k
      /\ n.flag = f
  BY IdleIs DEF Request, Stages
<1> HIDE DEF n
<1> QED
  BY <1>1, <1>2 DEF Moves, Formed

LEMMA UpdateIs ==
    ASSUME BaseInv, NEW r \in Requests, NEW id \in Ids, NEW k \in Keys, NEW f \in BOOLEAN,
           update(r, id, k, f)
    PROVE  \E n : Moves(r, n) /\ n.stage = "key" /\ n.op = "update"
<1> DEFINE n == [Idle EXCEPT !.stage = "key", !.op = "update", !.id = id, !.key = k, !.flag = f]
<1>0. id \in 0..MaxId
  BY CatalogueAssumption DEF Ids
<1>1. req' = [req EXCEPT ![r] = n] /\ f \in Flags
  BY DEF update, Begin
<1>2. /\ n \in Request /\ n.stage = "key" /\ n.op = "update" /\ n.id = id /\ n.key = k
      /\ n.flag = f
  BY <1>0, IdleIs DEF Request, Stages
<1> HIDE DEF n
<1> QED
  BY <1>1, <1>2 DEF Moves, Formed

LEMMA UpdateStatusIs ==
    ASSUME BaseInv, NEW r \in Requests, NEW id \in Ids, NEW active \in BOOLEAN,
           updateStatus(r, id, active)
    PROVE  \E n : /\ Moves(r, n)
                  /\ n.stage = (IF active THEN "count" ELSE "status")
                  /\ n.op = "update" /\ n.flag = active
<1> DEFINE s == IF active THEN "count" ELSE "status"
           n == [Idle EXCEPT !.stage = s, !.op = "update", !.id = id, !.flag = active]
<1>1. req' = [req EXCEPT ![r] = n]
  BY DEF updateStatus, Begin
<1>2. s \in {"count", "status"} /\ id \in 0..MaxId
  BY CatalogueAssumption DEF Ids
<1>3. /\ n \in Request /\ n.stage = s /\ n.op = "update" /\ n.id = id /\ n.flag = active
  BY <1>2, IdleIs DEF Request, Stages
<1> HIDE DEF n
<1>4. Formed(n)
  BY <1>2, <1>3 DEF Formed, updateStatus
<1> QED
  BY <1>1, <1>3, <1>4 DEF Moves

(* The checks of create and update: they end the request or have found that  *)
(* no other document has the key, or that no other one is the default.       *)
LEMMA CheckIs ==
    ASSUME BaseInv, NEW r \in Requests, checkKeyExist(r) \/ checkDefaultExist(r)
    PROVE  \E n :
             /\ Moves(r, n)
             /\ \/ n = Idle
                \/ /\ n.stage \in {"default", "last", "write"} /\ About(n, req[r])
                   /\ req[r].stage \in {"key", "default"}
                   /\ req[r].stage = "key" => \A d \in docs : d.key = n.key => d.id = n.id
                   /\ n.flag /\ n.stage # "default" => \A d \in docs : d.flag => d.id = n.id
<1> DEFINE q == req[r]
<1>0. TypeOK /\ Formed(q) /\ q.op \in {"create", "update"}
  BY DEF BaseInv, Formed, Request
<1>1. CASE Finish(r)
  BY <1>1, IdleIs DEF Finish, Moves
<1>2. CASE checkKeyExist(r) /\ ~Finish(r)
  <2>1. q.stage = "key" /\ \A d \in docs : d.key = q.key => d.id = q.id
    BY <1>2 DEF checkKeyExist, At
  <2>2. CASE Goto(r, "default")
    BY <1>0, <2>1, <2>2, GotoIs DEF About
  <2>3. CASE Checked(r) /\ ~q.flag
    <3>1. PICK s \in {"last", "write"} : Goto(r, s) /\ (s = "last" => q.op = "create")
      BY <2>3 DEF Checked
    <3> QED
      BY <1>0, <2>1, <2>3, <3>1, GotoIs DEF About
  <2> QED
    BY <1>2, <2>2, <2>3 DEF checkKeyExist
<1>3. CASE checkDefaultExist(r) /\ ~Finish(r)
  <2>1. q.stage = "default" /\ (\A d \in docs : d.flag => d.id = q.id) /\ Checked(r)
    BY <1>3 DEF checkDefaultExist, At
  <2>2. PICK s \in {"last", "write"} : Goto(r, s) /\ (s = "last" => q.op = "create")
    BY <2>1 DEF Checked
  <2> QED
    BY <1>0, <2>1, <2>2, GotoIs DEF About
<1> QED
  BY <1>1, <1>2, <1>3

LEMMA ReadLastIs ==
    ASSUME BaseInv, NEW r \in Requests, readLast(r)
    PROVE  \E n : /\ Moves(r, n) /\ n.stage = "new" /\ About(n, req[r])
                  /\ req[r].stage = "last" /\ n.code = NextCode(docs)
<1> DEFINE n == [req[r] EXCEPT !.stage = "new", !.code = NextCode(docs)]
<1>0. Formed(req[r]) /\ req[r].stage = "last" /\ req[r] \in Request
  BY DEF BaseInv, Formed, readLast, At
<1>1. req' = [req EXCEPT ![r] = n]
  BY DEF readLast
<1>2. NextCode(docs) \in Nat \ {0}
  <2>1. docs \subseteq Doc /\ UniqueIndexes(docs)
    BY DEF BaseInv, TypeOK
  <2>2. docs # {} => Last(docs).code \in Nat \ {0}
    BY <2>1, LastIs DEF Doc
  <2> QED
    BY <2>2 DEF NextCode
<1>3. /\ n \in Request /\ n.stage = "new" /\ About(n, req[r]) /\ n.code = NextCode(docs)
  BY <1>0, <1>2 DEF Request, Stages, About
<1> HIDE DEF n
<1>4. Formed(n)
  BY <1>0, <1>2, <1>3 DEF Formed, About
<1> QED
  BY <1>0, <1>1, <1>3, <1>4 DEF Moves

LEMMA NewDocumentIs ==
    ASSUME BaseInv, NEW r \in Requests, newDocument(r)
    PROVE  \E n : /\ Moves(r, n) /\ n.stage = "insert" /\ n.id = nextId
                  /\ n.op = req[r].op /\ n.key = req[r].key /\ n.flag = req[r].flag
                  /\ n.code = req[r].code /\ req[r].stage = "new"
<1> DEFINE n == [req[r] EXCEPT !.stage = "insert", !.id = nextId]
<1>0. Formed(req[r]) /\ req[r].stage = "new" /\ req[r] \in Request
  BY DEF BaseInv, Formed, newDocument, At
<1>1. req' = [req EXCEPT ![r] = n]
  BY DEF newDocument
<1>2. nextId \in Ids /\ nextId \in 0..MaxId
  BY CatalogueAssumption DEF newDocument, BaseInv, TypeOK, World, Ids
<1>3. /\ n \in Request /\ n.stage = "insert" /\ n.id = nextId
      /\ n.op = req[r].op /\ n.key = req[r].key /\ n.flag = req[r].flag
      /\ n.code = req[r].code
  BY <1>0, <1>2 DEF Request, Stages
<1> HIDE DEF n
<1>4. Formed(n)
  BY <1>0, <1>2, <1>3 DEF Formed
<1> QED
  BY <1>0, <1>1, <1>3, <1>4 DEF Moves

(* writeStatus keeps all but the flag.                                       *)
LEMMA WriteStatusIs ==
    ASSUME BaseInv, NEW r \in Requests, writeStatus(r)
    PROVE  Rewritten(docs, docs') /\ UniqueIndexes(docs')
<1> DEFINE f == [d \in docs |-> IF d.id = req[r].id THEN [d EXCEPT !.flag = req[r].flag] ELSE d]
<1>1. req[r].flag \in BOOLEAN
  BY DEF BaseInv, Formed, Request
<1>2. ASSUME NEW d \in docs
      PROVE  /\ f[d] \in Doc /\ f[d].id = d.id /\ f[d].code = d.code /\ f[d].key = d.key
  <2>1. d \in Doc
    BY DEF BaseInv, TypeOK
  <2> QED
    BY <1>1, <2>1 DEF Doc
<1>3. docs' = {f[d] : d \in docs}
  BY DEF writeStatus
<1>4. f \in [docs -> Doc]
  BY <1>2
<1> HIDE DEF f
<1>5. Rewritten(docs, docs')
  BY <1>2, <1>3, <1>4 DEF Rewritten
<1>6. UniqueIndexes(docs')
  BY <1>2, <1>3 DEF UniqueIndexes, BaseInv
<1> QED
  BY <1>5, <1>6

-----------------------------------------------------------------------------
(* The base of the other invariants.                                       *)

(* A request moves and the collection stays.                                 *)
LEMMA BaseMove ==
    ASSUME BaseInv, NEW r \in Requests, NEW n, Moves(r, n),
           n.stage = "insert" => n.id < nextId',
           nextId' \in 1..(MaxId + 1), nextId <= nextId', UNCHANGED world,
           docs' \subseteq Doc, UniqueIndexes(docs'), \A d \in docs' : d.id < nextId
    PROVE  BaseInv'
<1>1. \A d \in docs' : d.id < nextId'
  <2>1. \A d \in docs' : d.id \in Nat
    BY CatalogueAssumption DEF Doc, Ids
  <2>2. nextId \in Nat /\ nextId' \in Nat
    BY CatalogueAssumption DEF BaseInv, TypeOK
  <2> QED
    BY <2>1, <2>2
<1>2. n \in Request /\ req' \in [Requests -> Request]
  BY DEF Moves, Formed, BaseInv, TypeOK
<1>3. \A q : Formed(q)' <=> Formed(q)
  BY DEF Formed, Flags, HasDefault
<1>4. ASSUME NEW x \in Requests, NEW q, q = req'[x] PROVE Formed(q)'
  BY <1>2, <1>3, <1>4 DEF Moves, BaseInv, TypeOK
<1>5. ASSUME NEW x \in Requests, req'[x].stage = "insert" PROVE req'[x].id < nextId'
  <2>1. CASE x = r
    BY <1>2, <1>5, <2>1 DEF Moves, BaseInv, TypeOK
  <2>2. CASE x # r
    <3>1. req'[x] = req[x] /\ req[x] \in Request
      BY <1>2, <2>2 DEF Moves, BaseInv, TypeOK
    <3>2. req[x].id < nextId /\ req[x].id \in Nat /\ nextId \in Nat /\ nextId' \in Nat
      BY <1>5, <3>1, CatalogueAssumption DEF BaseInv, TypeOK, Request
    <3> QED
      BY <3>1, <3>2
  <2> QED
    BY <2>1, <2>2
<1> QED
  BY <1>1, <1>2, <1>4, <1>5 DEF BaseInv, TypeOK

(* Documents that are kept, deleted or written have old ids.                 *)
LEMMA OldIds ==
    ASSUME BaseInv, docs' \subseteq docs \/ Rewritten(docs, docs')
    PROVE  docs' \subseteq Doc /\ \A d \in docs' : d.id < nextId
<1>1. CASE docs' \subseteq docs
  BY <1>1 DEF BaseInv, TypeOK
<1>2. CASE Rewritten(docs, docs')
  BY <1>2, RewrittenKeeps DEF BaseInv, TypeOK
<1> QED
  BY <1>1, <1>2

(* A request that only looks, or ends, leaves the collection as it is.       *)
LEMMA BaseLook ==
    ASSUME BaseInv, NEW r \in Requests, NEW n, Moves(r, n), n.stage # "insert",
           UNCHANGED <<world, docs, nextId>>
    PROVE  BaseInv'
<1>1. nextId \in 1..(MaxId + 1) /\ nextId <= nextId
  BY CatalogueAssumption DEF BaseInv, TypeOK
<1>2. docs' \subseteq docs
  OBVIOUS
<1> QED
  BY <1>1, <1>2, OldIds, BaseMove DEF BaseInv

(* What insert does to the collection.                                       *)
LEMMA InsertIs ==
    ASSUME BaseInv, NEW r \in Requests, insert(r)
    PROVE  /\ Moves(r, Idle) /\ req[r].stage = "insert" /\ req[r].op = "create"
           /\ NewDoc(r) \in Doc
           /\ \/ docs' = docs
              \/ docs' = docs \cup {NewDoc(r)} /\ UniqueIndexes(docs')
<1>1. /\ req[r].stage = "insert" /\ Formed(req[r]) /\ req[r] \in Request
  BY DEF insert, At, BaseInv, Formed
<1>2. NewDoc(r) \in Doc
  BY <1>1 DEF Formed, NewDoc, Doc, Request
<1> QED
  BY <1>1, <1>2, IdleIs DEF insert, Finish, Moves, Formed

LEMMA BaseStep == BaseInv /\ [Next]_<<vars, browse>> => BaseInv'
<1> SUFFICES ASSUME BaseInv, [Next]_<<vars, browse>> PROVE BaseInv'
  OBVIOUS
<1>0. nextId \in 1..(MaxId + 1) /\ nextId <= nextId
  BY CatalogueAssumption DEF BaseInv, TypeOK
<1>1. CASE CatalogueNext
  <2>1. ASSUME NEW r \in Requests, NEW k \in Keys, NEW f \in BOOLEAN, create(r, k, f)
        PROVE  BaseInv'
    BY <2>1, CreateIs, BaseLook DEF create, Begin
  <2>2. ASSUME NEW r \in Requests, NEW id \in Ids, NEW k \in Keys, NEW f \in BOOLEAN,
               update(r, id, k, f)
        PROVE  BaseInv'
    BY <2>2, UpdateIs, BaseLook DEF update, Begin
  <2>3. ASSUME NEW r \in Requests, checkKeyExist(r) \/ checkDefaultExist(r) PROVE BaseInv'
    BY <2>3, CheckIs, IdleIs, BaseLook DEF checkKeyExist, checkDefaultExist
  <2>4. ASSUME NEW r \in Requests, readLast(r) PROVE BaseInv'
    BY <2>4, ReadLastIs, BaseLook DEF readLast
  <2>5. ASSUME NEW r \in Requests, newDocument(r) PROVE BaseInv'
    <3>1. PICK n : Moves(r, n) /\ n.id = nextId
      BY <2>5, NewDocumentIs
    <3>2. nextId' \in 1..(MaxId + 1) /\ nextId <= nextId' /\ nextId < nextId'
      BY <2>5, CatalogueAssumption DEF newDocument, BaseInv, TypeOK, World, Ids
    <3> QED
      BY <2>5, <3>1, <3>2, BaseMove DEF newDocument, BaseInv, TypeOK
  <2>6. ASSUME NEW r \in Requests, insert(r) PROVE BaseInv'
    <3>1. /\ Moves(r, Idle) /\ Idle.stage # "insert" /\ NewDoc(r) \in Doc
          /\ docs' = docs \/ (docs' = docs \cup {NewDoc(r)} /\ UniqueIndexes(docs'))
      BY <2>6, InsertIs, IdleIs
    <3>2. CASE docs' = docs
      BY <2>6, <3>1, <3>2, BaseLook DEF insert
    <3>3. CASE docs' = docs \cup {NewDoc(r)} /\ UniqueIndexes(docs')
      <4>1. NewDoc(r).id < nextId
        BY <2>6 DEF insert, At, BaseInv, NewDoc
      <4> QED
        BY <1>0, <2>6, <3>1, <3>3, <4>1, BaseMove DEF insert, BaseInv, TypeOK
    <3> QED
      BY <3>1, <3>2, <3>3
  <2>7. ASSUME NEW r \in Requests, write(r) PROVE BaseInv'
    <3>1. docs' = docs \/ (Rewritten(docs, docs') /\ UniqueIndexes(docs'))
      BY <2>7, WriteIs
    <3>2. Moves(r, Idle) /\ Idle.stage # "insert"
      BY <2>7, IdleIs DEF write, Finish, Moves
    <3>3. docs' \subseteq Doc /\ (\A d \in docs' : d.id < nextId) /\ UniqueIndexes(docs')
      BY <3>1, OldIds DEF BaseInv
    <3> QED
      BY <1>0, <2>7, <3>2, <3>3, BaseMove DEF write
  <2>8. ASSUME NEW r \in Requests, Throw(r) PROVE BaseInv'
    BY <2>8, IdleIs, BaseLook DEF Throw, Finish, Moves
  <2>9. ASSUME NEW id \in Ids, delete(id) PROVE BaseInv'
    <3>1. docs' \subseteq docs
      BY <2>9 DEF delete
    <3> QED
      BY <2>9, <3>1 DEF delete, BaseInv, TypeOK, UniqueIndexes, Formed, Flags, HasDefault
  <2> QED
    BY <1>1, <2>1, <2>2, <2>3, <2>4, <2>5, <2>6, <2>7, <2>8, <2>9 DEF CatalogueNext
<1>2. CASE Status
  <2>1. ASSUME NEW r \in Requests, NEW id \in Ids, NEW active \in BOOLEAN,
               updateStatus(r, id, active)
        PROVE  BaseInv'
    BY <2>1, UpdateStatusIs, BaseLook DEF updateStatus, Begin
  <2>2. ASSUME NEW r \in Requests, checkNumOfStatus(r) PROVE BaseInv'
    <3>1. \E n : Moves(r, n) /\ n.stage # "insert"
      BY <2>2, GotoIs, IdleIs DEF checkNumOfStatus, Finish, Moves, At, BaseInv
    <3> QED
      BY <2>2, <3>1, BaseLook DEF checkNumOfStatus
  <2>3. ASSUME NEW r \in Requests, writeStatus(r) PROVE BaseInv'
    <3>1. /\ Rewritten(docs, docs') /\ UniqueIndexes(docs')
          /\ Moves(r, Idle) /\ Idle.stage # "insert"
      BY <2>3, WriteStatusIs, IdleIs DEF writeStatus, Finish, Moves
    <3> QED
      BY <1>0, <2>3, <3>1, OldIds, BaseMove DEF writeStatus
  <2> QED
    BY <1>2, <2>1, <2>2, <2>3 DEF Status
<1>3. CASE UNCHANGED vars
  BY <1>3 DEF vars, BaseInv, TypeOK, UniqueIndexes, Formed, Flags, HasDefault
<1> QED
  BY <1>1, <1>2, <1>3 DEF Next, open, find, countDocuments

LEMMA BaseInvariant == Spec => []BaseInv
<1>1. Init => BaseInv
  <2> SUFFICES ASSUME Init PROVE BaseInv
    OBVIOUS
  <2>1. /\ world \in World /\ world.size \in 0..MaxId /\ world.flagged \in Nat
        /\ 1..world.size \subseteq Keys
    BY CatalogueAssumption DEF Init, CatalogueInit, World
  <2>2. ASSUME NEW i \in 1..world.size
        PROVE  i \in Ids /\ i \in Nat \ {0} /\ i < world.size + 1 /\ i \in Keys
    BY <2>1, <2>2, CatalogueAssumption DEF Ids
  <2>3. docs \subseteq Doc
    <3> SUFFICES ASSUME NEW d \in docs PROVE d \in Doc
      OBVIOUS
    <3>1. PICK i \in 1..world.size :
            d = [id |-> i, code |-> i, key |-> i, flag |-> i <= world.flagged]
      BY DEF Init, CatalogueInit
    <3>2. (i <= world.flagged) \in BOOLEAN
      OBVIOUS
    <3> QED
      BY <2>2, <3>1, <3>2 DEF Doc
  <2>4. UniqueIndexes(docs)
    <3> SUFFICES ASSUME NEW d \in docs, NEW e \in docs, d.id = e.id \/ d.code = e.code \/ d.key = e.key
                 PROVE  d = e
      BY DEF UniqueIndexes
    <3>1. PICK i : d = [id |-> i, code |-> i, key |-> i, flag |-> i <= world.flagged]
      BY DEF Init, CatalogueInit
    <3>2. PICK j : e = [id |-> j, code |-> j, key |-> j, flag |-> j <= world.flagged]
      BY DEF Init, CatalogueInit
    <3>3. i = j
      BY <3>1, <3>2
    <3> QED
      BY <3>1, <3>2, <3>3
  <2>5. nextId \in 1..(MaxId + 1) /\ \A d \in docs : d.id < nextId
    BY <2>1, <2>2, CatalogueAssumption DEF Init, CatalogueInit
  <2>6. req \in [Requests -> Request] /\ \A r \in Requests : req[r] = Idle
    BY IdleIs DEF Init, CatalogueInit
  <2> QED
    BY <2>3, <2>4, <2>5, <2>6, IdleIs DEF BaseInv, TypeOK, Init, CatalogueInit
<1> QED
  BY <1>1, BaseStep, PTL DEF Spec

(* The types of a collection.                                                *)
THEOREM CatalogueTypes == Spec => []TypeOK
<1>1. BaseInv => TypeOK
  BY DEF BaseInv
<1> QED
  BY <1>1, BaseInvariant, PTL

-----------------------------------------------------------------------------
(* The codes of a collection from which nothing is deleted.                *)

\* What a create that has read the last code knows of the collection D.
Reads(q, D, n) ==
    /\ q.stage \in {"new", "insert"} => q.code <= n + 1
    /\ q.stage = "insert" => \A d \in D : d.code < q.code => d.id < q.id

LEMMA NumberedMove ==
    ASSUME BaseInv, NumberedInv, NEW r \in Requests, NEW n, Moves(r, n),
           UNCHANGED <<world, docs>>,
           \A k \in Nat : Codes(docs) = 1..k => Reads(n, docs, k)
    PROVE  NumberedInv'
<1> SUFFICES ASSUME ~world.deletes PROVE NumberedInv'
  BY DEF NumberedInv
<1>1. PICK k \in Nat :
        /\ Codes(docs) = 1..k
        /\ \A x \in Requests : req[x].stage \in {"new", "insert"} => req[x].code <= k + 1
  BY DEF NumberedInv
<1>2. \A x \in Requests : Reads(req[x], docs, k)
  BY <1>1 DEF NumberedInv, Reads
<1>3. \A x \in Requests : Reads(req'[x], docs, k)
  BY <1>1, <1>2 DEF Moves, BaseInv, TypeOK
<1> QED
  BY <1>1, <1>3 DEF NumberedInv, Reads

(* Documents are written, none comes or goes, and a request ends.            *)
LEMMA NumberedWrite ==
    ASSUME BaseInv, NumberedInv, NEW r \in Requests, Moves(r, Idle), Rewritten(docs, docs'),
           UNCHANGED world
    PROVE  NumberedInv'
<1> SUFFICES ASSUME ~world.deletes PROVE NumberedInv'
  BY DEF NumberedInv
<1>1. PICK k \in Nat :
        /\ Codes(docs) = 1..k
        /\ \A x \in Requests : req[x].stage \in {"new", "insert"} => req[x].code <= k + 1
  BY DEF NumberedInv
<1>2. \A x \in Requests : Reads(req[x], docs, k)
  BY <1>1 DEF NumberedInv, Reads
<1>3. /\ Codes(docs') = Codes(docs)
      /\ \A e \in docs' : \E d \in docs : e.id = d.id /\ e.code = d.code
  BY RewrittenKeeps DEF BaseInv, TypeOK
<1>4. \A x \in Requests : Reads(req'[x], docs', k)
  <2>1. ASSUME NEW q, Reads(q, docs, k) PROVE Reads(q, docs', k)
    BY <1>3, <2>1 DEF Reads
  <2>2. Reads(Idle, docs, k)
    BY IdleIs DEF Reads
  <2> QED
    BY <1>2, <2>1, <2>2 DEF Moves, BaseInv, TypeOK
<1>5. Ordered(docs')
  BY <1>3 DEF NumberedInv, Ordered
<1> QED
  BY <1>1, <1>3, <1>4, <1>5 DEF NumberedInv, Reads

LEMMA NumberedInsert ==
    ASSUME BaseInv, NumberedInv, NEW r \in Requests, insert(r)
    PROVE  NumberedInv'
<1> SUFFICES ASSUME ~world.deletes PROVE NumberedInv'
  BY DEF NumberedInv, insert
<1> DEFINE d == NewDoc(r)
<1>0. /\ Moves(r, Idle) /\ req[r].stage = "insert" /\ d \in Doc
      /\ docs' = docs \/ (docs' = docs \cup {d} /\ UniqueIndexes(docs'))
  BY InsertIs
<1>1. PICK k \in Nat :
        /\ Codes(docs) = 1..k
        /\ \A x \in Requests : req[x].stage \in {"new", "insert"} => req[x].code <= k + 1
  BY DEF NumberedInv
<1>2. CASE docs' = docs
  BY <1>0, <1>2, IdleIs, NumberedMove DEF insert, Reads
<1>3. CASE docs' = docs \cup {d} /\ UniqueIndexes(docs') /\ d \notin docs
  <2>1. d.id = req[r].id /\ d.code = req[r].code /\ d.code \in Nat \ {0}
    BY <1>0 DEF NewDoc, Doc
  <2>2. d.code \notin Codes(docs)
    BY <1>3 DEF Codes, UniqueIndexes
  <2>3. d.code = k + 1
    BY <1>0, <1>1, <2>1, <2>2
  <2>4. Codes(docs') = 1..(k + 1)
    <3>1. Codes(docs') = Codes(docs) \cup {d.code}
      BY <1>3 DEF Codes
    <3> QED
      BY <1>1, <2>3, <3>1
  <2>5. ASSUME NEW e \in docs PROVE e.code < d.code /\ e.id < d.id
    <3>1. e.code \in 1..k
      BY <1>1 DEF Codes
    <3>2. e.code < d.code
      BY <2>3, <3>1
    <3> QED
      BY <1>0, <2>1, <3>2 DEF NumberedInv
  <2>6. \A e \in docs' : e.id \in Nat /\ e.code \in Nat
    BY <1>0, <1>3, CatalogueAssumption DEF BaseInv, TypeOK, Doc, Ids
  <2>7. Ordered(docs')
    BY <1>3, <2>5, <2>6 DEF Ordered, NumberedInv
  <2>8. ASSUME NEW x \in Requests PROVE Reads(req'[x], docs', k + 1)
    <3>1. CASE x = r
      BY <1>0, <3>1, IdleIs DEF Moves, BaseInv, TypeOK, Reads
    <3>2. CASE x # r
      <4>1. req'[x] = req[x] /\ req[x].code \in Nat
        BY <1>0, <3>2 DEF Moves, BaseInv, TypeOK, Formed, Request
      <4>2. req[x].stage \in {"new", "insert"} => req[x].code <= k + 1 /\ req[x].code <= k + 1 + 1
        BY <1>1, <4>1
      <4> QED
        BY <1>3, <2>3, <4>1, <4>2 DEF Reads, NumberedInv
    <3> QED
      BY <3>1, <3>2
  <2>9. k + 1 \in Nat
    BY <1>1
  <2> QED
    BY <2>4, <2>7, <2>8, <2>9 DEF NumberedInv, Reads
<1> QED
  BY <1>0, <1>2, <1>3

LEMMA NumberedReadLast ==
    ASSUME BaseInv, NumberedInv, NEW r \in Requests, readLast(r)
    PROVE  NumberedInv'
<1>1. PICK n : Moves(r, n) /\ n.stage = "new" /\ n.code = NextCode(docs)
  BY ReadLastIs
<1>2. ASSUME NEW k \in Nat, Codes(docs) = 1..k PROVE Reads(n, docs, k)
  <2>1. docs \subseteq Doc /\ UniqueIndexes(docs)
    BY DEF BaseInv, TypeOK
  <2>2. docs # {} => Last(docs).code \in 1..k
    BY <1>2, <2>1, LastIs DEF Codes
  <2>3. NextCode(docs) <= k + 1
    BY <2>2 DEF NextCode
  <2> QED
    BY <1>1, <2>3 DEF Reads
<1> QED
  BY <1>1, <1>2, NumberedMove DEF readLast

LEMMA NumberedNewDocument ==
    ASSUME BaseInv, NumberedInv, NEW r \in Requests, newDocument(r)
    PROVE  NumberedInv'
<1> SUFFICES ASSUME ~world.deletes PROVE NumberedInv'
  BY DEF NumberedInv, newDocument
<1>1. PICK n : /\ Moves(r, n) /\ n.stage = "insert" /\ n.id = nextId
               /\ n.code = req[r].code /\ req[r].stage = "new"
  BY NewDocumentIs
<1>2. ASSUME NEW k \in Nat, Codes(docs) = 1..k PROVE Reads(n, docs, k)
  <2>1. PICK j \in Nat :
          /\ Codes(docs) = 1..j
          /\ \A x \in Requests : req[x].stage \in {"new", "insert"} => req[x].code <= j + 1
    BY DEF NumberedInv
  <2>2. j = k
    BY <1>2, <2>1
  <2>3. \A d \in docs : d.id < nextId
    BY DEF BaseInv
  <2> QED
    BY <1>1, <2>1, <2>2, <2>3 DEF Reads
<1> QED
  BY <1>1, <1>2, NumberedMove DEF newDocument

(* Requests that have not read the last code move.                           *)
LEMMA NumberedLook ==
    ASSUME BaseInv, NumberedInv, NEW r \in Requests, NEW n, Moves(r, n),
           n.stage \notin {"new", "insert"}, UNCHANGED <<world, docs>>
    PROVE  NumberedInv'
<1>1. \A k : Reads(n, docs, k)
  BY DEF Reads
<1> QED
  BY <1>1, NumberedMove

LEMMA NumberedStep == BaseInv /\ NumberedInv /\ [Next]_<<vars, browse>> => NumberedInv'
<1> SUFFICES ASSUME BaseInv, NumberedInv, [Next]_<<vars, browse>> PROVE NumberedInv'
  OBVIOUS
<1>1. CASE CatalogueNext
  <2>1. ASSUME NEW r \in Requests, NEW k \in Keys, NEW f \in BOOLEAN, create(r, k, f)
        PROVE  NumberedInv'
    BY <2>1, CreateIs, NumberedLook DEF create, Begin
  <2>2. ASSUME NEW r \in Requests, NEW id \in Ids, NEW k \in Keys, NEW f \in BOOLEAN,
               update(r, id, k, f)
        PROVE  NumberedInv'
    BY <2>2, UpdateIs, NumberedLook DEF update, Begin
  <2>3. ASSUME NEW r \in Requests, checkKeyExist(r) \/ checkDefaultExist(r) PROVE NumberedInv'
    BY <2>3, CheckIs, IdleIs, NumberedLook DEF checkKeyExist, checkDefaultExist
  <2>4. ASSUME NEW r \in Requests, readLast(r) \/ newDocument(r) \/ insert(r) PROVE NumberedInv'
    BY <2>4, NumberedReadLast, NumberedNewDocument, NumberedInsert
  <2>5. ASSUME NEW r \in Requests, write(r) PROVE NumberedInv'
    <3>1. Moves(r, Idle) /\ Idle.stage = "idle"
      BY <2>5, IdleIs DEF write, Finish, Moves
    <3>2. CASE docs' = docs
      BY <2>5, <3>1, <3>2, NumberedLook DEF write
    <3>3. CASE Rewritten(docs, docs')
      BY <2>5, <3>1, <3>3, NumberedWrite DEF write
    <3> QED
      BY <2>5, <3>2, <3>3, WriteIs
  <2>6. ASSUME NEW r \in Requests, Throw(r) PROVE NumberedInv'
    BY <2>6, IdleIs, NumberedLook DEF Throw, Finish, Moves
  <2>7. ASSUME NEW id \in Ids, delete(id) PROVE NumberedInv'
    BY <2>7 DEF delete, NumberedInv
  <2> QED
    BY <1>1, <2>1, <2>2, <2>3, <2>4, <2>5, <2>6, <2>7 DEF CatalogueNext
<1>2. CASE Status
  <2>1. ASSUME NEW r \in Requests, NEW id \in Ids, NEW active \in BOOLEAN,
               updateStatus(r, id, active)
        PROVE  NumberedInv'
    BY <2>1, UpdateStatusIs, NumberedLook DEF updateStatus, Begin
  <2>2. ASSUME NEW r \in Requests, checkNumOfStatus(r) PROVE NumberedInv'
    <3>1. \E n : Moves(r, n) /\ n.stage \in {"idle", "status"}
      BY <2>2, GotoIs, IdleIs DEF checkNumOfStatus, Finish, Moves, At, BaseInv
    <3> QED
      BY <2>2, <3>1, NumberedLook DEF checkNumOfStatus
  <2>3. ASSUME NEW r \in Requests, writeStatus(r) PROVE NumberedInv'
    BY <2>3, WriteStatusIs, IdleIs, NumberedWrite DEF writeStatus, Finish, Moves
  <2> QED
    BY <1>2, <2>1, <2>2, <2>3 DEF Status
<1>3. CASE UNCHANGED vars
  BY <1>3 DEF vars, NumberedInv
<1> QED
  BY <1>1, <1>2, <1>3 DEF Next, open, find, countDocuments

(* As long as nothing is deleted, the codes are 1 to the number of documents *)
(* in the order of the ids, however many creates overlap.                    *)
THEOREM CodesHaveNoGaps == Spec => []CodesAreNumbered
<1>1. Init => NumberedInv
  <2> SUFFICES ASSUME Init PROVE NumberedInv
    OBVIOUS
  <2>1. world.size \in Nat
    BY CatalogueAssumption DEF Init, CatalogueInit, World
  <2>2. \A d \in docs : d.id = d.code
    BY DEF Init, CatalogueInit
  <2>3. Codes(docs) = 1..world.size
    <3> DEFINE doc(i) == [id |-> i, code |-> i, key |-> i, flag |-> i <= world.flagged]
    <3>1. docs = {doc(i) : i \in 1..world.size} /\ \A i : doc(i).code = i
      BY DEF Init, CatalogueInit
    <3> HIDE DEF doc
    <3> QED
      BY <3>1 DEF Codes
  <2>4. \A r \in Requests : req[r].stage = "idle"
    BY IdleIs DEF Init, CatalogueInit
  <2> QED
    BY <2>1, <2>2, <2>3, <2>4 DEF NumberedInv, Ordered
<1>2. BaseInv /\ NumberedInv => CodesAreNumbered
  <2> SUFFICES ASSUME BaseInv, NumberedInv, ~world.deletes
               PROVE  Codes(docs) = 1..Cardinality(docs) /\ Ordered(docs)
    BY DEF CodesAreNumbered, Codes, Ordered
  <2>1. PICK k \in Nat : Codes(docs) = 1..k
    BY DEF NumberedInv
  <2>2. Cardinality(1..k) = k
    BY <2>1, FS_Interval
  <2> QED
    BY <2>1, <2>2, Counted DEF BaseInv, TypeOK, NumberedInv
<1> QED
  BY <1>1, <1>2, BaseInvariant, NumberedStep, PTL DEF Spec

-----------------------------------------------------------------------------
(* Requests that do not overlap.                                           *)

(* Request r, alone, moves.                                                  *)
LEMMA SoleMove ==
    ASSUME BaseInv, SoleInv, NEW r \in Requests, NEW n, Moves(r, n), UNCHANGED world,
           world.requests <= 1 =>
              /\ Kept(docs') /\ Found(n, docs')
              /\ \A x \in Requests \ {r} : req[x].stage = "idle"
    PROVE  SoleInv'
<1> SUFFICES ASSUME world.requests <= 1 PROVE SoleInv'
  BY DEF SoleInv
<1>1. req'[r] = n /\ \A x \in Requests \ {r} : req'[x] = req[x] /\ req'[x].stage = "idle"
  BY DEF Moves, BaseInv, TypeOK
<1>2. \A D : Kept(D)' <=> Kept(D)
  BY DEF Kept, HasDefault
<1>3. \A q, D : Found(q, D)' <=> Found(q, D)
  BY DEF Found, HasDefault
<1>4. \A q, D : q.stage = "idle" => Found(q, D)
  BY DEF Found, Free, Undefaulted, Activates
<1>5. ASSUME NEW D, D = docs' PROVE Kept(D)' /\ \A q : Found(q, D)' <=> Found(q, D)
  BY <1>2, <1>3, <1>5
<1>6. \A x \in Requests : Found(req'[x], docs')
  BY <1>1, <1>4
<1>7. ASSUME NEW x \in Requests, NEW D, NEW q, D = docs', q = req'[x] PROVE Found(q, D)'
  BY <1>3, <1>6, <1>7
<1>8. Alone'
  BY <1>1 DEF Alone
<1>9. Kept(docs)' /\ \A x \in Requests : Found(req[x], docs)'
  BY <1>5, <1>7
<1> QED
  BY <1>8, <1>9 DEF SoleInv

(* A request of its own, or the first one, has no other beside it.           *)
LEMMA Lonely ==
    ASSUME BaseInv, SoleInv, world.requests <= 1, NEW r \in Requests,
           \/ req[r].stage # "idle"
           \/ Cardinality({s \in Requests : ~At(s, "idle")}) < world.requests
    PROVE  \A x \in Requests \ {r} : req[x].stage = "idle"
<1>1. CASE req[r].stage # "idle"
  BY <1>1 DEF SoleInv, Alone
<1>2. CASE Cardinality({s \in Requests : ~At(s, "idle")}) < world.requests
  <2> DEFINE F == {s \in Requests : ~At(s, "idle")}
  <2>1. IsFiniteSet(F)
    BY CatalogueAssumption, FS_Subset
  <2>2. world.requests \in Nat /\ Cardinality(F) < world.requests
    BY <1>2, CatalogueAssumption DEF BaseInv, TypeOK, World
  <2> HIDE DEF F
  <2>3. Cardinality(F) = 0
    BY <2>1, <2>2, FS_CardinalityType
  <2>4. F = {}
    BY <2>1, <2>3, FS_EmptySet
  <2> QED
    BY <2>4 DEF F, At
<1> QED
  BY <1>1, <1>2

(* The collection stays.                                                     *)
LEMMA SoleLook ==
    ASSUME BaseInv, SoleInv, NEW r \in Requests, NEW n, Moves(r, n), UNCHANGED <<world, docs>>,
           \/ req[r].stage # "idle"
           \/ Cardinality({s \in Requests : ~At(s, "idle")}) < world.requests,
           world.requests <= 1 => Found(n, docs)
    PROVE  SoleInv'
BY Lonely, SoleMove DEF SoleInv

LEMMA SoleBegin ==
    ASSUME BaseInv, SoleInv, NEW r \in Requests, NEW n, Moves(r, n), NEW h, Begin(r, h),
           n.stage \in {"key", "count"} \/ (n.stage = "status" /\ ~n.flag), n.op = "update" \/ n.stage = "key"
    PROVE  SoleInv'
<1>1. Found(n, docs)
  BY DEF Found, Free, Undefaulted, Activates
<1> QED
  BY <1>1, SoleLook DEF Begin

LEMMA SoleCheck ==
    ASSUME BaseInv, SoleInv, NEW r \in Requests, checkKeyExist(r) \/ checkDefaultExist(r)
    PROVE  SoleInv'
<1>1. PICK n :
        /\ Moves(r, n)
        /\ \/ n = Idle
           \/ /\ n.stage \in {"default", "last", "write"} /\ About(n, req[r])
              /\ req[r].stage \in {"key", "default"}
              /\ req[r].stage = "key" => \A d \in docs : d.key = n.key => d.id = n.id
              /\ n.flag /\ n.stage # "default" => \A d \in docs : d.flag => d.id = n.id
  BY CheckIs
<1>2. req[r].stage # "idle" /\ UNCHANGED <<world, docs>>
  BY DEF checkKeyExist, checkDefaultExist, At
<1>3. CASE n = Idle
  <2>1. Found(n, docs)
    BY <1>3, IdleIs DEF Found, Free, Undefaulted, Activates
  <2> QED
    BY <1>1, <1>2, <2>1, SoleLook
<1>4. CASE n # Idle
  <2>1. \A d \in docs : d.id # 0
    BY CatalogueAssumption DEF BaseInv, TypeOK, Doc, Ids
  <2>2. n.op = "create" => n.id = 0
    BY <1>1, <1>4 DEF Moves, Formed
  <2>3. ASSUME world.requests <= 1, n.op = "create" PROVE \A d \in docs : d.key # n.key
    <3>1. CASE req[r].stage = "key"
      BY <1>1, <1>4, <2>1, <2>2, <2>3, <3>1
    <3>2. CASE req[r].stage = "default"
      BY <1>1, <1>4, <2>3, <3>2 DEF SoleInv, Found, Free, About
    <3> QED
      BY <1>1, <1>4, <3>1, <3>2
  <2>4. n.stage = "last" => n.op = "create"
    BY <1>1 DEF Moves, Formed
  <2>5. Undefaulted(n, docs) /\ Activates(n, docs)
    BY <1>1, <1>4, <2>1, <2>2, <2>4 DEF Undefaulted, Activates
  <2>6. world.requests <= 1 => Found(n, docs)
    BY <1>1, <1>4, <2>3, <2>5 DEF Found, Free
  <2> QED
    BY <1>1, <1>2, <2>6, SoleLook
<1> QED
  BY <1>3, <1>4

LEMMA SoleReadLast ==
    ASSUME BaseInv, SoleInv, NEW r \in Requests, readLast(r)
    PROVE  SoleInv'
<1>1. PICK n : /\ Moves(r, n) /\ n.stage = "new" /\ About(n, req[r])
               /\ req[r].stage = "last" /\ n.code = NextCode(docs)
  BY ReadLastIs
<1>2. ASSUME world.requests <= 1 PROVE Found(n, docs)
  <2>1. Found(req[r], docs) /\ Ordered(docs) /\ req[r].op = "create"
    BY <1>1, <1>2 DEF SoleInv, Kept, BaseInv, Formed
  <2>2. docs \subseteq Doc /\ UniqueIndexes(docs)
    BY DEF BaseInv, TypeOK
  <2>3. ASSUME NEW d \in docs PROVE d.code < n.code
    <3>1. Last(docs) \in docs /\ d.id <= Last(docs).id
      BY <2>2, LastIs
    <3>2. /\ d.id \in Nat /\ Last(docs).id \in Nat /\ d.code \in Nat /\ Last(docs).code \in Nat
      BY <2>2, <3>1, CatalogueAssumption DEF Doc, Ids
    <3>3. ~(Last(docs).code < d.code)
      BY <2>1, <3>1, <3>2 DEF Ordered
    <3>4. n.code = Last(docs).code + 1
      BY <1>1 DEF NextCode
    <3> QED
      BY <3>2, <3>3, <3>4
  <2> QED
    BY <1>1, <2>1, <2>3 DEF Found, Free, Undefaulted, Activates, About
<1> QED
  BY <1>1, <1>2, SoleLook DEF readLast

LEMMA SoleNewDocument ==
    ASSUME BaseInv, SoleInv, NEW r \in Requests, newDocument(r)
    PROVE  SoleInv'
<1>1. PICK n : /\ Moves(r, n) /\ n.stage = "insert" /\ n.id = nextId
               /\ n.op = req[r].op /\ n.key = req[r].key /\ n.flag = req[r].flag
               /\ n.code = req[r].code /\ req[r].stage = "new"
  BY NewDocumentIs
<1>2. world.requests <= 1 => Found(n, docs)
  BY <1>1 DEF SoleInv, BaseInv, Found, Free, Undefaulted, Activates
<1> QED
  BY <1>1, <1>2, SoleLook DEF newDocument

(* What a sole create inserts is new, and its flag comes with the rest.      *)
LEMMA SoleInsert ==
    ASSUME BaseInv, SoleInv, NEW r \in Requests, insert(r)
    PROVE  SoleInv'
<1> DEFINE d == NewDoc(r)
<1>1. /\ Moves(r, Idle) /\ req[r].stage = "insert" /\ d \in Doc
      /\ docs' = docs \/ (docs' = docs \cup {d} /\ UniqueIndexes(docs'))
  BY InsertIs
<1>2. \A D : Found(Idle, D)
  BY IdleIs DEF Found, Free, Undefaulted, Activates
<1>3. CASE docs' = docs
  BY <1>1, <1>2, <1>3, IdleIs, SoleLook DEF insert
<1>4. CASE docs' = docs \cup {d}
  <2> SUFFICES ASSUME world.requests <= 1 PROVE Kept(docs')
    BY <1>1, <1>2, Lonely, SoleMove DEF insert
  <2>1. d.id = req[r].id /\ d.code = req[r].code /\ d.flag = req[r].flag
    BY DEF NewDoc
  <2>2. Found(req[r], docs) /\ Kept(docs)
    BY DEF SoleInv
  <2>3. \A e \in docs : e.id < d.id /\ e.code < d.code
    BY <1>1, <2>1, <2>2 DEF Found, Free
  <2>4. \A e \in docs' : e.id \in Nat /\ e.code \in Nat
    BY <1>1, <1>4, CatalogueAssumption DEF BaseInv, TypeOK, Doc, Ids
  <2>5. Ordered(docs')
    BY <1>4, <2>2, <2>3, <2>4 DEF Kept, Ordered
  <2>6. ASSUME HasDefault, world.flagged <= 1, NEW i \in ActiveIds(docs'), NEW j \in ActiveIds(docs')
        PROVE  i = j
    <3>1. d.flag => \A e \in docs : ~e.flag
      BY <1>1, <2>1, <2>2, <2>6 DEF Found, Undefaulted
    <3>2. \A k \in ActiveIds(docs') : k \in ActiveIds(docs) \/ (d.flag /\ k = d.id)
      BY <1>4 DEF ActiveIds
    <3>3. CASE d.flag
      BY <3>1, <3>2, <3>3 DEF ActiveIds
    <3>4. CASE ~d.flag
      BY <2>2, <2>6, <3>2, <3>4 DEF Kept
    <3> QED
      BY <3>3, <3>4
  <2>7. world.kind = "package" => ActiveIds(docs') = ActiveIds(docs)
    <3>1. world.kind = "package" => ~d.flag
      BY <1>1, <2>1 DEF BaseInv, Formed, Flags, HasDefault
    <3> QED
      BY <1>4, <3>1 DEF ActiveIds
  <2> QED
    BY <2>2, <2>5, <2>6, <2>7 DEF Kept
<1> QED
  BY <1>1, <1>3, <1>4

(* Documents that are deleted or written keep their order.                   *)
LEMMA OrderKept ==
    ASSUME BaseInv, Ordered(docs), docs' \subseteq docs \/ Rewritten(docs, docs')
    PROVE  Ordered(docs')
<1>1. \A e \in docs' : \E d \in docs : e.id = d.id /\ e.code = d.code
  BY RewrittenKeeps DEF BaseInv, TypeOK
<1> QED
  BY <1>1 DEF Ordered

(* The flags after write and after writeStatus.                              *)
LEMMA WriteFlags ==
    ASSUME BaseInv, NEW r \in Requests, write(r)
    PROVE  ActiveIds(docs') \subseteq ActiveIds(docs) \cup
                                      (IF HasDefault /\ req[r].flag THEN {req[r].id} ELSE {})
<1>1. CASE docs' = docs
  BY <1>1
<1>2. CASE docs' = {IF d.id = req[r].id THEN Written(r, d) ELSE d : d \in docs}
  <2> SUFFICES ASSUME NEW d \in docs, NEW e, e.flag,
                      e = IF d.id = req[r].id THEN Written(r, d) ELSE d
               PROVE  \/ e.id = d.id /\ d.flag
                      \/ HasDefault /\ req[r].flag /\ e.id = req[r].id
    BY <1>2 DEF ActiveIds
  <2>1. d \in Doc
    BY DEF BaseInv, TypeOK
  <2>2. /\ Written(r, d).id = d.id
        /\ Written(r, d).flag = IF HasDefault THEN req[r].flag ELSE d.flag
    BY <2>1 DEF Written, Doc
  <2> QED
    BY <2>2
<1> QED
  BY <1>1, <1>2 DEF write

LEMMA WriteStatusFlags ==
    ASSUME BaseInv, NEW r \in Requests, writeStatus(r)
    PROVE  ActiveIds(docs') \subseteq ActiveIds(docs) \cup (IF req[r].flag THEN {req[r].id} ELSE {})
<1> SUFFICES ASSUME NEW d \in docs, NEW e, e.flag,
                    e = IF d.id = req[r].id THEN [d EXCEPT !.flag = req[r].flag] ELSE d
             PROVE  (e.id = d.id /\ d.flag) \/ (req[r].flag /\ e.id = req[r].id)
  BY DEF ActiveIds, writeStatus
<1>1. d \in Doc
  BY DEF BaseInv, TypeOK
<1> QED
  BY <1>1 DEF Doc

LEMMA ActiveFinite ==
    ASSUME NEW D, D \subseteq Doc, UniqueIndexes(D)
    PROVE  IsFiniteSet(ActiveIds(D)) /\ Cardinality(ActiveIds(D)) \in Nat
<1>1. IsFiniteSet(IdsOf(D))
  BY Counted
<1>2. ActiveIds(D) \in SUBSET IdsOf(D)
  BY DEF ActiveIds, IdsOf
<1> QED
  BY <1>1, <1>2, FS_Subset, FS_CardinalityType

(* The last step of update and of updateStatus.                              *)
LEMMA SoleWrite ==
    ASSUME BaseInv, BaseInv', SoleInv, NEW r \in Requests, write(r) \/ writeStatus(r)
    PROVE  SoleInv'
<1> DEFINE new == IF req[r].flag /\ (write(r) => HasDefault) THEN {req[r].id} ELSE {}
<1>1. /\ Moves(r, Idle) /\ req[r].stage # "idle" /\ UNCHANGED world
      /\ docs' = docs \/ Rewritten(docs, docs')
  BY IdleIs, WriteIs, WriteStatusIs DEF write, writeStatus, Finish, Moves, At
<1>2. \A D : Found(Idle, D)
  BY IdleIs DEF Found, Free, Undefaulted, Activates
<1> SUFFICES ASSUME world.requests <= 1 PROVE Kept(docs')
  BY <1>1, <1>2, Lonely, SoleMove
<1>3. Found(req[r], docs) /\ Kept(docs)
  BY DEF SoleInv
<1>4. Ordered(docs')
  BY <1>1, <1>3, OrderKept DEF Kept
<1>5. ActiveIds(docs') \subseteq ActiveIds(docs) \cup new
  BY WriteFlags, WriteStatusFlags
<1>6. /\ write(r) => req[r].stage = "write"
      /\ writeStatus(r) => req[r].stage = "status" /\ world.kind = "package"
  BY DEF write, writeStatus, At, BaseInv, Formed
<1>7. HasDefault /\ world.flagged <= 1 => \A i, j \in ActiveIds(docs') : i = j
  <2> SUFFICES ASSUME HasDefault, world.flagged <= 1 PROVE \A i, j \in ActiveIds(docs') : i = j
    OBVIOUS
  <2>1. write(r)
    BY <1>6 DEF HasDefault
  <2>2. req[r].flag => \A i \in ActiveIds(docs) : i = req[r].id
    BY <1>3, <1>6, <2>1 DEF Found, Undefaulted, ActiveIds
  <2>3. \A i, j \in ActiveIds(docs) : i = j
    BY <1>3 DEF Kept
  <2> QED
    BY <1>5, <2>2, <2>3
<1>8. ASSUME world.kind = "package", world.flagged <= MaxActive
      PROVE  Cardinality(ActiveIds(docs')) <= MaxActive
  <2>1. /\ IsFiniteSet(ActiveIds(docs)) /\ Cardinality(ActiveIds(docs)) \in Nat
        /\ IsFiniteSet(ActiveIds(docs')) /\ Cardinality(ActiveIds(docs')) \in Nat
    BY ActiveFinite DEF BaseInv, TypeOK
  <2>2. Cardinality(ActiveIds(docs)) <= MaxActive
    BY <1>3, <1>8 DEF Kept
  <2>3. CASE new = {}
    <3>1. ActiveIds(docs') \in SUBSET ActiveIds(docs)
      BY <1>5, <2>3
    <3>2. Cardinality(ActiveIds(docs')) <= Cardinality(ActiveIds(docs))
      BY <2>1, <3>1, FS_Subset
    <3> QED
      BY <2>1, <2>2, <3>2 DEF MaxActive
  <2>4. CASE new # {}
    <3>1. req[r].flag /\ new = {req[r].id} /\ req[r].stage = "status"
      BY <1>1, <1>6, <1>8, <2>4 DEF HasDefault
    <3>2. Cardinality(ActiveIds(docs)) < MaxActive
      BY <1>3, <1>8, <3>1 DEF Found, Activates
    <3>3. ActiveIds(docs') \in SUBSET (ActiveIds(docs) \cup {req[r].id})
      BY <1>5, <3>1
    <3>4. /\ IsFiniteSet(ActiveIds(docs) \cup {req[r].id})
          /\ Cardinality(ActiveIds(docs) \cup {req[r].id}) <= Cardinality(ActiveIds(docs)) + 1
      BY <2>1, FS_AddElement
    <3>5. Cardinality(ActiveIds(docs')) <= Cardinality(ActiveIds(docs) \cup {req[r].id})
      BY <3>3, <3>4, FS_Subset
    <3>6. Cardinality(ActiveIds(docs) \cup {req[r].id}) \in Nat
      BY <3>4, FS_CardinalityType
    <3> QED
      BY <2>1, <3>2, <3>4, <3>5, <3>6 DEF MaxActive
  <2> QED
    BY <2>3, <2>4
<1> QED
  BY <1>4, <1>7, <1>8 DEF Kept

LEMMA SoleDelete ==
    ASSUME BaseInv, SoleInv, NEW id \in Ids, delete(id)
    PROVE  SoleInv'
<1> SUFFICES ASSUME world.requests <= 1 PROVE SoleInv'
  BY DEF SoleInv, delete
<1>1. docs' \subseteq docs /\ UNCHANGED <<world, req>>
  BY DEF delete
<1>2. /\ IsFiniteSet(ActiveIds(docs)) /\ ActiveIds(docs') \in SUBSET ActiveIds(docs)
      /\ Cardinality(ActiveIds(docs)) \in Nat
  BY <1>1, ActiveFinite DEF ActiveIds, BaseInv, TypeOK
<1>3. Cardinality(ActiveIds(docs')) <= Cardinality(ActiveIds(docs)) /\ Cardinality(ActiveIds(docs')) \in Nat
  BY <1>2, FS_Subset, FS_CardinalityType
<1>4. Kept(docs')
  BY <1>1, <1>2, <1>3, OrderKept DEF SoleInv, Kept, MaxActive
<1>5. \A q : Found(q, docs) => Found(q, docs')
  BY <1>1, <1>2, <1>3 DEF Found, Free, Undefaulted, Activates, MaxActive
<1>6. ASSUME NEW D, D = docs' PROVE Kept(D)' /\ \A q : Found(q, docs) => Found(q, D)'
  BY <1>1, <1>4, <1>5, <1>6 DEF Kept, Found, HasDefault
<1>7. Kept(docs)' /\ \A x \in Requests : Found(req[x], docs)'
  BY <1>1, <1>6 DEF SoleInv
<1>8. Alone'
  BY <1>1 DEF SoleInv, Alone
<1> QED
  BY <1>7, <1>8 DEF SoleInv

LEMMA SoleStep == BaseInv /\ BaseInv' /\ SoleInv /\ [Next]_<<vars, browse>> => SoleInv'
<1> SUFFICES ASSUME BaseInv, BaseInv', SoleInv, [Next]_<<vars, browse>> PROVE SoleInv'
  OBVIOUS
<1>0. \A D : Found(Idle, D)
  BY IdleIs DEF Found, Free, Undefaulted, Activates
<1>1. CASE CatalogueNext
  <2>1. ASSUME NEW r \in Requests, NEW k \in Keys, NEW f \in BOOLEAN, create(r, k, f)
        PROVE  SoleInv'
    BY <2>1, CreateIs, SoleBegin DEF create
  <2>2. ASSUME NEW r \in Requests, NEW id \in Ids, NEW k \in Keys, NEW f \in BOOLEAN,
               update(r, id, k, f)
        PROVE  SoleInv'
    BY <2>2, UpdateIs, SoleBegin DEF update
  <2>3. ASSUME NEW r \in Requests,
               \/ checkKeyExist(r) \/ checkDefaultExist(r) \/ readLast(r)
               \/ newDocument(r) \/ insert(r) \/ write(r)
        PROVE  SoleInv'
    BY <2>3, SoleCheck, SoleReadLast, SoleNewDocument, SoleInsert, SoleWrite
  <2>4. ASSUME NEW r \in Requests, Throw(r) PROVE SoleInv'
    BY <1>0, <2>4, IdleIs, SoleLook DEF Throw, Finish, Moves, At
  <2>5. ASSUME NEW id \in Ids, delete(id) PROVE SoleInv'
    BY <2>5, SoleDelete
  <2> QED
    BY <1>1, <2>1, <2>2, <2>3, <2>4, <2>5 DEF CatalogueNext
<1>2. CASE Status
  <2>1. ASSUME NEW r \in Requests, NEW id \in Ids, NEW active \in BOOLEAN,
               updateStatus(r, id, active)
        PROVE  SoleInv'
    BY <2>1, UpdateStatusIs, SoleBegin DEF updateStatus
  <2>2. ASSUME NEW r \in Requests, checkNumOfStatus(r) PROVE SoleInv'
    <3>1. req[r].stage = "count" /\ UNCHANGED <<world, docs>>
      BY <2>2 DEF checkNumOfStatus, At
    <3>2. CASE Finish(r)
      BY <1>0, <3>1, <3>2, IdleIs, SoleLook DEF Finish, Moves
    <3>3. CASE Goto(r, "status") /\ Cardinality(Active) < MaxActive
      <4>1. PICK n : Moves(r, n) /\ n.stage = "status" /\ About(n, req[r])
        BY <3>1, <3>3, GotoIs DEF BaseInv
      <4>2. Cardinality(ActiveIds(docs)) = Cardinality(Active)
        <5>1. Active \subseteq Doc /\ UniqueIndexes(Active)
          BY DEF Active, BaseInv, TypeOK, UniqueIndexes
        <5>2. ActiveIds(docs) = IdsOf(Active)
          BY DEF ActiveIds, Active, IdsOf
        <5> QED
          BY <5>1, <5>2, Counted
      <4>3. Found(n, docs)
        BY <3>3, <4>1, <4>2 DEF Found, Free, Undefaulted, Activates
      <4> QED
        BY <3>1, <4>1, <4>3, SoleLook
    <3>4. Cardinality(Active) \in Nat
      BY Counted, FS_Subset, FS_CardinalityType DEF Active, BaseInv, TypeOK
    <3> QED
      BY <2>2, <3>2, <3>3, <3>4 DEF checkNumOfStatus, MaxActive
  <2>3. ASSUME NEW r \in Requests, writeStatus(r) PROVE SoleInv'
    BY <2>3, SoleWrite
  <2> QED
    BY <1>2, <2>1, <2>2, <2>3 DEF Status
<1>3. CASE UNCHANGED vars
  BY <1>3 DEF vars, SoleInv, Alone, Kept, Found, HasDefault
<1> QED
  BY <1>1, <1>2, <1>3 DEF Next, open, find, countDocuments

LEMMA SoleInvariant == Spec => []SoleInv
<1>1. Init /\ BaseInv => SoleInv
  <2> SUFFICES ASSUME Init, BaseInv PROVE SoleInv
    OBVIOUS
  <2>1. world.flagged \in Nat /\ world.size \in Nat
    BY CatalogueAssumption DEF Init, CatalogueInit, World
  <2> DEFINE doc(i) == [id |-> i, code |-> i, key |-> i, flag |-> i <= world.flagged]
  <2>2. /\ docs = {doc(i) : i \in 1..world.size}
        /\ \A i : doc(i).id = i /\ doc(i).code = i /\ doc(i).flag = (i <= world.flagged)
    BY DEF Init, CatalogueInit
  <2> HIDE DEF doc
  <2>3. ActiveIds(docs) \in SUBSET (1..world.flagged)
    <3>1. SUFFICES ASSUME NEW d \in docs, d.flag PROVE d.id \in 1..world.flagged
      BY DEF ActiveIds
    <3>2. PICK i \in 1..world.size : d = doc(i)
      BY <2>2
    <3>3. d.id = i /\ i <= world.flagged
      BY <2>2, <3>1, <3>2
    <3> QED
      BY <2>1, <3>2, <3>3
  <2>4. IsFiniteSet(1..world.flagged) /\ Cardinality(1..world.flagged) = world.flagged
    <3>1. \A n \in Nat : IsFiniteSet(1..n) /\ Cardinality(1..n) = n
      <4> TAKE n \in Nat
      <4>1. 1 \in Int /\ n \in Int
        OBVIOUS
      <4>2. IsFiniteSet(1..n) /\ Cardinality(1..n) = IF 1 > n THEN 0 ELSE n - 1 + 1
        BY <4>1, FS_Interval
      <4> QED
        BY <4>2
    <3> QED
      BY <2>1, <3>1
  <2>5. Cardinality(ActiveIds(docs)) <= world.flagged /\ Cardinality(ActiveIds(docs)) \in Nat
    BY <2>3, <2>4, FS_Subset, FS_CardinalityType
  <2>6. world.flagged <= 1 => \A i, j \in ActiveIds(docs) : i = j
    <3>1. SUFFICES ASSUME world.flagged <= 1, NEW i \in ActiveIds(docs) PROVE i = 1
      OBVIOUS
    <3>2. i \in 1..world.flagged
      BY <2>3
    <3> QED
      BY <2>1, <3>1, <3>2
  <2>7. Kept(docs)
    <3>1. Ordered(docs)
      BY <2>2 DEF Ordered
    <3>2. world.flagged <= MaxActive => Cardinality(ActiveIds(docs)) <= MaxActive
      BY <2>1, <2>5 DEF MaxActive
    <3> QED
      BY <2>6, <3>1, <3>2 DEF Kept
  <2>8. \A r \in Requests : req[r].stage = "idle"
    BY IdleIs DEF Init, CatalogueInit
  <2> QED
    BY <2>7, <2>8 DEF SoleInv, Alone, Found, Free, Undefaulted, Activates
<1> QED
  BY <1>1, BaseInvariant, SoleStep, PTL DEF Spec

(* A create that no other request overlaps is not rejected by an index, also *)
(* when documents are deleted meanwhile.                                     *)
THEOREM SoleCreatesSucceed == Spec => []SoleCreateSucceeds
<1>1. BaseInv /\ SoleInv => SoleCreateSucceeds
  <2> SUFFICES ASSUME BaseInv, SoleInv, world.requests = 1, NEW r \in Requests, At(r, "insert")
               PROVE  UniqueIndexes(docs \cup {NewDoc(r)})
    BY DEF SoleCreateSucceeds
  <2>1. req[r].stage = "insert" /\ req[r].op = "create" /\ Found(req[r], docs)
    BY DEF At, BaseInv, Formed, SoleInv
  <2>2. \A d \in docs : d.key # req[r].key /\ d.code < req[r].code /\ d.id < req[r].id
    BY <2>1 DEF Found, Free
  <2>3. \A d \in docs : d.id \in Nat /\ d.code \in Nat
    BY CatalogueAssumption DEF BaseInv, TypeOK, Doc, Ids
  <2> QED
    BY <2>2, <2>3 DEF NewDoc, UniqueIndexes, BaseInv
<1> QED
  BY <1>1, BaseInvariant, SoleInvariant, PTL

(* One relationship type is the default at most, when there was one at most  *)
(* and requests do not overlap.                                              *)
THEOREM OneDefaultAlone ==
    Spec => [](world.requests <= 1 /\ world.flagged <= 1 => OneDefault)
<1>1. BaseInv /\ SoleInv => (world.requests <= 1 /\ world.flagged <= 1 => OneDefault)
  <2> SUFFICES ASSUME BaseInv, SoleInv, world.requests <= 1, world.flagged <= 1, HasDefault,
                      NEW d \in docs, NEW e \in docs, d.flag, e.flag
               PROVE  d = e
    BY DEF OneDefault
  <2>1. d.id \in ActiveIds(docs) /\ e.id \in ActiveIds(docs)
    BY DEF ActiveIds
  <2>2. d.id = e.id
    BY <2>1 DEF SoleInv, Kept
  <2> QED
    BY <2>2 DEF BaseInv, UniqueIndexes
<1> QED
  BY <1>1, BaseInvariant, SoleInvariant, PTL

(* Four premium packages are active at most, when four were at most and      *)
(* requests do not overlap.                                                  *)
THEOREM FourActiveAlone ==
    Spec => [](world.requests <= 1 /\ world.flagged <= MaxActive => AtMostFourActive)
<1>1. BaseInv /\ SoleInv => (world.requests <= 1 /\ world.flagged <= MaxActive => AtMostFourActive)
  <2> SUFFICES ASSUME BaseInv, SoleInv, world.requests <= 1, world.flagged <= MaxActive,
                      world.kind = "package"
               PROVE  Cardinality(Active) <= MaxActive
    BY DEF AtMostFourActive
  <2>1. Active \subseteq Doc /\ UniqueIndexes(Active)
    BY DEF Active, BaseInv, TypeOK, UniqueIndexes
  <2>2. ActiveIds(docs) = IdsOf(Active)
    BY DEF ActiveIds, Active, IdsOf
  <2> QED
    BY <2>1, <2>2, Counted DEF SoleInv, Kept
<1> QED
  BY <1>1, BaseInvariant, SoleInvariant, PTL

-----------------------------------------------------------------------------
(* Pages.  The turn is the number of matching documents on the pages that    *)
(* have been shown: whatever matched at the start and is at a lower rank,    *)
(* or does not match any more, and has not been seen, is missed.             *)

Matched(D, S) == {d.id : d \in {e \in D : e.key \in S}}

Missed(W, M, turn) == {i \in W : i \in M => Above(M, i) < turn}

Unseen == browse.start \ browse.seen

Turn == IF browse.stage = "find" THEN (browse.page - 1) * LIMIT ELSE browse.page * LIMIT

BrowseInv ==
    /\ browse \in Browser /\ browse.page # 0
    /\ browse.stage = "closed" => browse.page = 1 /\ browse.seen = {}
    /\ browse.stage \in {"find", "count"} =>
          Cardinality(Missed(Unseen, Matched(docs, browse.search), Turn)) <= browse.removed
    /\ browse.stage = "done" => Cardinality(Unseen) <= browse.removed

(* Documents that are added lower nobody's rank, one that is taken out       *)
(* lowers a rank by one at most.                                             *)
LEMMA AboveGrows ==
    ASSUME NEW M, M \subseteq Nat, IsFiniteSet(M),
           NEW N, N \subseteq Nat, IsFiniteSet(N), NEW y, NEW i \in Nat
    PROVE  /\ Above(M, i) \in Nat /\ Above(N, i) \in Nat
           /\ M \ {y} \subseteq N => Above(M, i) <= Above(N, i) + 1
           /\ (\A w \in M : w > i => w \in N) => Above(M, i) <= Above(N, i)
<1> DEFINE over(V) == {w \in V : w > i}
<1>1. /\ over(M) \in SUBSET M /\ over(N) \in SUBSET N
      /\ Above(M, i) = Cardinality(over(M)) /\ Above(N, i) = Cardinality(over(N))
  BY DEF Above
<1>2. M \ {y} \subseteq N => over(M) \in SUBSET (over(N) \cup {y})
  OBVIOUS
<1>3. (\A w \in M : w > i => w \in N) => over(M) \in SUBSET over(N)
  OBVIOUS
<1> HIDE DEF over
<1>4. /\ IsFiniteSet(over(M)) /\ IsFiniteSet(over(N))
      /\ Cardinality(over(M)) \in Nat /\ Cardinality(over(N)) \in Nat
  BY <1>1, FS_Subset, FS_CardinalityType
<1>5. IsFiniteSet(over(N) \cup {y}) /\ Cardinality(over(N) \cup {y}) <= Cardinality(over(N)) + 1
  BY <1>4, FS_AddElement
<1>6. Cardinality(over(N) \cup {y}) \in Nat
  BY <1>5, FS_CardinalityType
<1>7. over(M) \in SUBSET (over(N) \cup {y}) =>
        Cardinality(over(M)) <= Cardinality(over(N) \cup {y})
  BY <1>5, FS_Subset
<1>8. over(M) \in SUBSET over(N) => Cardinality(over(M)) <= Cardinality(over(N))
  BY <1>4, FS_Subset
<1> QED
  BY <1>1, <1>2, <1>3, <1>4, <1>5, <1>6, <1>7, <1>8

(* Nobody is missed for a document that comes in.                            *)
LEMMA MissedNone ==
    ASSUME NEW M, M \subseteq Nat, IsFiniteSet(M),
           NEW N, N \subseteq Nat, IsFiniteSet(N), M \subseteq N,
           NEW W, NEW turn \in Nat
    PROVE  Missed(W, N, turn) \subseteq Missed(W, M, turn)
<1> SUFFICES ASSUME NEW i \in Missed(W, N, turn), i \in M PROVE Above(M, i) < turn
  BY DEF Missed
<1>1. i \in Nat /\ Above(N, i) < turn
  BY DEF Missed
<1>2. Above(M, i) \in Nat /\ Above(N, i) \in Nat /\ Above(M, i) <= Above(N, i)
  BY <1>1, AboveGrows
<1> QED
  BY <1>1, <1>2

(* One is missed at most for a document that goes: itself, when its page has *)
(* not been shown, or else the one that slips onto the pages shown.          *)
LEMMA MissedOne ==
    ASSUME NEW M, M \subseteq Nat, IsFiniteSet(M),
           NEW N, N \subseteq Nat, IsFiniteSet(N), NEW y, y \in M, M \ {y} \subseteq N,
           NEW W, NEW turn \in Nat
    PROVE  \E z : Missed(W, N, turn) \subseteq Missed(W, M, turn) \cup {z}
<1>1. ASSUME NEW i \in Missed(W, N, turn), i \notin Missed(W, M, turn)
      PROVE  /\ i \in M /\ i \in Nat /\ Above(M, i) \in Nat /\ Above(M, i) >= turn
             /\ i # y => i \in N /\ Above(N, i) \in Nat /\ Above(N, i) < turn
             /\ i # y => Above(M, i) = turn
             /\ i # y => y > i
  <2>1. i \in W /\ i \in M /\ i \in Nat /\ ~(Above(M, i) < turn)
    BY <1>1 DEF Missed
  <2>2. Above(M, i) \in Nat /\ Above(N, i) \in Nat /\ Above(M, i) <= Above(N, i) + 1
    BY <2>1, AboveGrows
  <2>3. ASSUME i # y PROVE i \in N /\ Above(N, i) < turn
    BY <2>1, <2>3 DEF Missed
  <2>4. ASSUME i # y PROVE y > i
    <3> SUFFICES ASSUME ~(y > i) PROVE FALSE
      OBVIOUS
    <3>1. \A w \in M : w > i => w \in N
      OBVIOUS
    <3>2. Above(M, i) <= Above(N, i)
      BY <2>1, <3>1, AboveGrows
    <3> QED
      BY <2>1, <2>2, <2>3, <2>4, <3>2
  <2> QED
    BY <2>1, <2>2, <2>3, <2>4
<1>2. CASE Above(M, y) < turn
  <2>1. ASSUME NEW i \in Missed(W, N, turn), i \notin Missed(W, M, turn)
        PROVE  Above(M, i) = turn /\ i \in M
    BY <1>1, <1>2, <2>1
  <2>2. ASSUME NEW i \in M, NEW j \in M, Above(M, i) = turn, Above(M, j) = turn
        PROVE  i = j
    <3>1. i \in Nat /\ j \in Nat
      OBVIOUS
    <3>2. i < j => Above(M, j) < Above(M, i)
      BY AboveLess
    <3>3. j < i => Above(M, i) < Above(M, j)
      BY AboveLess
    <3> QED
      BY <2>2, <3>1, <3>2, <3>3
  <2> QED
    BY <2>1, <2>2
<1>3. CASE ~(Above(M, y) < turn)
  <2>1. ASSUME NEW i \in Missed(W, N, turn), i \notin Missed(W, M, turn)
        PROVE  i = y
    <3> SUFFICES ASSUME i # y PROVE FALSE
      OBVIOUS
    <3>1. i \in M /\ y > i /\ Above(M, i) = turn
      BY <1>1, <2>1
    <3>2. i \in Nat /\ y \in Nat /\ i < y
      BY <3>1
    <3>3. Above(M, y) < Above(M, i)
      BY <3>1, <3>2, AboveLess
    <3> QED
      BY <1>3, <3>1, <3>3
  <2> QED
    BY <2>1
<1> QED
  BY <1>2, <1>3

(* Ids of documents that match, and their ranks.                             *)
LEMMA MatchedIs ==
    ASSUME NEW D, D \subseteq Doc, UniqueIndexes(D), NEW S
    PROVE  /\ Matched(D, S) \subseteq Ids /\ Matched(D, S) \subseteq Nat
           /\ IsFiniteSet(Matched(D, S)) /\ Cardinality(Matched(D, S)) \in Nat
           /\ Cardinality(D) \in Nat /\ Cardinality(Matched(D, S)) <= Cardinality(D)
<1>1. /\ IsFiniteSet(D) /\ IsFiniteSet(IdsOf(D)) /\ IdsOf(D) \subseteq Nat
      /\ Cardinality(IdsOf(D)) = Cardinality(D)
  BY Counted
<1>2. Matched(D, S) \in SUBSET IdsOf(D)
  BY DEF Matched, IdsOf
<1>3. Matched(D, S) \subseteq Ids
  BY DEF Matched, Doc
<1> QED
  BY <1>1, <1>2, <1>3, FS_Subset, FS_CardinalityType

LEMMA MatchingIs ==
    ASSUME NEW D, D \subseteq Doc, UniqueIndexes(D)
    PROVE  /\ IdsOf(Matching(D)) = Matched(D, browse.search)
           /\ Cardinality(Matching(D)) = Cardinality(Matched(D, browse.search))
<1>1. IdsOf(Matching(D)) = Matched(D, browse.search)
  BY DEF IdsOf, Matching, Matched
<1>2. Matching(D) \subseteq Doc /\ UniqueIndexes(Matching(D))
  BY DEF Matching, UniqueIndexes
<1> QED
  BY <1>1, <1>2, Counted

LEMMA PageIs ==
    ASSUME NEW D, D \subseteq Doc, UniqueIndexes(D), NEW p
    PROVE  IdsOf(Page(D, p)) =
             {i \in Matched(D, browse.search) :
                Above(Matched(D, browse.search), i) \in ((p - 1) * LIMIT)..(p * LIMIT - 1)}
<1> DEFINE M == Matched(D, browse.search)
           older(i) == {e \in Matching(D) : e.id > i}
<1>1. ASSUME NEW i PROVE Cardinality(older(i)) = Above(M, i)
  <2>1. older(i) \subseteq Doc /\ UniqueIndexes(older(i))
    BY DEF Matching, UniqueIndexes
  <2>2. IdsOf(older(i)) = {w \in M : w > i}
    BY DEF IdsOf, Matching, Matched
  <2> QED
    BY <2>1, <2>2, Counted DEF Above
<1>2. IdsOf(Page(D, p)) =
        {d.id : d \in {e \in Matching(D) :
            Cardinality(older(e.id)) \in ((p - 1) * LIMIT)..(p * LIMIT - 1)}}
  BY DEF IdsOf, Page
<1>3. M = {d.id : d \in Matching(D)}
  BY DEF Matched, Matching
<1> DEFINE on(n) == n \in ((p - 1) * LIMIT)..(p * LIMIT - 1)
<1>4. \A i : on(Cardinality(older(i))) <=> on(Above(M, i))
  BY <1>1
<1>5. IdsOf(Page(D, p)) = {d.id : d \in {e \in Matching(D) : on(Cardinality(older(e.id)))}}
  BY <1>2
<1> HIDE DEF older, on, M
<1>6. IdsOf(Page(D, p)) = {i \in M : on(Above(M, i))}
  BY <1>3, <1>4, <1>5
<1> QED
  BY <1>6 DEF M, on

(* A step on the collection takes one document out of a search at most.      *)
LEMMA OneLeaves ==
    ASSUME BaseInv, BaseInv', CatalogueNext \/ Status, NEW S
    PROVE  \E y : Matched(docs, S) \ {y} \subseteq Matched(docs', S)
<1>1. CASE docs \subseteq docs'
  BY <1>1 DEF Matched
<1>2. ASSUME NEW id \in Ids, delete(id)
      PROVE  Matched(docs, S) \ {id} \subseteq Matched(docs', S)
  BY <1>2 DEF delete, Matched
<1>3. ASSUME NEW r \in Requests, write(r)
      PROVE  docs \subseteq docs' \/ Matched(docs, S) \ {req[r].id} \subseteq Matched(docs', S)
  <2> DEFINE new == {IF d.id = req[r].id THEN Written(r, d) ELSE d : d \in docs}
  <2>1. docs' = new \/ docs' = docs
    BY <1>3 DEF write
  <2>2. \A d \in docs : d.id # req[r].id => d \in new
    OBVIOUS
  <2> QED
    BY <2>1, <2>2 DEF Matched
<1>4. ASSUME NEW r \in Requests, writeStatus(r)
      PROVE  Matched(docs, S) \subseteq Matched(docs', S)
  <2> DEFINE f(d) == IF d.id = req[r].id THEN [d EXCEPT !.flag = req[r].flag] ELSE d
  <2>1. docs' = {f(d) : d \in docs}
    BY <1>4 DEF writeStatus
  <2>2. \A d \in docs : f(d).id = d.id /\ f(d).key = d.key
    BY DEF BaseInv, TypeOK, Doc
  <2> HIDE DEF f
  <2> QED
    BY <2>1, <2>2 DEF Matched
<1>5. CASE CatalogueNext
  <2>1. ASSUME NEW r \in Requests, insert(r) PROVE docs \subseteq docs'
    BY <2>1 DEF insert
  <2>2. ASSUME NEW r \in Requests, NEW k \in Keys, NEW f \in BOOLEAN, create(r, k, f)
        PROVE  docs \subseteq docs'
    BY <2>2 DEF create, Begin
  <2>3. ASSUME NEW r \in Requests, NEW id \in Ids, NEW k \in Keys, NEW f \in BOOLEAN,
               update(r, id, k, f)
        PROVE  docs \subseteq docs'
    BY <2>3 DEF update, Begin
  <2>4. ASSUME NEW r \in Requests,
               \/ checkKeyExist(r) \/ checkDefaultExist(r) \/ readLast(r)
               \/ newDocument(r) \/ Throw(r)
        PROVE  docs \subseteq docs'
    BY <2>4 DEF checkKeyExist, checkDefaultExist, readLast, newDocument, Throw
  <2> QED
    BY <1>1, <1>2, <1>3, <1>5, <2>1, <2>2, <2>3, <2>4 DEF CatalogueNext
<1>6. CASE Status
  <2>1. ASSUME NEW r \in Requests, NEW id \in Ids, NEW active \in BOOLEAN,
               updateStatus(r, id, active)
        PROVE  docs \subseteq docs'
    BY <2>1 DEF updateStatus, Begin
  <2>2. ASSUME NEW r \in Requests, checkNumOfStatus(r) PROVE docs \subseteq docs'
    BY <2>2 DEF checkNumOfStatus
  <2> QED
    BY <1>1, <1>4, <1>6, <2>1, <2>2 DEF Status
<1> QED
  BY <1>5, <1>6

LEMMA TurnIs ==
    ASSUME NEW p \in Nat, p # 0
    PROVE  /\ p * LIMIT \in Nat /\ (p - 1) * LIMIT \in Nat /\ (p - 1) * LIMIT + LIMIT = p * LIMIT
           /\ (p + 1 - 1) * LIMIT = p * LIMIT
<1>1. LIMIT \in Nat /\ p - 1 \in Nat
  BY LimitAssumption
<1>2. \A a, b \in Nat : a * b \in Nat
  OBVIOUS
<1>3. \A a, b \in Int : (a - 1) * b + b = a * b
  OBVIOUS
<1>4. p + 1 - 1 = p
  OBVIOUS
<1> QED
  BY <1>1, <1>2, <1>3, <1>4

(* The pages that are counted hold everything that matches.                  *)
LEMMA TotalIs ==
    ASSUME NEW D, D \subseteq Doc, UniqueIndexes(D), NEW p \in Nat, p # 0, ~(p < TotalPage(D))
    PROVE  Cardinality(Matched(D, browse.search)) <= p * LIMIT
<1> DEFINE m == Cardinality(Matched(D, browse.search))
           n == Cardinality(D)
<1>1. m \in Nat /\ n \in Nat /\ m <= n /\ Cardinality(Matching(D)) = m
  BY MatchedIs, MatchingIs
<1>2. Matching(D) = {} => m = 0
  <2>1. Matching(D) = {} => Matched(D, browse.search) = {}
    BY DEF Matching, Matched
  <2> QED
    BY <2>1, FS_EmptySet
<1>3. LIMIT \in Nat /\ LIMIT > 0
  BY LimitAssumption
<1>4. \A c, l \in Nat : l > 0 /\ ~(p < (c + l - 1) \div l) => c <= p * l
  <2> SUFFICES ASSUME NEW c \in Nat, NEW l \in Nat, l > 0, ~(p < (c + l - 1) \div l)
               PROVE  c <= p * l
    OBVIOUS
  <2> DEFINE q == (c + l - 1) \div l
  <2>1. c + l - 1 \in Int
    OBVIOUS
  <2>2. q \in Int /\ c + l - 1 < (q + 1) * l
    BY <2>1
  <2>3. p - q >= 0
    BY <2>2
  <2>4. \A a, b \in Int : a >= 0 /\ b > 0 => a * b >= 0
    OBVIOUS
  <2>5. (p - q) * l >= 0 /\ p - q \in Int
    BY <2>2, <2>3, <2>4
  <2> HIDE DEF q
  <2>6. (p - q) * l = p * l - q * l /\ (q + 1) * l = q * l + l
    BY <2>2
  <2> QED
    BY <2>2, <2>5, <2>6
<1>5. p * LIMIT \in Nat
  BY TurnIs
<1> HIDE DEF m, n
<1>6. m = 0 \/ n <= p * LIMIT \/ m <= p * LIMIT
  BY <1>1, <1>2, <1>3, <1>4 DEF TotalPage, n
<1> QED
  BY <1>1, <1>5, <1>6 DEF m

(* The collection as the invariant has it.                                   *)
LEMMA DocsAre ==
    ASSUME BaseInv
    PROVE  docs \subseteq Doc /\ UniqueIndexes(docs)
BY DEF BaseInv, TypeOK

LEMMA UnseenIs ==
    ASSUME browse \in Browser
    PROVE  /\ IsFiniteSet(Unseen) /\ IsFiniteSet(browse.start)
           /\ Cardinality(browse.start) \in Nat
           /\ \A W \in SUBSET Unseen : /\ IsFiniteSet(W) /\ Cardinality(W) \in Nat
                                       /\ Cardinality(W) <= Cardinality(browse.start)
<1>1. IsFiniteSet(Ids)
  BY CatalogueAssumption, FS_Interval DEF Ids
<1>2. browse.start \in SUBSET Ids /\ Unseen \in SUBSET browse.start
  BY DEF Browser, Unseen
<1>3. IsFiniteSet(browse.start) /\ IsFiniteSet(Unseen)
  BY <1>1, <1>2, FS_Subset
<1>4. ASSUME NEW W \in SUBSET Unseen
      PROVE  IsFiniteSet(W) /\ Cardinality(W) \in Nat /\ Cardinality(W) <= Cardinality(browse.start)
  <2>1. W \in SUBSET browse.start
    BY <1>2
  <2> QED
    BY <1>3, <2>1, FS_Subset, FS_CardinalityType
<1> QED
  BY <1>3, <1>4, FS_CardinalityType

(* Steps on the collection, while the administrator reads.                   *)
LEMMA BrowseDocs ==
    ASSUME BaseInv, BaseInv', BrowseInv, CatalogueNext \/ Status, Watched
    PROVE  BrowseInv'
<1> DEFINE S == browse.search
           M == Matched(docs, S)
           N == Matched(docs', S)
           gone == Cardinality(M \ N)
           all == Cardinality(browse.start)
           old == Missed(Unseen, M, Turn)
           new == Missed(Unseen, N, Turn)
           sum == browse.removed + gone
           removed == IF browse.stage \in {"find", "count"}
                        THEN IF sum > all THEN all ELSE sum
                        ELSE browse.removed
<1>1. docs \subseteq Doc /\ UniqueIndexes(docs) /\ docs' \subseteq Doc /\ UniqueIndexes(docs')
  BY DEF BaseInv, TypeOK
<1>2. /\ M \subseteq Nat /\ IsFiniteSet(M) /\ N \subseteq Nat /\ IsFiniteSet(N)
  BY <1>1, MatchedIs
<1>3. M \ N \in SUBSET M /\ IsFiniteSet(M \ N) /\ gone \in Nat
  BY <1>2, FS_Subset, FS_CardinalityType
<1>4. /\ all \in Nat /\ browse.removed \in Nat /\ browse \in Browser
  BY UnseenIs DEF BrowseInv, Browser
<1>5. browse' = [browse EXCEPT !.removed = removed]
  <2>1. Removals = gone
    BY <1>1, MatchingIs DEF Removals
  <2> QED
    BY <2>1 DEF Watched
<1>6. Turn \in Nat
  BY <1>4, TurnIs DEF Turn, BrowseInv, Browser
<1>7. Cardinality(new) <= all /\ Cardinality(new) \in Nat /\ IsFiniteSet(old) /\ Cardinality(old) \in Nat
  BY <1>4, UnseenIs DEF Missed
<1>8. Cardinality(new) <= Cardinality(old) + gone
  <2>1. PICK y : M \ {y} \subseteq N
    BY OneLeaves
  <2>2. CASE M \subseteq N
    <3>1. new \in SUBSET old
      BY <1>2, <1>6, <2>2, MissedNone
    <3> HIDE DEF new, old, gone
    <3>2. Cardinality(new) <= Cardinality(old)
      BY <1>7, <3>1, FS_Subset
    <3> QED
      BY <1>3, <1>7, <3>2
  <2>3. CASE y \in M /\ y \notin N
    <3>1. gone = 1
      <4>1. M \ N = {y}
        BY <2>1, <2>3
      <4> QED
        BY <4>1, FS_Singleton
    <3>2. PICK z : new \in SUBSET (old \cup {z})
      BY <1>2, <1>6, <2>1, <2>3, MissedOne
    <3> HIDE DEF new, old, gone
    <3>3. IsFiniteSet(old \cup {z}) /\ Cardinality(old \cup {z}) <= Cardinality(old) + 1
      BY <1>7, FS_AddElement
    <3>4. Cardinality(new) <= Cardinality(old \cup {z}) /\ Cardinality(old \cup {z}) \in Nat
      BY <3>2, <3>3, FS_Subset, FS_CardinalityType
    <3> QED
      BY <1>7, <3>1, <3>3, <3>4
  <2> QED
    BY <2>1, <2>2, <2>3
<1>9. browse.stage \in {"find", "count"} => Cardinality(old) <= browse.removed
  BY DEF BrowseInv
<1> HIDE DEF new, old, gone, all
<1>10. removed \in Nat /\ (browse.stage \in {"find", "count"} => Cardinality(new) <= removed)
  BY <1>3, <1>4, <1>7, <1>8, <1>9
<1>11. /\ browse' \in Browser /\ browse'.removed = removed
       /\ browse'.stage = browse.stage /\ browse'.page = browse.page
       /\ browse'.search = browse.search /\ browse'.start = browse.start
       /\ browse'.seen = browse.seen
  <2> HIDE DEF removed
  <2> QED
    BY <1>4, <1>5, <1>10 DEF Browser
<1>12. ~(browse.stage \in {"find", "count"}) => removed = browse.removed
  OBVIOUS
<1> HIDE DEF removed
<1>13. Unseen' = Unseen /\ Turn' = Turn /\ Matched(docs, browse.search)' = N
  BY <1>11 DEF Unseen, Turn, Matched
<1>14. Missed(Unseen, Matched(docs, browse.search), Turn)' = new
  BY <1>13 DEF new, Missed, Above
<1> QED
  BY <1>10, <1>11, <1>12, <1>13, <1>14 DEF BrowseInv

(* Steps of the administrator.                                               *)
LEMMA BrowseOpen ==
    ASSUME BaseInv, BrowseInv, NEW S \in world.searches, open(S)
    PROVE  BrowseInv'
<1>1. S \subseteq Keys
  BY CatalogueAssumption DEF BaseInv, TypeOK, World
<1>2. Matched(docs, S) \subseteq Ids
  BY DocsAre, MatchedIs
<1>3. browse \in Browser /\ browse.page = 1 /\ browse.seen = {} /\ browse.removed \in Nat
  BY DEF open, BrowseInv, Browser
<1>4. /\ browse'.stage = "find" /\ browse'.search = S /\ browse'.start = Matched(docs, S)
      /\ browse'.page = 1 /\ browse'.seen = {} /\ browse'.removed = browse.removed
      /\ browse' \in Browser
  BY <1>1, <1>2, <1>3 DEF open, Browser, Matched
<1>5. docs' = docs
  BY DEF open, vars
<1>6. Turn' = 0
  BY <1>4, LimitAssumption DEF Turn
<1>7. Missed(Unseen, Matched(docs, browse.search), Turn)' = {}
  <2>1. Matched(docs, browse.search)' = Matched(docs, S)
    BY <1>4, <1>5 DEF Matched
  <2>2. \A i \in Matched(docs, S) : ~(Above(Matched(docs, S), i) < 0)
    <3> SUFFICES ASSUME NEW i \in Matched(docs, S) PROVE ~(Above(Matched(docs, S), i) < 0)
      OBVIOUS
    <3>1. Above(Matched(docs, S), i) \in Nat
      BY DocsAre, MatchedIs, AboveGrows
    <3> QED
      BY <3>1
  <2>3. Unseen' \subseteq Matched(docs, S)
    BY <1>4 DEF Unseen
  <2> QED
    BY <1>6, <2>1, <2>2, <2>3 DEF Missed, Above
<1> QED
  BY <1>3, <1>4, <1>7, FS_EmptySet DEF BrowseInv

LEMMA BrowseFind ==
    ASSUME BaseInv, BrowseInv, find
    PROVE  BrowseInv'
<1> DEFINE M == Matched(docs, browse.search)
           shown == IdsOf(Page(docs, browse.page))
           old == Missed(Unseen, M, (browse.page - 1) * LIMIT)
           new == Missed(Unseen \ shown, M, browse.page * LIMIT)
<1>1. shown = {i \in M : Above(M, i) \in ((browse.page - 1) * LIMIT)..(browse.page * LIMIT - 1)}
  BY DocsAre, PageIs
<1>2. M \subseteq Ids /\ M \subseteq Nat /\ IsFiniteSet(M)
  BY DocsAre, MatchedIs
<1>3. /\ browse.stage = "find" /\ browse \in Browser /\ browse.page \in Nat /\ browse.page # 0
      /\ browse.removed \in Nat /\ Cardinality(old) <= browse.removed
  BY DEF find, BrowseInv, Browser, Turn
<1>4. /\ browse' = [browse EXCEPT !.stage = "count", !.seen = @ \cup shown] /\ docs' = docs
  BY DEF find, vars
<1>5. (browse.page - 1) * LIMIT \in Nat /\ browse.page * LIMIT \in Nat
  BY <1>3, TurnIs
<1>6. new \in SUBSET old
  <2> SUFFICES ASSUME NEW i \in Unseen, i \notin shown, i \in M,
                      Above(M, i) < browse.page * LIMIT
               PROVE  Above(M, i) < (browse.page - 1) * LIMIT
    BY DEF Missed
  <2>1. Above(M, i) \in Nat
    BY <1>2, AboveGrows
  <2> QED
    BY <1>1, <1>5, <2>1
<1>7. IsFiniteSet(old) /\ Cardinality(old) \in Nat
  BY <1>3, UnseenIs DEF Missed
<1>8. shown \subseteq Ids
  BY <1>1, <1>2
<1> HIDE DEF shown, old
<1>9. /\ browse'.stage = "count" /\ browse'.search = browse.search
      /\ browse'.start = browse.start /\ browse'.page = browse.page
      /\ browse'.seen = browse.seen \cup shown /\ browse'.removed = browse.removed
      /\ browse' \in Browser
  BY <1>3, <1>4, <1>8 DEF Browser
<1>10. Unseen' = Unseen \ shown /\ Turn' = browse.page * LIMIT
  BY <1>9 DEF Unseen, Turn
<1>11. Missed(Unseen, Matched(docs, browse.search), Turn)' = new
  BY <1>4, <1>9, <1>10 DEF Missed, Above, Matched
<1> HIDE DEF new
<1>12. Cardinality(new) <= Cardinality(old) /\ Cardinality(new) \in Nat
  BY <1>6, <1>7, FS_Subset, FS_CardinalityType
<1>13. Cardinality(new) <= browse.removed
  BY <1>3, <1>7, <1>12
<1> QED
  BY <1>3, <1>9, <1>11, <1>13 DEF BrowseInv

LEMMA BrowseCount ==
    ASSUME BaseInv, BrowseInv, countDocuments
    PROVE  BrowseInv'
<1> DEFINE M == Matched(docs, browse.search)
           old == Missed(Unseen, M, browse.page * LIMIT)
<1>1. /\ browse.stage = "count" /\ browse \in Browser /\ browse.page \in Nat /\ browse.page # 0
      /\ browse.removed \in Nat /\ Cardinality(old) <= browse.removed
  BY DEF countDocuments, BrowseInv, Browser, Turn
<1>2. docs' = docs
  BY DEF countDocuments, vars
<1>3. CASE browse.page < TotalPage(docs)
  <2>1. /\ browse'.stage = "find" /\ browse'.search = browse.search
        /\ browse'.start = browse.start /\ browse'.page = browse.page + 1
        /\ browse'.seen = browse.seen /\ browse'.removed = browse.removed
        /\ browse' \in Browser
    <3>1. browse' = [browse EXCEPT !.stage = "find", !.page = browse.page + 1]
      BY <1>3 DEF countDocuments
    <3>2. browse.page + 1 \in Nat
      BY <1>1
    <3> QED
      BY <1>1, <3>1, <3>2 DEF Browser
  <2>2. Turn' = browse.page * LIMIT /\ Unseen' = Unseen
    BY <1>1, <2>1, TurnIs DEF Turn, Unseen
  <2>3. Missed(Unseen, Matched(docs, browse.search), Turn)' = old
    BY <1>2, <2>1, <2>2 DEF Missed, Above, Matched
  <2>4. browse'.page # 0
    BY <1>1, <2>1
  <2> QED
    BY <1>1, <2>1, <2>3, <2>4 DEF BrowseInv
<1>4. CASE ~(browse.page < TotalPage(docs))
  <2>1. /\ browse'.stage = "done" /\ browse'.start = browse.start
        /\ browse'.page = browse.page /\ browse'.seen = browse.seen
        /\ browse'.removed = browse.removed /\ browse' \in Browser
    BY <1>1, <1>4 DEF countDocuments, Browser
  <2>2. Unseen = old
    <3> SUFFICES ASSUME NEW i \in M PROVE Above(M, i) < browse.page * LIMIT
      BY DEF Missed
    <3>1. /\ M \subseteq Nat /\ IsFiniteSet(M) /\ Cardinality(M) \in Nat
          /\ Cardinality(M) <= browse.page * LIMIT
      BY <1>1, <1>4, DocsAre, MatchedIs, TotalIs
    <3>2. Above(M, i) \in 0..(Cardinality(M) - 1)
      BY <3>1, AboveBound
    <3>3. browse.page * LIMIT \in Nat
      BY <1>1, TurnIs
    <3> HIDE DEF M
    <3> QED
      BY <3>1, <3>2, <3>3
  <2>3. Unseen' = Unseen
    BY <2>1 DEF Unseen
  <2> QED
    BY <1>1, <2>1, <2>2, <2>3 DEF BrowseInv
<1> QED
  BY <1>3, <1>4

LEMMA BrowseInvariant == Spec => []BrowseInv
<1>1. Init => BrowseInv
  BY DEF Init, BrowseInv, Browser
<1>2. BaseInv /\ BaseInv' /\ BrowseInv /\ [Next]_<<vars, browse>> => BrowseInv'
  <2> SUFFICES ASSUME BaseInv, BaseInv', BrowseInv, [Next]_<<vars, browse>> PROVE BrowseInv'
    OBVIOUS
  <2>1. CASE (CatalogueNext \/ Status) /\ Watched
    BY <2>1, BrowseDocs
  <2>2. ASSUME NEW S \in world.searches, open(S) PROVE BrowseInv'
    BY <2>2, BrowseOpen
  <2>3. CASE find
    BY <2>3, BrowseFind
  <2>4. CASE countDocuments
    BY <2>4, BrowseCount
  <2>5. CASE UNCHANGED <<vars, browse>>
    BY <2>5 DEF vars, BrowseInv, Unseen, Turn, Matched, Missed, Above
  <2> QED
    BY <2>1, <2>2, <2>3, <2>4, <2>5 DEF Next
<1> QED
  BY <1>1, <1>2, BaseInvariant, PTL DEF Spec

(* Whoever pages to the end has seen every document that matched from the    *)
(* beginning and still does, but for one at most for each document that was  *)
(* taken out of the search meanwhile.                                        *)
THEOREM PagesMissNothing == Spec => [](BrowseTypeOK /\ BrowseMissesNothing)
<1>1. BaseInv /\ BrowseInv => BrowseTypeOK /\ BrowseMissesNothing
  <2> SUFFICES ASSUME BaseInv, BrowseInv PROVE BrowseTypeOK /\ BrowseMissesNothing
    OBVIOUS
  <2>1. BrowseTypeOK
    BY DEF BrowseTypeOK, BaseInv, BrowseInv
  <2>2. ASSUME browse.stage = "done"
        PROVE  Cardinality((browse.start \cap IdsOf(Matching(docs))) \ browse.seen) <= browse.removed
    <3> DEFINE left == (browse.start \cap IdsOf(Matching(docs))) \ browse.seen
    <3>1. left \in SUBSET Unseen
      BY DEF Unseen
    <3>2. IsFiniteSet(Unseen) /\ Cardinality(Unseen) \in Nat /\ Cardinality(Unseen) <= browse.removed
      BY <2>2, UnseenIs, FS_CardinalityType DEF BrowseInv
    <3>3. browse.removed \in Nat
      BY DEF BrowseInv, Browser
    <3> HIDE DEF left
    <3>4. Cardinality(left) <= Cardinality(Unseen) /\ Cardinality(left) \in Nat
      BY <3>1, <3>2, FS_Subset, FS_CardinalityType
    <3>5. Cardinality(left) <= browse.removed
      BY <3>2, <3>3, <3>4
    <3> QED
      BY <3>5 DEF left
  <2> QED
    BY <2>1, <2>2 DEF BrowseMissesNothing
<1> QED
  BY <1>1, BaseInvariant, BrowseInvariant, PTL
================================================================================
