----------------------------- MODULE ProfilesProofs ----------------------------
(***************************************************************************)
(* Proofs about profiles and explore, for any users, requests and bounds.  *)
(***************************************************************************)
EXTENDS Explore, FiniteSetTheorems, SequenceTheorems, TLAPS

Types ==
    /\ bounds \in Bounds
    /\ named \subseteq Users /\ customer \subseteq Users
    /\ customers \in [Users -> Nat] /\ interests \in [Users -> Nat]
    /\ genders \in [Users -> Seq(Genders)] /\ chosen \in [Users -> Seq(Genders)]
    /\ req \in [Requests -> Request]
    /\ overlapped \in BOOLEAN /\ failed \in BOOLEAN

\* What a request in flight is about.
Formed(q) ==
    /\ q.stage # "idle" => q.user \in Users
    /\ q.stage \in {"customer", "parts", "gender"} => q.gender \in Genders
    /\ q.stage # "parts" => q.pending = {} /\ ~q.rejected
    /\ q.stage = "parts" => q.pending # {}

\* Which of what createProfile stores its request has stored for its user, said
\* of the genders G and interests I.
Stores(q, G, I) ==
    \/ q.stage = "user"
    \/ q.stage = "parts" /\ ~q.rejected
    => /\ "gender" \notin q.pending => G[q.user] # <<>>
       /\ "interest" \notin q.pending => I[q.user] > 0

PartsInv ==
    /\ Types
    /\ \A r \in Requests : Formed(req[r]) /\ Stores(req[r], genders, interests)
    /\ CustomerHasParts

\* The requests that have still to store a part of a user's profile.
Waiting(u, op) ==
    {r \in Requests : req[r].stage = "parts" /\ req[r].user = u /\ op \in req[r].pending}

\* As long as nothing fails, a customer comes with the gender and the interest
\* that are stored or under way, and with the request that will name it.
WholeInv ==
    ~failed =>
        /\ \A r \in Requests : ~req[r].rejected
        /\ \A u \in Users :
              /\ Len(genders[u]) + Cardinality(Waiting(u, "gender")) = customers[u]
              /\ interests[u] + Cardinality(Waiting(u, "interest")) = customers[u]
              /\ customers[u] > 0 =>
                    \/ u \in customer
                    \/ \E r \in Requests : req[r].user = u /\ req[r].stage \in {"parts", "user"}

Newest(s) == s[Len(s)]

\* The gender that is shown is the one chosen last.
Shown(u) ==
    customers[u] = 1 /\ genders[u] # <<>> =>
        chosen[u] # <<>> /\ Head(genders[u]) = Newest(chosen[u])

\* A request that has still to store the gender of its user.
Choosing(q) ==
    \/ q.stage \in {"customer", "gender"}
    \/ q.stage = "parts" /\ "gender" \in q.pending

ShownInv ==
    ~failed /\ ~overlapped =>
        /\ \A r, s \in InFlight : r = s
        /\ \A r \in Requests : Choosing(req[r]) =>
              chosen[req[r].user] # <<>> /\ req[r].gender = Newest(chosen[req[r].user])
        /\ \A u \in Users :
              (\A r \in Requests : Choosing(req[r]) => req[r].user # u) => Shown(u)

\* A lookup excludes all that it should, or has still to read it; and the total
\* is that of those it has counted.
Excludes(l) ==
    /\ l.stage = "read" =>
          l.before \subseteq l.exclude \cup UNION {getByFilter(l.user, c) : c \in l.unread}
    /\ l.stage \in {"count", "find"} => l.before \subseteq l.exclude
    /\ l.stage = "find" => l.total = Cardinality(l.counted)

Looks ==
    /\ look \in [Lookups -> Lookup]
    /\ \A x \in Lookups : Excludes(look[x])

\* Only request r moves, and is n afterwards.
Moves(r, n) ==
    /\ n \in Request /\ Formed(n)
    /\ req' = [req EXCEPT ![r] = n]

\* What is stored of the profiles is not removed.
Kept ==
    /\ \A u \in Users : genders[u] # <<>> => genders'[u] # <<>>
    /\ \A u \in Users : interests[u] > 0 => interests'[u] > 0

-----------------------------------------------------------------------------
(* How requests move.                                                      *)

(* A free slot.                                                              *)
LEMMA IdleIs ==
    /\ Idle \in Request /\ Formed(Idle)
    /\ Idle.stage = "idle" /\ Idle.pending = {} /\ ~Idle.rejected
BY DEF Idle, Handler, Request, Stages, Names, Formed, Operations

(* A request that begins.                                                    *)
LEMMA HandlerIs ==
    ASSUME NEW s \in {"customer", "gender", "fields"}, NEW u \in Users,
           NEW g \in Genders \cup {0}, s # "fields" => g \in Genders, NEW b \in Names
    PROVE  LET n == Handler(s, u, g, {}, b) IN
           /\ n \in Request /\ Formed(n)
           /\ n.stage = s /\ n.user = u /\ n.gender = g /\ n.pending = {} /\ ~n.rejected
BY DEF Handler, Request, Stages, Names, Formed, Operations

(* A request that goes on to its next stage.                                 *)
LEMMA GotoIs ==
    ASSUME Types, NEW r \in Requests, Formed(req[r]), req[r].stage = "gender",
           Goto(r, "fields")
    PROVE  \E n : /\ Moves(r, n)
                  /\ n.stage = "fields" /\ n.user = req[r].user /\ ~n.rejected
<1> DEFINE n == [req[r] EXCEPT !.stage = "fields"]
<1>1. req' = [req EXCEPT ![r] = n]
  BY DEF Goto
<1>2. /\ n \in Request /\ n.stage = "fields" /\ n.user = req[r].user
      /\ n.pending = req[r].pending /\ n.rejected = req[r].rejected
  BY DEF Types, Request, Stages
<1>3. Formed(n) /\ ~n.rejected
  BY <1>2 DEF Formed
<1> QED
  BY <1>1, <1>2, <1>3 DEF Moves

(* The three operations are issued.                                          *)
LEMMA IssuedIs ==
    ASSUME Types, NEW r \in Requests, Formed(req[r]), createCustomer(r)
    PROVE  \E n : /\ Moves(r, n)
                  /\ n.stage = "parts" /\ n.user = req[r].user /\ n.gender = req[r].gender
                  /\ n.pending = Operations /\ ~n.rejected
<1> DEFINE n == [req[r] EXCEPT !.stage = "parts", !.pending = Operations]
<1>1. req' = [req EXCEPT ![r] = n] /\ req[r].stage = "customer"
  BY DEF createCustomer, At
<1>2. /\ n \in Request /\ n.stage = "parts" /\ n.user = req[r].user
      /\ n.gender = req[r].gender /\ n.pending = Operations /\ n.rejected = req[r].rejected
  BY DEF Types, Request, Stages, Operations
<1> HIDE DEF n
<1>3. Formed(n) /\ ~n.rejected
  BY <1>1, <1>2 DEF Formed, Operations
<1> QED
  BY <1>1, <1>2, <1>3 DEF Moves

\* Request n is q with one operation less, and still has some.
Fewer(n, q, op) ==
    /\ n.stage = "parts" /\ n.user = q.user /\ n.gender = q.gender
    /\ n.pending = q.pending \ {op} /\ n.pending # {}

(* One of the three is applied.                                              *)
LEMMA AppliedIs ==
    ASSUME Types, NEW r \in Requests, Formed(req[r]), NEW op \in Operations,
           Pending(r, op), applied(r, op)
    PROVE  \E n : /\ Moves(r, n)
                  /\ \/ Fewer(n, req[r], op) /\ n.rejected = req[r].rejected
                     \/ n = Idle /\ req[r].rejected /\ req[r].pending = {op}
                     \/ /\ n.stage = "user" /\ n.user = req[r].user
                        /\ n.pending = {} /\ ~n.rejected
                        /\ ~req[r].rejected /\ req[r].pending = {op}
<1> DEFINE left == req[r].pending \ {op}
<1>0. req[r] \in Request /\ req[r].stage = "parts" /\ op \in req[r].pending
  BY DEF Types, Pending, At
<1>1. CASE left # {}
  <2> DEFINE n == [req[r] EXCEPT !.pending = left]
  <2>1. req' = [req EXCEPT ![r] = n]
    BY <1>1 DEF applied
  <2>2. /\ n \in Request /\ Fewer(n, req[r], op) /\ n.rejected = req[r].rejected
    BY <1>0, <1>1 DEF Request, Fewer
  <2> HIDE DEF n
  <2>3. Formed(n)
    BY <1>0, <2>2 DEF Formed, Fewer
  <2> QED
    BY <2>1, <2>2, <2>3 DEF Moves
<1>2. CASE left = {} /\ req[r].rejected
  <2>1. req' = [req EXCEPT ![r] = Idle] /\ req[r].pending = {op}
    BY <1>0, <1>2 DEF applied
  <2> QED
    BY <1>2, <2>1, IdleIs DEF Moves
<1>3. CASE left = {} /\ ~req[r].rejected
  <2> DEFINE n == [req[r] EXCEPT !.pending = {}, !.stage = "user"]
  <2>1. req' = [req EXCEPT ![r] = n] /\ req[r].pending = {op}
    BY <1>0, <1>3 DEF applied
  <2>2. /\ n \in Request /\ n.stage = "user" /\ n.user = req[r].user
        /\ n.pending = {} /\ n.rejected = req[r].rejected
    BY <1>0 DEF Request, Stages
  <2> HIDE DEF n
  <2>3. Formed(n)
    BY <1>0, <1>3, <2>2 DEF Formed
  <2> QED
    BY <1>3, <2>1, <2>2, <2>3 DEF Moves
<1> QED
  BY <1>1, <1>2, <1>3 DEF Types, Request

(* One of the three fails.                                                   *)
LEMMA RejectedIs ==
    ASSUME Types, NEW r \in Requests, Formed(req[r]), rejectOne(r)
    PROVE  \E n : /\ Moves(r, n)
                  /\ \/ n = Idle
                     \/ \E op \in req[r].pending : Fewer(n, req[r], op) /\ n.rejected
<1>0. req[r] \in Request
  BY DEF Types
<1>1. PICK op \in req[r].pending :
        req' = [req EXCEPT ![r] = IF req[r].pending \ {op} = {} THEN Idle
                                  ELSE [req[r] EXCEPT !.pending = req[r].pending \ {op},
                                                      !.rejected = TRUE]]
  BY DEF rejectOne
<1>2. CASE req[r].pending \ {op} = {}
  BY <1>1, <1>2, IdleIs DEF Moves
<1>3. CASE req[r].pending \ {op} # {}
  <2> DEFINE n == [req[r] EXCEPT !.pending = req[r].pending \ {op}, !.rejected = TRUE]
  <2>1. req' = [req EXCEPT ![r] = n]
    BY <1>1, <1>3
  <2>2. req[r].stage = "parts"
    BY DEF Formed
  <2>3. n \in Request /\ Fewer(n, req[r], op) /\ n.rejected
    BY <1>0, <1>3, <2>2 DEF Request, Fewer
  <2> HIDE DEF n
  <2>4. Formed(n)
    BY <2>2, <2>3 DEF Formed, Fewer
  <2> QED
    BY <2>1, <2>3, <2>4 DEF Moves
<1> QED
  BY <1>2, <1>3

-----------------------------------------------------------------------------
(* Whatever fails: what is written last comes with all the rest.           *)

(* A move of one request, where nothing that is stored goes.                 *)
LEMMA PartsKept ==
    ASSUME PartsInv, Types', Kept, NEW r \in Requests, NEW n, Moves(r, n),
           Stores(n, genders', interests'),
           named' \subseteq customer' \cup renamed',
           \A u \in customer' : genders'[u] # <<>> /\ interests'[u] > 0
    PROVE  PartsInv'
<1>1. ASSUME NEW x \in Requests
      PROVE  Formed(req'[x]) /\ Stores(req'[x], genders', interests')
  <2>1. CASE x = r
    BY <2>1 DEF Moves, PartsInv, Types
  <2>2. CASE x # r
    <3>1. req'[x] = req[x] /\ Formed(req[x]) /\ Stores(req[x], genders, interests)
      BY <2>2 DEF Moves, PartsInv, Types
    <3>2. Stores(req[x], genders', interests')
      BY <3>1 DEF Stores, Formed, Kept
    <3> QED
      BY <3>1, <3>2
  <2> QED
    BY <2>1, <2>2
<1> QED
  BY <1>1 DEF PartsInv, CustomerHasParts

(* A move that writes no document.                                           *)
LEMMA PartsMove ==
    ASSUME PartsInv, NEW r \in Requests, NEW n, Moves(r, n),
           UNCHANGED <<bounds, named, customer, genders, interests>>,
           customers' \in [Users -> Nat], chosen' \in [Users -> Seq(Genders)],
           overlapped' \in BOOLEAN, failed' \in BOOLEAN, renamed \subseteq renamed',
           Stores(n, genders, interests)
    PROVE  PartsInv'
<1>1. Types' /\ Kept
  BY DEF PartsInv, Types, Moves, Kept
<1> QED
  BY <1>1, PartsKept DEF PartsInv, CustomerHasParts

\* A request that begins, or the slot of one that ends, has not stored anything.
LEMMA StoresNothing ==
    ASSUME NEW n, n.stage \notin {"parts", "user"}, NEW G, NEW I
    PROVE  Stores(n, G, I)
BY DEF Stores

LEMMA CreateProfileParts ==
    ASSUME PartsInv, NEW r \in Requests, NEW u \in Users, NEW g \in Genders,
           createProfile(r, u, g)
    PROVE  PartsInv'
<1> DEFINE n == Handler("customer", u, g, {}, "keep")
<1>1. Moves(r, n) /\ Stores(n, genders, interests)
  BY HandlerIs, StoresNothing DEF createProfile, Begin, Moves, Names
<1>2. chosen' \in [Users -> Seq(Genders)]
  BY AppendProperties DEF createProfile, PartsInv, Types
<1>3. overlapped' \in BOOLEAN
  BY DEF createProfile, Begin
<1> HIDE DEF n
<1> QED
  BY <1>1, <1>2, <1>3, PartsMove DEF createProfile, docVars, PartsInv, Types

LEMMA UpdateProfileParts ==
    ASSUME PartsInv, NEW r \in Requests, NEW u \in Users, NEW g \in Genders \cup {0},
           NEW b \in Names, updateProfile(r, u, g, b)
    PROVE  PartsInv'
<1> DEFINE s == IF g = 0 THEN "fields" ELSE "gender"
<1> DEFINE n == Handler(s, u, g, {}, b)
<1>0. s # "fields" => g \in Genders
  OBVIOUS
<1>1. n \in Request /\ Formed(n) /\ n.stage = s
  BY <1>0, HandlerIs
<1>2. req' = [req EXCEPT ![r] = n]
  BY DEF updateProfile, Begin
<1> HIDE DEF n
<1>3. Moves(r, n) /\ Stores(n, genders, interests)
  BY <1>1, <1>2, StoresNothing DEF Moves
<1>4. chosen' \in [Users -> Seq(Genders)]
  BY AppendProperties DEF updateProfile, PartsInv, Types
<1>5. overlapped' \in BOOLEAN
  BY DEF updateProfile, Begin
<1> QED
  BY <1>3, <1>4, <1>5, PartsMove DEF updateProfile, docVars, PartsInv, Types

LEMMA CreateCustomerParts ==
    ASSUME PartsInv, NEW r \in Requests, createCustomer(r)
    PROVE  PartsInv'
<1>1. PICK n : /\ Moves(r, n)
               /\ n.stage = "parts" /\ n.user = req[r].user /\ n.pending = Operations
  BY IssuedIs DEF PartsInv
<1>2. Stores(n, genders, interests)
  BY <1>1 DEF Stores, Operations
<1>3. req[r].user \in Users
  BY DEF PartsInv, Formed, createCustomer, At
<1>4. customers' \in [Users -> Nat]
  BY <1>3 DEF createCustomer, PartsInv, Types
<1> QED
  BY <1>1, <1>2, <1>4, PartsMove DEF createCustomer, PartsInv, Types

(* What the three operations have in common: the one that is applied is done *)
(* after it, and the others as they were.                                    *)
LEMMA AppliedParts ==
    ASSUME PartsInv, NEW r \in Requests, NEW op \in Operations, Pending(r, op), applied(r, op),
           Kept,
           genders' \in [Users -> Seq(Genders)], interests' \in [Users -> Nat],
           op = "gender" => genders'[req[r].user] # <<>>,
           op = "interest" => interests'[req[r].user] > 0,
           UNCHANGED <<bounds, named, customer, customers, chosen, renamed, overlapped, failed>>
    PROVE  PartsInv'
<1>0. /\ req[r].stage = "parts" /\ req[r].user \in Users
      /\ Stores(req[r], genders, interests) /\ op \in req[r].pending
  BY DEF PartsInv, Formed, Pending, At
<1>1. PICK n : /\ Moves(r, n)
               /\ \/ Fewer(n, req[r], op) /\ n.rejected = req[r].rejected
                  \/ n = Idle /\ req[r].rejected /\ req[r].pending = {op}
                  \/ /\ n.stage = "user" /\ n.user = req[r].user
                     /\ n.pending = {} /\ ~n.rejected
                     /\ ~req[r].rejected /\ req[r].pending = {op}
  BY AppliedIs DEF PartsInv
<1>2. Types'
  BY <1>1 DEF PartsInv, Types, Moves
<1>3. Stores(n, genders', interests')
  <2>1. CASE Fewer(n, req[r], op) /\ n.rejected = req[r].rejected
    BY <1>0, <2>1 DEF Fewer, Stores, Kept
  <2>2. CASE n = Idle
    BY <2>2, IdleIs DEF Stores
  <2>3. CASE n.stage = "user" /\ n.user = req[r].user /\ ~req[r].rejected /\ req[r].pending = {op}
    BY <1>0, <2>3 DEF Stores, Kept
  <2> QED
    BY <1>1, <2>1, <2>2, <2>3
<1>4. \A u \in customer' : genders'[u] # <<>> /\ interests'[u] > 0
  BY DEF PartsInv, Types, CustomerHasParts, Kept
<1> QED
  BY <1>1, <1>2, <1>3, <1>4, PartsKept DEF PartsInv, CustomerHasParts

LEMMA OperationParts ==
    ASSUME PartsInv, NEW r \in Requests,
           insertPhotos(r) \/ createUserGender(r) \/ createInterests(r)
    PROVE  PartsInv'
<1>1. CASE insertPhotos(r)
  <2>1. Kept /\ genders' \in [Users -> Seq(Genders)] /\ interests' \in [Users -> Nat]
    BY <1>1 DEF insertPhotos, Kept, PartsInv, Types
  <2> QED
    BY <1>1, <2>1, AppliedParts DEF insertPhotos, Operations
<1>2. CASE createUserGender(r)
  <2>1. req[r].user \in Users /\ req[r].gender \in Genders
    BY <1>2 DEF createUserGender, Pending, At, PartsInv, Formed
  <2>2. /\ genders[req[r].user] \in Seq(Genders)
        /\ genders' = [genders EXCEPT ![req[r].user] = Append(genders[req[r].user], req[r].gender)]
    BY <1>2, <2>1 DEF createUserGender, PartsInv, Types
  <2>3. /\ Append(genders[req[r].user], req[r].gender) \in Seq(Genders)
        /\ Append(genders[req[r].user], req[r].gender) # <<>>
    BY <2>1, <2>2, AppendProperties
  <2>4. /\ genders' \in [Users -> Seq(Genders)] /\ genders'[req[r].user] # <<>>
        /\ \A u \in Users : genders[u] # <<>> => genders'[u] # <<>>
    BY <2>1, <2>2, <2>3 DEF PartsInv, Types
  <2>5. Kept /\ interests' \in [Users -> Nat]
    BY <1>2, <2>4 DEF createUserGender, Kept, PartsInv, Types
  <2> QED
    BY <1>2, <2>4, <2>5, AppliedParts DEF createUserGender, Operations
<1>3. CASE createInterests(r)
  <2>1. req[r].user \in Users
    BY <1>3 DEF createInterests, Pending, At, PartsInv, Formed
  <2>2. /\ interests' \in [Users -> Nat] /\ interests'[req[r].user] > 0
        /\ \A u \in Users : interests[u] > 0 => interests'[u] > 0
    BY <1>3, <2>1 DEF createInterests, PartsInv, Types
  <2>3. Kept /\ genders' \in [Users -> Seq(Genders)]
    BY <1>3, <2>2 DEF createInterests, Kept, PartsInv, Types
  <2> QED
    BY <1>3, <2>2, <2>3, AppliedParts DEF createInterests, Operations
<1> QED
  BY <1>1, <1>2, <1>3

LEMMA RejectOneParts ==
    ASSUME PartsInv, NEW r \in Requests, rejectOne(r)
    PROVE  PartsInv'
<1>1. PICK n : /\ Moves(r, n)
               /\ \/ n = Idle
                  \/ \E op \in req[r].pending : Fewer(n, req[r], op) /\ n.rejected
  BY RejectedIs DEF PartsInv
<1>2. Stores(n, genders, interests)
  BY <1>1, IdleIs DEF Fewer, Stores
<1> QED
  BY <1>1, <1>2, PartsMove DEF rejectOne, docVars, PartsInv, Types

LEMMA UpdateOneParts ==
    ASSUME PartsInv, NEW r \in Requests, updateOne(r)
    PROVE  PartsInv'
<1>1. /\ Moves(r, Idle) /\ Stores(Idle, genders', interests')
      /\ req[r].user \in Users /\ req[r].stage = "user" /\ req[r].pending = {}
  BY IdleIs, StoresNothing DEF updateOne, Finish, Moves, At, PartsInv, Formed
<1>2. genders[req[r].user] # <<>> /\ interests[req[r].user] > 0
  BY <1>1 DEF PartsInv, Stores
<1>3. Types' /\ Kept
  BY <1>1 DEF updateOne, PartsInv, Types, Moves, Kept
<1> QED
  BY <1>1, <1>2, <1>3, PartsKept DEF updateOne, PartsInv, CustomerHasParts

(* The first document is replaced, when there is one.                        *)
LEMMA ReplacedFirst ==
    ASSUME NEW s \in Seq(Genders), s # <<>>, NEW g \in Genders
    PROVE  LET t == <<g>> \o Tail(s) IN
           /\ t \in Seq(Genders) /\ Len(t) = Len(s) /\ t # <<>> /\ Head(t) = g
<1>1. Len(s) \in Nat \ {0}
  BY EmptySeq, LenProperties
<1>2. Tail(s) \in Seq(Genders) /\ Len(Tail(s)) = Len(s) - 1
  BY <1>1
<1>3. <<g>> \o Tail(s) \in Seq(Genders) /\ Len(<<g>> \o Tail(s)) = Len(s)
  BY <1>1, <1>2
<1>4. (<<g>> \o Tail(s))[1] = g
  BY <1>1, <1>2
<1> QED
  BY <1>1, <1>3, <1>4, EmptySeq

LEMMA UpdateUserGenderParts ==
    ASSUME PartsInv, NEW r \in Requests, updateUserGender(r)
    PROVE  PartsInv'
<1>1. /\ req[r].user \in Users /\ req[r].gender \in Genders /\ req[r].stage = "gender"
  BY DEF updateUserGender, At, PartsInv, Formed
<1>2. PICK n : Moves(r, n) /\ n.stage = "fields"
  BY <1>1, GotoIs DEF updateUserGender, PartsInv
<1>3. genders[req[r].user] \in Seq(Genders)
  BY <1>1 DEF PartsInv, Types
<1>4. PICK t \in Seq(Genders) : /\ genders' = [genders EXCEPT ![req[r].user] = t]
                                /\ genders[req[r].user] # <<>> => t # <<>>
  BY <1>1, <1>3, ReplacedFirst DEF updateUserGender
<1>5. Types' /\ Kept
  BY <1>1, <1>2, <1>4 DEF updateUserGender, PartsInv, Types, Moves, Kept
<1>6. \A u \in customer' : genders'[u] # <<>> /\ interests'[u] > 0
  BY <1>5 DEF updateUserGender, PartsInv, Types, CustomerHasParts, Kept
<1> QED
  BY <1>2, <1>5, <1>6, PartsKept, StoresNothing DEF updateUserGender, PartsInv, CustomerHasParts

LEMMA UpdateFieldsParts ==
    ASSUME PartsInv, NEW r \in Requests, updateFields(r)
    PROVE  PartsInv'
<1>1. Moves(r, Idle) /\ Stores(Idle, genders', interests') /\ req[r].user \in Users
  BY IdleIs, StoresNothing DEF updateFields, Finish, Moves, At, PartsInv, Formed
<1>2. Types' /\ Kept
  BY <1>1 DEF updateFields, PartsInv, Types, Moves, Kept
<1> QED
  BY <1>1, <1>2, PartsKept DEF updateFields, PartsInv, CustomerHasParts

LEMMA ThrowParts ==
    ASSUME PartsInv, NEW r \in Requests, Throw(r)
    PROVE  PartsInv'
<1>1. Moves(r, Idle) /\ Stores(Idle, genders, interests)
  BY IdleIs, StoresNothing DEF Throw, Finish, Moves
<1>2. customers' \in [Users -> Nat]
  <2>1. customers \in [Users -> Nat] /\ req[r].user \in Users
    BY DEF Throw, At, PartsInv, Types, Formed
  <2> QED
    BY <2>1 DEF Throw
<1> QED
  BY <1>1, <1>2, PartsMove DEF Throw, PartsInv, Types

(* The photos and explore leave the rest of a profile alone.                 *)
LEMMA PartsUnchanged ==
    ASSUME PartsInv,
           UNCHANGED <<bounds, named, customer, customers, genders, interests, req, chosen,
                       renamed, overlapped, failed>>
    PROVE  PartsInv'
BY DEF PartsInv, Types, CustomerHasParts

LEMMA PartsStep == PartsInv /\ [Next]_vars => PartsInv'
<1> SUFFICES ASSUME PartsInv, [Next]_vars PROVE PartsInv'
  OBVIOUS
<1>1. CASE ProfileNext
  <2>1. ASSUME NEW r \in Requests, ProfileStep(r) PROVE PartsInv'
    BY <2>1, CreateCustomerParts, OperationParts, UpdateOneParts, UpdateUserGenderParts,
       UpdateFieldsParts DEF ProfileStep
  <2>2. ASSUME NEW r \in Requests, rejectOne(r) \/ Throw(r) PROVE PartsInv'
    BY <2>2, RejectOneParts, ThrowParts
  <2>3. ASSUME NEW u \in bounds.creators, createPhoto(u) \/ deletePhoto(u) PROVE PartsInv'
    BY <2>3, PartsUnchanged DEF createPhoto, deletePhoto
  <2>4. ASSUME NEW r \in Requests, NEW u \in Users, NEW g \in Genders, createProfile(r, u, g)
        PROVE  PartsInv'
    BY <2>4, CreateProfileParts
  <2>5. ASSUME NEW r \in Requests, NEW u \in Users, NEW g \in Genders \cup {0},
               NEW b \in Names, updateProfile(r, u, g, b)
        PROVE  PartsInv'
    BY <2>5, UpdateProfileParts
  <2> QED
    BY <1>1, <2>1, <2>2, <2>3, <2>4, <2>5 DEF ProfileNext, ProfileClients
<1>2. CASE ExploreNext
  BY <1>2, PartsUnchanged DEF ExploreNext, getUsersExplore, readExclude, countDocuments, find,
     Abort, createLike, createUserDiscard, profileVars, docVars
<1>3. CASE UNCHANGED vars
  BY <1>3, PartsUnchanged DEF vars, profileVars, docVars
<1> QED
  BY <1>1, <1>2, <1>3 DEF Next

LEMMA PartsInvariant == Spec => []PartsInv
<1>1. Init => PartsInv
  <2> SUFFICES ASSUME Init PROVE PartsInv
    OBVIOUS
  <2>1. bounds.members \subseteq Users
    BY ProfileAssumption DEF Init, ProfileInit
  <2>2. PICK g \in Genders :
          genders = [u \in Users |-> IF u \in bounds.members THEN <<g>> ELSE <<>>]
    BY DEF Init, ProfileInit
  <2>3. genders \in [Users -> Seq(Genders)] /\ \A u \in bounds.members : genders[u] # <<>>
    BY <2>1, <2>2
  <2>4. interests \in [Users -> Nat] /\ \A u \in bounds.members : interests[u] > 0
    BY <2>1 DEF Init, ProfileInit, One
  <2>5. Types
    BY <2>1, <2>3, <2>4, IdleIs DEF Init, ProfileInit, Types
  <2>6. CustomerHasParts
    BY <2>3, <2>4 DEF Init, ProfileInit, CustomerHasParts
  <2> QED
    BY <2>5, <2>6, IdleIs, StoresNothing DEF Init, ProfileInit, PartsInv
<1> QED
  BY <1>1, PartsStep, PTL DEF Spec

-----------------------------------------------------------------------------
(* While nothing fails: the parts of a profile are as many as its          *)
(* customers.                                                              *)

Waits(q, u, op) == q.stage = "parts" /\ q.user = u /\ op \in q.pending

\* A request that will make the user know its customer.
Naming(q, u) == q.stage \in {"parts", "user"} /\ q.user = u

Count01(b) == IF b THEN 1 ELSE 0

(* A finite set after an element has been put in or taken out.               *)
LEMMA Resized ==
    ASSUME NEW W, IsFiniteSet(W), NEW r, NEW V, NEW b \in BOOLEAN,
           V = IF b THEN W \cup {r} ELSE W \ {r}
    PROVE  /\ Cardinality(W) \in Nat /\ Cardinality(V) \in Nat
           /\ Cardinality(V) + Count01(r \in W) = Cardinality(W) + Count01(b)
<1>1. /\ Cardinality(W) \in Nat
      /\ Cardinality(W \cup {r}) = IF r \in W THEN Cardinality(W) ELSE Cardinality(W) + 1
      /\ Cardinality(W \ {r}) = IF r \in W THEN Cardinality(W) - 1 ELSE Cardinality(W)
      /\ IsFiniteSet(W \cup {r}) /\ IsFiniteSet(W \ {r})
  BY FS_CardinalityType, FS_AddElement, FS_RemoveElement
<1>2. Cardinality(V) \in Nat
  BY <1>1, FS_CardinalityType
<1>3. CASE b /\ r \in W
  BY <1>1, <1>2, <1>3 DEF Count01
<1>4. CASE b /\ r \notin W
  BY <1>1, <1>2, <1>4 DEF Count01
<1>5. CASE ~b /\ r \in W
  BY <1>1, <1>2, <1>5 DEF Count01
<1>6. CASE ~b /\ r \notin W
  BY <1>1, <1>2, <1>6 DEF Count01
<1> QED
  BY <1>3, <1>4, <1>5, <1>6

(* How many requests wait for a part of a user, after one has moved.         *)
LEMMA WaitingMoves ==
    ASSUME Types, NEW r \in Requests, NEW n, Moves(r, n), NEW u, NEW op
    PROVE  /\ Cardinality(Waiting(u, op)) \in Nat /\ Cardinality(Waiting(u, op)') \in Nat
           /\ Cardinality(Waiting(u, op)') + Count01(Waits(req[r], u, op))
                = Cardinality(Waiting(u, op)) + Count01(Waits(n, u, op))
<1> DEFINE W == Waiting(u, op)
<1>1. IsFiniteSet(W)
  BY FS_Subset, ProfileAssumption DEF Waiting
<1>2. W' = IF Waits(n, u, op) THEN W \cup {r} ELSE W \ {r}
  BY DEF Waiting, Waits, Moves, Types
<1>3. (r \in W) = Waits(req[r], u, op)
  BY DEF Waiting, Waits
<1>4. Waits(n, u, op) \in BOOLEAN
  BY DEF Waits
<1> HIDE DEF W
<1>5. /\ Cardinality(W) \in Nat /\ Cardinality(W') \in Nat
      /\ Cardinality(W') + Count01(r \in W) = Cardinality(W) + Count01(Waits(n, u, op))
  BY <1>1, <1>2, <1>4, Resized
<1>6. Count01(r \in W) = Count01(Waits(req[r], u, op))
  BY <1>3
<1> QED
  BY <1>5, <1>6 DEF W

\* What a move adds to the parts and the requests that wait for them is what it
\* adds to the customers.
Balanced(r, n, u) ==
    /\ Len(genders'[u]) + Count01(Waits(n, u, "gender")) + customers[u]
         = Len(genders[u]) + Count01(Waits(req[r], u, "gender")) + customers'[u]
    /\ interests'[u] + Count01(Waits(n, u, "interest")) + customers[u]
         = interests[u] + Count01(Waits(req[r], u, "interest")) + customers'[u]
    /\ customers'[u] > 0 =>
          u \in customer' \/ Naming(n, u) \/ (customers[u] > 0 /\ ~Naming(req[r], u))

(* A request moves and the balance is kept.                                   *)
LEMMA WholeMove ==
    ASSUME PartsInv, PartsInv', WholeInv, ~failed, NEW r \in Requests, NEW n, Moves(r, n),
           ~n.rejected, customer \subseteq customer', \A u \in Users : Balanced(r, n, u)
    PROVE  WholeInv'
<1>1. \A x \in Requests : ~req'[x].rejected
  BY DEF WholeInv, Moves, PartsInv, Types
<1>2. ASSUME NEW u \in Users
      PROVE  /\ Len(genders'[u]) + Cardinality(Waiting(u, "gender")') = customers'[u]
             /\ interests'[u] + Cardinality(Waiting(u, "interest")') = customers'[u]
  <2> DEFINE c(op) == Cardinality(Waiting(u, op))
             d(op) == Cardinality(Waiting(u, op)')
             a(op) == Count01(Waits(req[r], u, op))
             b(op) == Count01(Waits(n, u, op))
             g == Len(genders[u])
             h == Len(genders'[u])
             i == interests[u]
             k == interests'[u]
             v == customers[u]
             w == customers'[u]
  <2>1. g \in Nat /\ h \in Nat /\ i \in Nat /\ k \in Nat /\ v \in Nat /\ w \in Nat
    BY LenProperties DEF PartsInv, Types
  <2>2. \A op : a(op) \in Nat /\ b(op) \in Nat
    BY DEF Count01
  <2>3. \A op : c(op) \in Nat /\ d(op) \in Nat /\ d(op) + a(op) = c(op) + b(op)
    BY WaitingMoves DEF PartsInv
  <2>4. g + c("gender") = v /\ i + c("interest") = v
    BY DEF WholeInv
  <2>5. h + b("gender") + v = g + a("gender") + w /\ k + b("interest") + v = i + a("interest") + w
    BY DEF Balanced
  <2> HIDE DEF a, b, c, d, g, h, i, k, v, w
  <2>6. h + d("gender") = w
    BY <2>1, <2>2, <2>3, <2>4, <2>5
  <2>7. k + d("interest") = w
    <3>1. /\ a("interest") \in Nat /\ b("interest") \in Nat
          /\ c("interest") \in Nat /\ d("interest") \in Nat
          /\ d("interest") + a("interest") = c("interest") + b("interest")
      BY <2>2, <2>3
    <3>2. i + c("interest") = v /\ k + b("interest") + v = i + a("interest") + w
      BY <2>4, <2>5
    <3> QED
      BY <2>1, <3>1, <3>2
  <2> QED
    BY <2>6, <2>7 DEF d, h, k, w
<1>3. ASSUME NEW u \in Users, customers'[u] > 0
      PROVE  \/ u \in customer'
             \/ \E x \in Requests : req'[x].user = u /\ req'[x].stage \in {"parts", "user"}
  <2>1. req'[r] = n /\ \A x \in Requests \ {r} : req'[x] = req[x]
    BY DEF Moves, PartsInv, Types
  <2>2. CASE u \in customer' \/ Naming(n, u)
    BY <2>1, <2>2 DEF Naming
  <2>3. CASE customers[u] > 0 /\ ~Naming(req[r], u) /\ u \notin customer'
    BY <2>1, <2>3 DEF Naming, WholeInv
  <2> QED
    BY <1>3, <2>2, <2>3 DEF Balanced
<1> QED
  BY <1>1, <1>2, <1>3 DEF WholeInv

(* A request that stores nothing moves, and has no part in the balance.      *)
LEMMA WholeQuiet ==
    ASSUME PartsInv, PartsInv', WholeInv, ~failed, NEW r \in Requests, NEW n, Moves(r, n),
           n.stage \in {"idle", "customer", "gender", "fields"}, ~n.rejected,
           req[r].stage \in {"idle", "customer", "gender", "fields"},
           \A u \in Users : Len(genders'[u]) = Len(genders[u]),
           UNCHANGED <<customer, customers, interests>>
    PROVE  WholeInv'
<1>1. \A u, op : ~Waits(n, u, op) /\ ~Waits(req[r], u, op) /\ ~Naming(req[r], u)
  BY DEF Waits, Naming
<1>2. \A u \in Users : Balanced(r, n, u)
  BY <1>1 DEF Balanced, Count01
<1> QED
  BY <1>2, WholeMove

LEMMA CreateCustomerWhole ==
    ASSUME PartsInv, PartsInv', WholeInv, ~failed, NEW r \in Requests, createCustomer(r)
    PROVE  WholeInv'
<1>1. PICK n : /\ Moves(r, n)
               /\ n.stage = "parts" /\ n.user = req[r].user /\ n.gender = req[r].gender
               /\ n.pending = Operations /\ ~n.rejected
  BY IssuedIs DEF PartsInv
<1>2. req[r].stage = "customer" /\ req[r].user \in Users
  BY DEF createCustomer, At, PartsInv, Formed
<1>3. ASSUME NEW u \in Users PROVE Balanced(r, n, u)
  <2>1. /\ Len(genders[u]) \in Nat /\ interests[u] \in Nat /\ customers[u] \in Nat
        /\ genders'[u] = genders[u] /\ interests'[u] = interests[u]
        /\ customers'[u] = IF u = req[r].user THEN customers[u] + 1 ELSE customers[u]
    BY <1>2, LenProperties DEF PartsInv, Types, createCustomer
  <2>2. /\ ~Waits(req[r], u, "gender") /\ ~Waits(req[r], u, "interest") /\ ~Naming(req[r], u)
        /\ u = req[r].user => Waits(n, u, "gender") /\ Waits(n, u, "interest") /\ Naming(n, u)
        /\ u # req[r].user => ~Waits(n, u, "gender") /\ ~Waits(n, u, "interest")
    BY <1>1, <1>2 DEF Waits, Naming, Operations
  <2>3. CASE u = req[r].user
    <3>1. /\ Count01(Waits(n, u, "gender")) = 1 /\ Count01(Waits(req[r], u, "gender")) = 0
          /\ Count01(Waits(n, u, "interest")) = 1 /\ Count01(Waits(req[r], u, "interest")) = 0
      BY <2>2, <2>3 DEF Count01
    <3>2. Naming(n, u) /\ customers'[u] = customers[u] + 1
      BY <2>1, <2>2, <2>3
    <3>3. Len(genders'[u]) + 1 + customers[u] = Len(genders[u]) + 0 + customers'[u]
      BY <2>1, <3>2
    <3>4. interests'[u] + 1 + customers[u] = interests[u] + 0 + customers'[u]
      BY <2>1, <3>2
    <3> QED
      BY <3>1, <3>2, <3>3, <3>4, Zenon DEF Balanced
  <2>4. CASE u # req[r].user
    BY <2>1, <2>2, <2>4 DEF Balanced, Count01
  <2> QED
    BY <2>3, <2>4
<1> QED
  BY <1>1, <1>3, WholeMove DEF createCustomer

(* One of the three is applied: it is stored once, and waited for once less. *)
LEMMA AppliedWhole ==
    ASSUME PartsInv, PartsInv', WholeInv, ~failed, NEW r \in Requests, NEW op \in Operations,
           Pending(r, op), applied(r, op), UNCHANGED <<customer, customers>>,
           \A u \in Users :
              /\ Len(genders'[u]) = Len(genders[u]) + Count01(op = "gender" /\ u = req[r].user)
              /\ interests'[u] = interests[u] + Count01(op = "interest" /\ u = req[r].user)
    PROVE  WholeInv'
<1>1. ~req[r].rejected /\ req[r].stage = "parts" /\ op \in req[r].pending
  BY DEF WholeInv, Pending, At
<1>2. PICK n : /\ Moves(r, n) /\ ~n.rejected
               /\ \/ Fewer(n, req[r], op)
                  \/ /\ n.stage = "user" /\ n.user = req[r].user
                     /\ n.pending = {} /\ req[r].pending = {op}
  BY <1>1, AppliedIs DEF PartsInv
<1>3. ASSUME NEW u \in Users PROVE Balanced(r, n, u)
  <2>1. /\ Len(genders[u]) \in Nat /\ interests[u] \in Nat /\ customers[u] \in Nat
        /\ customers'[u] = customers[u]
    BY LenProperties DEF PartsInv, Types
  <2>2. /\ Naming(n, u) <=> Naming(req[r], u)
        /\ \A o \in Operations \ {op} : Waits(n, u, o) <=> Waits(req[r], u, o)
        /\ ~Waits(n, u, op)
        /\ Waits(req[r], u, op) <=> u = req[r].user
    BY <1>1, <1>2 DEF Waits, Naming, Fewer
  <2>3. /\ Count01(Waits(n, u, "gender")) + Count01(op = "gender" /\ u = req[r].user)
             = Count01(Waits(req[r], u, "gender"))
        /\ Count01(Waits(n, u, "interest")) + Count01(op = "interest" /\ u = req[r].user)
             = Count01(Waits(req[r], u, "interest"))
    <3>1. CASE u = req[r].user /\ op = "gender"
      BY <2>2, <3>1 DEF Count01, Operations
    <3>2. CASE u = req[r].user /\ op = "interest"
      BY <2>2, <3>2 DEF Count01, Operations
    <3>3. CASE u = req[r].user /\ op = "photos"
      BY <2>2, <3>3 DEF Count01, Operations
    <3>4. CASE u # req[r].user
      <4>1. ~Waits(req[r], u, "gender") /\ ~Waits(req[r], u, "interest")
        BY <3>4 DEF Waits
      <4>2. ~Waits(n, u, "gender") /\ ~Waits(n, u, "interest")
        BY <2>2, <4>1 DEF Operations
      <4> QED
        BY <3>4, <4>1, <4>2 DEF Count01
    <3> QED
      BY <3>1, <3>2, <3>3, <3>4 DEF Operations
  <2> DEFINE a(o) == Count01(Waits(req[r], u, o))
             b(o) == Count01(Waits(n, u, o))
             t(o) == Count01(op = o /\ u = req[r].user)
  <2>4. \A o : a(o) \in Nat /\ b(o) \in Nat /\ t(o) \in Nat
    BY DEF Count01
  <2>5. /\ Len(genders'[u]) = Len(genders[u]) + t("gender")
        /\ interests'[u] = interests[u] + t("interest")
    OBVIOUS
  <2>6. b("gender") + t("gender") = a("gender") /\ b("interest") + t("interest") = a("interest")
    BY <2>3
  <2> HIDE DEF a, b, t
  <2>7. Len(genders'[u]) + b("gender") + customers[u] = Len(genders[u]) + a("gender") + customers'[u]
    BY <2>1, <2>4, <2>5, <2>6
  <2>8. interests'[u] + b("interest") + customers[u] = interests[u] + a("interest") + customers'[u]
    BY <2>1, <2>4, <2>5, <2>6
  <2>9. customers'[u] > 0 => Naming(n, u) \/ (customers[u] > 0 /\ ~Naming(req[r], u))
    BY <2>1, <2>2
  <2> QED
    BY <2>7, <2>8, <2>9 DEF Balanced, a, b
<1> QED
  BY <1>2, <1>3, WholeMove

LEMMA OperationWhole ==
    ASSUME PartsInv, PartsInv', WholeInv, ~failed, NEW r \in Requests,
           insertPhotos(r) \/ createUserGender(r) \/ createInterests(r)
    PROVE  WholeInv'
<1>0. \A u \in Users : Len(genders[u]) \in Nat /\ interests[u] \in Nat
  BY LenProperties DEF PartsInv, Types
<1>1. CASE insertPhotos(r)
  <2>1. \A u \in Users :
          /\ Len(genders'[u]) = Len(genders[u]) + Count01("photos" = "gender" /\ u = req[r].user)
          /\ interests'[u] = interests[u] + Count01("photos" = "interest" /\ u = req[r].user)
    BY <1>0, <1>1 DEF insertPhotos, Count01
  <2> QED
    BY <1>1, <2>1, AppliedWhole DEF insertPhotos, Operations
<1>2. CASE createUserGender(r)
  <2>1. req[r].user \in Users /\ req[r].gender \in Genders
    BY <1>2 DEF createUserGender, Pending, At, PartsInv, Formed
  <2>2. /\ genders \in [Users -> Seq(Genders)] /\ genders[req[r].user] \in Seq(Genders)
        /\ genders' = [genders EXCEPT ![req[r].user] = Append(genders[req[r].user], req[r].gender)]
    BY <1>2, <2>1 DEF createUserGender, PartsInv, Types
  <2>3. Len(Append(genders[req[r].user], req[r].gender)) = Len(genders[req[r].user]) + 1
    BY <2>1, <2>2, AppendProperties
  <2>4. ASSUME NEW u \in Users
        PROVE  /\ Len(genders'[u]) = Len(genders[u]) + Count01("gender" = "gender" /\ u = req[r].user)
               /\ interests'[u] = interests[u] + Count01("gender" = "interest" /\ u = req[r].user)
    <3>1. CASE u = req[r].user
      BY <1>0, <1>2, <2>1, <2>2, <2>3, <3>1 DEF createUserGender, Count01
    <3>2. CASE u # req[r].user
      BY <1>0, <1>2, <2>1, <2>2, <3>2 DEF createUserGender, Count01
    <3> QED
      BY <3>1, <3>2
  <2> QED
    BY <1>2, <2>4, AppliedWhole DEF createUserGender, Operations
<1>3. CASE createInterests(r)
  <2>1. req[r].user \in Users
    BY <1>3 DEF createInterests, Pending, At, PartsInv, Formed
  <2>2. ASSUME NEW u \in Users
        PROVE  /\ Len(genders'[u]) = Len(genders[u]) + Count01("interest" = "gender" /\ u = req[r].user)
               /\ interests'[u] = interests[u] + Count01("interest" = "interest" /\ u = req[r].user)
    <3>1. CASE u = req[r].user
      BY <1>0, <1>3, <2>1, <3>1 DEF createInterests, Count01, PartsInv, Types
    <3>2. CASE u # req[r].user
      BY <1>0, <1>3, <2>1, <3>2 DEF createInterests, Count01, PartsInv, Types
    <3> QED
      BY <3>1, <3>2
  <2> QED
    BY <1>3, <2>2, AppliedWhole DEF createInterests, Operations
<1> QED
  BY <1>1, <1>2, <1>3

LEMMA UpdateOneWhole ==
    ASSUME PartsInv, PartsInv', WholeInv, ~failed, NEW r \in Requests, updateOne(r)
    PROVE  WholeInv'
<1>1. Moves(r, Idle) /\ req[r].stage = "user" /\ req[r].user \in Users
  BY IdleIs DEF updateOne, Finish, Moves, At, PartsInv, Formed
<1>2. \A u, op : ~Waits(Idle, u, op) /\ ~Waits(req[r], u, op)
  BY <1>1, IdleIs DEF Waits
<1>3. \A u : Naming(req[r], u) => u \in customer'
  BY DEF updateOne, Naming
<1>4. \A u \in Users : Balanced(r, Idle, u)
  BY <1>2, <1>3 DEF updateOne, Balanced, Count01
<1> QED
  BY <1>1, <1>4, IdleIs, WholeMove DEF updateOne

LEMMA UpdateUserGenderWhole ==
    ASSUME PartsInv, PartsInv', WholeInv, ~failed, NEW r \in Requests, updateUserGender(r)
    PROVE  WholeInv'
<1>1. /\ req[r].user \in Users /\ req[r].gender \in Genders /\ req[r].stage = "gender"
  BY DEF updateUserGender, At, PartsInv, Formed
<1>2. PICK n : Moves(r, n) /\ n.stage = "fields" /\ ~n.rejected
  BY <1>1, GotoIs DEF updateUserGender, PartsInv
<1>3. /\ genders[req[r].user] \in Seq(Genders) /\ genders \in [Users -> Seq(Genders)]
  BY <1>1 DEF PartsInv, Types
<1>4. PICK t : /\ genders' = [genders EXCEPT ![req[r].user] = t]
               /\ Len(t) = Len(genders[req[r].user])
  BY <1>1, <1>3, ReplacedFirst DEF updateUserGender
<1>5. \A u \in Users : Len(genders'[u]) = Len(genders[u])
  BY <1>1, <1>3, <1>4
<1> QED
  BY <1>1, <1>2, <1>5, WholeQuiet DEF updateUserGender

(* Photos, explore and the fields that updateProfile writes are not weighed. *)
LEMMA WholeUnchanged ==
    ASSUME WholeInv, UNCHANGED <<customer, customers, genders, interests, req, failed>>
    PROVE  WholeInv'
<1>1. \A u, op : Waiting(u, op)' = Waiting(u, op)
  BY DEF Waiting
<1> QED
  BY <1>1 DEF WholeInv

LEMMA WholeStep == PartsInv /\ PartsInv' /\ WholeInv /\ [Next]_vars => WholeInv'
<1> SUFFICES ASSUME PartsInv, PartsInv', WholeInv, [Next]_vars PROVE WholeInv'
  OBVIOUS
<1>1. CASE ProfileNext /\ ~failed
  <2>0. ~failed
    BY <1>1
  <2>1. ASSUME NEW r \in Requests, ProfileStep(r) PROVE WholeInv'
    <3>1. CASE createCustomer(r) \/ updateOne(r) \/ updateUserGender(r)
      BY <2>0, <3>1, CreateCustomerWhole, UpdateOneWhole, UpdateUserGenderWhole
    <3>2. CASE insertPhotos(r) \/ createUserGender(r) \/ createInterests(r)
      BY <2>0, <3>2, OperationWhole
    <3>3. CASE updateFields(r)
      <4>1. Moves(r, Idle) /\ req[r].stage = "fields"
        BY <3>3, IdleIs DEF updateFields, Finish, Moves, At
      <4> QED
        BY <2>0, <3>3, <4>1, IdleIs, WholeQuiet DEF updateFields
    <3> QED
      BY <2>1, <3>1, <3>2, <3>3 DEF ProfileStep
  <2>2. ASSUME NEW r \in Requests, rejectOne(r) \/ Throw(r) PROVE WholeInv'
    BY <2>2 DEF rejectOne, Throw, WholeInv
  <2>3. ASSUME NEW u \in bounds.creators, createPhoto(u) \/ deletePhoto(u) PROVE WholeInv'
    BY <2>3, WholeUnchanged DEF createPhoto, deletePhoto
  <2>4. ASSUME NEW r \in Requests, NEW u \in Users, NEW g \in Genders, createProfile(r, u, g)
        PROVE  WholeInv'
    <3> DEFINE n == Handler("customer", u, g, {}, "keep")
    <3>1. n \in Request /\ Formed(n) /\ n.stage = "customer" /\ ~n.rejected
      BY DEF Handler, Request, Stages, Names, Formed, Operations
    <3>2. Moves(r, n) /\ req[r].stage = "idle"
      BY <2>4, <3>1 DEF createProfile, Begin, Moves, At
    <3> HIDE DEF n
    <3> QED
      BY <2>0, <2>4, <3>1, <3>2, WholeQuiet DEF createProfile, docVars
  <2>5. ASSUME NEW r \in Requests, NEW u \in Users, NEW g \in Genders \cup {0},
               NEW b \in Names, updateProfile(r, u, g, b)
        PROVE  WholeInv'
    <3> DEFINE s == IF g = 0 THEN "fields" ELSE "gender"
               n == Handler(s, u, g, {}, b)
    <3>1. s # "fields" => g \in Genders
      OBVIOUS
    <3>2. n \in Request /\ Formed(n) /\ n.stage = s /\ ~n.rejected
      BY <3>1, HandlerIs
    <3>3. req' = [req EXCEPT ![r] = n] /\ req[r].stage = "idle"
      BY <2>5 DEF updateProfile, Begin, At
    <3>4. /\ Moves(r, n) /\ n.stage \in {"gender", "fields"} /\ ~n.rejected /\ req[r].stage = "idle"
      BY <3>2, <3>3 DEF Moves
    <3>5. UNCHANGED <<customer, customers, genders, interests>>
      BY <2>5 DEF updateProfile, docVars
    <3> HIDE DEF n
    <3> QED
      BY <2>0, <3>4, <3>5, WholeQuiet
  <2> QED
    BY <1>1, <2>1, <2>2, <2>3, <2>4, <2>5 DEF ProfileNext, ProfileClients
<1>2. CASE ProfileNext /\ failed
  <2>1. failed'
    BY <1>2 DEF ProfileNext, ProfileClients, ProfileStep, createProfile, updateProfile, createPhoto,
       deletePhoto, createCustomer, insertPhotos, createUserGender, createInterests, updateOne,
       updateUserGender, updateFields, rejectOne, Throw
  <2> QED
    BY <2>1 DEF WholeInv
<1>3. CASE ExploreNext
  BY <1>3, WholeUnchanged DEF ExploreNext, getUsersExplore, readExclude, countDocuments, find,
     Abort, createLike, createUserDiscard, profileVars, docVars
<1>4. CASE UNCHANGED vars
  BY <1>4, WholeUnchanged DEF vars, profileVars, docVars
<1> QED
  BY <1>1, <1>2, <1>3, <1>4 DEF Next

LEMMA WholeInvariant == Spec => []WholeInv
<1>1. Init => WholeInv
  <2> SUFFICES ASSUME Init PROVE WholeInv
    OBVIOUS
  <2>1. PICK g \in Genders :
          genders = [u \in Users |-> IF u \in bounds.members THEN <<g>> ELSE <<>>]
    BY DEF Init, ProfileInit
  <2>2. \A u \in Users : Len(genders[u]) = One(u)
    BY <2>1 DEF One
  <2>3. \A r \in Requests : ~req[r].rejected /\ req[r].stage = "idle"
    BY IdleIs DEF Init, ProfileInit
  <2>4. \A u, op : Waiting(u, op) = {}
    BY <2>3 DEF Waiting
  <2>5. \A u, op : Cardinality(Waiting(u, op)) = 0
    BY <2>4, FS_EmptySet
  <2>6. \A u \in Users : customers[u] = One(u) /\ interests[u] = One(u) /\ One(u) \in Nat
    BY DEF Init, ProfileInit, One
  <2>7. \A u \in Users : customers[u] > 0 => u \in customer
    BY <2>6 DEF Init, ProfileInit, One
  <2> QED
    BY <2>2, <2>3, <2>5, <2>6, <2>7 DEF WholeInv
<1> QED
  BY <1>1, PartsInvariant, WholeStep, PTL DEF Spec

(* However requests overlap and whichever operation fails, a user that is    *)
(* charged as a customer has a gender and an interest; unless one fails, all *)
(* that createProfile writes agrees once the requests of a user are over.    *)
THEOREM ProfilesAreWhole == Spec => []ProfileIsWhole
<1>1. PartsInv /\ WholeInv => ProfileIsWhole
  <2> SUFFICES ASSUME PartsInv, WholeInv, ~failed, NEW u \in Users, ~Busy(u)
               PROVE  /\ Len(genders[u]) = customers[u] /\ interests[u] = customers[u]
                      /\ customers[u] > 0 => u \in customer
    BY DEF ProfileIsWhole, PartsInv
  <2>1. \A op : Waiting(u, op) = {}
    BY DEF Waiting, Busy
  <2>2. \A op : Cardinality(Waiting(u, op)) = 0
    BY <2>1, FS_EmptySet
  <2>3. Len(genders[u]) \in Nat /\ interests[u] \in Nat
    BY LenProperties DEF PartsInv, Types
  <2> QED
    BY <2>2, <2>3 DEF WholeInv, Busy
<1> QED
  BY <1>1, PartsInvariant, WholeInvariant, PTL

-----------------------------------------------------------------------------
(* The gender that is shown.                                               *)

(* The request in flight goes on: it still has to store the gender, or the   *)
(* one that is shown is right.                                               *)
LEMMA ShownMove ==
    ASSUME PartsInv, ShownInv, ~failed, ~overlapped, NEW r \in InFlight, NEW n, Moves(r, n),
           Choosing(n) => Choosing(req[r]) /\ n.user = req[r].user /\ n.gender = req[r].gender,
           NEW w \in Users, w = req[r].user, Choosing(n) \/ Shown(w)',
           \A u \in Users \ {req[r].user} : genders'[u] = genders[u] /\ customers'[u] = customers[u],
           chosen' = chosen
    PROVE  ShownInv'
<1>1. r \in Requests /\ req'[r] = n /\ \A x \in Requests \ {r} : req'[x] = req[x]
  BY DEF InFlight, Moves, PartsInv, Types
<1>2. \A x \in Requests \ {r} : req[x].stage = "idle"
  BY <1>1 DEF ShownInv, InFlight, At
<1>3. \A x \in Requests \ {r} : ~Choosing(req'[x])
  BY <1>1, <1>2 DEF Choosing
<1>4. \A x, y \in InFlight' : x = y
  BY <1>1, <1>2 DEF InFlight, At
<1>5. ASSUME NEW x \in Requests, Choosing(req'[x])
      PROVE  chosen'[req'[x].user] # <<>> /\ req'[x].gender = Newest(chosen'[req'[x].user])
  BY <1>1, <1>3, <1>5 DEF ShownInv
<1>6. ASSUME NEW u \in Users, \A x \in Requests : Choosing(req'[x]) => req'[x].user # u
      PROVE  Shown(u)'
  <2>1. CASE u = req[r].user
    <3>1. ~Choosing(n)
      BY <1>1, <1>6, <2>1 DEF Choosing
    <3> QED
      BY <2>1, <3>1
  <2>2. CASE u # req[r].user
    <3>1. \A x \in Requests : Choosing(req[x]) => x = r
      BY <1>2 DEF Choosing
    <3>2. Shown(u)
      BY <2>2, <3>1 DEF ShownInv
    <3> QED
      BY <2>2, <3>2 DEF Shown
  <2> QED
    BY <2>1, <2>2
<1> QED
  BY <1>4, <1>5, <1>6 DEF ShownInv

(* A request begins, and chooses a gender or does not.                       *)
LEMMA ShownBegin ==
    ASSUME PartsInv, ShownInv, ~failed, ~overlapped', NEW r \in Requests, NEW n, Begin(r, n),
           NEW u \in Users, n.user = u, NEW g \in Genders \cup {0}, n.gender = g,
           Choosing(n) => g \in Genders /\ chosen' = [chosen EXCEPT ![u] = Append(@, g)],
           ~Choosing(n) => chosen' = chosen,
           UNCHANGED <<genders, customers>>
    PROVE  ShownInv'
<1>1. ~overlapped /\ InFlight = {}
  BY DEF Begin
<1>2. req'[r] = n /\ \A x \in Requests \ {r} : req'[x] = req[x]
  BY DEF Begin, PartsInv, Types
<1>3. \A x \in Requests : req[x].stage = "idle"
  BY <1>1 DEF InFlight, At
<1>4. \A x \in Requests : ~Choosing(req[x])
  BY <1>3 DEF Choosing
<1>5. \A v \in Users : Shown(v)
  BY <1>1, <1>4 DEF ShownInv
<1>6. \A x, y \in InFlight' : x = y
  BY <1>2, <1>3 DEF InFlight, At
<1>7. Choosing(n) => chosen'[u] # <<>> /\ g = Newest(chosen'[u])
  <2>1. chosen \in [Users -> Seq(Genders)] /\ chosen[u] \in Seq(Genders)
    BY DEF PartsInv, Types
  <2>2. ASSUME g \in Genders
        PROVE  Append(chosen[u], g) # <<>> /\ Newest(Append(chosen[u], g)) = g
    <3>1. Len(Append(chosen[u], g)) = Len(chosen[u]) + 1
      BY <2>1, <2>2, AppendProperties
    <3>2. Append(chosen[u], g)[Len(chosen[u]) + 1] = g /\ Append(chosen[u], g) # <<>>
      BY <2>1, <2>2, AppendProperties
    <3> QED
      BY <3>1, <3>2 DEF Newest
  <2> QED
    BY <2>1, <2>2
<1>8. ASSUME NEW v \in Users, Choosing(n) => v # u
      PROVE  Shown(v)'
  <2>1. chosen'[v] = chosen[v]
    BY <1>8 DEF PartsInv, Types
  <2> QED
    BY <1>5, <2>1 DEF Shown
<1>9. ASSUME NEW x \in Requests, Choosing(req'[x])
      PROVE  chosen'[req'[x].user] # <<>> /\ req'[x].gender = Newest(chosen'[req'[x].user])
  BY <1>2, <1>4, <1>7, <1>9
<1>10. ASSUME NEW v \in Users, \A x \in Requests : Choosing(req'[x]) => req'[x].user # v
       PROVE  Shown(v)'
  BY <1>2, <1>8, <1>10
<1> QED
  BY <1>6, <1>9, <1>10 DEF ShownInv

(* Neither the genders nor the customers change, nor what the request has    *)
(* still to store.                                                           *)
LEMMA ShownQuiet ==
    ASSUME PartsInv, ShownInv, ~failed, ~overlapped, NEW r \in InFlight, NEW n, Moves(r, n),
           Choosing(n) <=> Choosing(req[r]),
           Choosing(n) => n.user = req[r].user /\ n.gender = req[r].gender,
           UNCHANGED <<genders, customers, chosen>>
    PROVE  ShownInv'
<1>1. r \in Requests /\ req[r].user \in Users
  BY DEF InFlight, At, PartsInv, Formed
<1>2. PICK w \in Users : w = req[r].user
  BY <1>1
<1>3. Choosing(n) \/ Shown(w)'
  <2>1. ASSUME ~Choosing(n) PROVE \A x \in Requests : ~Choosing(req[x])
    BY <1>1, <2>1 DEF ShownInv, InFlight, At, Choosing
  <2> QED
    BY <1>2, <2>1 DEF ShownInv, Shown
<1> QED
  BY <1>2, <1>3, ShownMove

LEMMA OperationShown ==
    ASSUME PartsInv, ShownInv, ~failed, ~overlapped, NEW r \in Requests,
           insertPhotos(r) \/ createInterests(r)
    PROVE  ShownInv'
<1>1. PICK op \in {"photos", "interest"} : Pending(r, op) /\ applied(r, op)
  BY DEF insertPhotos, createInterests
<1>2. req[r].stage = "parts" /\ op \in req[r].pending /\ r \in InFlight
  BY <1>1 DEF Pending, At, InFlight
<1>3. PICK n : /\ Moves(r, n)
               /\ \/ Fewer(n, req[r], op)
                  \/ n = Idle /\ req[r].pending = {op}
                  \/ n.stage = "user" /\ req[r].pending = {op}
  BY <1>1, AppliedIs DEF PartsInv, Operations
<1>4. /\ Choosing(n) <=> Choosing(req[r])
      /\ Choosing(n) => n.user = req[r].user /\ n.gender = req[r].gender
  BY <1>2, <1>3, IdleIs DEF Choosing, Fewer
<1> QED
  BY <1>2, <1>3, <1>4, ShownQuiet DEF insertPhotos, createInterests

(* With one customer the gender that is stored is the first.                 *)
LEMMA CreateUserGenderShown ==
    ASSUME PartsInv, PartsInv', WholeInv', ShownInv, ~failed, ~overlapped, NEW r \in Requests,
           createUserGender(r)
    PROVE  ShownInv'
<1>1. /\ req[r].stage = "parts" /\ "gender" \in req[r].pending /\ r \in InFlight
      /\ req[r].user \in Users /\ req[r].gender \in Genders
  BY DEF createUserGender, Pending, At, InFlight, PartsInv, Formed
<1>2. PICK n : /\ Moves(r, n)
               /\ \/ Fewer(n, req[r], "gender")
                  \/ n = Idle
                  \/ n.stage = "user"
  BY AppliedIs DEF createUserGender, PartsInv, Operations
<1>3. ~Choosing(n)
  BY <1>2, IdleIs DEF Choosing, Fewer
<1>4. PICK w \in Users : w = req[r].user
  BY <1>1
<1>5. PICK s \in Seq(Genders) : s = genders[w]
  BY DEF PartsInv, Types
<1>6. /\ genders' = [genders EXCEPT ![w] = Append(s, req[r].gender)]
      /\ genders \in [Users -> Seq(Genders)]
      /\ UNCHANGED <<customers, chosen>> /\ ~failed'
  BY <1>4, <1>5 DEF createUserGender, PartsInv, Types
<1>7. /\ Len(s) \in Nat /\ Append(s, req[r].gender) \in Seq(Genders)
      /\ Len(Append(s, req[r].gender)) = Len(s) + 1
      /\ Append(s, req[r].gender)[Len(s) + 1] = req[r].gender
      /\ Append(s, req[r].gender) # <<>>
  BY <1>1, LenProperties, AppendProperties
<1>8. chosen[w] # <<>> /\ req[r].gender = Newest(chosen[w])
  BY <1>1, <1>4 DEF ShownInv, Choosing
<1>9. ASSUME customers[w] = 1 PROVE Len(s) = 0
  <2>1. Cardinality(Waiting(w, "gender")') \in Nat
    <3>1. IsFiniteSet(Waiting(w, "gender")')
      BY FS_Subset, ProfileAssumption DEF Waiting
    <3> QED
      BY <3>1, FS_CardinalityType
  <2>2. Len(Append(s, req[r].gender)) + Cardinality(Waiting(w, "gender")') = 1
    BY <1>6, <1>9 DEF WholeInv
  <2> QED
    BY <1>7, <2>1, <2>2
<1>10. Shown(w)'
  <2>1. ASSUME Len(s) = 0 PROVE Head(Append(s, req[r].gender)) = req[r].gender
    BY <1>7, <2>1, HeadTailProperties
  <2> QED
    BY <1>6, <1>8, <1>9, <2>1 DEF Shown
<1> QED
  BY <1>1, <1>2, <1>3, <1>4, <1>6, <1>10, ShownMove

LEMMA CreateCustomerShown ==
    ASSUME PartsInv, ShownInv, ~failed, ~overlapped, NEW r \in Requests, createCustomer(r)
    PROVE  ShownInv'
<1>1. PICK n : /\ Moves(r, n)
               /\ n.stage = "parts" /\ n.user = req[r].user /\ n.gender = req[r].gender
               /\ n.pending = Operations /\ ~n.rejected
  BY IssuedIs DEF PartsInv
<1>2. req[r].stage = "customer" /\ req[r].user \in Users /\ r \in InFlight
  BY DEF createCustomer, At, PartsInv, Formed, InFlight
<1>3. Choosing(n) /\ Choosing(req[r])
  BY <1>1, <1>2 DEF Choosing, Operations
<1>4. PICK w \in Users : w = req[r].user
  BY <1>2
<1>5. \A u \in Users \ {req[r].user} : genders'[u] = genders[u] /\ customers'[u] = customers[u]
  BY <1>2 DEF createCustomer, PartsInv, Types
<1> QED
  BY <1>1, <1>2, <1>3, <1>4, <1>5, ShownMove DEF createCustomer

LEMMA UpdateUserGenderShown ==
    ASSUME PartsInv, ShownInv, ~failed, ~overlapped, NEW r \in Requests, updateUserGender(r)
    PROVE  ShownInv'
<1>1. /\ req[r].user \in Users /\ req[r].gender \in Genders /\ req[r].stage = "gender"
      /\ r \in InFlight
  BY DEF updateUserGender, At, PartsInv, Formed, InFlight
<1>2. PICK n : Moves(r, n) /\ n.stage = "fields" /\ ~n.rejected
  BY <1>1, GotoIs DEF updateUserGender, PartsInv
<1>3. PICK w \in Users : w = req[r].user
  BY <1>1
<1>4. genders \in [Users -> Seq(Genders)] /\ genders[w] \in Seq(Genders)
  BY DEF PartsInv, Types
<1>5. PICK t : /\ genders' = [genders EXCEPT ![w] = t]
               /\ IF genders[w] = <<>> THEN t = <<>> ELSE Head(t) = req[r].gender
  BY <1>1, <1>3, <1>4, ReplacedFirst DEF updateUserGender
<1>6. chosen[w] # <<>> /\ req[r].gender = Newest(chosen[w])
  BY <1>1, <1>3 DEF ShownInv, Choosing
<1>7. Shown(w)'
  BY <1>4, <1>5, <1>6 DEF updateUserGender, Shown
<1>8. \A u \in Users \ {req[r].user} : genders'[u] = genders[u] /\ customers'[u] = customers[u]
  BY <1>3, <1>4, <1>5 DEF updateUserGender
<1>9. ~Choosing(n)
  BY <1>2 DEF Choosing
<1> QED
  BY <1>1, <1>2, <1>3, <1>7, <1>8, <1>9, ShownMove DEF updateUserGender

(* Photos and explore have no gender.                                        *)
LEMMA ShownUnchanged ==
    ASSUME ShownInv, UNCHANGED <<customers, genders, chosen, req, overlapped, failed>>
    PROVE  ShownInv'
BY DEF ShownInv, InFlight, At, Shown

LEMMA ShownStep ==
    PartsInv /\ PartsInv' /\ WholeInv' /\ ShownInv /\ [Next]_vars => ShownInv'
<1> SUFFICES ASSUME PartsInv, PartsInv', WholeInv', ShownInv, [Next]_vars, ~failed', ~overlapped'
             PROVE  ShownInv'
  BY DEF ShownInv
<1>1. CASE ProfileNext
  <2>0. ~failed /\ ~overlapped
    <3>1. ASSUME NEW r \in Requests, NEW h, Begin(r, h), UNCHANGED failed
          PROVE  ~failed /\ ~overlapped
      BY <3>1 DEF Begin
    <3>2. ASSUME NEW r \in Requests, NEW u \in Users, NEW g, NEW b,
                 createProfile(r, u, g) \/ updateProfile(r, u, g, b)
          PROVE  ~failed /\ ~overlapped
      BY <3>1, <3>2 DEF createProfile, updateProfile
    <3>3. ASSUME NEW r \in Requests, ProfileStep(r) \/ rejectOne(r) \/ Throw(r)
          PROVE  ~failed /\ ~overlapped
      <4>1. CASE rejectOne(r) \/ Throw(r)
        BY <4>1 DEF rejectOne, Throw
      <4>2. CASE createCustomer(r) \/ insertPhotos(r) \/ createUserGender(r) \/ createInterests(r)
        BY <4>2 DEF createCustomer, insertPhotos, createUserGender, createInterests
      <4>3. CASE updateOne(r) \/ updateUserGender(r) \/ updateFields(r)
        BY <4>3 DEF updateOne, updateUserGender, updateFields
      <4> QED
        BY <3>3, <4>1, <4>2, <4>3 DEF ProfileStep
    <3>4. ASSUME NEW u, createPhoto(u) \/ deletePhoto(u)
          PROVE  ~failed /\ ~overlapped
      BY <3>4 DEF createPhoto, deletePhoto
    <3> QED
      BY <1>1, <3>2, <3>3, <3>4 DEF ProfileNext, ProfileClients
  <2>1. ASSUME NEW r \in Requests, ProfileStep(r) PROVE ShownInv'
    <3>1. CASE createCustomer(r) \/ updateUserGender(r) \/ createUserGender(r)
      BY <2>0, <3>1, CreateCustomerShown, UpdateUserGenderShown, CreateUserGenderShown
    <3>2. CASE insertPhotos(r) \/ createInterests(r)
      BY <2>0, <3>2, OperationShown
    <3>3. CASE updateOne(r) \/ updateFields(r)
      <4>1. Moves(r, Idle) /\ req[r].stage \in {"user", "fields"} /\ r \in InFlight
        BY <3>3, IdleIs DEF updateOne, updateFields, Finish, Moves, At, InFlight
      <4>2. ~Choosing(Idle) /\ ~Choosing(req[r])
        BY <4>1, IdleIs DEF Choosing
      <4> QED
        BY <2>0, <3>3, <4>1, <4>2, ShownQuiet DEF updateOne, updateFields
    <3> QED
      BY <2>1, <3>1, <3>2, <3>3 DEF ProfileStep
  <2>2. ASSUME NEW r \in Requests, rejectOne(r) \/ Throw(r) PROVE ShownInv'
    BY <2>2 DEF rejectOne, Throw
  <2>3. ASSUME NEW u \in bounds.creators, createPhoto(u) \/ deletePhoto(u) PROVE ShownInv'
    BY <2>3, ShownUnchanged DEF createPhoto, deletePhoto
  <2>4. ASSUME NEW r \in Requests, NEW u \in Users, NEW g \in Genders, createProfile(r, u, g)
        PROVE  ShownInv'
    <3> DEFINE n == Handler("customer", u, g, {}, "keep")
    <3>1. n.user = u /\ n.gender = g /\ g \in Genders \cup {0}
      BY DEF Handler
    <3>2. /\ Begin(r, n) /\ chosen' = [chosen EXCEPT ![u] = Append(@, g)]
          /\ UNCHANGED <<genders, customers>>
      BY <2>4 DEF createProfile, docVars
    <3>3. Choosing(n)
      BY DEF Handler, Choosing
    <3> HIDE DEF n
    <3> QED
      BY <2>0, <3>1, <3>2, <3>3, ShownBegin
  <2>5. ASSUME NEW r \in Requests, NEW u \in Users, NEW g \in Genders \cup {0},
               NEW b \in Names, updateProfile(r, u, g, b)
        PROVE  ShownInv'
    <3> DEFINE n == Handler(IF g = 0 THEN "fields" ELSE "gender", u, g, {}, b)
    <3>1. n.user = u /\ n.gender = g
      BY DEF Handler
    <3>2. /\ Begin(r, n) /\ UNCHANGED <<genders, customers>>
          /\ chosen' = IF g = 0 THEN chosen ELSE [chosen EXCEPT ![u] = Append(@, g)]
      BY <2>5 DEF updateProfile, docVars
    <3>3. Choosing(n) <=> g # 0
      BY DEF Handler, Choosing
    <3> HIDE DEF n
    <3> QED
      BY <2>0, <3>1, <3>2, <3>3, ShownBegin
  <2> QED
    BY <1>1, <2>1, <2>2, <2>3, <2>4, <2>5 DEF ProfileNext, ProfileClients
<1>2. CASE ExploreNext
  BY <1>2, ShownUnchanged DEF ExploreNext, getUsersExplore, readExclude, countDocuments, find,
     Abort, createLike, createUserDiscard, profileVars, docVars
<1>3. CASE UNCHANGED vars
  BY <1>3, ShownUnchanged DEF vars, profileVars, docVars
<1> QED
  BY <1>1, <1>2, <1>3 DEF Next

LEMMA ShownInvariant == Spec => []ShownInv
<1>1. Init => ShownInv
  <2> SUFFICES ASSUME Init PROVE ShownInv
    OBVIOUS
  <2>1. PICK g \in Genders :
          genders = [u \in Users |-> IF u \in bounds.members THEN <<g>> ELSE <<>>]
    BY DEF Init, ProfileInit
  <2>2. \A r \in Requests : req[r].stage = "idle"
    BY IdleIs DEF Init, ProfileInit
  <2>3. \A r \in Requests : ~Choosing(req[r]) /\ r \notin InFlight
    BY <2>2 DEF Choosing, InFlight, At
  <2>4. Head(<<g>>) = g /\ Newest(<<g>>) = g
    BY DEF Newest
  <2>5. \A u \in Users : Shown(u)
    BY <2>1, <2>4 DEF Init, ProfileInit, Shown
  <2> QED
    BY <2>3, <2>5 DEF ShownInv, InFlight
<1> QED
  BY <1>1, PartsInvariant, WholeInvariant, ShownStep, PTL DEF Spec

(* The gender of the first document is the one chosen last, for a user that  *)
(* created its profile once, when nothing failed and no requests overlapped. *)
THEOREM LastChoiceIsShown == Spec => []LastGenderIsShown
<1>1. PartsInv /\ WholeInv /\ ShownInv => LastGenderIsShown
  <2> SUFFICES ASSUME PartsInv, WholeInv, ShownInv, ~failed, ~overlapped,
                      NEW u \in Users, ~Busy(u), customers[u] = 1
               PROVE  Head(genders[u]) = chosen[u][Len(chosen[u])]
    BY DEF LastGenderIsShown
  <2>1. Waiting(u, "gender") = {}
    BY DEF Waiting, Busy
  <2>2. Cardinality(Waiting(u, "gender")) = 0
    BY <2>1, FS_EmptySet
  <2>3. genders[u] \in Seq(Genders) /\ Len(genders[u]) \in Nat
    BY LenProperties DEF PartsInv, Types
  <2>4. Len(genders[u]) + Cardinality(Waiting(u, "gender")) = 1
    BY DEF WholeInv
  <2>5. genders[u] # <<>>
    BY <2>2, <2>3, <2>4, LenProperties
  <2>6. \A r \in Requests : req[r].user # u
    BY DEF Busy
  <2>7. Shown(u)
    BY <2>6 DEF ShownInv
  <2>8. chosen[u] # <<>> /\ Head(genders[u]) = Newest(chosen[u])
    BY <2>5, <2>7 DEF Shown
  <2> QED
    BY <2>8 DEF Newest
<1> QED
  BY <1>1, PartsInvariant, WholeInvariant, ShownInvariant, PTL

-----------------------------------------------------------------------------
(* Explore.                                                                *)

(* What a lookup has found stays enough, when likes and discards are only    *)
(* added.                                                                    *)
LEMMA ExcludesKept ==
    ASSUME NEW l, Excludes(l), likes \subseteq likes', discards \subseteq discards'
    PROVE  Excludes(l)'
<1>1. \A c : getByFilter(l.user, c) \subseteq getByFilter(l.user, c)'
  BY DEF getByFilter, Liked, Discarded
<1>2. l.stage = "read" =>
        l.before \subseteq l.exclude \cup UNION {getByFilter(l.user, c)' : c \in l.unread}
  BY <1>1 DEF Excludes
<1> QED
  BY <1>2 DEF Excludes

(* Lookup x becomes n, and the others stay.                                  *)
LEMMA LooksMove ==
    ASSUME Looks, NEW x \in Lookups, NEW n \in Lookup, Excludes(n),
           look' = [look EXCEPT ![x] = n], UNCHANGED <<likes, discards>>
    PROVE  Looks'
<1>1. \A l : Excludes(l) => Excludes(l)'
  BY DEF Excludes, getByFilter, Liked, Discarded
<1>2. \A y \in Lookups : look'[y] = IF y = x THEN n ELSE look[y]
  BY DEF Looks
<1>3. look' \in [Lookups -> Lookup]
  BY DEF Looks
<1>4. ASSUME NEW y \in Lookups, NEW l, l = look'[y]
      PROVE  Excludes(l)'
  BY <1>1, <1>2, <1>4 DEF Looks
<1> QED
  BY <1>3, <1>4 DEF Looks

LEMMA NoLookupIs == NoLookup \in Lookup /\ Excludes(NoLookup) /\ NoLookup.stage = "idle"
<1>1. 0 \in 0..Cardinality(Users)
  BY FS_CardinalityType, ProfileAssumption
<1> QED
  BY <1>1 DEF NoLookup, Lookup, Excludes

LEMMA GetUsersExploreLooks ==
    ASSUME Looks, NEW x \in Lookups, NEW u \in Users, getUsersExplore(x, u),
           UNCHANGED <<likes, discards>>
    PROVE  Looks'
<1> DEFINE n == [NoLookup EXCEPT !.stage = "read", !.user = u, !.unread = Collections,
                                 !.before = Liked(u) \cup Discarded(u)]
<1>1. look' = [look EXCEPT ![x] = n]
  BY DEF getUsersExplore
<1>2. /\ n \in Lookup /\ n.stage = "read" /\ n.user = u /\ n.unread = Collections
      /\ n.before = Liked(u) \cup Discarded(u)
  BY NoLookupIs DEF Lookup, Collections, Liked, Discarded
<1> HIDE DEF n
<1>3. "likes" \in n.unread /\ "discards" \in n.unread
  BY <1>2 DEF Collections
<1>4. getByFilter(u, "likes") = Liked(u) /\ getByFilter(u, "discards") = Discarded(u)
  BY DEF getByFilter
<1>5. Excludes(n)
  BY <1>2, <1>3, <1>4 DEF Excludes
<1> QED
  BY <1>1, <1>2, <1>5, LooksMove

LEMMA ReadExcludeLooks ==
    ASSUME Looks, NEW x \in Lookups, NEW c \in Collections, readExclude(x, c),
           UNCHANGED <<likes, discards>>
    PROVE  Looks'
<1> DEFINE l == look[x]
           n == [l EXCEPT !.unread = l.unread \ {c},
                          !.exclude = l.exclude \cup getByFilter(l.user, c),
                          !.stage = IF l.unread = {c} THEN "count" ELSE l.stage]
<1>1. look' = [look EXCEPT ![x] = n] /\ l.stage = "read" /\ c \in l.unread
  BY DEF readExclude
<1>2. l \in Lookup /\ Excludes(l)
  BY DEF Looks
<1>3. getByFilter(l.user, c) \subseteq Users
  BY DEF getByFilter, Liked, Discarded
<1>4. /\ n \in Lookup /\ n.user = l.user /\ n.before = l.before
      /\ n.unread = l.unread \ {c} /\ n.exclude = l.exclude \cup getByFilter(l.user, c)
      /\ n.stage = IF l.unread = {c} THEN "count" ELSE l.stage
  BY <1>2, <1>3 DEF Lookup
<1> HIDE DEF n
<1>5. CASE l.unread = {c}
  <2>1. l.before \subseteq l.exclude \cup getByFilter(l.user, c)
    BY <1>1, <1>2, <1>5 DEF Excludes
  <2> QED
    BY <1>1, <1>4, <1>5, <2>1, LooksMove DEF Excludes
<1>6. CASE l.unread # {c}
  <2>1. n.stage = "read"
    BY <1>1, <1>4, <1>6
  <2>2. l.before \subseteq l.exclude \cup UNION {getByFilter(l.user, k) : k \in l.unread}
    BY <1>1, <1>2 DEF Excludes
  <2>3. n.before \subseteq n.exclude \cup UNION {getByFilter(n.user, k) : k \in n.unread}
    BY <1>4, <2>2
  <2>4. Excludes(n)
    BY <2>1, <2>3 DEF Excludes
  <2> QED
    BY <1>1, <1>4, <2>4, LooksMove
<1> QED
  BY <1>5, <1>6

LEMMA CountDocumentsLooks ==
    ASSUME PartsInv, Looks, NEW x \in Lookups, countDocuments(x),
           UNCHANGED <<likes, discards>>
    PROVE  Looks'
<1> DEFINE l == look[x]
           n == [l EXCEPT !.total = Cardinality(Filtered(l)), !.counted = Filtered(l),
                          !.stage = "find"]
<1>1. look' = [look EXCEPT ![x] = n] /\ l.stage = "count"
  BY DEF countDocuments
<1>2. l \in Lookup /\ Excludes(l)
  BY DEF Looks
<1>3. Cardinality(Filtered(l)) \in 0..Cardinality(Users) /\ Filtered(l) \subseteq Users
  <2>1. Filtered(l) \subseteq Users
    BY DEF PartsInv, Types, Filtered
  <2>2. IsFiniteSet(Filtered(l)) /\ Cardinality(Filtered(l)) <= Cardinality(Users)
    BY <2>1, FS_Subset, ProfileAssumption
  <2> QED
    BY <2>1, <2>2, FS_CardinalityType, ProfileAssumption
<1>4. /\ n \in Lookup /\ n.user = l.user /\ n.before = l.before /\ n.exclude = l.exclude
      /\ n.stage = "find" /\ n.total = Cardinality(n.counted)
  <2> DEFINE V == Filtered(l)
             total == Cardinality(V)
  <2>1. V \in SUBSET Users /\ total \in 0..Cardinality(Users)
    BY <1>3
  <2> HIDE DEF V, total
  <2>2. [l EXCEPT !.total = total, !.counted = V, !.stage = "find"] \in Lookup
    BY <1>2, <2>1 DEF Lookup
  <2>3. [l EXCEPT !.total = total, !.counted = V, !.stage = "find"].total = total
    BY <1>2 DEF Lookup
  <2>4. [l EXCEPT !.total = total, !.counted = V, !.stage = "find"].counted = V
    BY <1>2 DEF Lookup
  <2>5. LET m == [l EXCEPT !.total = total, !.counted = V, !.stage = "find"] IN
        m.user = l.user /\ m.before = l.before /\ m.exclude = l.exclude /\ m.stage = "find"
    BY <1>2 DEF Lookup
  <2> QED
    BY <2>2, <2>3, <2>4, <2>5 DEF V, total
<1> HIDE DEF n
<1>6. Excludes(n)
  BY <1>1, <1>2, <1>4 DEF Excludes
<1> QED
  BY <1>1, <1>4, <1>6, LooksMove

LEMMA LooksStep == PartsInv /\ Looks /\ [Next]_vars => Looks'
<1> SUFFICES ASSUME PartsInv, Looks, [Next]_vars PROVE Looks'
  OBVIOUS
<1>1. ASSUME UNCHANGED look, likes \subseteq likes', discards \subseteq discards'
      PROVE  Looks'
  <2>2. ASSUME NEW x \in Lookups, NEW l, l = look'[x]
        PROVE  Excludes(l)'
    BY <1>1, <2>2, ExcludesKept DEF Looks
  <2> QED
    BY <1>1, <2>2 DEF Looks
<1>2. CASE ProfileNext /\ UNCHANGED exploreVars
  BY <1>1, <1>2 DEF exploreVars
<1>3. CASE ExploreNext
  <2>2. ASSUME NEW x \in Lookups, NEW u \in Users, getUsersExplore(x, u) PROVE Looks'
    BY <2>2, GetUsersExploreLooks DEF getUsersExplore
  <2>3. ASSUME NEW x \in Lookups, NEW c \in Collections, readExclude(x, c) PROVE Looks'
    BY <2>3, ReadExcludeLooks DEF readExclude
  <2>4. ASSUME NEW x \in Lookups, countDocuments(x) PROVE Looks'
    BY <2>4, CountDocumentsLooks DEF countDocuments
  <2>5. ASSUME NEW x \in Lookups, find(x) \/ Abort(x) PROVE Looks'
    BY <2>5, NoLookupIs, LooksMove DEF find, Abort
  <2>6. ASSUME NEW u \in Users, NEW v \in Users, createLike(u, v) \/ createUserDiscard(u, v)
        PROVE  Looks'
    BY <1>1, <2>6 DEF createLike, createUserDiscard
  <2> QED
    BY <1>3, <2>2, <2>3, <2>4, <2>5, <2>6 DEF ExploreNext
<1>4. CASE UNCHANGED vars
  BY <1>1, <1>4 DEF vars, exploreVars, profileVars, docVars
<1> QED
  BY <1>2, <1>3, <1>4 DEF Next

LEMMA LooksInvariant == Spec => []Looks
<1>1. Init => Looks
  BY NoLookupIs DEF Init, Looks
<1> QED
  BY <1>1, PartsInvariant, LooksStep, PTL DEF Spec

(* Nobody is proposed whom the user had liked or discarded when it asked.    *)
THEOREM LikedAreNotProposed == Spec => []ExploreExcludes
<1>1. Looks => ExploreExcludes
  BY DEF Looks, Excludes, ExploreExcludes, Finding, Filtered
<1> QED
  BY <1>1, LooksInvariant, PTL

Rank(V, v) == Cardinality({w \in V : w < v})

(* The ranks of n numbers are 0 to n - 1, each of one of them.               *)
LEMMA RanksAreOffsets ==
    ASSUME NEW V, V \subseteq Nat, IsFiniteSet(V)
    PROVE  /\ \A v \in V : Rank(V, v) \in 0..(Cardinality(V) - 1)
           /\ \A k \in 0..(Cardinality(V) - 1) : \E v \in V : Rank(V, v) = k
<1> DEFINE last == Cardinality(V) - 1
           Below(v) == {w \in V : w < v}
           rank == [v \in V |-> Rank(V, v)]
<1>1. \A v \in V : /\ IsFiniteSet(Below(v)) /\ Cardinality(Below(v)) \in Nat
                   /\ Rank(V, v) = Cardinality(Below(v))
  BY FS_Subset, FS_CardinalityType DEF Rank
<1>2. Cardinality(V) \in Nat
  BY FS_CardinalityType
<1>3. ASSUME NEW v \in V PROVE Rank(V, v) \in 0..last
  <2>1. Below(v) \in SUBSET V /\ v \in V /\ v \notin Below(v)
    OBVIOUS
  <2> HIDE DEF Below, last
  <2>2. /\ Cardinality(Below(v)) <= Cardinality(V)
        /\ Cardinality(V) = Cardinality(Below(v)) => V = Below(v)
    BY <2>1, FS_Subset
  <2>3. Rank(V, v) = Cardinality(Below(v)) /\ Rank(V, v) \in Nat /\ Rank(V, v) < Cardinality(V)
    BY <1>1, <1>2, <2>1, <2>2
  <2> QED
    BY <1>2, <2>3 DEF last
<1>4. ASSUME NEW v \in V, NEW w \in V, v < w PROVE Rank(V, v) < Rank(V, w)
  <2>0. v \in Nat /\ w \in Nat /\ \A x \in V : x \in Nat
    OBVIOUS
  <2>1. Below(v) \in SUBSET Below(w) /\ v \in Below(w) /\ v \notin Below(v)
    <3>1. \A x \in V : x < v => x < w
      BY <1>4, <2>0
    <3>2. v < w /\ ~(v < v)
      BY <1>4, <2>0
    <3> QED
      BY <3>1, <3>2
  <2> HIDE DEF Below
  <2>2. /\ Cardinality(Below(v)) <= Cardinality(Below(w))
        /\ Cardinality(Below(w)) = Cardinality(Below(v)) => Below(w) = Below(v)
    BY <1>1, <2>1, FS_Subset
  <2> QED
    BY <1>1, <2>1, <2>2
<1>5. rank \in Injection(V, 0..last)
  <2>1. rank \in [V -> 0..last]
    BY <1>3
  <2>2. ASSUME NEW v \in V, NEW w \in V, rank[v] = rank[w] PROVE v = w
    <3>1. Rank(V, v) = Rank(V, w) /\ Rank(V, v) \in Nat /\ Rank(V, w) \in Nat
      BY <1>1, <2>2
    <3>2. ~(v < w) /\ ~(w < v) /\ v \in Nat /\ w \in Nat
      BY <1>4, <3>1
    <3> QED
      BY <3>2
  <2> QED
    BY <2>1, <2>2 DEF Injection, IsInjective
<1>6. IsFiniteSet(0..last) /\ Cardinality(0..last) = Cardinality(V)
  <2>1. last \in Int /\ 0 \in Int /\ Cardinality(V) = IF 0 > last THEN 0 ELSE last - 0 + 1
    BY <1>2
  <2> HIDE DEF last
  <2> QED
    BY <2>1, FS_Interval
<1>7. rank \in Surjection(V, 0..last)
  <2> HIDE DEF rank, last
  <2> QED
    BY <1>5, <1>6, FS_Injection
<1>8. \A k \in 0..last : \E v \in V : Rank(V, v) = k
  <2> HIDE DEF last
  <2> QED
    BY <1>7 DEF Surjection
<1> QED
  BY <1>3, <1>8

(* No page is empty that begins before the end of a set, and every member is *)
(* on a page, where less than a page begins after the last offset.           *)
LEMMA Pages ==
    ASSUME NEW V, V \subseteq Nat, IsFiniteSet(V), NEW total \in Nat, total > 0
    PROVE  LET pages == {Page(V, skip) : skip \in Offsets(total)} IN
           /\ total <= Cardinality(V) => {} \notin pages
           /\ Cardinality(V) < total + LIMIT => UNION pages = V
<1>1. Cardinality(V) \in Nat /\ LIMIT \in Nat \ {0}
  BY FS_CardinalityType, ExploreAssumption
<1>2. \A skip : Page(V, skip) = {v \in V : skip <= Rank(V, v) /\ Rank(V, v) < skip + LIMIT}
  BY DEF Page, Rank
<1>3. ASSUME total <= Cardinality(V), NEW skip \in Offsets(total) PROVE Page(V, skip) # {}
  <2>1. skip \in 0..(Cardinality(V) - 1) /\ skip \in Nat
    BY <1>1, <1>3 DEF Offsets
  <2>2. PICK v \in V : Rank(V, v) = skip
    BY <2>1, RanksAreOffsets
  <2>3. skip <= skip /\ skip < skip + LIMIT
    BY <1>1, <2>1
  <2>4. v \in Page(V, skip)
    BY <1>2, <2>2, <2>3
  <2> QED
    BY <2>4
<1>4. ASSUME Cardinality(V) < total + LIMIT, NEW v \in V
      PROVE  \E skip \in Offsets(total) : v \in Page(V, skip)
  <2>1. Rank(V, v) \in 0..(Cardinality(V) - 1)
    BY RanksAreOffsets
  <2> DEFINE rank == Rank(V, v)
             n == Cardinality(V)
             skip == IF rank < total THEN rank ELSE total - 1
  <2>2. rank \in Nat /\ n \in Nat /\ rank < n /\ n < total + LIMIT /\ LIMIT \in Nat \ {0}
    BY <1>1, <1>4, <2>1
  <2> HIDE DEF rank, n
  <2>3. skip \in 0..(total - 1) /\ skip <= rank /\ rank < skip + LIMIT
    BY <2>2
  <2> HIDE DEF skip
  <2>4. skip \in Offsets(total)
    BY <2>3 DEF Offsets
  <2>5. v \in Page(V, skip)
    BY <1>2, <2>3 DEF rank
  <2> QED
    BY <2>4, <2>5
<1>5. \A skip : Page(V, skip) \subseteq V
  BY <1>2
<1> QED
  BY <1>3, <1>4, <1>5

(* A user for whom somebody was counted is shown somebody, whatever the      *)
(* offset, unless a name was taken back since; and everybody whom the find   *)
(* matches can be shown, unless a page or more of them came in.              *)
THEOREM AnyOffsetShowsSomebody == Spec => []EverybodyCanBeShown
<1>1. PartsInv /\ Looks => EverybodyCanBeShown
  <2> SUFFICES ASSUME PartsInv, Looks, NEW x \in Finding, look[x].total > 0
               PROVE  LET V == Filtered(look[x])
                          pages == {Page(V, skip) : skip \in Offsets(look[x].total)}
                      IN  /\ look[x].counted \subseteq V => {} \notin pages
                          /\ Cardinality(V \ look[x].counted) < LIMIT => UNION pages = V
    BY DEF EverybodyCanBeShown
  <2> DEFINE V == Filtered(look[x])
             C == look[x].counted
             total == look[x].total
  <2>1. total = Cardinality(C) /\ C \subseteq Users /\ total > 0
    BY DEF Looks, Excludes, Finding, Lookup
  <2>2. V \subseteq Users
    BY DEF PartsInv, Types, Filtered
  <2> HIDE DEF V, C, total
  <2>3. /\ V \subseteq Nat /\ IsFiniteSet(V) /\ IsFiniteSet(C) /\ IsFiniteSet(V \ C)
        /\ IsFiniteSet(V \cap C) /\ Cardinality(V \cap C) <= Cardinality(C)
    <3>1. IsFiniteSet(V) /\ IsFiniteSet(C)
      BY <2>1, <2>2, FS_Subset, ProfileAssumption
    <3>2. V \ C \in SUBSET V /\ V \cap C \in SUBSET C
      OBVIOUS
    <3> QED
      BY <2>2, <3>1, <3>2, FS_Subset, ProfileAssumption
  <2>4. /\ Cardinality(V) \in Nat /\ Cardinality(C) \in Nat /\ Cardinality(V \ C) \in Nat
        /\ Cardinality(V \cap C) \in Nat /\ total \in Nat /\ LIMIT \in Nat
    BY <2>1, <2>3, FS_CardinalityType, ExploreAssumption
  <2>5. C \subseteq V => total <= Cardinality(V)
    BY <2>1, <2>3, FS_Subset
  <2>6. Cardinality(V \ C) < LIMIT => Cardinality(V) < total + LIMIT
    <3>1. Cardinality(V \ C) = Cardinality(V) - Cardinality(V \cap C)
      BY <2>3, FS_Difference
    <3> QED
      BY <2>1, <2>3, <2>4, <3>1
  <2>7. LET pages == {Page(V, skip) : skip \in Offsets(total)} IN
        /\ total <= Cardinality(V) => {} \notin pages
        /\ Cardinality(V) < total + LIMIT => UNION pages = V
    BY <2>1, <2>3, <2>4, Pages
  <2> QED
    BY <2>5, <2>6, <2>7 DEF V, C, total
<1> QED
  BY <1>1, PartsInvariant, LooksInvariant, PTL

-----------------------------------------------------------------------------
(* What is left of the type invariant: the photos, and what is shown.      *)

RestTypes ==
    /\ photos \in [Users -> Nat] /\ renamed \subseteq Users
    /\ likes \subseteq Users \X Users /\ discards \subseteq Users \X Users
    /\ screen \in [Users -> SUBSET Users]

LEMMA RestStart == Init => RestTypes
<1> SUFFICES ASSUME Init PROVE RestTypes
  OBVIOUS
<1>1. photos \in [Users -> Nat] /\ renamed = {}
  BY DEF Init, ProfileInit, One
<1>2. likes = {} /\ discards = {} /\ screen = [u \in Users |-> {}]
  BY DEF Init
<1> QED
  BY <1>1, <1>2 DEF RestTypes

(* Profiles: one photo more or, when there is one, less.                     *)
LEMMA RestOfProfiles ==
    ASSUME PartsInv, RestTypes, ProfileNext, UNCHANGED exploreVars
    PROVE  RestTypes'
<1>1. SUFFICES photos' \in [Users -> Nat] /\ renamed' \subseteq Users
  BY DEF RestTypes, exploreVars
<1>2. ASSUME NEW r \in Requests, insertPhotos(r) PROVE photos' \in [Users -> Nat] /\ UNCHANGED renamed
  <2>1. req[r].user \in Users
    BY <1>2 DEF insertPhotos, Pending, At, PartsInv, Formed
  <2> QED
    BY <1>2, <2>1 DEF insertPhotos, RestTypes
<1>3. ASSUME NEW r \in Requests, updateFields(r) PROVE renamed' \subseteq Users /\ UNCHANGED photos
  <2>1. req[r].user \in Users
    BY <1>3 DEF updateFields, At, PartsInv, Formed
  <2> QED
    BY <1>3, <2>1 DEF updateFields, RestTypes
<1>4. ASSUME NEW u \in Users, createPhoto(u) PROVE photos' \in [Users -> Nat] /\ UNCHANGED renamed
  BY <1>4 DEF createPhoto, RestTypes
<1>5. ASSUME NEW u \in Users, deletePhoto(u) PROVE photos' \in [Users -> Nat] /\ UNCHANGED renamed
  <2>1. photos[u] \in Nat /\ photos[u] > 0
    BY <1>5 DEF deletePhoto, RestTypes
  <2>2. photos[u] - 1 \in Nat /\ photos' = [photos EXCEPT ![u] = photos[u] - 1]
    BY <1>5, <2>1 DEF deletePhoto
  <2> QED
    BY <1>5, <2>2 DEF deletePhoto, RestTypes
<1>6. bounds.creators \subseteq Users
  BY ProfileAssumption DEF PartsInv, Types
<1>7. ASSUME NEW r \in Requests,
             createCustomer(r) \/ createUserGender(r) \/ createInterests(r) \/ updateOne(r)
               \/ updateUserGender(r) \/ rejectOne(r) \/ Throw(r)
      PROVE  UNCHANGED <<photos, renamed>>
  BY <1>7 DEF createCustomer, createUserGender, createInterests, updateOne, updateUserGender,
     rejectOne, Throw, docVars
<1>8. ASSUME NEW r \in Requests, NEW u \in Users, NEW g, NEW b, createProfile(r, u, g) \/ updateProfile(r, u, g, b)
      PROVE  UNCHANGED <<photos, renamed>>
  BY <1>8 DEF createProfile, updateProfile, docVars
<1>9. UNCHANGED <<photos, renamed>> => photos' \in [Users -> Nat] /\ renamed' \subseteq Users
  BY DEF RestTypes
<1> QED
  BY <1>2, <1>3, <1>4, <1>5, <1>6, <1>7, <1>8, <1>9
     DEF ProfileNext, ProfileClients, ProfileStep, RestTypes

(* Explore: users are shown, and liked or discarded.                         *)
LEMMA RestOfExplore ==
    ASSUME PartsInv, RestTypes, ExploreNext
    PROVE  RestTypes'
<1>1. UNCHANGED <<photos, renamed>>
  BY DEF ExploreNext, getUsersExplore, readExclude, countDocuments, find, Abort, createLike,
     createUserDiscard, profileVars, docVars
<1>2. ASSUME NEW x \in Lookups, find(x) PROVE RestTypes'
  <2>1. ASSUME NEW skip PROVE Page(Filtered(look[x]), skip) \subseteq Users
    BY DEF Page, Filtered, PartsInv, Types
  <2>2. PICK skip \in Offsets(look[x].total) :
          screen' = [screen EXCEPT ![look[x].user] = Page(Filtered(look[x]), skip)]
    BY <1>2 DEF find
  <2> DEFINE page == Page(Filtered(look[x]), skip)
  <2>3. page \in SUBSET Users
    BY <2>1
  <2> HIDE DEF page
  <2>4. screen' \in [Users -> SUBSET Users]
    <3>1. screen' = [screen EXCEPT ![look[x].user] = page]
      BY <2>2 DEF page
    <3> QED
      BY <2>3, <3>1 DEF RestTypes
  <2> QED
    BY <1>1, <1>2, <2>4 DEF find, RestTypes
<1>3. ASSUME NEW u \in Users, NEW v \in Users, createLike(u, v) \/ createUserDiscard(u, v)
      PROVE  RestTypes'
  BY <1>1, <1>3 DEF createLike, createUserDiscard, RestTypes
<1>4. UNCHANGED <<likes, discards, screen>> => RestTypes'
  BY <1>1 DEF RestTypes
<1> QED
  BY <1>2, <1>3, <1>4 DEF ExploreNext, getUsersExplore, readExclude, countDocuments, Abort

(* Profiles and what explore shows stay well-formed: a request is for a user *)
(* and a gender there is, only users are shown, liked and discarded, and no  *)
(* count exceeds the number of users.                                        *)
THEOREM ProfileTypes == Spec => []TypeOK
<1>1. PartsInv /\ RestTypes /\ [Next]_vars => RestTypes'
  <2>1. UNCHANGED vars /\ RestTypes => RestTypes'
    BY DEF vars, profileVars, docVars, exploreVars, RestTypes
  <2> QED
    BY <2>1, RestOfProfiles, RestOfExplore DEF Next
<1>2. PartsInv /\ Looks /\ RestTypes => TypeOK
  BY DEF PartsInv, Types, Looks, RestTypes, TypeOK, ProfileTypeOK
<1> QED
  BY <1>1, <1>2, RestStart, PartsInvariant, LooksInvariant, PTL DEF Spec
=============================================================================
