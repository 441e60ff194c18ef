-------------------------------- MODULE Explore --------------------------------
(***************************************************************************)
(* Who is proposed to whom: getUsersExplore, with the likes and discards   *)
(* that a user makes of those it is shown, and the profiles that others    *)
(* complete or take back meanwhile.  The likes are those of POST           *)
(* /user-likes; a match takes nobody out that a like has not.              *)
(*                                                                         *)
(* Every user here has the role of a user.                                 *)
(***************************************************************************)
EXTENDS Profiles

CONSTANTS
    LIMIT,         \* the size of a page
    Lookups        \* bound: the explore requests that may be in flight at once

ASSUME ExploreAssumption == LIMIT \in Nat \ {0}

VARIABLES
    likes,         \* user-likes: <<u, v>> when u likes v
    discards,      \* user-discards
    screen,        \* external: whom each user is shown
    look           \* the explore requests in flight

exploreVars == <<likes, discards, screen, look>>
vars == <<profileVars, exploreVars>>

Collections == {"likes", "discards"}

Lookup ==
    [stage : {"idle", "read", "count", "find"}, user : Users \cup {0},
     unread : SUBSET Collections,      \* finds that were issued and are not answered
     exclude : SUBSET Users,           \* what they have found
     before : SUBSET Users,            \* history: what they should find
     total : 0..Cardinality(Users),
     counted : SUBSET Users]           \* history: who the total is made of

TypeOK ==
    /\ ProfileTypeOK
    /\ likes \subseteq Users \X Users /\ discards \subseteq Users \X Users
    /\ screen \in [Users -> SUBSET Users]
    /\ look \in [Lookups -> Lookup]

NoLookup == [stage |-> "idle", user |-> 0, unread |-> {}, exclude |-> {}, before |-> {},
             total |-> 0, counted |-> {}]

Init ==
    /\ ProfileInit
    /\ likes = {} /\ discards = {}
    /\ screen = [u \in Users |-> {}]
    /\ look = [x \in Lookups |-> NoLookup]

Liked(u) == {v \in Users : <<u, v>> \in likes}
Discarded(u) == {v \in Users : <<u, v>> \in discards}

-----------------------------------------------------------------------------

\* GET users/explore; the finds of Promise.all are answered in any order.
getUsersExplore(x, u) ==
    /\ look[x].stage = "idle"
    /\ u \in bounds.viewers
    /\ look' = [look EXCEPT ![x] =
                  [NoLookup EXCEPT !.stage = "read", !.user = u, !.unread = Collections,
                                   !.before = Liked(u) \cup Discarded(u)]]
    /\ UNCHANGED <<profileVars, likes, discards, screen>>

\* Mutant: the filter names those who like the user.
getByFilterLikedBy(u, collection) ==
    IF collection = "likes" THEN {v \in Users : <<v, u>> \in likes} ELSE Discarded(u)

getByFilter(u, collection) == IF collection = "likes" THEN Liked(u) ELSE Discarded(u)

readExclude(x, collection) ==
    LET l == look[x] IN
    /\ l.stage = "read" /\ collection \in l.unread
    /\ look' = [look EXCEPT ![x].unread = @ \ {collection},
                            ![x].exclude = @ \cup getByFilter(l.user, collection),
                            ![x].stage = IF l.unread = {collection} THEN "count" ELSE @]
    /\ UNCHANGED <<profileVars, likes, discards, screen>>

\* The filter is made once, of what was read.
Filtered(l) == (named \ l.exclude) \ {l.user}

countDocuments(x) ==
    /\ look[x].stage = "count"
    /\ look' = [look EXCEPT ![x].total = Cardinality(Filtered(look[x])),
                            ![x].counted = Filtered(look[x]), ![x].stage = "find"]
    /\ UNCHANGED <<profileVars, likes, discards, screen>>

\* Mutant: the random number is rounded up.
OffsetsUp(total) == 0..total

\* skip(Math.random() * total): the fraction is cut off.
Offsets(total) == IF total = 0 THEN {0} ELSE 0..(total - 1)

\* In the order of the documents.
Page(V, skip) ==
    {v \in V : LET before == Cardinality({w \in V : w < v}) IN
                   skip <= before /\ before < skip + LIMIT}

find(x) ==
    LET l == look[x] IN
    /\ l.stage = "find"
    /\ \E skip \in Offsets(l.total) :
         screen' = [screen EXCEPT ![l.user] = Page(Filtered(l), skip)]
    /\ look' = [look EXCEPT ![x] = NoLookup]
    /\ UNCHANGED <<profileVars, likes, discards>>

\* Of a user on the screen.
createLike(u, v) ==
    /\ v \in screen[u]
    /\ likes' = likes \cup {<<u, v>>}
    /\ screen' = [screen EXCEPT ![u] = @ \ {v}]
    /\ UNCHANGED <<profileVars, discards, look>>

createUserDiscard(u, v) ==
    /\ v \in screen[u]
    /\ discards' = discards \cup {<<u, v>>}
    /\ screen' = [screen EXCEPT ![u] = @ \ {v}]
    /\ UNCHANGED <<profileVars, likes, look>>

\* The handler fails or the process restarts.
Abort(x) ==
    /\ bounds.faults
    /\ look[x].stage # "idle"
    /\ look' = [look EXCEPT ![x] = NoLookup]
    /\ UNCHANGED <<profileVars, likes, discards, screen>>

ExploreNext ==
    \/ \E x \in Lookups :
          \/ \E u \in Users : getUsersExplore(x, u)
          \/ \E collection \in Collections : readExclude(x, collection)
          \/ countDocuments(x) \/ find(x) \/ Abort(x)
    \/ \E u, v \in Users : createLike(u, v) \/ createUserDiscard(u, v)

Next == (ProfileNext /\ UNCHANGED exploreVars) \/ ExploreNext

Spec == Init /\ [][Next]_vars

-----------------------------------------------------------------------------
(* Properties.                                                             *)

Finding == {x \in Lookups : look[x].stage = "find"}

(* Nobody is proposed whom the user had liked or discarded when it asked,    *)
(* although likes and discards are read in separate operations, and go on.   *)
ExploreExcludes ==
    \A x \in Finding :
        LET l == look[x] IN Filtered(l) \cap (l.before \cup {l.user}) = {}

(* A user for whom somebody was counted is shown somebody, whatever the      *)
(* random offset is, unless one of those has taken its lastName back before  *)
(* the find; and everybody whom the find matches is shown for some offset,   *)
(* unless a page or more of them came in after the count.                    *)
EverybodyCanBeShown ==
    \A x \in Finding :
        LET l == look[x]
            V == Filtered(l)
            pages == {Page(V, skip) : skip \in Offsets(l.total)}
        IN  l.total > 0 =>
               /\ l.counted \subseteq V => {} \notin pages
               /\ Cardinality(V \ l.counted) < LIMIT => UNION pages = V
=============================================================================
