----------------------------- MODULE MatchPromise -----------------------------
(***************************************************************************)
(* What the matching of two users promises, without requests, awaits or    *)
(* documents: likes only accumulate, and two users are matched at most     *)
(* once, unordered, and only when each has liked the other.                *)
(***************************************************************************)
CONSTANT Users

VARIABLES
    likes,      \* <<u, v>>: u likes v
    matched     \* the matched pairs, as sets

Init == likes = {} /\ matched = {}

Like(u, v) ==
    /\ <<u, v>> \notin likes
    /\ likes' = likes \cup {<<u, v>>}
    /\ UNCHANGED matched

Match(u, v) ==
    /\ {<<u, v>>, <<v, u>>} \subseteq likes
    /\ {u, v} \notin matched
    /\ matched' = matched \cup {{u, v}}
    /\ UNCHANGED likes

Next == \E u, v \in Users : Like(u, v) \/ Match(u, v)

Spec == Init /\ [][Next]_<<likes, matched>>
=============================================================================
