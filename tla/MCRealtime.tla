------------------------------ MODULE MCRealtime ------------------------------
(* Sockets, rooms and calls for TLC.                                          *)
EXTENDS Calls, TLC

CONSTANTS u1, u2, u3, a1, a2, b1

MCUsers == {u1, u2, u3}
MCSockets == {a1, a2, b1}
MCOwner == a1 :> u1 @@ a2 :> u1 @@ b1 :> u2

B(sockets, pairs, calls, requests, faults) ==
    [sockets |-> sockets, pairs |-> pairs, calls |-> calls, requests |-> requests,
     faults |-> faults]

\* Calls from or to a user with two devices, calls both ways with failures, and
\* calls without any conversation; and the rooms of two conversations, of one
\* user's two devices or of two users.
MCBounds ==
    {B({a1, a2, b1}, {{u1, u2}}, {<<u1, u2>>, <<u1, u3>>}, 2, FALSE),
     B({a1, a2, b1}, {{u1, u2}}, {<<u2, u1>>, <<u2, u3>>}, 2, FALSE),
     B({a1, b1}, {{u1, u2}}, {<<u1, u2>>, <<u1, u3>>, <<u2, u1>>}, 2, TRUE),
     B({a1, b1}, {}, {<<u1, u1>>, <<u1, u2>>}, 2, TRUE),
     B({a1, a2}, {{u1, u2}}, {}, 1, TRUE),
     B({a1, b1}, {{u1, u2}, {u1, u3}}, {}, 1, FALSE)}

\* The only conversation is that of the caller and a third user.
StrangersBounds == {B({a1, b1}, {{u1, u3}}, {<<u1, u2>>}, 1, FALSE)}

Symmetry == Permutations(Conversations)
=============================================================================
