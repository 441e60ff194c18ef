------------------------------ MODULE MCMatching ------------------------------
(* Matching for TLC: two users, one device each, and symmetric identities for *)
(* the requests in flight and the conversations.                              *)
EXTENDS Matching, TLC

CONSTANTS u1, u2, s1, s2

MCUsers == {u1, u2}
MCSockets == {s1, s2}
MCOwner == s1 :> u1 @@ s2 :> u2

Symmetry == Permutations(Handlers) \cup Permutations(ConversationIds)
=============================================================================
