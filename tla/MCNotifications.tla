---------------------------- MODULE MCNotifications ---------------------------
(* Notifications and payments for TLC.                                        *)
EXTENDS Payments, TLC

CONSTANTS u1, u2

MCUsers == {u1, u2}
\* Two overlapping requests over two ids, one at a time over three, two payments,
\* or one notification whose recipients read it.
MCBounds == {[requests |-> 2, ids |-> 2, payments |-> 1, reads |-> FALSE],
             [requests |-> 1, ids |-> 3, payments |-> 0, reads |-> FALSE],
             [requests |-> 2, ids |-> 1, payments |-> 2, reads |-> FALSE],
             [requests |-> 1, ids |-> 1, payments |-> 0, reads |-> TRUE]}

MCAudiences == {MCUsers}

Symmetry == Permutations(Users) \cup Permutations(Requests)
=============================================================================
