------------------------------ MODULE MCAccounts ------------------------------
(* Accounts for TLC.                                                          *)
EXTENDS Accounts, TLC

\* Overlapping requests of one account; requests of two accounts, one at a time;
\* and two accounts that sign up, in and out while others do.
MCBounds == {[requests |-> 2, users |-> 1, faults |-> TRUE, edits |-> TRUE],
             [requests |-> 1, users |-> 2, faults |-> TRUE, edits |-> TRUE],
             [requests |-> 2, users |-> 2, faults |-> TRUE, edits |-> FALSE]}

Symmetry == Permutations(Emails) \cup Permutations(Passwords) \cup Permutations(Requests)
=============================================================================
