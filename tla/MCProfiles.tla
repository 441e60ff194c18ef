------------------------------ MODULE MCProfiles ------------------------------
(* Explore, with the profiles, for TLC.                                       *)
EXTENDS Explore, TLC

\* The profile of one user, created and updated with overlapping requests and
\* failures; or three users, one of whom takes its name back and sets it again
\* while another looks; or four, where a lookup may fail.
MCBounds ==
    {[members |-> {}, creators |-> {1}, viewers |-> {}, requests |-> 2, creates |-> 2,
      photos |-> 1, faults |-> TRUE, edits |-> TRUE],
     [members |-> {1, 2, 3}, creators |-> {3}, viewers |-> {1}, requests |-> 1, creates |-> 1,
      photos |-> 0, faults |-> FALSE, edits |-> TRUE],
     [members |-> {1, 2, 3, 4}, creators |-> {}, viewers |-> {1}, requests |-> 0,
      creates |-> 0, photos |-> 0, faults |-> TRUE, edits |-> FALSE]}

Symmetry == Permutations(Requests) \cup Permutations(Lookups)
=============================================================================
