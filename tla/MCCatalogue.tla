------------------------------ MODULE MCCatalogue -----------------------------
(* The catalogue, the premium packages and their pages for TLC.               *)
EXTENDS Browsing, TLC

W(kind, size, flagged, last, keys, n, deletes, searches) ==
    [kind |-> kind, size |-> size, flagged |-> flagged, lastId |-> last,
     keys |-> keys, requests |-> n, deletes |-> deletes, searches |-> searches]

\* Overlapping creates; the default and the active packages, one request at a
\* time; and pages that are read while the collection changes.
MCWorlds ==
    {W("gender", 0, 0, 4, {1, 2, 3}, 2, FALSE, {}),
     W("relationship", 3, 1, 4, {1, 3, 4}, 1, TRUE, {}),
     W("package", 4, 3, 5, {4, 5}, 1, TRUE, {}),
     W("passion", 3, 0, 4, {3, 4}, 1, TRUE, {{1, 2, 3}}),
     W("gender", 2, 0, 4, {3, 4}, 2, FALSE, {{1, 3}})}

TwoRelationships == {W("relationship", 0, 0, 2, {1, 2}, 2, TRUE, {})}

Symmetry == Permutations(Requests)
=============================================================================
