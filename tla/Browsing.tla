------------------------------- MODULE Browsing -------------------------------
(***************************************************************************)
(* An administrator pages through a collection: getAdminAll sorts the      *)
(* documents that match the search by _id, the newest first, skips the     *)
(* pages before this one and returns LIMIT documents; then it counts, in a *)
(* second operation, and answers with the number of pages.  Creates,       *)
(* updates and deletes come in between.                                    *)
(*                                                                         *)
(* A search is the set of keys whose documents it matches.  A package is   *)
(* matched by its code and description: its schema has no `name`, and      *)
(* strictQuery takes the arm of the $or that asks for one out.             *)
(***************************************************************************)
EXTENDS PremiumPackages

CONSTANT LIMIT     \* documents on a page

ASSUME LimitAssumption == LIMIT \in Nat \ {0}

\* stage, search and page of the browser; and, for the property, the ids it
\* has shown, the ones that matched when it was opened, and how many matching
\* documents have been deleted or changed since.
VARIABLE browse

Browser ==
    [stage : {"closed", "find", "count", "done"}, search : SUBSET Keys, page : Nat,
     seen : SUBSET Ids, start : SUBSET Ids, removed : Nat]

Init ==
    /\ CatalogueInit
    /\ browse = [stage |-> "closed", search |-> {}, page |-> 1, seen |-> {},
                 start |-> {}, removed |-> 0]

Matching(D) == {d \in D : d.key \in browse.search}
IdsOf(D) == {d.id : d \in D}

\* Mutant: pages are counted from zero.
PageFromZero(D, p) ==
    {d \in Matching(D) :
        Cardinality({e \in Matching(D) : e.id > d.id}) \in (p * LIMIT)..((p + 1) * LIMIT - 1)}

\* sort({_id: -1}).skip((page - 1) * LIMIT).limit(LIMIT)
Page(D, p) ==
    {d \in Matching(D) :
        Cardinality({e \in Matching(D) : e.id > d.id}) \in ((p - 1) * LIMIT)..(p * LIMIT - 1)}

\* Genders and relationship types count the whole collection, the other two
\* what matches the search, with at least one page.
TotalPage(D) ==
    IF world.kind \in {"gender", "relationship"}
      THEN (Cardinality(D) + LIMIT - 1) \div LIMIT
      ELSE IF Matching(D) = {} THEN 1
           ELSE (Cardinality(Matching(D)) + LIMIT - 1) \div LIMIT

\* The first request of a search.
open(search) ==
    /\ browse.stage = "closed"
    /\ browse' = [browse EXCEPT !.stage = "find", !.search = search,
                                !.start = {d.id : d \in {e \in docs : e.key \in search}}]
    /\ UNCHANGED vars

find ==
    /\ browse.stage = "find"
    /\ browse' = [browse EXCEPT !.stage = "count",
                                !.seen = @ \cup IdsOf(Page(docs, browse.page))]
    /\ UNCHANGED vars

\* The answer; the administrator goes on as long as there is another page.
countDocuments ==
    /\ browse.stage = "count"
    /\ browse' = IF browse.page < TotalPage(docs)
                   THEN [browse EXCEPT !.stage = "find", !.page = @ + 1]
                   ELSE [browse EXCEPT !.stage = "done"]
    /\ UNCHANGED vars

\* How many matching documents the step takes out of the search.
Removals == Cardinality(IdsOf(Matching(docs)) \ IdsOf(Matching(docs')))

\* The count of removals stops where it excuses everything: a bound.
Watched ==
    browse' = [browse EXCEPT
                 !.removed = IF browse.stage \in {"find", "count"}
                               THEN LET n == @ + Removals
                                    IN  IF n > Cardinality(browse.start)
                                          THEN Cardinality(browse.start) ELSE n
                               ELSE @]

Next ==
    \/ (CatalogueNext \/ Status) /\ Watched
    \/ (\E search \in world.searches : open(search)) \/ find \/ countDocuments

Spec == Init /\ [][Next]_<<vars, browse>>

-----------------------------------------------------------------------------

BrowseTypeOK == TypeOK /\ browse \in Browser

(* Whoever pages to the end has seen every document that matched from the    *)
(* beginning and still does, except one for each document that a delete or   *)
(* an update took out of the pages meanwhile.  Creates move documents to     *)
(* later pages only, because the newest come first.                          *)
BrowseMissesNothing ==
    browse.stage = "done" =>
        Cardinality((browse.start \cap IdsOf(Matching(docs))) \ browse.seen) <= browse.removed
=============================================================================
