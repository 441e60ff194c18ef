------------------------------ MODULE Catalogue -------------------------------
(***************************************************************************)
(* The collections the administrators keep: genders, passions,             *)
(* relationship types and premium packages.  The four services share one   *)
(* design: a document has a generated code and a unique key (the name, or  *)
(* the number of months), create looks whether the key is taken, derives   *)
(* the next code from the document with the greatest _id and inserts;      *)
(* update looks whether another document has the key and writes.           *)
(*                                                                         *)
(* Every await is a step, so requests of several administrators interleave *)
(* between a check and the write it is for.  MongoDB's unique indexes on   *)
(* the code and on the key reject a write at the moment it is applied.     *)
(*                                                                         *)
(* flag is isDefault of a relationship type, active of a premium package,  *)
(* and FALSE for genders and passions.                                     *)
(***************************************************************************)
EXTENDS Naturals, FiniteSets

CONSTANTS
    Keys,          \* names, or numbers of months, by number
    Worlds,        \* the collections to look at, and the work on them
    Requests,
    MaxId          \* bound: the last _id that is generated

VARIABLES
    world,         \* which of Worlds this is, chosen once
    docs,          \* the collection
    nextId,        \* the driver's ObjectId counter: ids grow as they are made
    req            \* the requests in flight

vars == <<world, docs, nextId, req>>

NoKey == 0

Ids == 1..MaxId
Doc == [id : Ids, code : Nat \ {0}, key : Keys, flag : BOOLEAN]

Kinds == {"gender", "passion", "relationship", "package"}

\* A world is a collection of a kind, with size documents at the start of which
\* the first ones have the flag, and the bounds of the work on it: the last _id
\* that is made, the keys that are given, the requests in flight at once, whether
\* documents are deleted, and the searches whose pages are read.
World == [kind : Kinds, size : 0..MaxId, flagged : Nat, lastId : Ids,
          keys : SUBSET Keys, requests : Nat, deletes : BOOLEAN,
          searches : SUBSET SUBSET Keys]

Stages == {"idle", "key", "default", "last", "new", "insert", "write",
           "count", "status"}

Request ==
    [stage : Stages, op : {"create", "update"}, id : 0..MaxId, key : Keys \cup {NoKey},
     flag : BOOLEAN, code : Nat]

UniqueIndexes(D) == \A d, e \in D :
    d.id = e.id \/ d.code = e.code \/ d.key = e.key => d = e

ASSUME CatalogueAssumption ==
    /\ MaxId \in Nat \ {0} /\ IsFiniteSet(Requests)
    /\ Keys \subseteq Nat \ {NoKey}
    /\ Worlds \subseteq World
    /\ \A w \in Worlds : 1..w.size \subseteq Keys

TypeOK ==
    /\ world \in Worlds
    /\ docs \subseteq Doc
    /\ nextId \in 1..(MaxId + 1)
    /\ req \in [Requests -> Request]

Idle == [stage |-> "idle", op |-> "create", id |-> 0, key |-> NoKey,
         flag |-> FALSE, code |-> 0]

CatalogueInit ==
    /\ world \in Worlds
    /\ docs = {[id |-> i, code |-> i, key |-> i, flag |-> i <= world.flagged] :
                 i \in 1..world.size}
    /\ nextId = world.size + 1
    /\ req = [r \in Requests |-> Idle]

At(r, stage) == req[r].stage = stage
Goto(r, stage) == req' = [req EXCEPT ![r].stage = stage]
Finish(r) == req' = [req EXCEPT ![r] = Idle]

\* isDefault is part of the body of a relationship type only.
HasDefault == world.kind = "relationship"
Flags == IF HasDefault THEN BOOLEAN ELSE {FALSE}

\* A request arrives.
Begin(r, request) ==
    /\ At(r, "idle")
    /\ Cardinality({s \in Requests : ~At(s, "idle")}) < world.requests
    /\ req' = [req EXCEPT ![r] = request]
    /\ UNCHANGED <<world, docs, nextId>>

-----------------------------------------------------------------------------
(* create and update.                                                      *)

create(r, k, f) ==
    /\ k \in world.keys /\ f \in Flags
    /\ Begin(r, [Idle EXCEPT !.stage = "key", !.key = k, !.flag = f])

update(r, id, k, f) ==
    /\ id <= world.lastId /\ k \in world.keys /\ f \in Flags
    /\ Begin(r, [Idle EXCEPT !.stage = "key", !.op = "update", !.id = id,
                             !.key = k, !.flag = f])

\* Where a request goes when its checks have passed.
Checked(r) == Goto(r, IF req[r].op = "create" THEN "last" ELSE "write")

\* checkNameExist, checkMonthExist: another document has the key.
checkKeyExist(r) ==
    /\ At(r, "key")
    /\ IF \E d \in docs : d.key = req[r].key /\ d.id # req[r].id
         THEN Finish(r)
         ELSE IF req[r].flag THEN Goto(r, "default") ELSE Checked(r)
    /\ UNCHANGED <<world, docs, nextId>>

\* Mutant: the document being updated is not left out of the check.
checkDefaultSelf(r) ==
    /\ At(r, "default")
    /\ IF \E d \in docs : d.flag /\ d.id = req[r].id
         THEN Finish(r)
         ELSE Checked(r)
    /\ UNCHANGED <<world, docs, nextId>>

\* checkDefaultExist: another document is the default.
checkDefaultExist(r) ==
    /\ At(r, "default")
    /\ IF \E d \in docs : d.flag /\ d.id # req[r].id THEN Finish(r) ELSE Checked(r)
    /\ UNCHANGED <<world, docs, nextId>>

\* The document sort({_id: -1}) puts first.
Last(D) == CHOOSE d \in D : \A e \in D : e.id <= d.id

\* Mutant: the number of documents in place of the last code.
CountCode(D) == Cardinality(D) + 1

\* 'PP' + the last number + 1: formatting and parsing keep the number, and a
\* collection without documents starts at 1.
NextCode(D) == IF D = {} THEN 1 ELSE Last(D).code + 1

readLast(r) ==
    /\ At(r, "last")
    /\ req' = [req EXCEPT ![r].stage = "new", ![r].code = NextCode(docs)]
    /\ UNCHANGED <<world, docs, nextId>>

\* Model.create makes the document, and with it the _id, in the continuation
\* of the read; the insert is applied later.
newDocument(r) ==
    /\ At(r, "new")
    /\ nextId <= world.lastId
    /\ req' = [req EXCEPT ![r].stage = "insert", ![r].id = nextId]
    /\ nextId' = nextId + 1
    /\ UNCHANGED <<world, docs>>

NewDoc(r) == [id |-> req[r].id, code |-> req[r].code, key |-> req[r].key,
              flag |-> req[r].flag]

\* Mutant: the schema of the code loses its unique index.
insertNoIndex(r) ==
    /\ At(r, "insert")
    /\ docs' = IF \E d \in docs : d.key = req[r].key THEN docs ELSE docs \cup {NewDoc(r)}
    /\ Finish(r)
    /\ UNCHANGED <<world, nextId>>

insert(r) ==
    /\ At(r, "insert")
    /\ docs' = IF UniqueIndexes(docs \cup {NewDoc(r)}) THEN docs \cup {NewDoc(r)} ELSE docs
    /\ Finish(r)
    /\ UNCHANGED <<world, nextId>>

Written(r, d) ==
    [d EXCEPT !.key = req[r].key, !.flag = IF HasDefault THEN req[r].flag ELSE @]

\* findByIdAndUpdate: nothing happens when the document is gone, or when the
\* index rejects the key.
write(r) ==
    /\ At(r, "write")
    /\ docs' = LET new == {IF d.id = req[r].id THEN Written(r, d) ELSE d : d \in docs}
               IN  IF UniqueIndexes(new) THEN new ELSE docs
    /\ Finish(r)
    /\ UNCHANGED <<world, nextId>>

-----------------------------------------------------------------------------
(* The other operations.                                                   *)

delete(id) ==
    /\ world.deletes
    /\ \E d \in docs : d.id = id
    /\ docs' = {d \in docs : d.id # id}
    /\ UNCHANGED <<world, nextId, req>>

\* An operation fails, or the process is restarted: the request is gone.
Throw(r) ==
    /\ ~At(r, "idle")
    /\ Finish(r)
    /\ UNCHANGED <<world, docs, nextId>>

-----------------------------------------------------------------------------

CatalogueNext ==
    \/ \E r \in Requests :
          \/ \E k \in Keys, f \in BOOLEAN : create(r, k, f)
          \/ \E id \in Ids, k \in Keys, f \in BOOLEAN : update(r, id, k, f)
          \/ checkKeyExist(r) \/ checkDefaultExist(r) \/ readLast(r)
          \/ newDocument(r) \/ insert(r) \/ write(r) \/ Throw(r)
    \/ \E id \in Ids : delete(id)

-----------------------------------------------------------------------------
(* Properties.                                                             *)

(* As long as nothing is deleted the codes are gapless and ordered like the  *)
(* ids, however many creates overlap: a create that read a code which        *)
(* another one has taken meanwhile is rejected by the index, and reading the *)
(* last document by _id always gives the greatest code.                      *)
CodesAreNumbered ==
    ~world.deletes =>
        /\ {d.code : d \in docs} = 1..Cardinality(docs)
        /\ \A d, e \in docs : d.id < e.id <=> d.code < e.code

(* A create that no other request overlaps is never rejected by an index: it *)
(* has seen a free key, and its code is above every other one, also after    *)
(* documents in the middle or at the end have been deleted.                  *)
SoleCreateSucceeds ==
    world.requests = 1 =>
        \A r \in Requests :
            At(r, "insert") => UniqueIndexes(docs \cup {NewDoc(r)})

(* At most one relationship type is the default (createProfile takes         *)
(* whichever findOne returns): 'Only one default exist'.                     *)
OneDefault ==
    HasDefault => \A d, e \in docs : d.flag /\ e.flag => d = e
=============================================================================
