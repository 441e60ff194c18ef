---------------------------- MODULE PremiumPackages ---------------------------
(***************************************************************************)
(* Premium packages: the catalogue with the status route, which activates  *)
(* a package after it has counted the active ones.                         *)
(***************************************************************************)
EXTENDS Catalogue

MaxActive == 4    \* the limit in checkNumOfStatus

Active == {d \in docs : d.flag}

\* Deactivation needs no check.
updateStatus(r, id, active) ==
    /\ world.kind = "package" /\ id <= world.lastId
    /\ Begin(r, [Idle EXCEPT !.stage = IF active THEN "count" ELSE "status",
                             !.op = "update", !.id = id, !.flag = active])

\* Mutant: the comparison is off by one.
checkNumOfStatusMore(r) ==
    /\ At(r, "count")
    /\ IF Cardinality(Active) > MaxActive THEN Finish(r) ELSE Goto(r, "status")
    /\ UNCHANGED <<world, docs, nextId>>

checkNumOfStatus(r) ==
    /\ At(r, "count")
    /\ IF Cardinality(Active) >= MaxActive THEN Finish(r) ELSE Goto(r, "status")
    /\ UNCHANGED <<world, docs, nextId>>

writeStatus(r) ==
    /\ At(r, "status")
    /\ docs' = {IF d.id = req[r].id THEN [d EXCEPT !.flag = req[r].flag] ELSE d :
                d \in docs}
    /\ Finish(r)
    /\ UNCHANGED <<world, nextId>>

Status ==
    \E r \in Requests :
        \/ \E id \in Ids, active \in BOOLEAN : updateStatus(r, id, active)
        \/ checkNumOfStatus(r) \/ writeStatus(r)

(* The public page is made for at most four packages: 'Maximum 4 active      *)
(* packages'.                                                                *)
AtMostFourActive == world.kind = "package" => Cardinality(Active) <= MaxActive
=============================================================================
