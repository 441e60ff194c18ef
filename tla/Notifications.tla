----------------------------- MODULE Notifications -----------------------------
(***************************************************************************)
(* Notifications and their objects, one per recipient.  A notification is  *)
(* created inactive, by an administrator, for a match or for a payment; its *)
(* objects are created in a later operation; an administrator activates it, *)
(* which marks the notification and, in a later operation, its objects.    *)
(*                                                                         *)
(* The code of a notification is the last one's plus one, read in an       *)
(* operation before the insert, and unlike the catalogues' it has no       *)
(* unique index.  Objects refer to their notification, and deleting one    *)
(* leaves its objects behind.                                              *)
(*                                                                         *)
(* When the objects are activated the recipients are told, each at the     *)
(* socket it has at that moment, if any (see Sessions), which leaves no    *)
(* state behind.  Texts and senders are left out; the set of users does    *)
(* not change.                                                             *)
(***************************************************************************)
EXTENDS Naturals, Sequences, FiniteSets

CONSTANTS
    Users,
    Audiences,     \* bound: the sets of recipients that requests name
    Requests,      \* bound: the requests that may be in flight at once
    MaxId,         \* bound: the last _id that is generated
    Bounds         \* bound: the sizes a behaviour may have

ASSUME NoteAssumption ==
    /\ MaxId \in Nat
    /\ Audiences \subseteq SUBSET Users
    /\ Bounds \subseteq [requests : Nat, ids : 0..MaxId, payments : Nat, reads : BOOLEAN]

ASSUME RequestsAssumption == IsFiniteSet(Requests)

VARIABLES
    bounds,        \* one of Bounds
    notifications,
    objects,       \* notification-objects
    nextId,        \* the ObjectIds the process generates, in order
    req,           \* the requests in flight
    deleted,       \* history: the notifications that were deleted: <<id, type>>
    overlapped,    \* history: a request has begun while another was in flight
    failed         \* history: an operation failed or the process restarted

history == <<deleted, overlapped, failed>>
dbVars == <<bounds, notifications, objects, nextId>>
noteVars == <<dbVars, req, history>>

Ids == 1..MaxId
Types == {"SYSTEM", "MATCHED", "PAYMENT"}
Notification == [id : Ids, code : Nat \ {0}, type : Types, active : BOOLEAN,
                 deletable : BOOLEAN]
NotificationObject ==
    [notification : Ids, recipient : Users, active : BOOLEAN, isRead : BOOLEAN]

Stages == {"idle", "code", "new", "insert", "objects", "activate", "status", "tell",
           "charge", "grant"}  \* the last two: see Payments

\* recipients[i] is who gets the i-th notification of a request.
Request ==
    [stage : Stages, type : Types, recipients : Seq(SUBSET Users), code : Nat, id : 0..MaxId]

NoteTypeOK ==
    /\ bounds \in Bounds
    /\ notifications \subseteq Notification
    /\ objects \subseteq NotificationObject
    /\ nextId \in 1..(MaxId + 1)
    /\ req \in [Requests -> Request]
    /\ deleted \subseteq Ids \X Types /\ overlapped \in BOOLEAN /\ failed \in BOOLEAN

Handler(stage, type, recipients, id) ==
    [stage |-> stage, type |-> type, recipients |-> recipients, code |-> 0, id |-> id]

Idle == Handler("idle", "SYSTEM", <<>>, 0)

NoteInit ==
    /\ bounds \in Bounds
    /\ notifications = {} /\ objects = {} /\ nextId = 1
    /\ req = [h \in Requests |-> Idle]
    /\ deleted = {} /\ overlapped = FALSE /\ failed = FALSE

At(h, stage) == req[h].stage = stage
Goto(h, stage) == req' = [req EXCEPT ![h].stage = stage]
Finish(h) == req' = [req EXCEPT ![h] = Idle]

InFlight == {h \in Requests : ~At(h, "idle")}

\* A request begins: r is what it knows.
Begin(h, r) ==
    /\ At(h, "idle") /\ Cardinality(InFlight) < bounds.requests
    /\ req' = [req EXCEPT ![h] = r]
    /\ overlapped' = (overlapped \/ InFlight # {})
    /\ UNCHANGED <<dbVars, deleted, failed>>

-----------------------------------------------------------------------------
(* Creating notifications.                                                 *)

\* By an administrator or a user, for the recipients named in the body or for
\* everybody but the sender.
create(h, R) ==
    /\ R \in Audiences
    /\ Begin(h, Handler("code", "SYSTEM", <<R>>, 0))

\* For the two users of a match, one notification each.
createNotificationMatched(h, u, v) ==
    /\ u # v
    /\ Begin(h, Handler("code", "MATCHED", <<{u}, {v}>>, 0))

Last(N) == CHOOSE n \in N : \A m \in N : m.id <= n.id

\* Mutant: the code is the number of notifications plus one.
CountCode(N) == Cardinality(N) + 1

NextCode(N) == IF N = {} THEN 1 ELSE Last(N).code + 1

\* getCode reads the notification with the greatest _id.
getCode(h) ==
    /\ At(h, "code")
    /\ req' = [req EXCEPT ![h].stage = "new", ![h].code = NextCode(notifications)]
    /\ UNCHANGED <<dbVars, history>>

Count(h) == Len(req[h].recipients)

\* Model.create and insertMany make the documents with their ids.
newDocuments(h) ==
    /\ At(h, "new")
    /\ nextId + Count(h) <= bounds.ids + 1
    /\ req' = [req EXCEPT ![h].stage = "insert", ![h].id = nextId]
    /\ nextId' = nextId + Count(h)
    /\ UNCHANGED <<bounds, notifications, objects, history>>

New(h, i) == [id |-> req[h].id + i - 1, code |-> req[h].code + i - 1,
              type |-> req[h].type, active |-> FALSE, deletable |-> TRUE]

\* Mutant: the notification is not inserted, and the handler goes on.
insertSkipped(h) ==
    /\ At(h, "insert")
    /\ Goto(h, "objects")
    /\ UNCHANGED <<bounds, notifications, objects, nextId, history>>

insert(h) ==
    /\ At(h, "insert")
    /\ notifications' = notifications \cup {New(h, i) : i \in 1..Count(h)}
    /\ req' = [req EXCEPT ![h].stage = "objects", ![h].code = 0]
    /\ UNCHANGED <<bounds, objects, nextId, history>>

NewObjects(h) ==
    UNION {{[notification |-> req[h].id + i - 1, recipient |-> u, active |-> FALSE,
                isRead |-> FALSE] :
               u \in req[h].recipients[i]} : i \in 1..Count(h)}

createMany(h) ==
    /\ At(h, "objects")
    /\ objects' = objects \cup NewObjects(h)
    /\ Finish(h)
    /\ UNCHANGED <<bounds, notifications, nextId, history>>

-----------------------------------------------------------------------------
(* Activation.                                                             *)

Exists(id) == \E n \in notifications : n.id = id

\* Of a notification in the administrator's list.
active(h, id) == Exists(id) /\ Begin(h, Handler("activate", "SYSTEM", <<>>, id))

\* Without the notification, which may be deleted by now, the handler throws on the null it gets.
activate(h) ==
    /\ At(h, "activate")
    /\ IF Exists(req[h].id)
         THEN /\ notifications' =
                   {IF n.id = req[h].id THEN [n EXCEPT !.active = TRUE, !.deletable = FALSE]
                                        ELSE n : n \in notifications}
              /\ Goto(h, "status")
         ELSE Finish(h) /\ UNCHANGED notifications
    /\ UNCHANGED <<bounds, objects, nextId, history>>

Activated(o) == [o EXCEPT !.active = TRUE]

\* Mutant: the objects are left as they are.
updateStatusOfNone(h) == At(h, "status") /\ Goto(h, "tell") /\ UNCHANGED <<dbVars, history>>

\* Mutant: the filter is lost.
updateStatusOfAll(h) ==
    /\ At(h, "status")
    /\ objects' = {Activated(o) : o \in objects}
    /\ Goto(h, "tell")
    /\ UNCHANGED <<bounds, notifications, nextId, history>>

updateStatusByNotificationId(h) ==
    /\ At(h, "status")
    /\ objects' = {IF o.notification = req[h].id THEN Activated(o) ELSE o : o \in objects}
    /\ Goto(h, "tell")
    /\ UNCHANGED <<bounds, notifications, nextId, history>>

\* getByNotificationId reads the recipients; the admin controller emits an event
\* whose listener, in the same tick, tells those who have a socket.
createNotification(h) ==
    /\ At(h, "tell")
    /\ Finish(h)
    /\ UNCHANGED <<dbVars, history>>

\* The objects keep their status.
inActive(id) ==
    /\ Exists(id)
    /\ notifications' = {IF n.id = id THEN [n EXCEPT !.active = FALSE] ELSE n :
                         n \in notifications}
    /\ UNCHANGED <<bounds, objects, nextId, req, history>>

-----------------------------------------------------------------------------
(* Reading.                                                                *)

Marked(O, value) ==
    {IF o \in O THEN [o EXCEPT !.isRead = value] ELSE o : o \in objects}

\* Of one object.
read(o, value) ==
    /\ bounds.reads
    /\ o \in objects
    /\ objects' = Marked({o}, value)
    /\ UNCHANGED <<bounds, notifications, nextId, req, history>>

\* Of all objects of a user, active or not.
readAll(u) ==
    /\ bounds.reads
    /\ objects' = Marked({o \in objects : o.recipient = u}, TRUE)
    /\ UNCHANGED <<bounds, notifications, nextId, req, history>>

-----------------------------------------------------------------------------
(* Deletion.                                                               *)

\* Of a notification, whether it is deletable or not.
delete(id) ==
    /\ Exists(id)
    /\ notifications' = {n \in notifications : n.id # id}
    /\ deleted' = deleted \cup {<<id, n.type>> : n \in {m \in notifications : m.id = id}}
    /\ UNCHANGED <<bounds, objects, nextId, req, overlapped, failed>>

\* Of one object.
deleteObject(o) ==
    /\ o \in objects
    /\ objects' = objects \ {o}
    /\ UNCHANGED <<bounds, notifications, nextId, req, history>>

\* Of all objects of a user.
deleteAll(u) ==
    /\ objects' = {o \in objects : o.recipient # u}
    /\ UNCHANGED <<bounds, notifications, nextId, req, history>>

-----------------------------------------------------------------------------
(* Faults.                                                                 *)

\* An operation fails.  In the listener of a payment nobody awaits the
\* handler: the rejection ends the process, which is a Restart.
Throw(h) ==
    /\ ~At(h, "idle") /\ req[h].type # "PAYMENT"
    /\ Finish(h)
    /\ failed' = TRUE
    /\ UNCHANGED <<dbVars, deleted, overlapped>>

\* insertMany stops at the first document that fails.
insertManyFails(h) ==
    /\ req[h].type # "PAYMENT"
    /\ \/ /\ At(h, "insert")
          /\ \E k \in 0..(Count(h) - 1) :
                 notifications' = notifications \cup {New(h, i) : i \in 1..k}
          /\ UNCHANGED objects
       \/ /\ At(h, "objects")
          /\ \E S \in SUBSET NewObjects(h) : objects' = objects \cup S
          /\ UNCHANGED notifications
    /\ Finish(h)
    /\ failed' = TRUE
    /\ UNCHANGED <<bounds, nextId, deleted, overlapped>>

Restart ==
    /\ req' = [h \in Requests |-> Idle]
    /\ failed' = TRUE
    /\ UNCHANGED <<dbVars, deleted, overlapped>>

-----------------------------------------------------------------------------

NoteClients ==
    \/ \E h \in Requests, R \in Audiences : create(h, R)
    \/ \E h \in Requests, u, v \in Users : createNotificationMatched(h, u, v)
    \/ \E h \in Requests, id \in Ids : active(h, id)
    \/ \E id \in Ids : inActive(id) \/ delete(id)
    \/ \E o \in objects : deleteObject(o) \/ \E value \in BOOLEAN : read(o, value)
    \/ \E u \in Users : deleteAll(u) \/ readAll(u)

NoteStep(h) ==
    \/ getCode(h) \/ newDocuments(h) \/ insert(h) \/ createMany(h)
    \/ activate(h) \/ updateStatusByNotificationId(h) \/ createNotification(h)

NoteFault == (\E h \in Requests : Throw(h) \/ insertManyFails(h)) \/ Restart

NoteSpec ==
    /\ NoteInit
    /\ [][NoteClients \/ (\E h \in Requests : NoteStep(h)) \/ NoteFault]_noteVars

-----------------------------------------------------------------------------
(* Properties.                                                             *)

(* As long as no two requests overlap, every notification has a code of its  *)
(* own, in the order of the ids, although no index says so: also after a     *)
(* deletion anywhere, and after an insertMany that stopped in the middle.    *)
SoleCodesAreUnique ==
    ~overlapped => \A m, n \in notifications : m.id < n.id <=> m.code < n.code

(* An object is never stored before its notification, nor when storing that  *)
(* one failed: a recipient's list can only break (it reads the fields of     *)
(* every object's notification) by the deletion of a notification.           *)
OrphansWereDeleted == \A o \in objects : Exists(o.notification) \/ \E d \in deleted : d[1] = o.notification

(* No object is marked active before an administrator has activated its      *)
(* notification, whatever creates, activations and deletions overlap: the    *)
(* mark only, as getByUserId lists objects whatever their status.            *)
MarkedWasActivated ==
    \A o \in objects : \A n \in notifications :
        o.active /\ n.id = o.notification => ~n.deletable

(* When requests neither overlap nor fail, activating a notification reaches *)
(* every recipient whose object is still there before any of them is told.   *)
ActivationReachesAll ==
    ~overlapped /\ ~failed /\ (\A h \in Requests : At(h, "idle") \/ At(h, "tell")) =>
        \A n \in notifications : n.active =>
            \A o \in objects : o.notification = n.id => o.active
=============================================================================
