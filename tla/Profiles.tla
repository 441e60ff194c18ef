------------------------------- MODULE Profiles --------------------------------
(***************************************************************************)
(* What belongs to the profile of a user: the fields of its document, its  *)
(* customer at Stripe, its genders, the genders it is interested in and    *)
(* its photos.  createProfile writes all of them, in several operations,   *)
(* and nothing keeps a client from repeating it; updateProfile writes some.*)
(*                                                                         *)
(* Of the document only lastName and stripeCustomerId are kept, and those  *)
(* as "set or not"; of a photo only that it is there (createProfile is     *)
(* given one).                                                             *)
(***************************************************************************)
EXTENDS Naturals, Sequences, FiniteSets

CONSTANTS
    Users,         \* in the order of their documents
    Genders,
    Requests,      \* bound: the requests that may be in flight at once
    Bounds         \* bound: what a behaviour may do, see ProfileAssumption

ASSUME ProfileAssumption ==
    /\ Users \subseteq Nat /\ IsFiniteSet(Users) /\ IsFiniteSet(Requests)
    /\ Bounds \subseteq [members : SUBSET Users, creators : SUBSET Users,
                         viewers : SUBSET Users, requests : Nat, creates : Nat,
                         photos : Nat, faults : BOOLEAN, edits : BOOLEAN]

VARIABLES
    bounds,        \* one of Bounds
    named,         \* the users with a lastName
    customer,      \* the users with a stripeCustomerId
    customers,     \* external: how many customers Stripe has made for a user
    genders,       \* user-genders of each user
    interests,     \* how many interested-in-gender documents a user has
    photos,        \* how many user-photos a user has
    req,           \* the requests of users that write their profile
    chosen,        \* history: the genders each user has asked for
    renamed,       \* history: the users that updateProfile gave a lastName
    overlapped,    \* history: two requests were in flight at once
    failed         \* history: an operation has failed

docVars == <<named, customer, customers, genders, interests, photos>>
profileVars == <<bounds, docVars, req, chosen, renamed, overlapped, failed>>

Stages == {"idle", "customer", "parts", "user", "gender", "fields"}

\* What updateProfile does with lastName: null passes @IsOptional.
Names == {"keep", "set", "unset"}

\* The operations of createProfile's Promise.all.
Operations == {"photos", "gender", "interest"}

Request ==
    [stage : Stages, user : Users \cup {0}, gender : Genders \cup {0},
     pending : SUBSET Operations,      \* issued and not yet applied
     rejected : BOOLEAN,               \* one of the Promise.all has failed
     name : Names]                     \* updateProfile's

ProfileTypeOK ==
    /\ bounds \in Bounds
    /\ named \subseteq Users /\ customer \subseteq Users
    /\ customers \in [Users -> Nat] /\ interests \in [Users -> Nat]
    /\ photos \in [Users -> Nat]
    /\ genders \in [Users -> Seq(Genders)] /\ chosen \in [Users -> Seq(Genders)]
    /\ req \in [Requests -> Request]
    /\ renamed \subseteq Users /\ overlapped \in BOOLEAN /\ failed \in BOOLEAN

Handler(stage, u, g, pending, name) ==
    [stage |-> stage, user |-> u, gender |-> g, pending |-> pending,
     rejected |-> FALSE, name |-> name]

Idle == Handler("idle", 0, 0, {}, "keep")

\* A member has been through createProfile.
One(u) == IF u \in bounds.members THEN 1 ELSE 0

ProfileInit ==
    /\ bounds \in Bounds
    /\ named = bounds.members /\ customer = bounds.members
    /\ customers = [u \in Users |-> One(u)] /\ interests = customers /\ photos = customers
    /\ \E g \in Genders :
          genders = [u \in Users |-> IF u \in bounds.members THEN <<g>> ELSE <<>>]
    /\ req = [r \in Requests |-> Idle]
    /\ chosen = genders /\ renamed = {} /\ overlapped = FALSE /\ failed = FALSE

At(r, stage) == req[r].stage = stage
Goto(r, stage) == req' = [req EXCEPT ![r].stage = stage]
Finish(r) == req' = [req EXCEPT ![r] = Idle]
InFlight == {r \in Requests : ~At(r, "idle")}

Begin(r, h) ==
    /\ At(r, "idle") /\ Cardinality(InFlight) < bounds.requests
    /\ req' = [req EXCEPT ![r] = h]
    /\ overlapped' = (overlapped \/ InFlight # {})

-----------------------------------------------------------------------------
(* createProfile.                                                          *)

\* Nobody looks whether the user has a profile.
createProfile(r, u, g) ==
    /\ u \in bounds.creators
    /\ Len(chosen[u]) < bounds.creates
    /\ Begin(r, Handler("customer", u, g, {}, "keep"))
    /\ chosen' = [chosen EXCEPT ![u] = Append(@, g)]
    /\ UNCHANGED <<bounds, docVars, renamed, failed>>

\* External.  The default relationship type is read next, and all three
\* operations are issued.
createCustomer(r) ==
    /\ At(r, "customer")
    /\ customers' = [customers EXCEPT ![req[r].user] = @ + 1]
    /\ req' = [req EXCEPT ![r].stage = "parts", ![r].pending = Operations]
    /\ UNCHANGED <<bounds, named, customer, genders, interests, photos, chosen,
                   renamed, overlapped, failed>>

Pending(r, op) == At(r, "parts") /\ op \in req[r].pending

\* Mutant: the handler goes on with the first operation that is done.
appliedFirst(r, op) ==
    req' = [req EXCEPT ![r].pending = {}, ![r].stage = "user"]

\* The handler goes on when all operations are done, and ends with the last one
\* when one has failed: until then the others go on by themselves.
applied(r, op) ==
    LET left == req[r].pending \ {op} IN
    req' = [req EXCEPT ![r] =
              IF left # {} THEN [@ EXCEPT !.pending = left]
              ELSE IF @.rejected THEN Idle
              ELSE [@ EXCEPT !.pending = {}, !.stage = "user"]]

insertPhotos(r) ==
    /\ Pending(r, "photos")
    /\ photos' = [photos EXCEPT ![req[r].user] = @ + 1]
    /\ applied(r, "photos")
    /\ UNCHANGED <<bounds, named, customer, customers, genders, interests, chosen,
                   renamed, overlapped, failed>>

createUserGender(r) ==
    /\ Pending(r, "gender")
    /\ genders' = [genders EXCEPT ![req[r].user] = Append(@, req[r].gender)]
    /\ applied(r, "gender")
    /\ UNCHANGED <<bounds, named, customer, customers, interests, photos, chosen,
                   renamed, overlapped, failed>>

createInterests(r) ==
    /\ Pending(r, "interest")
    /\ interests' = [interests EXCEPT ![req[r].user] = @ + 1]
    /\ applied(r, "interest")
    /\ UNCHANGED <<bounds, named, customer, customers, genders, photos, chosen,
                   renamed, overlapped, failed>>

\* One of the three fails: the handler has thrown, the others go on.
rejectOne(r) ==
    /\ bounds.faults
    /\ \E op \in req[r].pending :
         LET left == req[r].pending \ {op} IN
         req' = [req EXCEPT ![r] = IF left = {} THEN Idle
                                   ELSE [@ EXCEPT !.pending = left, !.rejected = TRUE]]
    /\ failed' = TRUE
    /\ UNCHANGED <<bounds, docVars, chosen, renamed, overlapped>>

\* The fields of the document, the customer of this request among them.
updateOne(r) ==
    /\ At(r, "user")
    /\ named' = named \cup {req[r].user} /\ customer' = customer \cup {req[r].user}
    /\ Finish(r)
    /\ UNCHANGED <<bounds, customers, genders, interests, photos, chosen, renamed,
                   overlapped, failed>>

-----------------------------------------------------------------------------
(* updateProfile, and the photos.                                          *)

\* With a gender it is written first.
updateProfile(r, u, g, name) ==
    /\ bounds.edits
    /\ u \in bounds.creators
    /\ g = 0 \/ Len(chosen[u]) < bounds.creates
    /\ Begin(r, Handler(IF g = 0 THEN "fields" ELSE "gender", u, g, {}, name))
    /\ chosen' = IF g = 0 THEN chosen ELSE [chosen EXCEPT ![u] = Append(@, g)]
    /\ UNCHANGED <<bounds, docVars, renamed, failed>>

\* Mutant: the gender is stored as one more document.
updateUserGenderInsert(r) ==
    /\ At(r, "gender")
    /\ genders' = [genders EXCEPT ![req[r].user] = Append(@, req[r].gender)]
    /\ Goto(r, "fields")
    /\ UNCHANGED <<bounds, named, customer, customers, interests, photos, chosen,
                   renamed, overlapped, failed>>

\* findOneAndUpdate: of the first gender of the user, or of none.
updateUserGender(r) ==
    /\ At(r, "gender")
    /\ genders' = [genders EXCEPT ![req[r].user] =
                     IF @ = <<>> THEN @ ELSE <<req[r].gender>> \o Tail(@)]
    /\ Goto(r, "fields")
    /\ UNCHANGED <<bounds, named, customer, customers, interests, photos, chosen,
                   renamed, overlapped, failed>>

\* The remaining fields; the genders the user is interested in and the photos
\* of the body name no field of the schema.
updateFields(r) ==
    /\ At(r, "fields")
    /\ LET given(name) == IF req[r].name = name THEN {req[r].user} ELSE {} IN
         /\ named' = (named \cup given("set")) \ given("unset")
         /\ renamed' = renamed \cup given("set")
    /\ Finish(r)
    /\ UNCHANGED <<bounds, customer, customers, genders, interests, photos, chosen,
                   overlapped, failed>>

createPhoto(u) ==
    /\ bounds.edits
    /\ photos[u] < bounds.photos
    /\ photos' = [photos EXCEPT ![u] = @ + 1]
    /\ UNCHANGED <<bounds, named, customer, customers, genders, interests, req, chosen,
                   renamed, overlapped, failed>>

\* One of the user's own.
deletePhoto(u) ==
    /\ bounds.edits
    /\ photos[u] > 0
    /\ photos' = [photos EXCEPT ![u] = @ - 1]
    /\ UNCHANGED <<bounds, named, customer, customers, genders, interests, req, chosen,
                   renamed, overlapped, failed>>

\* An operation fails, before or after Stripe has made the customer; a restart
\* is this for every request in flight.
Throw(r) ==
    /\ bounds.faults
    /\ ~At(r, "idle")
    /\ \/ UNCHANGED customers
       \/ At(r, "customer") /\ customers' = [customers EXCEPT ![req[r].user] = @ + 1]
    /\ Finish(r)
    /\ failed' = TRUE
    /\ UNCHANGED <<bounds, named, customer, genders, interests, photos, chosen, renamed,
                   overlapped>>

ProfileClients ==
    \/ \E r \in Requests, u \in Users, g \in Genders :
          \/ createProfile(r, u, g)
          \/ \E name \in Names : updateProfile(r, u, g, name)
    \/ \E r \in Requests, u \in Users, name \in Names \ {"keep"} : updateProfile(r, u, 0, name)
    \/ \E u \in bounds.creators : createPhoto(u) \/ deletePhoto(u)

ProfileStep(r) ==
    \/ createCustomer(r) \/ insertPhotos(r) \/ createUserGender(r) \/ createInterests(r)
    \/ updateOne(r) \/ updateUserGender(r) \/ updateFields(r)

ProfileNext ==
    ProfileClients \/ (\E r \in Requests : ProfileStep(r) \/ rejectOne(r) \/ Throw(r))

-----------------------------------------------------------------------------
(* Properties.                                                             *)

Busy(u) == \E r \in Requests : req[r].user = u

\* Whatever fails: a user with a customer to charge has a gender and an interest,
\* and a user with a name has a customer unless updateProfile gave it the name.
CustomerHasParts ==
    /\ \A u \in customer : genders[u] # <<>> /\ interests[u] > 0
    /\ named \subseteq customer \cup renamed

(* However requests overlap and whichever operation fails, what is written   *)
(* last comes with all the rest.  Unless an operation fails, all that        *)
(* createProfile writes agrees when the requests of a user are over: as many *)
(* genders and interests as customers, and the user knows its customer.      *)
ProfileIsWhole ==
    /\ CustomerHasParts
    /\ ~failed => \A u \in Users : ~Busy(u) =>
         /\ Len(genders[u]) = customers[u] /\ interests[u] = customers[u]
         /\ customers[u] > 0 => u \in customer

(* The gender that is shown, the first document, is the one the user chose   *)
(* last, when it created its profile once, nothing failed and its requests   *)
(* did not overlap.                                                          *)
LastGenderIsShown ==
    ~failed /\ ~overlapped =>
        \A u \in Users : ~Busy(u) /\ customers[u] = 1 =>
            Head(genders[u]) = chosen[u][Len(chosen[u])]
=============================================================================
