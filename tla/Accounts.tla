------------------------------- MODULE Accounts --------------------------------
(***************************************************************************)
(* Accounts: sign up with its confirmation mail, sign in, refresh tokens,  *)
(* log out, change of password, deletion, and the preference that belongs  *)
(* to an account.  Each await of a handler is a step; requests interleave. *)
(*                                                                         *)
(* An account is its position in the collection: documents are found in    *)
(* the order they were stored, and none is ever removed.  Hashes are their *)
(* passwords.  A refresh token is only "stored or not": bcrypt compares 72 *)
(* bytes, in which all tokens of an account agree.                         *)
(***************************************************************************)
EXTENDS Naturals, Sequences, FiniteSets

CONSTANTS
    Emails,
    Passwords,
    None,          \* what a request does not name
    Requests,      \* bound: the requests that may be in flight at once
    Bounds         \* bound: what a behaviour may do, see BoundsAssumption

ASSUME BoundsAssumption ==
    /\ Bounds \subseteq [requests : Nat, users : Nat, faults : BOOLEAN,
                         edits : BOOLEAN]
    /\ IsFiniteSet(Requests) /\ None \notin Emails /\ None \notin Passwords

VARIABLES
    bounds,        \* one of Bounds
    users,
    preferences,   \* of the accounts: see Preference
    mailed,        \* external: the addresses that were sent a link
    signedIn,      \* external: the accounts whose tokens a client was given
    refused,       \* external: the accounts that were refused a refresh
    req,           \* the requests in flight
    loggedOut,     \* history: somebody has logged out
    overlapped,    \* history: two requests were in flight at once
    failed         \* history: an operation has failed

dbVars == <<users, preferences>>
clientVars == <<mailed, signedIn, refused>>
history == <<loggedOut, overlapped, failed>>
vars == <<bounds, dbVars, clientVars, req, history>>

\* confirmed is how often confirmationTime was written.
User == [email : Emails, password : Passwords, refreshToken : BOOLEAN,
         confirmed : Nat]

\* Not there, as it was created, or updated by its user.
Preference == {"none", "new", "chosen"}

Ids == DOMAIN users

Stages == {"idle", "create", "mail", "preference", "lookup", "token", "compare",
           "password", "check", "confirm"}

Request ==
    [stage : Stages, email : Emails \cup {None}, password : Passwords \cup {None},
     newPassword : Passwords \cup {None}, id : Nat, admin : BOOLEAN]

TypeOK ==
    /\ bounds \in Bounds
    /\ users \in Seq(User)
    /\ preferences \in [Ids -> Preference]
    /\ mailed \subseteq Emails /\ signedIn \subseteq Ids /\ refused \subseteq Ids
    /\ req \in [Requests -> Request]
    /\ loggedOut \in BOOLEAN /\ overlapped \in BOOLEAN /\ failed \in BOOLEAN

Handler(stage, email, password, newPassword, id, admin) ==
    [stage |-> stage, email |-> email, password |-> password,
     newPassword |-> newPassword, id |-> id, admin |-> admin]

Idle == Handler("idle", None, None, None, 0, FALSE)

Init ==
    /\ bounds \in Bounds
    /\ users = <<>> /\ preferences = <<>>
    /\ mailed = {} /\ signedIn = {} /\ refused = {}
    /\ req = [r \in Requests |-> Idle]
    /\ loggedOut = FALSE /\ overlapped = FALSE /\ failed = FALSE

At(r, stage) == req[r].stage = stage
Goto(r, stage) == req' = [req EXCEPT ![r].stage = stage]
Finish(r) == req' = [req EXCEPT ![r] = Idle]
InFlight == {r \in Requests : ~At(r, "idle")}

\* A request begins: h is what it knows.
Begin(r, h) ==
    /\ At(r, "idle") /\ Cardinality(InFlight) < bounds.requests
    /\ req' = [req EXCEPT ![r] = h]
    /\ overlapped' = (overlapped \/ InFlight # {})
    /\ UNCHANGED <<bounds, dbVars, clientVars, loggedOut, failed>>

\* JwtStrategy: a token names its account, which is always found.
Authenticated(u) == u \in signedIn

HasAccount(e) == \E u \in Ids : users[u].email = e
AccountOf(e) == CHOOSE u \in Ids : users[u].email = e

-----------------------------------------------------------------------------
(* Sign up.                                                                *)

Addresses ==
    {users[u].email : u \in Ids} \cup {req[r].email : r \in {q \in Requests : At(q, "create")}}

\* Both sign-up routes, for users and for administrators, do the same.
signUp(r, e, p) ==
    /\ Cardinality(Addresses \cup {e}) <= bounds.users
    /\ Begin(r, Handler("create", e, p, None, 0, FALSE))

\* Nobody looks whether the address is taken: the index on email rejects it,
\* which is answered with 'Email already exists.'
createUser(r) ==
    /\ At(r, "create")
    /\ IF HasAccount(req[r].email)
         THEN Finish(r) /\ UNCHANGED <<users, preferences>>
         ELSE /\ users' = Append(users, [email |-> req[r].email, password |-> req[r].password,
                                         refreshToken |-> FALSE, confirmed |-> 0])
              /\ preferences' = Append(preferences, "none")
              /\ req' = [req EXCEPT ![r].stage = "mail", ![r].id = Len(users) + 1]
    /\ UNCHANGED <<bounds, clientVars, loggedOut, overlapped, failed>>

\* Of a sign-up, or of a user who asks for another link (and has its preference).
sendVerifyMail(r) ==
    /\ At(r, "mail")
    /\ mailed' = mailed \cup {req[r].email}
    /\ IF req[r].id = 0 THEN Finish(r) ELSE Goto(r, "preference")
    /\ UNCHANGED <<bounds, dbVars, signedIn, refused, history>>

\* Mutant: the sign-up is over when the mail is sent.
createPreferenceSkipped(r) ==
    At(r, "preference") /\ Finish(r) /\ UNCHANGED <<bounds, dbVars, clientVars, history>>

createPreference(r) ==
    /\ At(r, "preference")
    /\ preferences' = [preferences EXCEPT ![req[r].id] = "new"]
    /\ Finish(r)
    /\ UNCHANGED <<bounds, users, clientVars, history>>

\* Without a preference nothing is updated.
updatePreference(u) ==
    /\ Authenticated(u)
    /\ preferences' = [preferences EXCEPT ![u] = IF @ = "none" THEN @ ELSE "chosen"]
    /\ UNCHANGED <<bounds, users, clientVars, req, history>>

-----------------------------------------------------------------------------
(* Confirmation of the address.                                            *)

\* POST mail/send-verify-mail: another link, which joins the ones sent before.
resendVerifyMail(r, u) ==
    /\ Authenticated(u)
    /\ Begin(r, Handler("mail", users[u].email, None, None, 0, FALSE))

\* A client follows a link.
verifyMail(r, e) ==
    /\ e \in mailed
    /\ Begin(r, Handler("check", e, None, None, 0, FALSE))

\* Mutant: the time of the first confirmation is not looked at.
checkMailExpiry(r) ==
    /\ At(r, "check")
    /\ \E expired \in BOOLEAN :
         IF expired THEN Finish(r) ELSE Goto(r, "confirm")
    /\ UNCHANGED <<bounds, dbVars, clientVars, history>>

\* The link may have expired; a link that is not the first one works the same.
checkMail(r) ==
    /\ At(r, "check")
    /\ \E expired \in BOOLEAN :
         IF expired \/ users[AccountOf(req[r].email)].confirmed > 0
           THEN Finish(r)
           ELSE Goto(r, "confirm")
    /\ UNCHANGED <<bounds, dbVars, clientVars, history>>

markEmailConfirmed(r) ==
    /\ At(r, "confirm")
    /\ users' = [users EXCEPT ![AccountOf(req[r].email)].confirmed = @ + 1]
    /\ Finish(r)
    /\ UNCHANGED <<bounds, preferences, clientVars, history>>

-----------------------------------------------------------------------------
(* Sign in, refresh and log out.                                           *)

\* An account need not be confirmed to sign in.
\* (Of an address without an account nothing comes.)
signIn(r, e, p, admin) ==
    /\ e \in Addresses
    /\ Begin(r, Handler("lookup", e, p, None, 0, admin))

\* The account is looked up and the password compared with its hash.
getAuthenticatedUser(r) ==
    /\ At(r, "lookup")
    /\ IF HasAccount(req[r].email) /\ users[AccountOf(req[r].email)].password = req[r].password
         THEN req' = [req EXCEPT ![r].stage = "token", ![r].id = AccountOf(req[r].email)]
         ELSE Finish(r)
    /\ UNCHANGED <<bounds, dbVars, clientVars, history>>

\* The administrators' route stores a refresh token and answers without it.
Answered(r) == IF req[r].admin THEN {} ELSE {req[r].id}

\* Mutant: the answer does not wait for the refresh token to be stored.
updateRefreshTokenUnawaited(r) ==
    /\ At(r, "token")
    /\ \E stored \in BOOLEAN :
         users' = [users EXCEPT ![req[r].id].refreshToken = @ \/ stored]
    /\ signedIn' = signedIn \cup Answered(r)
    /\ Finish(r)
    /\ UNCHANGED <<bounds, preferences, mailed, refused, history>>

\* The refresh token is stored, and then the tokens are answered.
updateRefreshToken(r) ==
    /\ At(r, "token")
    /\ users' = [users EXCEPT ![req[r].id].refreshToken = TRUE]
    /\ signedIn' = signedIn \cup Answered(r)
    /\ Finish(r)
    /\ UNCHANGED <<bounds, preferences, mailed, refused, history>>

\* getByRefreshToken: the account has a stored token to compare with.
Refreshable(u) == users[u].refreshToken

\* A client that presents its refresh token as header and as cookie is answered
\* its account (the new access token is made and dropped), or refused.
refresh(u) ==
    /\ Authenticated(u)
    /\ refused' = IF Refreshable(u) THEN refused ELSE refused \cup {u}
    /\ UNCHANGED <<bounds, dbVars, mailed, signedIn, req, history>>

\* Mutant: the filter finds the account that logs out.
removeOwnToken(u) == users' = [users EXCEPT ![u].refreshToken = FALSE]

\* The filter {id: u} names no path of the schema and is dropped: the update
\* is made to the first account.
removeRefreshToken(u) == users' = [users EXCEPT ![1].refreshToken = FALSE]

\* The tokens stay with the client, which is answered an empty object.
logout(u) ==
    /\ Authenticated(u)
    /\ removeRefreshToken(u)
    /\ loggedOut' = TRUE
    /\ UNCHANGED <<bounds, preferences, clientVars, req, overlapped, failed>>

-----------------------------------------------------------------------------
(* Change of password and deletion.                                        *)

updatePassword(r, u, p, new) ==
    /\ Authenticated(u)
    /\ Begin(r, Handler("compare", users[u].email, p, new, u, FALSE))

\* The confirmation of the new password is right as well, or the handler throws.
comparePassword(r) ==
    /\ At(r, "compare")
    /\ IF users[req[r].id].password = req[r].password THEN Goto(r, "password") ELSE Finish(r)
    /\ UNCHANGED <<bounds, dbVars, clientVars, history>>

writePassword(r) ==
    /\ At(r, "password")
    /\ users' = [users EXCEPT ![req[r].id].password = req[r].newPassword]
    /\ Finish(r)
    /\ UNCHANGED <<bounds, preferences, clientVars, history>>

\* The handler makes a query that it neither returns nor awaits: a query of
\* Mongoose is executed when somebody waits for it, so nothing is removed.
deleteAccount(u) == Authenticated(u) /\ UNCHANGED vars

-----------------------------------------------------------------------------

Step(r) ==
    \/ createUser(r) \/ sendVerifyMail(r) \/ createPreference(r)
    \/ getAuthenticatedUser(r) \/ updateRefreshToken(r)
    \/ checkMail(r) \/ markEmailConfirmed(r)
    \/ comparePassword(r) \/ writePassword(r)

\* An operation fails, or the mail does (it may have been delivered); a
\* restart is the failure of every request in flight.
Throw(r) ==
    /\ bounds.faults
    /\ ~At(r, "idle")
    /\ \/ UNCHANGED mailed
       \/ At(r, "mail") /\ mailed' = mailed \cup {req[r].email}
    /\ Finish(r)
    /\ failed' = TRUE
    /\ UNCHANGED <<bounds, dbVars, signedIn, refused, loggedOut, overlapped>>

Clients ==
    \/ \E r \in Requests, e \in Emails, p \in Passwords :
          \/ signUp(r, e, p)
          \/ \E admin \in BOOLEAN : signIn(r, e, p, admin)
    \/ \E u \in Ids : refresh(u) \/ logout(u) \/ deleteAccount(u)

Editors ==
    /\ bounds.edits
    /\ \/ \E r \in Requests, e \in Emails : verifyMail(r, e)
       \/ \E r \in Requests, u \in Ids :
             \/ resendVerifyMail(r, u)
             \/ \E p, new \in Passwords : updatePassword(r, u, p, new)
       \/ \E u \in Ids : updatePreference(u)

Next == Clients \/ Editors \/ (\E r \in Requests : Step(r) \/ Throw(r))

Spec == Init /\ [][Next]_vars

-----------------------------------------------------------------------------
(* Properties.                                                             *)

\* The sign-up of the account is over and left it without a preference.
WithoutPreference(u) ==
    /\ preferences[u] = "none"
    /\ \A r \in Requests : req[r].stage \in {"mail", "preference"} => req[r].id # u

(* A sign-up that stored its account ends with the preference, which only    *)
(* this request creates, unless an operation or the mail fails: whatever     *)
(* else the user and other sign-ups for the same address do meanwhile.  One  *)
(* that failed leaves the account without a preference for good: its address *)
(* is taken, and no other request creates one.                               *)
SignUpIsCompleted ==
    [][/\ \A u \in Ids : WithoutPreference(u) => preferences'[u] = "none"
       /\ \A u \in Ids' : WithoutPreference(u)' => failed']_vars

(* A link confirms an account once, however many links were sent and         *)
(* followed, as long as two requests do not overlap; and only an address     *)
(* that was sent one is ever confirmed.                                      *)
ConfirmedOnce ==
    \A u \in Ids :
        /\ users[u].confirmed > 0 => users[u].email \in mailed
        /\ ~overlapped => users[u].confirmed <= 1

(* A client that was given tokens can refresh until it logs out, also when   *)
(* storing a token failed before or other accounts sign in and out: the      *)
(* exception is the first account, which any log-out ends.                   *)
RefusedOnlyAfterLogout ==
    /\ \A u \in refused : u = 1 /\ loggedOut
    /\ \A u \in signedIn : ~Refreshable(u) => u = 1 /\ loggedOut

(* A log-out ends the session of the account that logs out: the service      *)
(* answers 'Refresh=; HttpOnly; Path=/; Max-Age=0'.                          *)
LogoutEndsOwnSession ==
    [][\A u \in Ids : logout(u) => ~users'[u].refreshToken]_vars
=============================================================================
