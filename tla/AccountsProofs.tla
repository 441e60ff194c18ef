----------------------------- MODULE AccountsProofs ----------------------------
(***************************************************************************)
(* Proofs about accounts, for any addresses, passwords and requests: what  *)
(* a request knows of its account stays true while others write it.        *)
(***************************************************************************)
EXTENDS Accounts, SequenceTheorems, TLAPS

(* What a request that awaits an operation has found out, said of the        *)
(* accounts U and the addresses M that were sent a link.                     *)
Knows(q, U, M) ==
    /\ q.stage = "create" => q.email \in Emails /\ q.password \in Passwords
    /\ q.stage = "mail" =>
         (q.id = 0 \/ q.id \in DOMAIN U) /\ \E u \in DOMAIN U : U[u].email = q.email
    /\ q.stage \in {"preference", "token", "compare", "password"} => q.id \in DOMAIN U
    /\ q.stage \in {"compare", "password"} => q.newPassword \in Passwords
    /\ q.stage \in {"check", "confirm"} => q.email \in M

Stored ==
    /\ users \in Seq(User) /\ preferences \in Seq(Preference)
    /\ Len(preferences) = Len(users)
    /\ signedIn \subseteq Ids
    /\ \A u, v \in Ids : users[u].email = users[v].email => u = v
    /\ \A e \in mailed : HasAccount(e)

Requested ==
    /\ req \in [Requests -> Request]
    /\ \A r \in Requests : Knows(req[r], users, mailed)

AInv == Stored /\ Requested

\* Accounts stay, with their addresses.
Grown ==
    /\ Ids \subseteq Ids' /\ mailed \subseteq mailed'
    /\ \A u \in Ids : users'[u].email = users[u].email

-----------------------------------------------------------------------------
(* Requests.                                                               *)

(* The request that moves knows what it must, and the others still do.       *)
LEMMA Slot ==
    ASSUME Requested, Grown, NEW r \in Requests, NEW n \in Request,
           req' = [req EXCEPT ![r] = n], Knows(n, users', mailed')
    PROVE  Requested'
<1>1. req' \in [Requests -> Request]
  BY DEF Requested
<1>2. ASSUME NEW x \in Requests PROVE Knows(req'[x], users', mailed')
  <2>1. CASE x = r
    BY <2>1 DEF Requested
  <2>2. CASE x # r
    <3>1. req'[x] = req[x] /\ Knows(req[x], users, mailed)
      BY <2>2 DEF Requested
    <3>2. Knows(req[x], users', mailed')
      BY <3>1 DEF Knows, Grown, Ids
    <3> QED
      BY <3>1, <3>2
  <2> QED
    BY <2>1, <2>2
<1> QED
  BY <1>1, <1>2 DEF Requested

(* A free slot knows nothing.                                                *)
LEMMA FinishSlot ==
    ASSUME Requested, Grown, NEW r \in Requests, Finish(r)
    PROVE  Requested'
<1>1. Idle \in Request /\ Idle.stage = "idle"
  BY DEF Idle, Handler, Request, Stages
<1>2. Knows(Idle, users', mailed')
  BY <1>1 DEF Knows
<1> QED
  BY <1>1, <1>2, Slot DEF Finish

(* A slot that goes on as it is, knowing enough for its next stage.          *)
LEMMA GotoSlot ==
    ASSUME Requested, Grown, NEW r \in Requests, NEW s \in Stages, Goto(r, s),
           \A q \in Request : q.stage = s /\ q.email = req[r].email /\ q.id = req[r].id
                                /\ q.password = req[r].password
                                /\ q.newPassword = req[r].newPassword
                              => Knows(q, users', mailed')
    PROVE  Requested'
<1> DEFINE n == [req[r] EXCEPT !.stage = s]
<1>1. n \in Request /\ n.stage = s /\ n.email = req[r].email /\ n.id = req[r].id
      /\ n.password = req[r].password /\ n.newPassword = req[r].newPassword
  BY DEF Requested, Request
<1>2. req' = [req EXCEPT ![r] = n]
  BY DEF Goto
<1> HIDE DEF n
<1> QED
  BY <1>1, <1>2, Slot

(* A request that begins writes nothing.                                     *)
LEMMA BeginSlot ==
    ASSUME AInv, NEW r \in Requests, NEW n \in Request, Begin(r, n),
           Knows(n, users, mailed)
    PROVE  AInv'
<1>1. UNCHANGED <<users, preferences, mailed, signedIn>>
  BY DEF Begin, dbVars, clientVars
<1>2. Grown
  BY <1>1 DEF Grown, Ids
<1>3. Requested'
  BY <1>1, <1>2, Slot DEF AInv, Begin
<1>4. Stored'
  BY <1>1 DEF AInv, Stored, Ids, HasAccount
<1> QED
  BY <1>3, <1>4 DEF AInv

-----------------------------------------------------------------------------
(* Accounts.                                                               *)

(* A write of one account.                                                   *)
LEMMA UserWrite ==
    ASSUME users \in Seq(User), NEW i \in Ids, NEW d \in User,
           users' = [users EXCEPT ![i] = d]
    PROVE  /\ users' \in Seq(User) /\ Len(users') = Len(users) /\ Ids' = Ids
           /\ \A u \in Ids : users'[u] = IF u = i THEN d ELSE users[u]
<1>1. Ids = 1..Len(users)
  BY LenProperties DEF Ids
<1>2. /\ users' \in Seq(User) /\ Len(users') = Len(users)
      /\ \A u \in 1..Len(users) : users'[u] = IF u = i THEN d ELSE users[u]
  BY <1>1, ExceptSeq
<1>3. Ids' = 1..Len(users')
  BY <1>2, LenProperties DEF Ids
<1> QED
  BY <1>1, <1>2, <1>3

(* A write that keeps address and password of the account keeps what is      *)
(* stored whole, whatever links are sent and tokens given meanwhile.         *)
LEMMA Kept ==
    ASSUME Stored, users' \in Seq(User), Len(users') = Len(users), Ids' = Ids,
           \A u \in Ids : /\ users'[u].email = users[u].email
                          /\ users'[u].password = users[u].password,
           preferences' \in Seq(Preference), Len(preferences') = Len(preferences),
           signedIn' \subseteq Ids, mailed \subseteq mailed',
           \A e \in mailed' : HasAccount(e)
    PROVE  Stored' /\ Grown
<1>1. Grown
  BY DEF Grown
<1>2. \A e \in mailed' : HasAccount(e)'
  BY DEF HasAccount
<1> QED
  BY <1>1, <1>2 DEF Stored

(* The account that an address belongs to.                                   *)
LEMMA TheAccount ==
    ASSUME NEW e, HasAccount(e)
    PROVE  AccountOf(e) \in Ids /\ users[AccountOf(e)].email = e
BY DEF HasAccount, AccountOf

-----------------------------------------------------------------------------
(* Each operation keeps what is stored whole, and what requests know true.   *)

LEMMA CreateUserStep ==
    ASSUME AInv, NEW r \in Requests, createUser(r)
    PROVE  AInv'
<1> DEFINE q == req[r]
<1>q. q \in Request /\ q.email \in Emails /\ q.password \in Passwords
  BY DEF AInv, Requested, Knows, createUser, At
<1>0. Len(users) \in Nat /\ Ids = 1..Len(users)
  BY LenProperties DEF AInv, Stored, Ids
<1>1. CASE HasAccount(q.email)
  <2>1. UNCHANGED <<users, preferences, mailed, signedIn>> /\ Finish(r)
    BY <1>1 DEF createUser, clientVars
  <2>2. Grown
    BY <2>1 DEF Grown, Ids
  <2> QED
    BY <2>1, <2>2, FinishSlot DEF AInv, Stored, Ids, HasAccount
<1>2. CASE ~HasAccount(q.email)
  <2> DEFINE d == [email |-> q.email, password |-> q.password, refreshToken |-> FALSE,
                   confirmed |-> 0]
  <2> DEFINE k == Len(users) + 1
  <2>d. d \in User
    BY <1>q DEF User
  <2>1. /\ users' = Append(users, d) /\ preferences' = Append(preferences, "none")
        /\ UNCHANGED <<mailed, signedIn>>
    BY <1>2 DEF createUser, clientVars
  <2>2. /\ users' \in Seq(User) /\ Len(users') = k /\ users'[k] = d
        /\ \A u \in Ids : users'[u] = users[u]
    BY <1>0, <2>d, <2>1, AppendProperties DEF AInv, Stored
  <2>3. preferences' \in Seq(Preference) /\ Len(preferences') = k
    BY <2>1, AppendProperties DEF AInv, Stored, Preference
  <2>5. Ids' = Ids \cup {k} /\ k \notin Ids /\ k # 0
    BY <1>0, <2>2, LenProperties DEF Ids
  <2>6. Grown
    BY <2>1, <2>2, <2>5 DEF Grown
  <2>8. \A u, v \in Ids' : users'[u].email = users'[v].email => u = v
    BY <1>2, <2>2, <2>5 DEF AInv, Stored, HasAccount
  <2>9. \A e \in mailed' : HasAccount(e)'
    <3> SUFFICES ASSUME NEW e \in mailed PROVE \E u \in Ids' : users'[u].email = e
      BY <2>1 DEF HasAccount
    <3>1. PICK u \in Ids : users[u].email = e
      BY DEF AInv, Stored, HasAccount
    <3> QED
      BY <2>2, <2>5, <3>1
  <2>10. Stored'
    BY <2>1, <2>2, <2>3, <2>5, <2>8, <2>9 DEF AInv, Stored
  <2> DEFINE n == [q EXCEPT !.stage = "mail", !.id = k]
  <2>11. req' = [req EXCEPT ![r] = n]
    BY <1>2 DEF createUser
  <2>k. k \in Nat
    BY <1>0
  <2> HIDE DEF k
  <2>12. n \in Request /\ n.stage = "mail" /\ n.id = k /\ n.email = q.email
    BY <1>q, <2>k DEF Request, Stages
  <2> HIDE DEF n
  <2>13. \E u \in DOMAIN users' : users'[u].email = n.email
    BY <2>2, <2>5, <2>12 DEF Ids
  <2>14. Knows(n, users', mailed')
    BY <2>5, <2>12, <2>13 DEF Knows, Ids
  <2> QED
    BY <2>6, <2>10, <2>11, <2>12, <2>14, Slot DEF AInv
<1> QED
  BY <1>1, <1>2

LEMMA SendMailStep ==
    ASSUME AInv, NEW r \in Requests, sendVerifyMail(r)
    PROVE  AInv'
<1>q. req[r] \in Request /\ Knows(req[r], users, mailed) /\ req[r].stage = "mail"
  BY DEF AInv, Requested, sendVerifyMail, At
<1>1. UNCHANGED <<users, preferences, signedIn>> /\ mailed' = mailed \cup {req[r].email}
  BY DEF sendVerifyMail, dbVars, history
<1>2. Grown
  BY <1>1 DEF Grown, Ids
<1>3. Stored'
  BY <1>q, <1>1 DEF AInv, Stored, Ids, HasAccount, Knows
<1>4. CASE req[r].id = 0
  BY <1>2, <1>3, <1>4, FinishSlot DEF AInv, sendVerifyMail
<1>5. CASE req[r].id # 0
  <2>1. Goto(r, "preference") /\ "preference" \in Stages
    BY <1>5 DEF sendVerifyMail, Stages
  <2>2. \A q \in Request : q.stage = "preference" /\ q.id = req[r].id
                             => Knows(q, users', mailed')
    BY <1>q, <1>1, <1>5 DEF Knows
  <2> QED
    BY <1>2, <1>3, <2>1, <2>2, GotoSlot DEF AInv
<1> QED
  BY <1>4, <1>5

(* A request that ends, or fails, having written nothing but what Kept       *)
(* allows.                                                                   *)
LEMMA FinishStep ==
    ASSUME AInv, NEW r \in Requests, Finish(r), Stored', Grown
    PROVE  AInv'
BY FinishSlot DEF AInv

LEMMA CreatePreferenceStep ==
    ASSUME AInv, NEW r \in Requests, createPreference(r)
    PROVE  AInv'
<1>1. req[r].id \in Ids
  BY DEF AInv, Requested, Knows, createPreference, At, Ids
<1>2. UNCHANGED <<users, mailed, signedIn>> /\ Finish(r)
  BY DEF createPreference, clientVars, history
<1>3. req[r].id \in 1..Len(preferences)
  BY <1>1, LenProperties DEF AInv, Stored, Ids
<1>4. preferences' = [preferences EXCEPT ![req[r].id] = "new"] /\ "new" \in Preference
  BY DEF createPreference, Preference
<1>5. preferences' \in Seq(Preference) /\ Len(preferences') = Len(preferences)
  BY <1>3, <1>4, ExceptSeq DEF AInv, Stored
<1>6. Stored' /\ Grown
  BY <1>2, <1>5, Kept DEF AInv, Stored, Ids
<1> QED
  BY <1>2, <1>6, FinishStep

LEMMA UpdatePreferenceStep ==
    ASSUME AInv, NEW u \in Ids, updatePreference(u)
    PROVE  AInv'
<1>1. UNCHANGED <<users, mailed, signedIn, req>>
  BY DEF updatePreference, clientVars, history
<1>2. u \in 1..Len(preferences)
  BY LenProperties DEF AInv, Stored, Ids
<1> DEFINE p == IF preferences[u] = "none" THEN preferences[u] ELSE "chosen"
<1>3. preferences' = [preferences EXCEPT ![u] = p]
  BY DEF updatePreference
<1>4. p \in Preference
  BY DEF Preference
<1> HIDE DEF p
<1>5. preferences' \in Seq(Preference) /\ Len(preferences') = Len(preferences)
  BY <1>2, <1>3, <1>4, ExceptSeq DEF AInv, Stored
<1>6. Stored'
  BY <1>1, <1>5, Kept DEF AInv, Stored, Ids
<1>7. Requested'
  BY <1>1 DEF AInv, Requested
<1> QED
  BY <1>6, <1>7 DEF AInv

LEMMA CheckMailStep ==
    ASSUME AInv, NEW r \in Requests, checkMail(r)
    PROVE  AInv'
<1>1. UNCHANGED <<users, preferences, mailed, signedIn>>
  BY DEF checkMail, dbVars, clientVars, history
<1>2. Stored' /\ Grown
  BY <1>1 DEF AInv, Stored, Grown, Ids, HasAccount
<1>3. CASE Finish(r)
  BY <1>2, <1>3, FinishStep
<1>4. CASE Goto(r, "confirm")
  <2>1. req[r].email \in mailed /\ "confirm" \in Stages
    BY DEF AInv, Requested, Knows, checkMail, At, Stages
  <2>2. \A q \in Request : q.stage = "confirm" /\ q.email = req[r].email
                             => Knows(q, users', mailed')
    BY <1>1, <2>1 DEF Knows
  <2> QED
    BY <1>2, <1>4, <2>1, <2>2, GotoSlot DEF AInv
<1> QED
  BY <1>3, <1>4 DEF checkMail

LEMMA ConfirmStep ==
    ASSUME AInv, NEW r \in Requests, markEmailConfirmed(r)
    PROVE  AInv'
<1> DEFINE i == AccountOf(req[r].email)
<1>1. i \in Ids
  BY TheAccount DEF AInv, Stored, Requested, Knows, markEmailConfirmed, At
<1> DEFINE d == [users[i] EXCEPT !.confirmed = users[i].confirmed + 1]
<1>2. users' = [users EXCEPT ![i] = d]
  BY DEF markEmailConfirmed
<1> HIDE DEF i
<1>3. users[i] \in User
  BY <1>1, LenProperties, ElementOfSeq DEF AInv, Stored, Ids
<1>4. d \in User /\ d.email = users[i].email /\ d.password = users[i].password
  BY <1>3 DEF User
<1> HIDE DEF d
<1>5. UNCHANGED <<preferences, mailed, signedIn>> /\ Finish(r)
  BY DEF markEmailConfirmed, clientVars, history
<1>6. /\ users' \in Seq(User) /\ Len(users') = Len(users) /\ Ids' = Ids
      /\ \A u \in Ids : users'[u] = IF u = i THEN d ELSE users[u]
  <2>1. users \in Seq(User)
    BY DEF AInv, Stored
  <2> QED
    BY <1>1, <1>2, <1>4, <2>1, UserWrite
<1>7. Stored' /\ Grown
  BY <1>4, <1>5, <1>6, Kept DEF AInv, Stored
<1> QED
  BY <1>5, <1>7, FinishStep

LEMMA LookupStep ==
    ASSUME AInv, NEW r \in Requests, getAuthenticatedUser(r)
    PROVE  AInv'
<1> DEFINE q == req[r]
<1>1. UNCHANGED <<users, preferences, mailed, signedIn>>
  BY DEF getAuthenticatedUser, dbVars, clientVars, history
<1>2. Stored' /\ Grown
  BY <1>1 DEF AInv, Stored, Grown, Ids, HasAccount
<1>3. CASE Finish(r)
  BY <1>2, <1>3, FinishStep
<1>4. CASE /\ HasAccount(q.email) /\ users[AccountOf(q.email)].password = q.password
           /\ req' = [req EXCEPT ![r].stage = "token", ![r].id = AccountOf(q.email)]
  <2> DEFINE i == AccountOf(q.email)
  <2>1. i \in Ids
    BY <1>4, TheAccount DEF AInv, Stored
  <2> DEFINE n == [q EXCEPT !.stage = "token", !.id = i]
  <2>2. req' = [req EXCEPT ![r] = n]
    BY <1>4
  <2> HIDE DEF i
  <2>3. i \in Nat
    BY <2>1, LenProperties DEF AInv, Stored, Ids
  <2>4. n \in Request /\ n.stage = "token" /\ n.id = i /\ n.password = q.password
    BY <2>3 DEF AInv, Requested, Request, Stages
  <2> HIDE DEF n
  <2>5. Knows(n, users', mailed')
    BY <1>1, <2>1, <2>4 DEF Knows, Ids
  <2> QED
    BY <1>2, <2>2, <2>4, <2>5, Slot DEF AInv
<1> QED
  BY <1>3, <1>4 DEF getAuthenticatedUser

(* Setting or removing a refresh token leaves the rest of the account.       *)
LEMMA TokenWrite ==
    ASSUME Stored, NEW i \in Ids, NEW b \in BOOLEAN,
           users' = [users EXCEPT ![i] = [users[i] EXCEPT !.refreshToken = b]]
    PROVE  /\ users' \in Seq(User) /\ Len(users') = Len(users) /\ Ids' = Ids
           /\ \A u \in Ids :
                /\ users'[u].email = users[u].email /\ users'[u].password = users[u].password
                /\ users'[u].confirmed = users[u].confirmed
                /\ users'[u].refreshToken = IF u = i THEN b ELSE users[u].refreshToken
<1> DEFINE d == [users[i] EXCEPT !.refreshToken = b]
<1>1. users[i] \in User
  BY LenProperties, ElementOfSeq DEF Stored, Ids
<1>2. /\ d \in User /\ d.email = users[i].email /\ d.password = users[i].password
      /\ d.confirmed = users[i].confirmed /\ d.refreshToken = b
  BY <1>1 DEF User
<1>3. users' = [users EXCEPT ![i] = d]
  OBVIOUS
<1> HIDE DEF d
<1>4. /\ users' \in Seq(User) /\ Len(users') = Len(users) /\ Ids' = Ids
      /\ \A u \in Ids : users'[u] = IF u = i THEN d ELSE users[u]
  <2>1. users \in Seq(User) /\ d \in User
    BY <1>2 DEF Stored
  <2> QED
    BY <1>3, <2>1, UserWrite
<1> QED
  BY <1>2, <1>4

LEMMA StoreTokenStep ==
    ASSUME AInv, NEW r \in Requests, updateRefreshToken(r)
    PROVE  AInv'
<1>1. req[r].id \in Ids
  BY DEF AInv, Requested, Knows, updateRefreshToken, At, Ids
<1>2. UNCHANGED <<preferences, mailed>> /\ Finish(r) /\ signedIn' \subseteq Ids
  BY <1>1 DEF updateRefreshToken, Answered, history, AInv, Stored
<1>3. users' = [users EXCEPT ![req[r].id] = [users[req[r].id] EXCEPT !.refreshToken = TRUE]]
  BY DEF updateRefreshToken
<1>4. Stored' /\ Grown
  BY <1>1, <1>2, <1>3, TokenWrite, Kept DEF AInv, Stored
<1> QED
  BY <1>2, <1>4, FinishStep

\* A log-out writes the first account.
LEMMA FirstAccount ==
    ASSUME AInv, NEW u \in Ids, logout(u)
    PROVE  1 \in Ids /\ users' = [users EXCEPT ![1] = [users[1] EXCEPT !.refreshToken = FALSE]]
<1>1. Ids = 1..Len(users) /\ Len(users) \in Nat
  BY LenProperties DEF AInv, Stored, Ids
<1> QED
  BY <1>1 DEF logout, removeRefreshToken

LEMMA LogoutStep ==
    ASSUME AInv, NEW u \in Ids, logout(u)
    PROVE  AInv'
<1>1. UNCHANGED <<preferences, mailed, signedIn, req>>
  BY DEF logout, clientVars
<1>2. Stored' /\ Grown
  BY <1>1, FirstAccount, TokenWrite, Kept DEF AInv, Stored
<1>3. Requested'
  <2>1. ASSUME NEW x \in Requests PROVE Knows(req[x], users', mailed')
    BY <1>2 DEF AInv, Requested, Knows, Grown, Ids
  <2> QED
    BY <1>1, <2>1 DEF AInv, Requested
<1> QED
  BY <1>2, <1>3 DEF AInv

LEMMA ComparePasswordStep ==
    ASSUME AInv, NEW r \in Requests, comparePassword(r)
    PROVE  AInv'
<1>1. UNCHANGED <<users, preferences, mailed, signedIn>>
  BY DEF comparePassword, dbVars, clientVars, history
<1>2. Stored' /\ Grown
  BY <1>1 DEF AInv, Stored, Grown, Ids, HasAccount
<1>3. CASE Finish(r)
  BY <1>2, <1>3, FinishStep
<1>4. CASE users[req[r].id].password = req[r].password /\ Goto(r, "password")
  <2>1. req[r].id \in Ids /\ req[r].newPassword \in Passwords
    BY <1>4 DEF AInv, Stored, Requested, Knows, comparePassword, At, Ids
  <2>2. "password" \in Stages
    BY DEF Stages
  <2>3. \A q \in Request : q.stage = "password" /\ q.id = req[r].id
                             /\ q.password = req[r].password
                             /\ q.newPassword = req[r].newPassword
                             => Knows(q, users', mailed')
    BY <1>1, <2>1 DEF Knows, Ids
  <2> QED
    BY <1>2, <1>4, <2>2, <2>3, GotoSlot DEF AInv
<1> QED
  BY <1>3, <1>4 DEF comparePassword

LEMMA WritePasswordStep ==
    ASSUME AInv, NEW r \in Requests, writePassword(r)
    PROVE  AInv'
<1> DEFINE i == req[r].id
<1> DEFINE p == req[r].newPassword
<1>1. i \in Ids /\ p \in Passwords
  BY DEF AInv, Requested, Knows, writePassword, At, Ids
<1> DEFINE d == [users[i] EXCEPT !.password = p]
<1>2. users' = [users EXCEPT ![i] = d]
  BY DEF writePassword
<1>3. UNCHANGED <<preferences, mailed, signedIn>> /\ Finish(r)
  BY DEF writePassword, clientVars
<1> HIDE DEF i, p
<1>4. users[i] \in User
  BY <1>1, LenProperties, ElementOfSeq DEF AInv, Stored, Ids
<1>5. d \in User /\ d.email = users[i].email
  BY <1>1, <1>4 DEF User
<1> HIDE DEF d
<1>7. /\ users' \in Seq(User) /\ Len(users') = Len(users) /\ Ids' = Ids
      /\ \A u \in Ids : users'[u] = IF u = i THEN d ELSE users[u]
  <2>1. users \in Seq(User)
    BY DEF AInv, Stored
  <2> QED
    BY <1>1, <1>2, <1>5, <2>1, UserWrite
<1>9. Grown
  BY <1>3, <1>5, <1>7 DEF Grown
<1>10. Stored'
  <2>1. \A u \in Ids : users'[u].email = users[u].email
    BY <1>5, <1>7 DEF AInv, Stored
  <2>2. \A e \in mailed' : HasAccount(e)'
    BY <1>3, <1>7, <2>1 DEF AInv, Stored, HasAccount
  <2> QED
    BY <1>3, <1>7, <2>1, <2>2 DEF AInv, Stored
<1> QED
  BY <1>3, <1>9, <1>10, FinishStep

LEMMA ThrowStep ==
    ASSUME AInv, NEW r \in Requests, Throw(r)
    PROVE  AInv'
<1>1. UNCHANGED <<users, preferences, signedIn>> /\ Finish(r)
  BY DEF Throw, dbVars
<1>2. mailed \subseteq mailed' /\ \A e \in mailed' : HasAccount(e)
  BY DEF Throw, AInv, Stored, Requested, Knows, At, HasAccount, Ids
<1>3. Stored' /\ Grown
  BY <1>1, <1>2, Kept DEF AInv, Stored, Ids
<1> QED
  BY <1>1, <1>3, FinishStep

(* What a request knows when it begins.                                      *)
LEMMA BeginStep ==
    ASSUME AInv, NEW r \in Requests,
           \/ \E e \in Emails, p \in Passwords :
                 signUp(r, e, p) \/ \E admin \in BOOLEAN : signIn(r, e, p, admin)
           \/ \E e \in Emails : verifyMail(r, e)
           \/ \E u \in Ids : \/ resendVerifyMail(r, u)
                             \/ \E p, new \in Passwords : updatePassword(r, u, p, new)
    PROVE  AInv'
<1> USE DEF Handler, Request, Stages
<1>1. ASSUME NEW e \in Emails, NEW p \in Passwords, signUp(r, e, p) PROVE AInv'
  <2> DEFINE n == Handler("create", e, p, None, 0, FALSE)
  <2>1. n \in Request /\ Knows(n, users, mailed)
    BY DEF Knows
  <2> QED
    BY <1>1, <2>1, BeginSlot DEF signUp
<1>2. ASSUME NEW e \in Emails, NEW p \in Passwords, NEW admin \in BOOLEAN,
             signIn(r, e, p, admin)
      PROVE  AInv'
  <2> DEFINE n == Handler("lookup", e, p, None, 0, admin)
  <2>1. n \in Request /\ Knows(n, users, mailed)
    BY DEF Knows
  <2> QED
    BY <1>2, <2>1, BeginSlot DEF signIn
<1>3. ASSUME NEW e \in Emails, verifyMail(r, e) PROVE AInv'
  <2> DEFINE n == Handler("check", e, None, None, 0, FALSE)
  <2>1. n \in Request /\ Knows(n, users, mailed)
    BY <1>3 DEF Knows, verifyMail
  <2> QED
    BY <1>3, <2>1, BeginSlot DEF verifyMail
<1>4. ASSUME NEW u \in Ids PROVE users[u] \in User /\ u \in Nat
  BY <1>4, LenProperties, ElementOfSeq DEF AInv, Stored, Ids
<1>5. ASSUME NEW u \in Ids, resendVerifyMail(r, u) PROVE AInv'
  <2> DEFINE n == Handler("mail", users[u].email, None, None, 0, FALSE)
  <2>1. n \in Request
    BY <1>4 DEF User
  <2>2. Knows(n, users, mailed)
    BY DEF Knows, Ids
  <2> QED
    BY <1>5, <2>1, <2>2, BeginSlot DEF resendVerifyMail
<1>6. ASSUME NEW u \in Ids, NEW p \in Passwords, NEW new \in Passwords,
             updatePassword(r, u, p, new)
      PROVE  AInv'
  <2> DEFINE n == Handler("compare", users[u].email, p, new, u, FALSE)
  <2>1. n \in Request
    BY <1>4 DEF User
  <2>2. Knows(n, users, mailed)
    BY DEF Knows, Ids
  <2> QED
    BY <1>6, <2>1, <2>2, BeginSlot DEF updatePassword
<1> QED
  BY <1>1, <1>2, <1>3, <1>5, <1>6

LEMMA AccountsStep == AInv /\ [Next]_vars => AInv'
<1> SUFFICES ASSUME AInv, [Next]_vars PROVE AInv'
  OBVIOUS
<1>1. ASSUME NEW r \in Requests, Step(r) PROVE AInv'
  BY <1>1, CreateUserStep, SendMailStep, CreatePreferenceStep, LookupStep, StoreTokenStep,
     CheckMailStep, ConfirmStep, ComparePasswordStep, WritePasswordStep DEF Step
<1>2. ASSUME NEW r \in Requests, Throw(r) PROVE AInv'
  BY <1>2, ThrowStep
<1>3. CASE UNCHANGED vars
  BY <1>3 DEF vars, dbVars, clientVars, history, AInv, Stored, Requested, Ids, HasAccount
<1>4. ASSUME NEW u \in Ids, refresh(u) PROVE AInv'
  BY <1>4 DEF refresh, dbVars, history, AInv, Stored, Requested, Ids, HasAccount
<1>5. CASE Clients
  <2>1. ASSUME NEW u \in Ids, deleteAccount(u) PROVE AInv'
    BY <1>3, <2>1 DEF deleteAccount
  <2> QED
    BY <1>4, <1>5, <2>1, LogoutStep, BeginStep DEF Clients
<1>6. CASE Editors
  BY <1>6, UpdatePreferenceStep, BeginStep DEF Editors
<1> QED
  BY <1>1, <1>2, <1>3, <1>5, <1>6 DEF Next

LEMMA AccountsInvariant == Spec => []AInv
<1>1. Init => AInv
  <2> SUFFICES ASSUME Init PROVE AInv
    OBVIOUS
  <2>1. Ids = {}
    BY DEF Init, Ids
  <2>2. Stored
    BY <2>1 DEF Init, Stored
  <2>3. Idle \in Request /\ Knows(Idle, users, mailed)
    BY DEF Idle, Handler, Request, Stages, Knows
  <2> QED
    BY <2>2, <2>3 DEF Init, AInv, Requested
<1> QED
  BY <1>1, AccountsStep, PTL DEF Spec

-----------------------------------------------------------------------------
(* Log-outs and refreshes.                                                 *)

\* The fields of accounts that only some operations write.
SameTokens == \A u \in Ids : users'[u].refreshToken = users[u].refreshToken

SameConfirmations ==
    /\ Ids' = Ids
    /\ \A u \in Ids : /\ users'[u].email = users[u].email
                      /\ users'[u].confirmed = users[u].confirmed

(* A change of password leaves tokens and confirmations.                     *)
LEMMA PasswordOnly ==
    ASSUME AInv, NEW r \in Requests, writePassword(r)
    PROVE  SameTokens /\ SameConfirmations
<1> DEFINE i == req[r].id
<1> DEFINE p == req[r].newPassword
<1>1. i \in Ids /\ p \in Passwords
  BY DEF AInv, Requested, Knows, writePassword, At, Ids
<1> DEFINE d == [users[i] EXCEPT !.password = p]
<1>2. users' = [users EXCEPT ![i] = d]
  BY DEF writePassword
<1> HIDE DEF i, p
<1>3. users[i] \in User
  BY <1>1, LenProperties, ElementOfSeq DEF AInv, Stored, Ids
<1>4. d \in User /\ d.email = users[i].email /\ d.confirmed = users[i].confirmed
      /\ d.refreshToken = users[i].refreshToken
  BY <1>1, <1>3 DEF User
<1> HIDE DEF d
<1>5. Ids' = Ids /\ \A u \in Ids : users'[u] = IF u = i THEN d ELSE users[u]
  <2>1. users \in Seq(User)
    BY DEF AInv, Stored
  <2> QED
    BY <1>1, <1>2, <1>4, <2>1, UserWrite
<1> QED
  BY <1>4, <1>5 DEF SameTokens, SameConfirmations

(* A confirmation counts one more for its account.                           *)
LEMMA ConfirmOnly ==
    ASSUME AInv, NEW r \in Requests, markEmailConfirmed(r)
    PROVE  /\ SameTokens /\ Ids' = Ids
           /\ \A u \in Ids :
                /\ users'[u].email = users[u].email
                /\ users'[u].confirmed = IF users[u].email = req[r].email
                                           THEN users[u].confirmed + 1
                                           ELSE users[u].confirmed
<1> DEFINE i == AccountOf(req[r].email)
<1>1. i \in Ids /\ users[i].email = req[r].email
  BY TheAccount DEF AInv, Stored, Requested, Knows, markEmailConfirmed, At
<1> DEFINE d == [users[i] EXCEPT !.confirmed = users[i].confirmed + 1]
<1>2. users' = [users EXCEPT ![i] = d]
  BY DEF markEmailConfirmed
<1> HIDE DEF i
<1>3. users[i] \in User
  BY <1>1, LenProperties, ElementOfSeq DEF AInv, Stored, Ids
<1>4. /\ d \in User /\ d.email = users[i].email /\ d.confirmed = users[i].confirmed + 1
      /\ d.refreshToken = users[i].refreshToken
  BY <1>3 DEF User
<1> HIDE DEF d
<1>5. Ids' = Ids /\ \A u \in Ids : users'[u] = IF u = i THEN d ELSE users[u]
  <2>1. users \in Seq(User)
    BY DEF AInv, Stored
  <2> QED
    BY <1>1, <1>2, <1>4, <2>1, UserWrite
<1>6. \A u \in Ids : users[u].email = req[r].email <=> u = i
  BY <1>1 DEF AInv, Stored
<1> QED
  BY <1>4, <1>5, <1>6 DEF SameTokens

(* A new account is at the end, without a token and unconfirmed.             *)
LEMMA CreateOnly ==
    ASSUME AInv, NEW r \in Requests, createUser(r)
    PROVE  /\ SameTokens /\ Ids \subseteq Ids'
           /\ \A u \in Ids : users'[u] = users[u] /\ preferences'[u] = preferences[u]
           /\ \A u \in Ids' \ Ids : /\ users'[u].confirmed = 0 /\ req'[r].id = u
                                    /\ req'[r].stage = "mail"
<1>0. /\ Len(users) \in Nat /\ Ids = 1..Len(users) /\ DOMAIN users = Ids
      /\ Len(preferences) = Len(users)
  BY LenProperties DEF AInv, Stored, Ids
<1>1. CASE HasAccount(req[r].email)
  BY <1>1 DEF createUser, SameTokens, Ids
<1>2. CASE ~HasAccount(req[r].email)
  <2> DEFINE d == [email |-> req[r].email, password |-> req[r].password,
                   refreshToken |-> FALSE, confirmed |-> 0]
  <2> DEFINE k == Len(users) + 1
  <2>1. users' = Append(users, d) /\ preferences' = Append(preferences, "none")
    BY <1>2 DEF createUser
  <2>2. d \in User /\ d.confirmed = 0
    BY DEF AInv, Requested, Knows, createUser, At, User
  <2>3. /\ users' \in Seq(User) /\ Len(users') = k /\ users'[k] = d
        /\ \A u \in Ids : users'[u] = users[u]
    BY <1>0, <2>1, <2>2, AppendProperties DEF AInv, Stored
  <2>4. \A u \in Ids : preferences'[u] = preferences[u]
    BY <1>0, <2>1, AppendProperties DEF AInv, Stored, Preference
  <2>5. Ids' = Ids \cup {k}
    BY <1>0, <2>3, LenProperties DEF Ids
  <2> DEFINE n == [req[r] EXCEPT !.stage = "mail", !.id = k]
  <2>6. req' = [req EXCEPT ![r] = n]
    BY <1>2 DEF createUser
  <2> HIDE DEF k
  <2>7. n.stage = "mail" /\ n.id = k
    BY DEF AInv, Requested, Request
  <2>8. req'[r] = n
    BY <2>6 DEF AInv, Requested
  <2> HIDE DEF n, d
  <2> QED
    BY <2>2, <2>3, <2>4, <2>5, <2>7, <2>8 DEF SameTokens
<1> QED
  BY <1>1, <1>2

(* A request that begins writes nothing, and is not about to confirm.        *)
LEMMA BeginsOnly ==
    ASSUME NEW r \in Requests,
           \/ \E e \in Emails, p \in Passwords :
                 signUp(r, e, p) \/ \E admin \in BOOLEAN : signIn(r, e, p, admin)
           \/ \E e \in Emails : verifyMail(r, e)
           \/ \E u \in Ids : \/ resendVerifyMail(r, u)
                             \/ \E p, new \in Passwords : updatePassword(r, u, p, new)
    PROVE  \E n : n.stage # "confirm" /\ Begin(r, n)
<1> USE DEF Handler
<1>1. ASSUME NEW e \in Emails, NEW p \in Passwords, signUp(r, e, p)
      PROVE  \E n : n.stage # "confirm" /\ Begin(r, n)
  <2> DEFINE n == Handler("create", e, p, None, 0, FALSE)
  <2>1. n.stage # "confirm" /\ Begin(r, n)
    BY <1>1 DEF signUp
  <2> QED
    BY <2>1
<1>2. ASSUME NEW e \in Emails, NEW p \in Passwords, NEW admin \in BOOLEAN,
             signIn(r, e, p, admin)
      PROVE  \E n : n.stage # "confirm" /\ Begin(r, n)
  <2> DEFINE n == Handler("lookup", e, p, None, 0, admin)
  <2>1. n.stage # "confirm" /\ Begin(r, n)
    BY <1>2 DEF signIn
  <2> QED
    BY <2>1
<1>3. ASSUME NEW e \in Emails, verifyMail(r, e)
      PROVE  \E n : n.stage # "confirm" /\ Begin(r, n)
  <2> DEFINE n == Handler("check", e, None, None, 0, FALSE)
  <2>1. n.stage # "confirm" /\ Begin(r, n)
    BY <1>3 DEF verifyMail
  <2> QED
    BY <2>1
<1>4. ASSUME NEW u \in Ids, resendVerifyMail(r, u)
      PROVE  \E n : n.stage # "confirm" /\ Begin(r, n)
  <2> DEFINE n == Handler("mail", users[u].email, None, None, 0, FALSE)
  <2>1. n.stage # "confirm" /\ Begin(r, n)
    BY <1>4 DEF resendVerifyMail
  <2> QED
    BY <2>1
<1>5. ASSUME NEW u \in Ids, NEW p \in Passwords, NEW new \in Passwords,
             updatePassword(r, u, p, new)
      PROVE  \E n : n.stage # "confirm" /\ Begin(r, n)
  <2> DEFINE n == Handler("compare", users[u].email, p, new, u, FALSE)
  <2>1. n.stage # "confirm" /\ Begin(r, n)
    BY <1>5 DEF updatePassword
  <2> QED
    BY <2>1
<1> QED
  BY <1>1, <1>2, <1>3, <1>4, <1>5

\* Clients begin requests, or do what needs none.
LEMMA ClientSteps ==
    ASSUME Clients \/ Editors
    PROVE  \/ \E r \in Requests : \E n : n.stage # "confirm" /\ Begin(r, n)
           \/ \E u \in Ids : refresh(u) \/ logout(u) \/ updatePreference(u)
           \/ UNCHANGED vars
<1>1. CASE \E u \in Ids : deleteAccount(u)
  BY <1>1 DEF deleteAccount
<1>2. CASE ~\E u \in Ids : deleteAccount(u)
  BY <1>2, BeginsOnly DEF Clients, Editors
<1> QED
  BY <1>1, <1>2

(* What the other operations write of accounts.                              *)
LEMMA UsersKept ==
    ASSUME [Next]_vars,
           \A r \in Requests : /\ ~createUser(r) /\ ~markEmailConfirmed(r)
                               /\ ~updateRefreshToken(r) /\ ~writePassword(r),
           \A u \in Ids : ~logout(u)
    PROVE  users' = users
<1>1. ASSUME NEW r \in Requests, Step(r) \/ Throw(r) PROVE users' = users
  BY <1>1 DEF Step, Throw, sendVerifyMail, createPreference, getAuthenticatedUser,
              checkMail, comparePassword, dbVars
<1>2. ASSUME NEW r \in Requests, NEW n, Begin(r, n) PROVE users' = users
  BY <1>2 DEF Begin, dbVars
<1>3. ASSUME NEW u \in Ids, refresh(u) \/ updatePreference(u) PROVE users' = users
  BY <1>3 DEF refresh, updatePreference, dbVars
<1> QED
  BY <1>1, <1>2, <1>3, ClientSteps DEF Next, vars, dbVars

(* Who is signed in, refused or logged out is written by three operations.   *)
LEMMA ClientsKept ==
    ASSUME [Next]_vars
    PROVE  /\ signedIn' = signedIn \/ \E r \in Requests : updateRefreshToken(r)
           /\ refused' = refused \/ \E u \in Ids : refresh(u)
           /\ loggedOut => loggedOut'
<1> USE DEF Next, vars, clientVars, history
<1>1. ASSUME NEW r \in Requests, Step(r) \/ Throw(r)
      PROVE  /\ signedIn' = signedIn \/ updateRefreshToken(r)
             /\ refused' = refused /\ loggedOut' = loggedOut
  BY <1>1 DEF Step, Throw, createUser, sendVerifyMail, createPreference,
              getAuthenticatedUser, updateRefreshToken, checkMail, markEmailConfirmed,
              comparePassword, writePassword
<1>2. ASSUME NEW r \in Requests, NEW n, Begin(r, n)
      PROVE  signedIn' = signedIn /\ refused' = refused /\ loggedOut' = loggedOut
  BY <1>2 DEF Begin
<1>3. ASSUME NEW u \in Ids, logout(u)
      PROVE  signedIn' = signedIn /\ refused' = refused /\ loggedOut'
  BY <1>3 DEF logout
<1>4. ASSUME NEW u \in Ids, refresh(u) PROVE signedIn' = signedIn /\ loggedOut' = loggedOut
  BY <1>4 DEF refresh
<1>5. ASSUME NEW u \in Ids, updatePreference(u)
      PROVE  signedIn' = signedIn /\ refused' = refused /\ loggedOut' = loggedOut
  BY <1>5 DEF updatePreference
<1> QED
  BY <1>1, <1>2, <1>3, <1>4, <1>5, ClientSteps

LEMMA RefusalStep == AInv /\ RefusedOnlyAfterLogout /\ [Next]_vars => RefusedOnlyAfterLogout'
<1> SUFFICES ASSUME AInv, RefusedOnlyAfterLogout, [Next]_vars PROVE RefusedOnlyAfterLogout'
  OBVIOUS
<1> USE DEF Refreshable
<1>1. \A u \in refused' : u = 1 /\ loggedOut'
  <2>1. CASE refused' = refused
    BY <2>1, ClientsKept DEF RefusedOnlyAfterLogout
  <2>2. ASSUME NEW u \in Ids, refresh(u) PROVE \A v \in refused' : v = 1 /\ loggedOut'
    BY <2>2, ClientsKept DEF RefusedOnlyAfterLogout, refresh, Authenticated
  <2> QED
    BY <2>1, <2>2, ClientsKept
<1>2. \A u \in signedIn' : ~users'[u].refreshToken => u = 1 /\ loggedOut'
  <2>s. signedIn \subseteq Ids
    BY DEF AInv, Stored
  <2>1. CASE signedIn' = signedIn /\ SameTokens
    BY <2>1, <2>s, ClientsKept DEF RefusedOnlyAfterLogout, SameTokens
  <2>2. ASSUME NEW r \in Requests, updateRefreshToken(r)
        PROVE  \A u \in signedIn' : ~users'[u].refreshToken => u = 1 /\ loggedOut'
    <3>1. req[r].id \in Ids
      BY <2>2 DEF AInv, Requested, Knows, updateRefreshToken, At, Ids
    <3>2. users' = [users EXCEPT ![req[r].id] = [users[req[r].id] EXCEPT !.refreshToken = TRUE]]
      BY <2>2 DEF updateRefreshToken
    <3>3. \A u \in Ids : users'[u].refreshToken
                           = IF u = req[r].id THEN TRUE ELSE users[u].refreshToken
      BY <3>1, <3>2, TokenWrite DEF AInv
    <3>4. signedIn' \subseteq signedIn \cup {req[r].id}
      BY <2>2 DEF updateRefreshToken, Answered
    <3>5. loggedOut' = loggedOut
      BY <2>2 DEF updateRefreshToken, history
    <3>6. ASSUME NEW u \in signedIn', ~users'[u].refreshToken PROVE u = 1 /\ loggedOut'
      <4>1. u \in Ids /\ u # req[r].id
        BY <2>s, <3>1, <3>3, <3>4, <3>6
      <4>2. u \in signedIn /\ ~users[u].refreshToken
        BY <3>3, <3>4, <3>6, <4>1
      <4> QED
        BY <3>5, <4>2 DEF RefusedOnlyAfterLogout
    <3> QED
      BY <3>6
  <2>3. ASSUME NEW v \in Ids, logout(v)
        PROVE  \A u \in signedIn' : ~users'[u].refreshToken => u = 1 /\ loggedOut'
    <3>1. \A u \in Ids : users'[u].refreshToken
                           = IF u = 1 THEN FALSE ELSE users[u].refreshToken
      BY <2>3, FirstAccount, TokenWrite DEF AInv
    <3>2. signedIn' = signedIn /\ loggedOut'
      BY <2>3 DEF logout, clientVars
    <3> QED
      BY <2>s, <3>1, <3>2 DEF RefusedOnlyAfterLogout
  <2>4. CASE /\ \A r \in Requests : ~updateRefreshToken(r)
             /\ \A u \in Ids : ~logout(u)
    <3>1. signedIn' = signedIn
      BY <2>4, ClientsKept
    <3>2. SameTokens
      <4>1. CASE users' = users
        BY <4>1 DEF SameTokens
      <4> QED
        BY <2>4, <4>1, UsersKept, CreateOnly, ConfirmOnly, PasswordOnly
    <3> QED
      BY <2>1, <3>1, <3>2
  <2> QED
    BY <2>2, <2>3, <2>4
<1> QED
  BY <1>1, <1>2 DEF RefusedOnlyAfterLogout

(* A client is refused a refresh only for the first account, and only after  *)
(* some account has logged out.                                              *)
THEOREM Refusals == Spec => []RefusedOnlyAfterLogout
<1>1. Init => RefusedOnlyAfterLogout
  BY DEF Init, RefusedOnlyAfterLogout
<1> QED
  BY <1>1, RefusalStep, AccountsInvariant, PTL DEF Spec

-----------------------------------------------------------------------------
(* Sign-ups.                                                               *)

\* The sign-up of the account goes on.
SigningUp(u) == \E r \in Requests : req[r].stage \in {"mail", "preference"} /\ req[r].id = u

LEMMA Without ==
    \A u : WithoutPreference(u) <=> preferences[u] = "none" /\ ~SigningUp(u)
BY DEF WithoutPreference, SigningUp

MissingMeansFailed == \A u \in Ids : WithoutPreference(u) => failed

\* What a step does about the sign-up of an account.
SignUpGoesOn(u) ==
    /\ preferences'[u] = "none" => preferences[u] = "none"
    /\ SigningUp(u) => SigningUp(u)' \/ preferences'[u] # "none"
    /\ WithoutPreference(u) => preferences'[u] = "none"

(* The request that moves was not signing up, and no preference is written.  *)
LEMMA GoesOnElsewhere ==
    ASSUME Requested, NEW r \in Requests, req[r].stage \notin {"mail", "preference"},
           \A x \in Requests \ {r} : req'[x] = req[x],
           UNCHANGED preferences, NEW u \in Ids
    PROVE  SignUpGoesOn(u)
BY Without DEF SignUpGoesOn, SigningUp

\* A step that writes the slot of its own request leaves the others.
LEMMA OthersStay ==
    ASSUME Requested, NEW r \in Requests, Step(r) \/ Throw(r)
    PROVE  \A x \in Requests \ {r} : req'[x] = req[x]
BY DEF Requested, Step, Throw, createUser, sendVerifyMail, createPreference,
       getAuthenticatedUser, updateRefreshToken, checkMail, markEmailConfirmed,
       comparePassword, writePassword, Finish, Goto

(* No step but a failure lets a sign-up of an account end without its        *)
(* preference.                                                               *)
LEMMA SigningUpStep ==
    ASSUME AInv, [Next]_vars
    PROVE  /\ \A u \in Ids : SignUpGoesOn(u) \/ (failed' /\ preferences' = preferences)
           /\ failed => failed'
           /\ \A u \in Ids' \ Ids : SigningUp(u)'
<1> USE DEF AInv
<1>r. req \in [Requests -> Request]
  BY DEF Requested
<1>1. ASSUME NEW r \in Requests, Throw(r)
      PROVE  failed' /\ UNCHANGED <<users, preferences>>
  BY <1>1 DEF Throw, dbVars
<1>2. ASSUME NEW r \in Requests, NEW n, Begin(r, n)
      PROVE  /\ failed' = failed /\ UNCHANGED <<users, preferences>>
             /\ \A u \in Ids : SignUpGoesOn(u)
  <2>1. failed' = failed /\ UNCHANGED <<users, preferences>>
    BY <1>2 DEF Begin, dbVars
  <2>2. req[r].stage = "idle" /\ \A x \in Requests \ {r} : req'[x] = req[x]
    BY <1>2, <1>r DEF Begin, At
  <2> QED
    BY <2>1, <2>2, GoesOnElsewhere
<1>3. ASSUME NEW r \in Requests, createUser(r)
      PROVE  /\ failed' = failed /\ \A u \in Ids : SignUpGoesOn(u)
             /\ \A u \in Ids' \ Ids : SigningUp(u)'
  <2>1. failed' = failed /\ req[r].stage = "create"
    BY <1>3 DEF createUser, At
  <2>2. \A x \in Requests \ {r} : req'[x] = req[x]
    BY <1>3, OthersStay DEF Step
  <2>3. ASSUME NEW u \in Ids PROVE SignUpGoesOn(u)
    <3>1. preferences'[u] = preferences[u]
      BY <1>3, CreateOnly
    <3>2. SigningUp(u) => SigningUp(u)'
      BY <2>1, <2>2 DEF SigningUp
    <3> QED
      BY <3>1, <3>2, Without DEF SignUpGoesOn
  <2>4. \A u \in Ids' \ Ids : SigningUp(u)'
    BY <1>3, CreateOnly DEF SigningUp
  <2> QED
    BY <2>1, <2>3, <2>4
<1>4. ASSUME NEW r \in Requests, sendVerifyMail(r)
      PROVE  /\ failed' = failed /\ UNCHANGED users /\ \A u \in Ids : SignUpGoesOn(u)
  <2>1. failed' = failed /\ UNCHANGED <<users, preferences>>
    BY <1>4 DEF sendVerifyMail, dbVars, history
  <2>2. \A x \in Requests \ {r} : req'[x] = req[x]
    BY <1>4, OthersStay DEF Step
  <2>3. req[r].id # 0 => req'[r].stage = "preference" /\ req'[r].id = req[r].id
    BY <1>4, <1>r DEF sendVerifyMail, Goto, Request
  <2>4. \A u \in Ids : u # 0
    BY LenProperties DEF Stored, Ids
  <2>5. \A u \in Ids : SigningUp(u) => SigningUp(u)'
    BY <2>2, <2>3, <2>4 DEF SigningUp
  <2> QED
    BY <2>1, <2>5, Without DEF SignUpGoesOn
<1>5. ASSUME NEW r \in Requests, createPreference(r)
      PROVE  /\ failed' = failed /\ UNCHANGED users /\ \A u \in Ids : SignUpGoesOn(u)
  <2>1. failed' = failed /\ UNCHANGED users /\ req[r].stage = "preference"
    BY <1>5 DEF createPreference, history, At
  <2>2. \A x \in Requests \ {r} : req'[x] = req[x]
    BY <1>5, OthersStay DEF Step
  <2>3. req[r].id \in Ids /\ Ids = DOMAIN preferences
    BY <2>1, LenProperties DEF Requested, Knows, Stored, Ids
  <2>4. \A u \in Ids : preferences'[u] = IF u = req[r].id THEN "new" ELSE preferences[u]
    BY <1>5, <2>3 DEF createPreference
  <2>5. SigningUp(req[r].id)
    BY <2>1 DEF SigningUp
  <2>6. \A u \in Ids : SigningUp(u) => SigningUp(u)' \/ u = req[r].id
    BY <2>2 DEF SigningUp
  <2> QED
    BY <2>1, <2>4, <2>5, <2>6, Without DEF SignUpGoesOn
<1>6. ASSUME NEW r \in Requests,
             \/ getAuthenticatedUser(r) \/ updateRefreshToken(r) \/ checkMail(r)
             \/ markEmailConfirmed(r) \/ comparePassword(r) \/ writePassword(r)
      PROVE  /\ failed' = failed /\ Ids' = Ids /\ \A u \in Ids : SignUpGoesOn(u)
  <2>1. failed' = failed /\ UNCHANGED preferences
    BY <1>6 DEF getAuthenticatedUser, updateRefreshToken, checkMail, markEmailConfirmed,
                comparePassword, writePassword, history, dbVars
  <2>2. req[r].stage \notin {"mail", "preference"}
    BY <1>6 DEF getAuthenticatedUser, updateRefreshToken, checkMail, markEmailConfirmed,
                comparePassword, writePassword, At
  <2>3. \A x \in Requests \ {r} : req'[x] = req[x]
    BY <1>6, OthersStay DEF Step
  <2>4. Ids' = Ids
    <3>1. CASE updateRefreshToken(r)
      <4>1. req[r].id \in Ids
        BY <3>1 DEF Requested, Knows, updateRefreshToken, At, Ids
      <4>2. users' = [users EXCEPT ![req[r].id] =
                        [users[req[r].id] EXCEPT !.refreshToken = TRUE]]
        BY <3>1 DEF updateRefreshToken
      <4> QED
        BY <4>1, <4>2, TokenWrite
    <3>2. CASE getAuthenticatedUser(r) \/ checkMail(r) \/ comparePassword(r)
      BY <3>2 DEF getAuthenticatedUser, checkMail, comparePassword, dbVars, Ids
    <3> QED
      BY <1>6, <3>1, <3>2, ConfirmOnly, PasswordOnly DEF SameConfirmations
  <2> QED
    BY <2>1, <2>2, <2>3, <2>4, GoesOnElsewhere
<1>7. ASSUME NEW v \in Ids, refresh(v) \/ logout(v)
      PROVE  /\ failed' = failed /\ Ids' = Ids /\ UNCHANGED <<preferences, req>>
  <2>1. CASE refresh(v)
    BY <2>1 DEF refresh, dbVars, history, Ids
  <2>2. CASE logout(v)
    <3>1. Ids' = Ids
      BY <2>2, FirstAccount, TokenWrite
    <3> QED
      BY <2>2, <3>1 DEF logout
  <2> QED
    BY <1>7, <2>1, <2>2
<1>8. ASSUME NEW v \in Ids, updatePreference(v)
      PROVE  /\ failed' = failed /\ UNCHANGED <<users, req>>
             /\ \A u \in Ids : preferences'[u] = "none" <=> preferences[u] = "none"
  <2>1. Ids = DOMAIN preferences
    BY LenProperties DEF Stored, Ids
  <2> QED
    BY <1>8, <2>1 DEF updatePreference, history
<1>9. \A u \in Ids : UNCHANGED req /\ (preferences'[u] = "none" <=> preferences[u] = "none")
                       => SignUpGoesOn(u)
  BY Without DEF SignUpGoesOn, SigningUp
<1>10. users' = users => Ids' = Ids
  BY DEF Ids
<1>11. CASE \E r \in Requests : Step(r) \/ Throw(r)
  BY <1>1, <1>3, <1>4, <1>5, <1>6, <1>10, <1>11 DEF Step
<1>12. CASE Clients \/ Editors
  <2>1. CASE \E r \in Requests : \E n : n.stage # "confirm" /\ Begin(r, n)
    BY <1>2, <1>10, <2>1
  <2>2. CASE \E u \in Ids : refresh(u) \/ logout(u) \/ updatePreference(u)
    BY <1>7, <1>8, <1>9, <1>10, <2>2
  <2>3. CASE UNCHANGED vars
    BY <1>9, <1>10, <2>3 DEF vars, dbVars, history
  <2> QED
    BY <1>12, <2>1, <2>2, <2>3, ClientSteps
<1>13. CASE UNCHANGED vars
  BY <1>9, <1>10, <1>13 DEF vars, dbVars, history
<1> QED
  BY <1>11, <1>12, <1>13 DEF Next

LEMMA MissingStep == AInv /\ MissingMeansFailed /\ [Next]_vars => MissingMeansFailed'
<1> SUFFICES ASSUME AInv, MissingMeansFailed, [Next]_vars, NEW u \in Ids',
                    WithoutPreference(u)'
             PROVE  failed'
  BY DEF MissingMeansFailed
<1>1. preferences'[u] = "none" /\ ~SigningUp(u)'
  BY Without DEF WithoutPreference, SigningUp
<1>2. u \in Ids /\ (SignUpGoesOn(u) \/ failed')
  BY <1>1, SigningUpStep
<1>3. SignUpGoesOn(u) => WithoutPreference(u)
  BY <1>1, Without DEF SignUpGoesOn
<1> QED
  BY <1>2, <1>3, SigningUpStep DEF MissingMeansFailed

(* A sign-up that stored its account creates the preference, or something    *)
(* has failed; an account that is left without one stays without.            *)
THEOREM Completed == Spec => SignUpIsCompleted
<1>1. Init => MissingMeansFailed
  BY DEF Init, MissingMeansFailed, Ids
<1>2. ASSUME AInv, MissingMeansFailed, Next
      PROVE  /\ \A u \in Ids : WithoutPreference(u) => preferences'[u] = "none"
             /\ \A u \in Ids' : WithoutPreference(u)' => failed'
  <2>1. ASSUME NEW u \in Ids, WithoutPreference(u) PROVE preferences'[u] = "none"
    BY <1>2, <2>1, SigningUpStep, Without DEF SignUpGoesOn
  <2>2. MissingMeansFailed'
    BY <1>2, MissingStep
  <2> QED
    BY <2>1, <2>2 DEF MissingMeansFailed
<1>3. AInv /\ MissingMeansFailed /\ [Next]_vars =>
        [/\ \A u \in Ids : WithoutPreference(u) => preferences'[u] = "none"
         /\ \A u \in Ids' : WithoutPreference(u)' => failed']_vars
  BY <1>2
<1> QED
  BY <1>1, <1>3, MissingStep, AccountsInvariant, PTL DEF Spec, SignUpIsCompleted

-----------------------------------------------------------------------------
(* Confirmations.                                                          *)

\* Of requests that never overlap one is in flight at a time, and the account
\* that it is about to confirm is not confirmed.
Confirming ==
    \A r \in Requests : At(r, "confirm") =>
        \A u \in Ids : users[u].email = req[r].email => users[u].confirmed = 0

OneAtATime ==
    ~overlapped => (\A x, y \in InFlight : x = y) /\ Confirming

\* A step leaves links and overlaps as they are or adds to them.
LEMMA Accumulated ==
    ASSUME [Next]_vars
    PROVE  mailed \subseteq mailed' /\ (overlapped => overlapped')
<1> USE DEF vars, clientVars, history
<1>1. ASSUME NEW r \in Requests, Step(r) \/ Throw(r)
      PROVE  mailed \subseteq mailed' /\ (overlapped => overlapped')
  BY <1>1 DEF Step, Throw, createUser, sendVerifyMail, createPreference,
              getAuthenticatedUser, updateRefreshToken, checkMail, markEmailConfirmed,
              comparePassword, writePassword
<1>2. ASSUME NEW r \in Requests, NEW n, Begin(r, n)
      PROVE  mailed \subseteq mailed' /\ (overlapped => overlapped')
  BY <1>2 DEF Begin
<1>3. ASSUME NEW u \in Ids, refresh(u) \/ logout(u) \/ updatePreference(u)
      PROVE  mailed \subseteq mailed' /\ (overlapped => overlapped')
  BY <1>3 DEF refresh, logout, updatePreference
<1> QED
  BY <1>1, <1>2, <1>3, ClientSteps DEF Next

(* Only a sign-up and a confirmation write addresses or confirmations.       *)
LEMMA ConfirmationsKept ==
    ASSUME AInv, [Next]_vars,
           \A r \in Requests : ~createUser(r) /\ ~markEmailConfirmed(r)
    PROVE  SameConfirmations
<1>1. ASSUME NEW r \in Requests, updateRefreshToken(r) PROVE SameConfirmations
  <2>1. req[r].id \in Ids
    BY <1>1 DEF AInv, Requested, Knows, updateRefreshToken, At, Ids
  <2>2. users' = [users EXCEPT ![req[r].id] = [users[req[r].id] EXCEPT !.refreshToken = TRUE]]
    BY <1>1 DEF updateRefreshToken
  <2> QED
    BY <2>1, <2>2, TokenWrite DEF AInv, SameConfirmations
<1>2. ASSUME NEW u \in Ids, logout(u) PROVE SameConfirmations
  BY <1>2, FirstAccount, TokenWrite DEF AInv, SameConfirmations
<1>3. CASE users' = users
  BY <1>3 DEF SameConfirmations, Ids
<1> QED
  BY <1>1, <1>2, <1>3, PasswordOnly, UsersKept

(* While requests do not overlap, a step is of the one in flight, or begins  *)
(* one, or leaves them.                                                      *)
LEMMA TheRequest ==
    ASSUME AInv, OneAtATime, [Next]_vars, ~overlapped'
    PROVE  \/ \E r \in Requests : /\ Step(r) \/ Throw(r)
                                  /\ InFlight = {r} /\ InFlight' \subseteq {r}
           \/ \E r \in Requests : \E n : /\ n.stage # "confirm" /\ Begin(r, n)
                                         /\ InFlight' \subseteq {r}
           \/ UNCHANGED req /\ \A r \in Requests : ~Step(r) /\ ~Throw(r)
<1> USE DEF InFlight, At
<1>o. ~overlapped /\ \A x, y \in InFlight : x = y
  BY Accumulated DEF OneAtATime
<1>1. ASSUME NEW r \in Requests, Step(r) \/ Throw(r)
      PROVE  InFlight = {r} /\ InFlight' \subseteq {r}
  <2>1. req[r].stage # "idle"
    BY <1>1 DEF Step, Throw, createUser, sendVerifyMail, createPreference,
                getAuthenticatedUser, updateRefreshToken, checkMail, markEmailConfirmed,
                comparePassword, writePassword
  <2>2. InFlight = {r}
    BY <1>o, <2>1
  <2> QED
    BY <1>1, <2>2, OthersStay DEF AInv
<1>2. ASSUME NEW r \in Requests, NEW n, Begin(r, n) PROVE InFlight' \subseteq {r}
  <2>1. InFlight = {} /\ req' = [req EXCEPT ![r] = n] /\ req \in [Requests -> Request]
    BY <1>2 DEF Begin, AInv, Requested
  <2> QED
    BY <2>1
<1>3. ASSUME NEW u \in Ids, refresh(u) \/ logout(u) \/ updatePreference(u)
      PROVE  UNCHANGED req
  BY <1>3 DEF refresh, logout, updatePreference
<1> QED
  BY <1>1, <1>2, <1>3, ClientSteps DEF Next, vars

(* A request is about to confirm because it was, or because it has just      *)
(* found its account unconfirmed.                                            *)
LEMMA AboutToConfirm ==
    ASSUME AInv, OneAtATime, [Next]_vars, ~overlapped', NEW r \in Requests,
           At(r, "confirm")'
    PROVE  /\ SameConfirmations /\ req'[r].email = req[r].email
           /\ \A u \in Ids : users[u].email = req[r].email => users[u].confirmed = 0
<1> USE DEF InFlight, At
<1>q. req[r] \in Request
  BY DEF AInv, Requested
<1>1. CASE \E x \in Requests : /\ Step(x) \/ Throw(x)
                               /\ InFlight = {x} /\ InFlight' \subseteq {x}
  <2>1. Step(r) \/ Throw(r)
    BY <1>1
  <2>2. checkMail(r)
    <3>1. Finish(r) => ~At(r, "confirm")'
      BY DEF Finish, Idle, Handler, AInv, Requested
    <3>2. ASSUME NEW s, s # "confirm", Goto(r, s) PROVE ~At(r, "confirm")'
      <4> DEFINE n == [req[r] EXCEPT !.stage = s]
      <4>1. n.stage = s
        BY <1>q DEF Request
      <4>2. req' = [req EXCEPT ![r] = n]
        BY <3>2 DEF Goto
      <4> HIDE DEF n
      <4> QED
        BY <3>2, <4>1, <4>2 DEF AInv, Requested
    <3>3. ASSUME NEW s, s # "confirm", NEW k, req' = [req EXCEPT ![r].stage = s, ![r].id = k]
          PROVE  ~At(r, "confirm")'
      <4> DEFINE n == [req[r] EXCEPT !.stage = s, !.id = k]
      <4>1. n.stage = s
        BY <1>q DEF Request
      <4>2. req' = [req EXCEPT ![r] = n]
        BY <3>3
      <4> HIDE DEF n
      <4> QED
        BY <3>3, <4>1, <4>2 DEF AInv, Requested
    <3>4. ~createUser(r) /\ ~getAuthenticatedUser(r)
      BY <3>1, <3>3 DEF createUser, getAuthenticatedUser
    <3> HIDE DEF At
    <3>5. ~sendVerifyMail(r) /\ ~comparePassword(r)
      BY <3>1, <3>2 DEF sendVerifyMail, comparePassword
    <3>6. /\ ~createPreference(r) /\ ~updateRefreshToken(r) /\ ~markEmailConfirmed(r)
          /\ ~writePassword(r) /\ ~Throw(r)
      BY <3>1 DEF createPreference, updateRefreshToken, markEmailConfirmed, writePassword, Throw
    <3> QED
      BY <2>1, <3>4, <3>5, <3>6 DEF Step
  <2>3. users' = users
    BY <2>2 DEF checkMail, dbVars
  <2>4. HasAccount(req[r].email)
    BY <2>2 DEF checkMail, AInv, Stored, Requested, Knows
  <2>5. ~(users[AccountOf(req[r].email)].confirmed > 0) /\ Goto(r, "confirm")
    BY <1>q, <2>2 DEF checkMail, Finish, Idle, Handler, AInv, Requested
  <2>6. users[AccountOf(req[r].email)] \in User
    BY <2>4, TheAccount, LenProperties, ElementOfSeq DEF AInv, Stored, Ids
  <2>7. users[AccountOf(req[r].email)].confirmed = 0
    BY <2>5, <2>6 DEF User
  <2>8. \A u \in Ids : users[u].email = req[r].email => u = AccountOf(req[r].email)
    BY <2>4, TheAccount DEF AInv, Stored
  <2>9. req'[r].email = req[r].email
    BY <1>q, <2>5 DEF Goto, AInv, Requested
  <2> QED
    BY <2>3, <2>7, <2>8, <2>9 DEF SameConfirmations, Ids
<1>2. ASSUME NEW x \in Requests, NEW n, n.stage # "confirm", Begin(x, n),
             InFlight' \subseteq {x}
      PROVE  FALSE
  <2>1. req'[x] = n
    BY <1>2 DEF Begin, AInv, Requested
  <2> QED
    BY <1>2, <2>1
<1>3. CASE UNCHANGED req /\ \A x \in Requests : ~Step(x) /\ ~Throw(x)
  BY <1>3, Accumulated, ConfirmationsKept DEF Step, OneAtATime, Confirming
<1> QED
  BY <1>1, <1>2, <1>3, TheRequest

LEMMA OneAtATimeStep == AInv /\ OneAtATime /\ [Next]_vars => OneAtATime'
<1> SUFFICES ASSUME AInv, OneAtATime, [Next]_vars, ~overlapped'
             PROVE  (\A x, y \in InFlight : x = y)' /\ Confirming'
  BY DEF OneAtATime
<1>1. (\A x, y \in InFlight : x = y)'
  BY TheRequest, Accumulated DEF OneAtATime, InFlight, At
<1>2. Confirming'
  BY AboutToConfirm DEF Confirming, SameConfirmations
<1> QED
  BY <1>1, <1>2

LEMMA ConfirmedStep == AInv /\ OneAtATime /\ ConfirmedOnce /\ [Next]_vars => ConfirmedOnce'
<1> SUFFICES ASSUME AInv, OneAtATime, ConfirmedOnce, [Next]_vars, NEW u \in Ids'
             PROVE  /\ users'[u].confirmed > 0 => users'[u].email \in mailed'
                    /\ ~overlapped' => users'[u].confirmed <= 1
  BY DEF ConfirmedOnce
<1>1. ASSUME NEW r \in Requests, createUser(r)
      PROVE  /\ users'[u].confirmed > 0 => users'[u].email \in mailed'
             /\ ~overlapped' => users'[u].confirmed <= 1
  BY <1>1, CreateOnly, Accumulated DEF ConfirmedOnce
<1>2. ASSUME NEW r \in Requests, markEmailConfirmed(r)
      PROVE  /\ users'[u].confirmed > 0 => users'[u].email \in mailed'
             /\ ~overlapped' => users'[u].confirmed <= 1
  <2>1. req[r].email \in mailed /\ At(r, "confirm")
    BY <1>2 DEF markEmailConfirmed, At, AInv, Requested, Knows
  <2>2. ~overlapped' =>
          \A v \in Ids : users[v].email = req[r].email => users[v].confirmed = 0
    BY <2>1, Accumulated DEF OneAtATime, Confirming
  <2> QED
    BY <1>2, <2>1, <2>2, ConfirmOnly, Accumulated DEF ConfirmedOnce
<1>3. CASE SameConfirmations
  BY <1>3, Accumulated DEF ConfirmedOnce, SameConfirmations
<1> QED
  BY <1>1, <1>2, <1>3, ConfirmationsKept

(* For any number of links, an account is confirmed once while requests do   *)
(* not overlap, and never without a link.                                    *)
THEOREM Confirmations == Spec => []ConfirmedOnce
<1>1. Init => OneAtATime /\ ConfirmedOnce
  BY DEF Init, OneAtATime, Confirming, ConfirmedOnce, InFlight, At, Idle, Handler, Ids
<1> QED
  BY <1>1, OneAtATimeStep, ConfirmedStep, AccountsInvariant, PTL DEF Spec

-----------------------------------------------------------------------------
(* The type invariant: what AInv does not say of it.                       *)

RestTypes ==
    /\ bounds \in Bounds /\ refused \subseteq Ids
    /\ loggedOut \in BOOLEAN /\ overlapped \in BOOLEAN /\ failed \in BOOLEAN

\* No step removes an account.
LEMMA AccountsStay ==
    ASSUME AInv, [Next]_vars
    PROVE  Ids \subseteq Ids'
<1>1. ASSUME NEW r \in Requests, createUser(r) \/ markEmailConfirmed(r) PROVE Ids \subseteq Ids'
  BY <1>1, CreateOnly, ConfirmOnly
<1>2. CASE \A r \in Requests : ~createUser(r) /\ ~markEmailConfirmed(r)
  BY <1>2, ConfirmationsKept DEF SameConfirmations
<1> QED
  BY <1>1, <1>2

\* The bounds stay, and the history is made of yes and no.
LEMMA HistoryTyped ==
    ASSUME RestTypes, [Next]_vars
    PROVE  /\ bounds' = bounds
           /\ loggedOut' \in BOOLEAN /\ overlapped' \in BOOLEAN /\ failed' \in BOOLEAN
<1> USE DEF RestTypes, history
<1>1. ASSUME NEW r \in Requests, Step(r) \/ Throw(r)
      PROVE  /\ bounds' = bounds
             /\ loggedOut' \in BOOLEAN /\ overlapped' \in BOOLEAN /\ failed' \in BOOLEAN
  BY <1>1 DEF Step, Throw, createUser, sendVerifyMail, createPreference, getAuthenticatedUser,
     updateRefreshToken, checkMail, markEmailConfirmed, comparePassword, writePassword
<1>2. ASSUME NEW r \in Requests, NEW n, Begin(r, n)
      PROVE  /\ bounds' = bounds
             /\ loggedOut' \in BOOLEAN /\ overlapped' \in BOOLEAN /\ failed' \in BOOLEAN
  BY <1>2 DEF Begin
<1>3. ASSUME NEW u \in Ids, refresh(u) \/ logout(u) \/ updatePreference(u)
      PROVE  /\ bounds' = bounds
             /\ loggedOut' \in BOOLEAN /\ overlapped' \in BOOLEAN /\ failed' \in BOOLEAN
  BY <1>3 DEF refresh, logout, updatePreference
<1> QED
  BY <1>1, <1>2, <1>3, ClientSteps DEF Next, vars

(* Accounts stay typed, and whoever has tokens or was refused one is an      *)
(* account: for any addresses, requests and failures.                        *)
THEOREM AccountTypes == Spec => []TypeOK
<1>1. Init => RestTypes
  BY DEF Init, RestTypes
<1>2. AInv /\ RestTypes /\ [Next]_vars => RestTypes'
  <2> SUFFICES ASSUME AInv, RestTypes, [Next]_vars PROVE RestTypes'
    OBVIOUS
  <2>1. refused' \subseteq Ids'
    <3>1. ASSUME NEW u \in Ids, refresh(u) PROVE refused' \subseteq Ids
      BY <3>1 DEF refresh, RestTypes
    <3>2. refused' = refused => refused' \subseteq Ids
      BY DEF RestTypes
    <3> QED
      BY <3>1, <3>2, AccountsStay, ClientsKept
  <2> QED
    BY <2>1, HistoryTyped DEF RestTypes
<1>3. AInv /\ RestTypes => TypeOK
  <2> SUFFICES ASSUME AInv, RestTypes PROVE TypeOK
    OBVIOUS
  <2>1. DOMAIN preferences = Ids /\ preferences \in [Ids -> Preference]
    BY LenProperties DEF AInv, Stored, Ids
  <2>2. ASSUME NEW e \in mailed PROVE e \in Emails
    <3>1. PICK u \in Ids : users[u].email = e
      BY <2>2 DEF AInv, Stored, HasAccount
    <3>2. users[u] \in User
      BY LenProperties, ElementOfSeq DEF AInv, Stored, Ids
    <3> QED
      BY <3>1, <3>2 DEF User
  <2> QED
    BY <2>1, <2>2 DEF AInv, Stored, Requested, RestTypes, TypeOK
<1> QED
  BY <1>1, <1>2, <1>3, AccountsInvariant, PTL DEF Spec
=============================================================================
