# A TLA+ model of the dating API

The repository is a NestJS server: REST controllers and one socket.io gateway
over MongoDB. All state that outlives a request is in MongoDB, except the map of
connected sockets, the rooms and a few timers, which are in the process. There are
no transactions and no locks: every handler is a sequence of single-document (or
single-command) operations with an `await` between them, and the handlers of all
users interleave at every `await`. What is atomic in the models is therefore one
database command or one synchronous stretch of a handler, never a handler.

Paths below are relative to `src/src/modules/`.

## 1. Inventory

| Component | State | Operations | What makes it correct |
|---|---|---|---|
| Socket registry and rooms (`gateway/gateway.session.ts`, `gateway/gateway.adapter.ts`, hooks and rooms of `gateway/gateway.ts`) | a `Map` from user to one socket; the rooms of each socket | connect, disconnect, lookup, join, emit | the Map only holds connected sockets of the right user; a room has only participants, and a socket hears of all its conversations |
| Call signalling (`gateway.ts` 342-458) | a two-second timer per unanswered call | init, accept, reject, hang up | both ends learn how a call begins and ends |
| Likes and matches (`user-like`, `user-match`, `gateway.createUserLike`) | `user-likes`, `user-matches` | socket like, REST like, match | a pair is matched once, only on mutual likes, completely, and told when everything is stored |
| Conversations and participants (`conversation`, `participant`) | `lastMessage`; `timeJoined`, `timeLeft` per participant | create, list, leave, rejoin | a deleted conversation stays deleted until a new message, its history for good |
| Messages (`message`, `message-attachment`) | messages with `createdAt` and `active`, attachments | send, edit, delete, list | a message is shown to those it is for; `lastMessage` is the newest one |
| Administered catalogues (`gender`, `passion`, `relationship-type`, `premium-package`) | documents with a generated code, a unique key and a flag | create, update, status, delete, page | codes are unique and grow, one default relationship type, at most four active packages, pages miss nothing |
| Notifications (`notification`, `notification-object`) | notifications with a code, one object per recipient | create, activate, read, delete | an activation reaches every recipient and marks nothing else; codes are unique |
| Payments (`payment`, `user-premium-package`) | charges (external), granted packages | charge, grant, notify | no package without charge, no charge without package |
| Accounts (`auth`, `mail`, `user-preference`, parts of `users`) | users, refresh tokens, preferences, mail links | sign up/in/out, confirm, refresh, change password | an account is usable or absent, a confirmation is made once, a log-out ends its own session |
| Profiles (`users.createProfile`, `updateProfile`, `user-gender`, `interested-in-gender`, photos) | the parts of a profile, a customer at Stripe | create, update, photos | the parts agree with each other, also after a repetition or a failure |
| Explore (`users.getUsersExplore`, `user-discard`) | none of its own | who is proposed, discard | nobody already liked or discarded, nor oneself; everybody else has a chance |
| Roles and guards, block-user, upload, base, bootstrap | none, or a schema without operations | - | - |

**How they interact.** The gateway calls the services directly; the REST
controllers call the same services without telling the gateway. `createUserLike`
spans likes, matches, conversations, participants, notifications and the socket
registry. Sending a message spans messages, attachments, participants, the
conversation and a room. Calls look users up in the registry and conversations in
the database. Explore reads what profiles and likes have written. Payments and the
activation of a notification reach the gateway through in-process events
(`EventEmitter2`), whose listeners nobody awaits. Emits go to one socket (through
the Map) or to a room (`conversationId`), which a socket joins on
`REQUEST_ALL_CONVERSATIONS` and in no other way.

**What is hard.** Checks in one operation and writes in another (defaults,
active packages, codes, opposite likes, confirmations); values captured before an
`await` and used after it (the peer's socket, `existingLiked`, the instants
`timeJoined` and `timeLeft`, the client's copy of `lastMessage`, what explore
excludes); `Promise.all` whose members go on after one of them failed; handlers
that stop in the middle, and that are repeated (profiles, payments); filters that
name no path of the schema and are dropped; restarts that empty the Map, the rooms
and the timers; a second device that overwrites the first. `PROJECT.json` lists
them under `hazards` at their lines with the properties that cover them, and say where
one covers a part only, or none: then the code does what the hazard says. Two are
not listed there: `users.service.ts:251` builds the deletion of an account as a query that
nobody awaits, so nothing is deleted (`deleteAccount` in `Accounts` says so), and an
accept that crosses the hang-up of its caller leaves the acceptor in a call that its
caller has given up.

## 2. Plan

| Module | Extends | Models |
|---|---|---|
| `Sessions` | - | the registry of sockets and its two hooks |
| `Rooms` | `Sessions` | conversations, participants, the joins and the emits to rooms |
| `Calls` | `Rooms` | call signalling, on top of both: the whole real-time side |
| `Matching` | `Sessions` | `CREATE_USER_LIKE` with every service call; implements `MatchPromise` |
| `MatchPromise` | - | abstract: likes accumulate, a pair is matched once and mutually |
| `Chat` | - | one conversation and its messages |
| `Catalogue`, `PremiumPackages`, `Browsing` | each the one before | the administered collections, the status of packages, the paged lists |
| `Notifications`, `Payments` | the second the first | notifications; payments and the notification each is followed by |
| `Accounts` | - | accounts, sessions, confirmations, passwords, preferences |
| `Profiles`, `Explore` | the second the first | profiles; who is proposed to whom |
| `SessionsProofs`, `RealtimeProofs`, `MatchingProofs`, `CatalogueProofs`, `ChatProofs`, `PaymentsProofs`, `AccountsProofs`, `ProfilesProofs` | the modules they are about | theorems |

`Calls` and `Rooms` came with the registry as one composition because a restart, a
close or a second device is what goes wrong in all three at once. The abstract specifications are
`MatchPromise` (for `Matching`) and `Sessions` itself, which the gateway of `Calls` is
proved to implement.

Every safety invariant and action property of the passing runs is now a theorem.
Next, in this order:

1. An abstract specification of payments (what is paid, granted and noticed, each
   following the one before), which `Payments` implements; `PaidIsGranted` and
   `NoticePerPackage` are most of its proof.
2. Shorter proofs: `PaymentsProofs` and `CatalogueProofs` have one lemma per action and
   invariant, and some of them only say what an action leaves alone.

## 3. The modules

What a behaviour may do is often chosen once, in `Init`, from a constant `Bounds` or
`Worlds` (`bounds`, `world`): one run then covers several sizes that would be too
large together. A request in flight is a record in `req` with the `stage` it is at:
what it awaits. One action is one database operation with the stretch of the handler that
follows it. The process ids of requests stand for free slots.

### Sessions, Rooms and Calls

`sessions` is `GatewaySessionManager`'s Map, `live` the sockets that are
connected. `handleConnection` and `handleDisconnect` are the hooks of the gateway
(lines 103-111); each is synchronous, hence one action. The authentication
middleware of the adapter runs before the hook and puts the user on the socket: it
is the constant `owner`. (It also lets in a valid token of a user that is not stored any
more, `auth.service.ts` 113-122; nothing deletes a user, see `deleteAccount`.) A restart empties both. A socket connects once between
two restarts because socket.io ids are fresh; the bound is the set `Sockets`. After
its close a socket of the model may connect again: it then stands for another
socket of the same user.

| Action of `Rooms` | Code |
|---|---|
| `connect`, `disconnect`, `restart` | the hooks, with the rooms that socket.io forgets |
| `requestAllConversations` | the event; both finds are issued (`gateway.ts` 113-130) |
| `getByUserId`, `getByUserIdIncludeConversationDeleted` | the answers, in any order |
| `sendAllConversations` | the continuation: `join` and the emit (132-136) |
| `createConversation`, `createParticipant`, `createParticipantFails` | `POST /conversations`: the conversation, then both inserts of `Promise.all` |
| `deleteConversation`, `sendMessage`, `typingMessage`, `toggleMic` | what they do to rooms; `emitted` is the event and whom it reached |

`Calls` adds the events of a call. What clients show is external state: `ringing`,
`talking`, `unavailable`. `waiting` counts the timers of `handleCallInit` that run for a
socket: nothing keeps a client from calling again while one runs, or from calling
anybody, and no timer is cancelled; its event names no call, so it may end a later
one (`NoticeFitsTheCall` says when). `accepting` are the accepts whose conversation is being looked up, `checkConversation` and
`emitAccepted` the two halves of `handleCallAccepted`. `isCreated` is `created # {}`:
the filter names `participants`, a virtual of the schema, and `strictQuery` drops
it, so any conversation lets an accept through and none refuses it. When there are
calls in a behaviour (`bounds.calls`, who may call whom), there may be a conversation
from the start, of users who call each other or not; the rooms are then left aside, and
conversely. `Served` is what `Rooms` does, seen by calls: screens and timers of sockets
that close are gone. `offline`, `again` and `doubled` are history variables.

### Matching

The stages of a request follow `createUserLike` (`gateway.ts` 461-513):

| Stage and action | Code |
|---|---|
| `createUserLike` | the event arrives on a connected socket |
| `checkExistingLike` | `findOne` of the opposite like, line 469 |
| `createLike`, `createLikeDuplicate` | the insert, line 475; the unique index on `{user, userLiked}` |
| `afterLike` | the continuation: the peer's socket is looked up *here* (477), and the `Promise.all` is issued (481) when the like was mutual |
| `createConversation`, `createParticipant` | `conversationService.create`: the conversation, then both participants in any order |
| `createMatch` | `userMatchService.create`; the unique index on the *ordered* pair rejects a duplicate |
| `afterMatch` | the `Promise.all` has settled |
| `createNotificationMatched`, `createNotificationObjects` | the two `insertMany` of the notification service |
| `emitMatched` | the emits; one on a closed socket reaches nobody |

`pending` is the set of operations of the `Promise.all` that have been issued and
not applied, and `rejected` says that one of them failed: the handler throws once
they have settled, but the others are still applied (a rejected `Promise.all`
cancels nothing). In the code the handler throws *at* the rejection; the model
ends the request when the rest has settled as well, so that the slot of the
request stands for everything that is still running on its behalf. Nothing
observable lies between the two. `restCreateLike` is `POST /user-likes`, which
neither looks for the opposite like nor matches. Faults: `Throw` (an operation of
a sequential stage fails), `insertManyFails` (an ordered `insertMany` stops at the
second document), `rejectOne` (an operation of the `Promise.all`), `Restart`.

`MatchPromise` is the abstract specification: likes accumulate, and a pair is
matched at most once, unordered, and only when both like each other. The
refinement mapping turns each ordered document of `user-matches` into a set:

    Promise == INSTANCE MatchPromise WITH matched <- {{m[1], m[2]} : m \in matches}

### Catalogue, PremiumPackages and Browsing

The four services are one design: look whether another document has the key; for
a relationship type that is to be the default, look whether another one is;
read the document with the greatest `_id`; derive the next code; insert. Each
`await` is a step. The world says which of them the collection is, and what is in
it: default checks exist for `"relationship"`, the status route for
`"package"`. `newDocument` is separate from `insert` because the driver generates
the `_id` when the document is made and the server applies the insert later: two
creates may be applied in the other order of their ids. A code is its number: the
services format `GT007` and parse the number back with `split` and `parseInt`, and
the two are inverse to each other for every number (padding is only a minimum
width). `UniqueIndexes` are the two unique indexes, which decide when the write is
applied.

A search is the set of keys it matches. For packages those are their code and
description: `getAdminAll` also asks for a `name`, which is no path of their schema, and
`strictQuery` takes that arm of the `$or` out.

`Browsing` adds one administrator who pages through the collection: `find` is the
read of a page and `countDocuments` the second operation, after which the
administrator goes on as long as the answer says there is another page. Two of the
services count the whole collection instead of the matches (`TotalPage`): the
administrator then sees empty pages, and misses nothing by it.

### Chat

One conversation with its participants. `deleteConversation` sets `timeLeft`;
the next message sets `timeJoined` for everybody who has left and clears
`timeLeft` (`participant.service.ts` 60-91); a participant is shown messages
created at or after `timeJoined`. The process takes each instant when it *issues*
an operation (`new Date()`, or the timestamps plugin for `createdAt`), and the
database applies the operation later, so every request carries its instant in
`at`. A message is its position in the order of storage, which is the order in
which `find` without a sort returns the documents of a collection that nothing is
removed from (messages are only deactivated); `First` relies on that. Attachments
are stored by `createMany` after their message, and before the participants are
rejoined. `updateMany` changes its documents one by one in MongoDB; it is one step here
because every property is about one participant at a time and no participant's
update reads another's. `everLast` is a history variable: the values `lastMessage`
has had, one of which a client may still hold and send along with `deleteMessage`.

`requestAllMessages` and `deleteMessage` share their reads: `getParticipants` takes the
`timeJoined` of who asks, `fetchMessages` the list from that instant on, and
`emitMessages` sends it, by `deleteMessage` to the receiver as well, whose own
`timeJoined` nobody has looked at (`ListsLeaveDeletedOut` says what follows). `gone` is a history variable: the
messages that a participant deleted with the conversation, namely those older than the
delete, but for what a rejoin that is already under way brings back with it.

### Notifications and Payments

| Action | Code |
|---|---|
| `create`, `createNotificationMatched` | the handler begins, with its recipients |
| `getCode` | the notification with the greatest `_id` is read, its code plus one kept |
| `newDocuments`, `insert` | the ids are made in the process; the documents are stored later |
| `createMany` | the `insertMany` of the objects |
| `active`, `activate`, `updateStatusByNotificationId` | the administrator's request; the notification is marked; its objects are marked |
| the stage `"tell"` | the listener of the activation reads the recipients and emits to the sockets they have by then |
| the actions on `isRead` | the three routes of a recipient |
| `inActive`, `delete`, `deleteObject`, `deleteAll` | single operations |
| `createCharge`, `createOrder` | `POST payments/charge`; `POST user-premium-packages` |
| `charge` | Stripe's answer to `paymentIntents.create` |
| `grant` | the package is stored, the event emitted, and the listener begun in the same tick |

The listener of a payment (`gateway.ts` 536-562) runs after the response and nobody
awaits it. Under Node 16 a rejection that nobody handles ends the process, so a
failing operation of a request of type `PAYMENT` is not `Throw` but `Restart`.
That a charge was made but its answer lost is `charge` followed by `Throw`. A code
is its number, formatted and parsed as the catalogues' are. `paid` is external:
the charges Stripe has made, and the PayPal orders clients have reported, which the
server takes at their word. `deleted`, `overlapped` and `failed` are history
variables.

### Accounts

An account is its position in `users`: documents are found in the order they were
stored, and none is ever removed. That order matters to one operation:
`removeRefreshToken` filters on the virtual `id`, which `strictQuery` drops, so it
updates the first account. A hash is its password, and a refresh token is only
stored or not, as bcrypt compares the first 72 bytes, in which all tokens of an
account agree.

| Actions | Code |
|---|---|
| `signUp`, `createUser`, `sendVerifyMail`, `createPreference` | both sign-up routes (`auth.service.ts` 42-76) |
| `resendVerifyMail`, `verifyMail`, `checkMail`, `markEmailConfirmed` | `mail.service.ts`; a link may have expired |
| `signIn`, `getAuthenticatedUser`, `updateRefreshToken` | the local strategy and both sign-in routes |
| `refresh`, `logout` | `getByRefreshToken`, `removeRefreshToken` |
| `updatePassword`, `comparePassword`, `writePassword` | `auth.service.ts` 120-149 |
| `updatePreference` | `user-preference` |
| `deleteAccount` | `users.service.ts` 250-252: the query is neither awaited nor returned, so it is never sent |

### Profiles and Explore

`createProfile` makes a customer at Stripe (`customers`, external), issues the
photos, the gender and the interests together (`Operations`), and writes the document
of the user when all are done (`applied`). `rejectOne` lets one of them fail while
the others go on; `Throw` stops a handler elsewhere, also after Stripe has made the
customer. `updateProfile` writes the first gender and the fields; its `lastName` may also be
null, which `@IsOptional` lets through, so a profile can leave what explore shows again
(`Names`). `chosen` and `renamed` are history variables. `bounds.members` have been through `createProfile`
before the behaviour begins.

`Explore` extends it with `getUsersExplore`: two finds in any order (`readExclude`),
the count, the random offset and the page (`find`), and the likes and discards that
a user makes of those on its screen. `before` and `counted` of a lookup are history: whom
the finds should exclude, and whom the count counted. Users are numbers, in the order of their
documents, which is the order of a `find` without a sort.

### Type invariants

Every module that has variables states what they are (`TypeOK`, or `SessTypeOK`, `RoomsTypeOK`, `NoteTypeOK`,
`PayTypeOK`, `ProfileTypeOK`, `BrowseTypeOK` for a module that others extend). They are
proved for all values of the constants (section 5), each with what it needs to be
inductive; the run `matching` also checks that of `Matching`.

## 4. The runs

| Run | Instances | Shows |
|---|---|---|
| `realtime` | 3 users, one of whom has two devices; six bounds: calls from or to the user with two devices, to somebody who is there or nobody, two timers each; calls both ways with failures, with a conversation and without any, also to oneself; and the rooms of one conversation on two devices with failures, or of two conversations | the Map only holds connected sockets of the right user, only overlapping connections make somebody unreachable; room events reach participants only and joins miss no older conversation; who is told of an accept, a hang-up or an absent user |
| `matching` | 2 users, 2 requests, 2 conversations, faults | the safety of matching and the refinement of `MatchPromise` |
| `matching_calm` | the same without faults, 1 conversation, fair | a like that saw its opposite ends in a whole match, of which both are notified |
| `catalogue` | five worlds: overlapping creates; one request at a time with deletes on relationship types and on packages; pages read next to one request with deletes, and next to two creates | codes stay gapless, a lone create never collides, one default, four active packages, paging misses nothing |
| `strangers` | 1 call between users whose only conversation is with others (violation) | an accept is told to both although the two share no conversation |
| `two_defaults` | 2 requests on relationship types (violation) | two overlapping requests make two defaults |
| `chat` | 2 participants; one request, two messages with attachments; two requests, one message with attachments, faults; two requests, one message, no faults; fair | deleted history is not among the messages of its user again, the last message is the newest, only the own delete hides, a stored message brings the conversation back; a list is right for those who had the conversation back when it begins |
| `chat_rejoin` | 1 request (violation) | a message that brings a conversation back need not be shown |
| `notifications` | 2 users; two requests over two ids with a payment; one request over three ids; two payments; reads | codes, orphaned objects, activation, and that charges, packages and notices agree |
| `accounts` | 1 account and two requests; 2 accounts and one request; 2 accounts that sign up, in and out with two requests; faults in all | preferences, confirmations and refresh tokens stay in step |
| `logout` | 2 accounts, 1 password, 1 request (violation) | a log-out removes the refresh token of another account |
| `profiles` | one user who creates twice and updates, two requests, faults; three users, one of whom takes its name back and sets it again while another looks; four users | the parts of a profile agree; who is proposed |

**What the violations say.**

* `two_defaults`: the service reads whether there is a default in one operation and
  writes in another. No index backs the check, so "Only one default exist" holds for
  requests that do not overlap (`catalogue`) and only for those. The "Maximum 4 active
  packages" are counted and written in the same two operations
  (`premium-package.service.ts` 113).
* `chat_rejoin`: the comment at `gateway.ts:243` says that `timeJoined` is updated
  *before* the message is created. The code creates the message first and takes
  `timeJoined` later, so that the message that brings the conversation back may be
  older than the instant from which the participant is shown messages.
* `logout`: `removeRefreshToken` filters on `id`, which is no path of the schema; the
  filter is dropped and the first account of the collection loses its token. The
  account that logs out keeps its own, and its refresh token still works.
* `strangers`: `gateway.ts:390` throws 'Conversation not found' when the two have none, but
  the filter of `isCreated` is dropped and finds that of anybody.

**Properties with a condition.** Several hold only under a condition, which the
property states: `~overlapped` (`ConfirmedOnce`, `SoleCodesAreUnique`,
`LastGenderIsShown`) because the code checks in one operation and writes in another;
`~failed` or `~bounds.faults` because a failure legitimately leaves a handler where it
stands; `doubled` (`HangUpEndsBoth`) because the registry knows one socket of a user.
`EverybodyCanBeShown` names what it excuses: a user who was counted takes its name back,
or a page of others comes in, before the find. What breaks without a condition is named
under `hazards`. For each of them the
condition is met in many reachable states of its run, and its mutant is found there.

**Bounds.** Two users suffice for the properties of a pair: a third user's
requests touch other likes and the same indexes only through other keys. Two
requests in flight are the least at which a check and a write of different handlers
interleave. Two conversations are needed so that a pair *could* get two, and a room be
confused with another. In `realtime` the user with two devices meets one with one,
so that a close can hit the entry of the other device; a third user is the other side of
a second conversation, and needs no socket for it. Conversations and calls are
explored in different behaviours because a call only asks whether a conversation exists.
Two timers of a socket are the least at which one belongs to an older call. Four
ids let two creates overlap and leave a document behind; five packages are what the
limit of four needs; two documents a page and three pages let a document move over
both edges. Two instants give "same" and "later", and with two messages a
delete between them, whose history must stay away when the second is sent. Three ids in
`notifications` put a deletion, or an `insertMany` that stopped, between two
creations. Two accounts tell the first one from another, which is all
that the dropped filter distinguishes; two passwords tell a right one from a wrong
one. Four users with pages of two give explore a page that is cut off. Requests,
lookups, conversations, addresses, passwords and the users of `notifications` are symmetric
(no action names one). The users of the other runs are not permuted, because of
`owner` or of their order, and no run with a liveness property uses symmetry.

**Fairness.** Weak fairness of each request's own steps: the MongoDB driver
settles every operation (with a result or an error) and the event loop resumes
each handler, so a step that stays enabled is taken. It is assumed per request, as
handlers do not wait for each other. Nothing is assumed of clients: no event, no
connection and no tick has to happen. Liveness is stated where there are no faults
(`FairSpec` of `Matching`, `~bounds.faults` in `MessageBringsBack`), since a failure or a
restart legitimately ends a handler where it stands.

Deadlock is checked in every run. Where everything can come to rest a client can still
do something, as a socket can reconnect, a request repeat or a browser be open.

## 5. What is proved

With TLAPS, for every value of the constants that satisfies the named assumptions: every
safety invariant and every action property that a passing run checks, the type
invariant of every module, and two refinements. In a theorem about a step, an action
moves one request (or socket) and the lemmas say what becomes of the others; most
modules have a lemma per action of the form "the slot gets a well-formed record, so
the invariant stays" (`Slot`, `SlotUpdate`, `PutsIs`, `Moves`).

* **`SessionsProofs`**: `Registered` (`RegisteredIsLive`) and `Stranding`
  (`StrandedOnlyByOverlap`). The inductive invariant is the type invariant with
  `RegisteredIsLive` itself.
* **`RealtimeProofs`** is about `Calls`, hence the whole gateway. `GatewayRegistry`:
  each of its steps is one of the registry or leaves it alone, so what
  `SessionsProofs` shows holds inside it too (`GatewayRegistered`, `GatewayStranding`).
  `RoomsInv` says that a socket is only in rooms of its user's conversations
  (`RoomsFollow`), and that what a request has found so far belongs to its user and,
  once the find that joins is answered, covers what there was when it began
  (`Listings`). `Reached` and `Joined` follow, as participants are never removed.
  `CallsInv` has `OfflineEnds` and `NoticeFits` in it and adds `Timers`: a timer that runs
  belongs to a connected socket, whose last call found nobody or which has called again
  since. `BothAreTold` holds of `emitAccepted`, the only step that
  lets the acceptor talk; it needs the registry's invariant, as the caller's socket
  is looked up in the Map. `BothHangUp` needs `HangUpInv`: who talks is connected
  and one of the two of the call, and the Map has *the* live socket of every user who has
  never had two at once, so that the lookup of the other end finds whoever talks.
  `GatewayTypes` types all of it.
* **`MatchingProofs`**. `TypeCorrect`: `TypeOK` is not inductive by itself: that a
  participant or a notification names a conversation rests on the request that
  writes it knowing one. `Known` says so per stage. `Invariant` is the
  strengthening `IInv`: a like is stored once, so the request that stores `<<u, v>>` is
  unique; it can only go on to match if it read `<<v, u>>` *before*. Hence of the two
  requests of a pair at most one can be the winner, as each would have to have read
  the other's like before storing its own. From it `OneMatch`, `MutualLikes`,
  `MissedForGood`, and `Refinement` (`KeepsPromise`): every step is a `Like`, a `Match`
  or a stutter of `MatchPromise`. `TalkInv` adds what a winner has stored, per stage
  and per pending operation (`Stored`), and that its conversation is its own
  (`OwnConversation`, `OwnParticipants`): nobody else adds participants to it, and as
  the winner of a pair is unique, the pair has no other (`WinnersOnly`). Hence
  `OneConversation` and `ToldIsReady`. `CalmInv` adds, for `CalmSpec` (no failure, the
  premise of the property), that nothing is rejected and that a match is complete or its
  request still at it: `SettledIsComplete`.
* **`CatalogueProofs`** is about `Browsing`, hence all three modules. `BaseInv` has the
  types, the unique indexes, and that ids are below the next one. `NumberedInv`, for
  collections without deletes: the codes are `1..n`, no create in flight has read a code
  above `n + 1`, and what a create has read was there before its id was made, which
  is why codes grow like ids although two creates may be applied in the other order:
  `CodesHaveNoGaps`. `SoleInv`, for one request at a time: what the request has found
  out (key free, no other default, room for an active package) stays true until it
  writes: `SoleCreatesSucceed`, `OneDefaultAlone` and `FourActiveAlone`. The last two
  name their condition in the statement (one request at a time, and a collection that
  is in order at the start): without it they are false, as `two_defaults` shows of the first, and the same
  interleaving of two activations of the other.
  `BrowseInv` counts for `PagesMissNothing` those that the pages so far have passed
  and not shown (`Missed`): an insertion lowers nobody's rank, and whatever is
  taken out lowers a rank by one at most.
* **`ChatProofs`**. `BaseInv` types the conversation and bounds what is stored by what was
  accepted (`ChatTypes`). `OnlyOwn` looks at the one action that
  sets `timeLeft`. `HistoryIsGone` needs `GoneInv`, for any overlap: what is gone is older
  than the delete and than every rejoin under way, until one is applied and it is older than
  the new `timeJoined`; a later rejoin takes its instant now, and a delete that is
  applied late only shrinks `gone`. It is about a user's own reads. `ListsAreRight` is about what is
  sent, to the receiver of `deleteMessage` too: `ListInv` says that a list has what is stored
  from the instant on that its request carries, and `GoneInv` that what is gone is older.
  `NewestIsLast` needs `NewestInv`, which says per stage what the one request has
  still to do for the last message.
* **`PaymentsProofs`** is about `Payments`, hence `Notifications` too. `Paid`
  (`PaidIsGranted`): three lemmas say what a move does to the
  number of requests that are about to grant. `NoteTypes` and `PayTypes`: what a
  request carries depends on its stage (`Formed`), and a card that is being charged
  counts as paid (`BoundInv`). `BornInv` is about ids: an id is *born* when its
  notification is stored, and stays so when it is deleted; the unborn ids of two
  requests are disjoint, and objects are stored for born ids only. It gives `Orphans`, for
  partial inserts and restarts as well, and `MarkedActive`, as an id that was deleted is
  never that of another notification. The latter is about the mark of an object only: the
  list of a recipient (`getByUserId`, `notification-object.service.ts` 26-51) has every
  object, whatever its mark. `SoleInv` says for requests that have not overlapped that
  the code just read stays greater than all until it is stored and that nobody activates
  a notification between its insert and that of its objects: `Codes` and `Activation`. `Noticed` counts: each step moves one notice from the listeners to the
  collection, or from there to `deleted`, or loses one by a failure.
* **`AccountsProofs`**. `AInv` is `Stored` (addresses are unique, every address with a
  link has an account) with `Requested`: what a request in flight has found out is
  still true (`Knows`), because accounts only gain: none is removed and no address
  changes (`Grown`). That a password it compared is still the one stored is not among
  these: another change may write in between. `Refusals` adds that tokens given are stored unless a
  log-out cleared the first account. `Completed` adds `MissingMeansFailed`: an account
  without a preference has its sign-up in flight or something failed. `Confirmations` adds
  `OneAtATime`: without overlap one request is in flight, and an account it is
  about to confirm is not confirmed. `AccountTypes` is the type invariant.
* **`ProfilesProofs`** is about `Explore`, hence `Profiles` too. `ProfilesAreWhole`
  has two halves: `PartsInv`, whatever fails, says which of the parts a request of
  `createProfile` has stored (all but the pending ones, unless one was rejected), so
  that the customer is named last; `WholeInv` counts while nothing has failed: what is
  stored of a part and the requests that have still to store it add up to the customers.
  `LastChoiceIsShown` has `ShownInv`: the request that has still to store a gender
  carries the newest choice, and without one the first document has it. `Looks` says what a
  lookup excludes or has still to read, and that its total is the number of those it
  counted: `LikedAreNotProposed`. `AnyOffsetShowsSomebody`
  rests on a lemma about ranks, those of `n` numbers are `0` to `n - 1`
  (`RanksAreOffsets`), with the conditions on who came and went since the count.
  `ProfileTypes` is the type invariant.

**Assumptions.** They are named in the modules that declare the constants: `owner` maps
sockets to users, `NoSocket` is no socket, there is a user and a member,
`NoConversation` is no conversation, users are numbers (in `Profiles`), `LIMIT` is not 0,
`Never` is no instant, the bounds on numbers are numbers, the sets of bounds are typed, and a world that
starts with documents has keys for them. Requests are finitely many wherever they are
counted. None of them restricts the code: they type what the bounds are.

**Conditions.** Where a property says "without overlap" or "while nothing failed", the
theorem has the same condition, as the property is what it states.

**Only model-checked**: the two liveness properties, `SeenLikeIsMatched` and
`MessageBringsBack`: liveness under fairness, and `ENABLED` with it, is beyond the
prover. What the violation runs show is a counterexample and nothing to prove.

## 6. What is not modelled

* Texts, names, pictures, prices, dates and formatting; logs; reads that change nothing
  and that no property is about. `updatePhoto` changes the link of a photo, which is a text.
* Validation of bodies: the global `ValidationPipe` rejects malformed REST bodies
  before a handler runs and does not apply to the gateway. It does not strip
  undeclared fields; the models take the declared ones only, so a package is
  created inactive. Malformed ids likewise.
* Documents removed by hand: nothing in the server removes accounts, conversations,
  participants or messages.
* Expiry of tokens: a client that is refused by the guard is one that does nothing.
* Guards are predicates on the caller (`Authenticated`), and roles are read by
  name; block-user is a schema without operations; the upload is one external call;
  `BaseRepository` is unused; the bootstrap, the configuration and the
  interceptors are wiring without state.
