# A TLA+ verification of the GL3-Project backend

The backend (`src/src`, NestJS with mongoose on MongoDB) runs the registration of a
congress: participants book a pass or a room of a hotel, share rooms by invitation, and
treasurers record what they have paid. All state is in MongoDB; every request is an async
handler of one Node process, and most handlers that write run inside
`session.withTransaction(async (session) => ...)`. The modules here model what happens
between the awaits of those handlers; TLC checks small instances of them and TLAPS proves
the safety properties of every module for every instance.

## Inventory

| Component | State | Operations | Interacts with | What makes it correct |
|---|---|---|---|---|
| payment | `payments` documents | `POST /payment` (`pay`), reads; `payMany` has no caller | completes bookings, takes hotel rooms, in one transaction | a pass is paid once; completions are backed by payments; all or nothing |
| accommodation | hotels, with the room bookings listed per room type | add, change, delete, clear hotels; `addBooking` called by payment | payment, room-booking | a room type never lists more bookings than it has rooms; the list and the statuses agree |
| booking | status of every booking; `user.booking` | book, cancel, restore, nightly job at 4AM; `PATCH /book` changes nothing | user, user-pass, user-booking, payment | a user's booking is its own; a paid booking is never lost |
| user-booking | UserBooking documents; the builder's three fields, shared by all requests | `addBooking`; `updateBooking` and `removeBooking`, which no route reaches | room-booking, invitation, transport, workshop | concurrent bookings do not mix; a change of a booking is whole |
| user-pass | UserPass documents | `addPass`, `removeUserPass`, `completeUserPass` | messaging (an e-mail before the commit) | one pass per user |
| room-booking | RoomBooking documents with their roommates | create, `addRoommate`, `completeRoomBooking`; transfer, exchange and removal, which no route reaches | accommodation, invitation, payment | no more roommates than places; a room is deleted when no one is left in it, and only then |
| request / invitation | invitations: in progress, completed, rejected, cancelled | send, accept, reject (in transactions), cancel (outside) | room-booking, user-booking, user | acceptance is whole; a guest has one seat; an invitation is answered once |
| request / contact | none | two e-mails, one after the other | messaging | a message that is answered as sent reaches the team |
| user | users; `refreshToken`, `accessToken`, `booking` | look-ups, token updates and verification, password reset | everything | a verified token is the last one issued |
| authentication | none of its own (tokens are in `user`) | sign in, refresh, recovery, registration by e-mailed link | user, messaging | a fresh token is not revoked by a stale request; one account per e-mail |
| authorization | none | comparison of roles | guards | total order of the roles |
| transport, workshop | documents with passengers or participants; the bookings of them | administration; choice, transfer, exchange, removal and completion by services, which no route reaches | booking, user-booking | choices stay in their group; a seat comes with a completed booking; capacities |
| messaging, announcement | none | e-mails, batches of 100 sent in parallel | mailer (external) | nobody gets an announcement twice; a success has reached everybody |
| analytics, recaptcha, config, bootstrap | none | reads, one external request, wiring | - | - |

What is hard here: documents are read by guards before the transaction starts, or inside
it without the session, and used after it; the callback of `withTransaction` runs again
after a conflict on objects that were changed in memory; MongoDB gives snapshot isolation,
so two transactions that only read what the other writes both commit; e-mails leave before
the commit; the server may stop between two awaits; several services start saves and do not
await them, so that they come after the commit, and their exceptions, which nobody catches,
stop the server. `PROJECT.json` lists these hazards at
their lines.

The repository has one test (`test/app.e2e-spec.ts`, the greeting of the root route), so
the statements the findings quote come from comments, error messages and validators.

## Modules

| Module | Models |
|---|---|
| `MongoTxn` | what the code relies on of MongoDB's transactions (external): snapshots, write conflicts, commit, abort, writes outside transactions |
| `PaymentLedger` | abstract: recording a payment is one atomic step |
| `Payment` | `POST /payment`, deletion of hotels, crashes; extends `MongoTxn` |
| `PaymentProofs`, `PaymentLedgerProofs` | the theorems about `Payment`, and about its lists of hotels and the refinement |
| `MongoTxnProofs` | lemmas: every operation of `MongoTxn` keeps what it promises |
| `MCPayment` | its instances for TLC |
| `Invitation` | the invitation controller with its guards and service; extends `MongoTxn` |
| `InvitationProofs` | the theorems about `Invitation` |
| `MCInvitation` | its instances for TLC |
| `BookingDesk` | `POST /book`, cancel, restore and the nightly job, with the shared builder; extends `MongoTxn` |
| `BookingDeskProofs` | the theorems about `BookingDesk` |
| `MCBookingDesk` | its instances for TLC |
| `Accounts` | registration, tokens, recovery, the guards; extends `MongoTxn` |
| `Mailing` | announcements, previews and contact, composed with `Accounts`, whose guards let them in |
| `MailingProofs` | the theorems about `Accounts` and `Mailing` |
| `MCMailing` | its instance for TLC |
| `Sessions` | calls of services with the database: transactions in two steps, late saves, the stop of the server |
| `Programme` | workshops, transports and the bookings of them; extends `Sessions` |
| `Lodging` | hotels, rooms and user bookings, composed with `Programme` |
| `LodgingProofs` | the theorems about `Lodging` with `Programme` and `Sessions` |
| `MCLodging` | its instance for TLC |

### MongoTxn

`open`, `held[t]` and `missed[t]` are the transactions that have a snapshot, the documents
each has written, and the documents committed by others since its snapshot. A write
conflicts when the document is held by another transaction or missed. `OneWriter` is what
this gives: no document has two uncommitted writers, and no writer's snapshot is older
than its document. The values of documents are variables of the extending module; an
uncommitted write is visible to nobody else, so it is applied by the commit action.

### Payment

One action per stretch of code between awaits:

| Code (`payment.service.ts` unless named) | Action |
|---|---|
| `getUser(payer, session)`, 74: takes the snapshot | `GetPayer` |
| 77-104: `findAllBookings` *without* the session | `FindBookings` |
| 106-120: `complete()` and `save` of a pass or user booking | `CompleteUserPass` |
| 121-146: the count of past payments, without the session | `CountPastPayments` |
| `accommodation.service.ts:85`: the hotel is read and saved | `AddBookingToHotel` |
| `room-booking.service.ts:313`: the room booking is completed | `CompleteRoomBooking` |
| 166: the payment document, then the commit | `CreatePayment` |
| `accommodation.service.ts:115-130`: outside transactions | `RemoveHotel` |
| the process stops | `Crash` |

`status`, `hotels`, `rooms`, `payments`, `shares` are the committed documents (`shares` is
the `$group`/`$sum` over the payments). `pc`, `todo`, `paidSeen`, `cur`, `done`, `view` are
one run of `pay()`: where it stands, the bookings its loop has still to visit (in any order:
`find()` promises none), those it loaded as completed, and its own view of the hotels.
`RunAgain` is the driver's retry, `Fail` an exception. UserPass and UserBooking documents
are both "passes" here: the loop treats them alike. Transport and workshop bookings reach
no payment, because no route creates one that can be paid.

### Invitation

The guards' loads are three actions (`LoadUser`, `LoadInvitation`, `PopulateRoom`), outside
any transaction; `mem` is what they loaded and the handler changed in memory, and `RunAgain`
does not reset it. Acceptance is `TakeSeat` (up to `room.save`), `SaveInvitation`,
`FindHostBooking`, `SaveGuest`, `CommitAccept`; its `catch` is `Refuse` and `Refused`. A
save that fails leaves its `$push` in memory (`unsaved`), a save that succeeds in an attempt
that is aborted does not. `Cancel` writes outside a transaction and waits while a
transaction holds the invitation. `RemoveBooking` is the effect on `user.booking` of a
cancelled or expired booking; a host who books another room afterwards is not modelled.
Every seat is a member of the sequence `roommates[r]`, starting with the user who booked.
`FindInvited` and `CreateInvitation` may also refuse for what is not in the state (an unknown guest, a
host's booking without a room). `CreateInvitation` takes a document of the pair that is not in use yet
(`Unsent`), so that two sends of one pair make two invitations.

### BookingDesk

| Code | Action |
|---|---|
| `jwt.strategy.ts:28`: the user, then the query that populates its booking, before the transaction | `LoadUser`, `PopulateBooking` |
| `user-pass.service.ts:53-60`: `addPass` | `CreateUserPass`, `SaveUser` |
| `booking.service.ts:153`, `user-pass.service.ts:100`: cancel | `CancelBooking`, `SaveUser` |
| `booking.service.ts:165`: restore | `RestoreBookings`, `SaveUser` |
| `booking.service.ts:207`: the nightly job, after its deadline | `UnlinkUnpaid`, `SaveUser`, `NullBooking` |
| `user-booking.builder.ts:36`: `initialize` | `InitializeBuilder` |
| `:83-102`: `bookRoom`, the roommates and the room booking | `CheckRoommates`, `CreateRoomBooking` |
| `:107-112`: `get`, its two saves | `GetBooking`, `LinkUser` |
| `user-booking.service.ts:157-174`: the e-mail, then the commit | `Commit` |

`link`, `owner`, `status`, `inRoom` are the committed documents. A booking has the name of the
request that makes it. `builder` is the one `UserBookingBuilder` of the process; `using[t]` is
what a request has read of it for the operation under way: whose user, booking and session,
and whether that session is inside a transaction. A request that uses another's session can
have it aborted (`RunAgainAfter`), can find it over, or can write outside any transaction; two
`save()` of one object at once throw (`Thrown`). `mem` outlives an aborted attempt, as in
`Invitation`: a retried `addPass` finds its user booked, a retried cancellation finds no
booking. The nightly job's fixed date is taken as passed; before it the job writes nothing.
`isOfKind()` answers false for every kind (its `??` never reaches the comparison), so a
cancellation deletes passes only. Payments are one step here, as `PaymentLedger` has them.
What hotels have left is the choice of `CreateRoomBooking` to fail.

### Accounts and Mailing

| Code | Action |
|---|---|
| `recaptcha.middleware.ts`, the activation strategy, `LocalStrategy`, the two JWT strategies, the recovery strategy | `ReCaptcha`, `OpenLink`, `VerifyPassword`, `VerifyRefreshToken`, `VerifyAccessToken`, `GetUserOfLink` |
| `role.guard.ts`, `roles.util.ts` | `RoleGuard`, `CompareRoles` |
| `user.service.ts:168` and `:217`: the save that unsets the tokens of a refused request | `UnsetTokens` |
| `registration.service.ts`: sign up, and the activation with its insertion, e-mail and commit | `FindByEmail`, `SendAccountActivationEmail`, `CreateUser`, `SendWelcomingEmail`, `ActivateAccount` |
| `login.controller.ts:20`: two tokens, each made and then stored | `Refresh`, `UpdateUserRefreshToken`, `Signin`, `UpdateUserAccessToken` |
| `recovery.service.ts` | `FindForgetful`, `SendPasswordResetEmail`, `ResetUserPassword`, `SendSuccessfulPasswordResetEmail` |
| `announcement.service.ts`, `contact.service.ts` | `Announce`, `PreviewAnnouncement`, `ContactTeam`, `Deliver`, `Bounce` |

`account[e]` is the user document of an address, `issued` the tokens clients hold: a token is
the millisecond in which it was made, as its payload is otherwise constant, and two tokens of
one millisecond are one token. `stale[t]` is what the refused request `t` will unset: the two
verifications differ, because `accessToken` is not selected when a refresh token is verified,
so that the assignment of `undefined` always unsets it. A new account is inserted in a
transaction; the unique index refuses a second insertion with the conflict of `MongoTxn`.
`mails[t]` are the e-mails a request sends and `underWay[t]` those that the mailer has: the
batches of an announcement all at once, the two of a contact one after the other. The first
exception is the answer, while the other batches go on.

### Sessions, Programme and Lodging

These are the services of the programme and of the rooms. Administrators reach the
administration by routes that write one document outside transactions. No route reaches the
other methods: `POST /book` builds no valid booking of a workshop or a transport (the schemas
require a `userId` that nothing passes), and moves and removals have no route. They are
modelled as what the services offer to a caller inside the backend, which gives each call a
transaction of its own and either commits it or throws after the call has returned (`Abort`).

`doc` is the database, one function from documents to their contents; `writes[t]` is what the
transaction of call `t` has saved, and a document in it is written by nobody else until it is
over. A call that would conflict starts again, which `Attempt` makes a wait: the methods keep
nothing in memory between two attempts. `None` stands for a document that is not there and
for `null`, `Gone` for one that was deleted while others refer to it (after which
`populate()` gives `null`, and the checks for `undefined` do not see it).

`late` is what is under way and not awaited: the additions of `completeWorkshopBooking`
(`LoadLate`, `AddLate`: between the load and the save the workshop can fill up), the saves of
an exchange (`SetLate`), those of a transfer or removal of roommates (`LeaveLate`,
`JoinLate`). Each is part of its transaction while that is under way and a write of its own
afterwards (`Joins`), is lost with an aborted one (`LoseLate`), or throws and stops the
process (`Stop`; `main.ts` installs no handler of rejections).

| Code | Action |
|---|---|
| `workshop.controller.ts`, `transport.controller.ts`, `accommodation.controller.ts` | `Administer`, `OfHotels` |
| `workshop-booking.service.ts` | `CreateWorkshopBooking`, `TransfersParticipant`, `TransferParticipant`, `ExchangeParticipants`, `RemoveParticipant`, `RemoveWorkshopBooking`, `CompleteWorkshopBooking` |
| `transport-booking.service.ts` | `CreateTransportBooking`, `TransferPassenger`, `RemovePassenger`, `RemoveTransportBooking`, `CompleteTransportBooking` |
| `workshop.service.ts:92`, `transport.service.ts:94` | `LeaveWorkshop`, `LeaveTransport` |
| `room-booking.service.ts` | `CreateRoomBooking`, `AddRoommate`, `TransferRoommate`, `RemoveRoommate`, `RemoveRoomBooking` |
| `user-booking.service.ts:176`, `:235` | `UpdateBooking`, `RemoveBooking` |
| methods that throw whoever calls them | `Unfinished`, `ExchangeRoommates`, `CreateRoomBookings` |

The bodies of the administrators carry lists that nobody asks for: `Participants` are the lists of
participants a change of a workshop may bring besides the present one, `Lists` the room bookings a
new hotel may come with.

The last row are methods that take `save` or `addRoommate` off its document and call it
without a `this`, that create a document without a required field, or that call `get` of a
`rooms` that is no `Map`; they throw before they have written anything. `UpdateBooking` creates
a room outside the transaction, which stays when the rest fails; the new bookings it makes of
a room, of workshops or of a transport are linked to nothing.

## Runs

| Run | Shows |
|---|---|
| `payment` | 2 requests, 10 bodies, 2 retries each, crashes, hotel deletion, fair (28,133 states): `PassPaidOnce`, `CompletedIsPaid`, `HotelNotOverbooked`, `HotelListsCompleted`; `pay()` implements `PaymentLedger` (the refinement maps `payments`, the completed bookings and the hotels' lists); every request is answered |
| `payment_stranded` | violation: two treasurers record the last two shares of a room at once, and it is never completed |
| `invitation` | 3 requests, 6 things to ask, 1 retry each, crashes, fair (283,185 states): `AcceptanceIsWhole`, `EveryRequestAnswered` |
| `invitation_overfull` | violation: two guests accept two invitations to the last place of a room and are both seated |
| `booking` | 3 interchangeable requests, 6 things to ask, 1 retry each, payments, crashes (2,279,374 states): `OwnBooking`, `PassLinkIsLive` |
| `booking_live` | 3 requests for one user, 1 retry each, fair (255,634 states): `EveryRequestAnswered`, also by way of `Expire` |
| `booking_untold` | violation: of two users who book rooms at once, one is told so and has no booking |
| `booking_cancelled` | violation: a pass paid during its cancellation is deleted |
| `accounts` | 3 interchangeable requests, 15 things to ask, 1 retry each, failing mails and stops (429,917 states): `SessionRenewable`, `ActivatedOnce`, `AnnouncedOnce` |
| `accounts_reset` | violation: the refusal of an access token leaves the refresh token, which a comment says it resets |
| `services` | 3 interchangeable calls on two users, two workshops, two groups, a transport, a hotel and two rooms (303,540 states): `ChosenInItsGroup`, `SeatsWithinCapacity`, `SeatWithCompletion`, `RoomKeptForOthers` |
| `services_evicted` | violation: a user who is not listed in a room yet leaves it, and the room is deleted with the user who stays |

Deadlock is checked in every run but `services` and `services_evicted`, in which calls are over after one use; the only states without a step of the system are those in
which every request is answered (`AllAnswered`).

**Bounds.** `MaxRetries` stands for the driver's 120 seconds of retries: one retry already
lets a second attempt meet what the first left in memory, two let it conflict twice. Two
payments are enough for a race on a pass, a room or a hotel and for each to be the one that
conflicts; where three requests run, two race while a third conflicts with either. Every invariant,
action property and refinement of the passing runs is also proved, without any bound: the
instances are what liveness rests on, and the violations. The bodies of
`MCPayment` cover a pass paid alone, twice in one body and together with others, the shares of
a two-place room one by one and at once, rivals for the single room of a type, another type
of the same hotel, and the three refusals (unknown payer, empty list, unknown booking).
Requests are never reused: a client that sends again is another request. The runs with
symmetry check invariants and action properties, which name no request. Liveness is checked
without symmetry; `invitation` starts instead only from the states in which the three
requests ask in one fixed order (`MCOrderedInit`), as the others differ from these by the names of
the requests.

In `Invitation` two guests are invited into one room and one of them also into another, by an
invitation that is still to be sent and may be sent twice. The violations about two people start
with two different people: no two requests of `invitation_overfull` are about one invitation
(`MCDistinctInit`), no two of `booking_untold` are of one user (`MCTwoUsersInit`).

In `BookingDesk` two users are enough for two owners of bookings; user `u1` has a pass and a user
booking from before, so that a restoration has a choice, and can book only after cancelling or
the nightly job. Three requests are needed for a transaction that waits for itself: one leaves
the builder to a second, whose user it saves, and a third fails with the builder in its hands.

In `Accounts` three requests let a sign-in, a call with an older token and a third request
(another token, a reset, an activation) overlap; users hold two tokens of each kind from before,
so that one of each is outdated; two links to one new address carry different passwords; the
lists of recipients cover a batch and a half, a full batch and a repetition, with at most two
addresses per e-mail. In `Lodging` the four initial states are two bookings of workshops, two
bookings of the one place of a transport, a room for one user and a room for each of two: in
each, two calls race for the same thing while a third (an administrator, a removal or an update
of a whole booking) changes what they read. An administrator's body may bring one participant
nobody chose (`MCParticipants`), a new hotel one room booking (`MCLists`). Two groups are needed for a workshop to be in the
wrong one, capacities 1 and 2 for a change of the last place.

**Fairness.** Weak fairness of each request's next step: Node's event loop runs every
continuation whose await is over, and every database call returns or throws. No fairness is
assumed of crashes, hotel deletions, payments or new requests. In `BookingDesk` it is also assumed
of `Expire`: MongoDB aborts a transaction after `transactionLifetimeLimitSeconds`. Without it the
property fails: a request can wait, outside its transaction, for a user its transaction has
written. A request that was never started need not start, except for restorations and nightly jobs of `BookingDesk`, which begin in their handler:
the liveness properties begin where the handler has been reached. They allow a
request to be lost in a crash.

## Proofs

Every invariant and action property that a passing run checks, and the refinement of
`PaymentLedger`, is proved for all values of the constants: any number of requests, users,
documents, retries and crashes, from the named `ASSUME`s of the modules alone. These say what
kinds of values the constants are (that names of different kinds differ, that capacities are
natural numbers and batches at least one, that the start of `Lodging` holds documents of their
kinds); TLC evaluates them in every run.

| Module | Theorems |
|---|---|
| `PaymentProofs` | `TypeCorrect`, `InductiveInvariant`; `PaidOnce`, `CompletionIsBacked`, `NotOverbooked` for `PassPaidOnce`, `CompletedIsPaid`, `HotelNotOverbooked` |
| `PaymentLedgerProofs` | `HotelInvariant`, `ListsCompleted` for `HotelListsCompleted`, `ImplementsLedger` for `Spec => LedgerSpec` |
| `InvitationProofs` | `TypeCorrect`, `InductiveInvariant`, `AcceptedOrNot` for `AcceptanceIsWhole` |
| `BookingDeskProofs` | `InductiveInvariant`, `TypeCorrect`, `BookingsAreOwn` for `OwnBooking`, `PassesAreLive` for `PassLinkIsLive` |
| `MailingProofs` | `InductiveInvariant`, `TypeCorrect`, `FreshTokenStored` for `SessionRenewable`, `AccountMadeOnce` for `ActivatedOnce`, `AnnouncementsReach` for `AnnouncedOnce` |
| `LodgingProofs` | `InductiveInvariant`, `TypeCorrect`; `ChosenInItsGroupHolds`, `SeatsWithinCapacityHolds`, `SeatWithCompletionHolds`, `RoomKeptForOthersHolds` for the action properties of those names |

None of the properties is inductive as it stands. What each module needs besides:

- **Transactions.** `MongoTxnProofs` shows of each operation of `MongoTxn` that it keeps
  `OneWriter`. The other modules use it in one way: a document that a transaction has written is
  not in its `missed[t]`, so what the transaction read of it is what is committed.
- **Payment.** `IInv` is `TypeOK`, `OneWriter`, `RunInv(t)` of every request and `LedgerInv` of the
  committed documents. The point of `RunInv` is its line about statuses: from the moment the
  bookings are loaded, a named booking that the run has not seen completed is still not
  completed, *unless* a commit has changed it since the snapshot, in which case it is in
  `missed[t]` and the run can no longer write it. This holds because `getUser` takes the
  snapshot before the bookings are read; reading them first would break it (the mutant of
  `ReadWithSession`). A booking that is saved (`done[t]`) is held, so it is not missed, so at the
  commit it is not completed, so by `LedgerInv` no payment names it (`FirstPayment`): hence one
  payment per pass. The bound on rooms travels from the committed lists to the run's view and back.
- **Hotels and the ledger.** `HotelInv` says which completed bookings are on the lists that a run
  has read and changed, and which it has still to add; a run whose hotel was changed or deleted
  meanwhile has missed it. At the commit the lists are then exactly the completed bookings, each
  once. `LedgerStep` maps each step: the commit of `CreatePayment` is the `Record` of
  `PaymentLedger`; every other step, the deletion of a hotel and a crash included, is a stutter.
- **Invitation.** A request has a transaction open exactly at the points of `InTransaction`, up to
  its commit. An acceptance on its way there has a seat to write, and a room to write it with once the host's
  booking is read (`RequestInv`).
  The committed seats and bookings are those of the accepted requests, and an invitation is
  completed only by an accepted request about it.
- **BookingDesk.** `BuilderInv`: the three fields of the shared builder were set together, for one
  request, whatever requests have read it since. `AttemptInv`: a value of `user.booking` that is to
  be written is the user's own; a cancellation that deletes a pass also holds that user; and the
  pass that a restoration plans to link still exists, or its user is in `missed[t]`, so that
  the conflict refuses the commit.
- **Accounts and Mailing.** A callback of an activation that has not inserted the account has
  missed any insertion since its snapshot, and one that has inserted is alone: the unique index
  makes one account. What `SessionRenewable` says of a renewal that was answered is kept from the moment its refresh token
  is stored (`RenewalInv`): the refresh token of the account is then always the one of a renewal that has
  stored it (`Renewable`), since only a renewal replaces it, unless a refused refresh has unset it. The mails of an announcement are disjoint, each delivered or under way
  until one fails, and together they have every recipient: this is arithmetic on the batches.
- **Lodging.** Each of the some fifty methods is shown to be of one of nine kinds of steps (`KindsOfSteps`),
  and each kind to keep the invariant. A call that saves has a plan: to give a seat together with a
  completion or to take one away (`SeatPlan`), to leave a room and delete it when it lists one
  roommate at most (`RoomPlan`). That one is the user who leaves, if the user is listed, which is all
  that `RoomKeptForOthers` says. A plan stays sound because nobody else writes the documents of a transaction
  under way (`PlansKept`), and the action properties are read off the plan at the commit. Late saves
  join no plan: they are of workshops, choices and rooms that their own transaction does not delete
  (`LateInv`). That `splice` takes one member and leaves the others in order (`DroppedFacts`), and
  that a seat count changes by one user's seat (`PlacesAppended`, `PlacesDropped`), are
  lemmas about lists.

There is one lemma per action or per kind; steps of one request only, exceptions, retries and
crashes share lemmas (`LocalStep`, `AbortStep` and their like). TLC checks each inductive invariant
on the instances of the runs as well.

Two attempts failed for a good reason and corrected the models. `ActivatedOnce` excused accounts
for the reset of a request that was lost in a crash; the proof showed that no case needs it, and the
property is now stronger. In `Lodging` a new room could take the id of a room that a transaction
under way was about to insert; ids are unique, and `NewRooms` now says so.

Only model-checked: liveness (`EveryRequestAnswered` and what the fair runs check), which is
outside the prover's reach, and the six findings, which are counterexamples.

## Findings

1. *Stranded room* (`payment_stranded`): the past payments are counted without the session
   and a share that is not the last writes no common document, so the last two shares do not
   conflict and neither completes the room booking.
2. *Overfull room* (`invitation_overfull`): capacity is checked, by `addRoommate` and by the
   validator, on a room loaded before the transaction, and `save()` appends to the current one.
3. *Told and not booked* (`booking_untold`): the builder is one object; between the two saves of
   `get()` another request has replaced its user, so the first user is never saved.
4. *Paid and cancelled* (`booking_cancelled`): the cancellation trusts the status that the guard
   loaded, and deletes a pass that has been paid since.

5. *A refresh token that is not reset* (`accounts_reset`): "reset refresh token" says the comment on
   the branch that refuses an access token, and "Invalid refresh token" its message, as on the branch
   that refuses a refresh token; the code unsets `accessToken` there. Only the refusal of a refresh token
   unsets both.
6. *Evicted* (`services_evicted`): `removeRoommate` deletes the room when it lists one roommate, whoever
   that is. A user who was transferred into the booking, and whose own addition to the room is a save
   still under way, leaves, and the one listed is the user who stays.

Disagreements the models reach and no run singles out: a guest who accepts the invitations of two
hosts at the same time is accepted into both rooms, although the second acceptance should be refused
with "User already booked a room." (`invitation.service.ts:194`), and one who accepts an invitation twice
takes two seats; a host who sends twice at once has two open invitations to one guest, although the
second should be refused with "Already sent a request" (`:148`); an invitation that was answered is
answered again, because each answer refuses only its own repetition; a refused request with an older
token unsets the access token that a sign-in has stored since; a stop of the server between the two
updates of a sign-in leaves a refresh token that no client holds; two late additions of participants both
take the last place of a workshop; a participant who is not in a workshop and leaves it takes the last one
off its list (`splice(-1, 1)`).

## Not modelled

- Reads that change nothing (analytics, the lists and exports of users, bookings, payments and
  invitations), formatting of responses and e-mails, and the validation of request bodies: the
  constants range over valid ones.
- Time: tokens and links that have expired are refused before the database is asked; the payment
  window that `create-payment.dto.ts` computes at start-up and the fixed date of the nightly job
  would need a calendar. The nightly job is modelled after its date only.
- Prices: what `getAllBookings` and analytics recompute, and what a booking costs. No check of the
  services compares amounts.
- Code without a caller: `payMany`, `Hotel.addRooms` and `removeRooms`, `createTransportBookings`,
  `removeUser`, and the look-ups that do not populate the booking. `PATCH /book` reaches
  `updateBooking` with a body whose nested parts the validation pipe strips, and changes nothing;
  the service itself is `UpdateBooking`.
- Network errors between the server and the database other than the conflicts of transactions, and
  the loss of a request before its handler starts.
- Configuration and bootstrap, which only wire the parts and read environment variables.
- A caller of `Lodging` that uses several methods in one transaction, or the conflict of two saves
  of one mongoose document at once, which `BookingDesk` has for the builder.

## Plan

1. `BookingDesk` composed with a host who books again after inviting; one booking per user, and
   what the e-mail promises before the commit.
2. Proofs: that the order of the roles is total for any table of priorities; what holds in spite of
   the findings, such as which rooms can be overfull and by how many.
