---------------------------- MODULE BookingDesk -----------------------------
(***************************************************************************)
(* Booking, cancelling and restoring (booking.controller.ts) and the       *)
(* nightly job: who has which booking.                                     *)
(*                                                                         *)
(* POST /book without a room makes a UserPass, with one a UserBooking by   *)
(* way of UserBookingBuilder.  Nest creates the builder once, so its three *)
(* fields are shared by all requests: an operation of one request may run  *)
(* in the session of another.                                              *)
(*                                                                         *)
(* A step is one operation at the database and the code that runs up to    *)
(* the next await; what that code reads of the builder for the operation   *)
(* it sends is "using".  An operation sent between two attempts of its     *)
(* session runs outside any transaction or finds its transaction over.     *)
(*                                                                         *)
(* The booking made by a request has the request's name, and so has its    *)
(* room booking; a retried request makes them again.  Payments are seen    *)
(* from here as PaymentLedger has them: one step completes a booking.      *)
(***************************************************************************)
EXTENDS MongoTxn, Naturals, FiniteSets

CONSTANTS
    Request,    \* requests to the booking controller, and runs of the nightly job
    Ask,        \* what they ask: an operation, its user, the users to restore or to room with
    User,       \* registered users
    Prior,      \* bookings made before
    PriorKind, PriorOwner,
    Payable,    \* whether a treasurer may complete bookings
    MaxRetries, \* retries of a callback before the driver's 120 s are over
    None

Booking == Prior \cup Request

ASSUME DeskAssumption ==
    /\ Request \subseteq Txn
    /\ Doc = User \cup Booking
    /\ User \cap Booking = {} /\ Prior \cap Request = {}
    /\ Ask \subseteq [op : {"pass", "room", "cancel"}, user : User, users : SUBSET User]
                 \cup [op : {"restore", "cron"}, user : {None}, users : SUBSET User]
    /\ PriorKind \in [Prior -> {"UserPass", "UserBooking"}]
    /\ PriorOwner \in [Prior -> User]
    /\ Payable \in BOOLEAN
    /\ MaxRetries \in Nat
    /\ None \notin User \cup Booking

VARIABLES
    \* committed documents
    link,       \* user.booking
    owner,      \* booking.userId, None when there is no such document
    status,     \* booking.status
    inRoom,     \* userBooking.roomBooking: the request that made the room booking
    \* the process
    builder,    \* UserBookingBuilder: the requests its user, booking and session are of
    \* one request
    pc,         \* where it stands between two awaits
    ask,        \* what it asks
    retries,    \* how often withTransaction() has run the callback again
    mem,        \* request.user.booking as loaded by the guard and changed in memory
    roomMem,    \* the roomBooking of the request's UserBooking, in memory
    using,      \* what it has read of the builder for the operation under way
    \* one attempt, gone when it is aborted
    roomSaved,  \* the roomBooking of its UserBooking, as saved
    roomed,     \* the users with a room in its snapshot
    plan,       \* the value of user.booking it saves
    todo        \* the users it has still to save

dbVars == <<link, owner, status, inRoom>>
memVars == <<builder, mem, roomMem>>
attemptVars == <<roomSaved, roomed, plan, todo>>
vars == <<txnVars, dbVars, memVars, using, attemptVars, pc, ask, retries>>

Answered == {"done", "failed", "lost"}

PC == {"new", "populate", "answer", "save", "roommates", "room", "get", "link", "commit", "thrown"} \cup Answered

OrNone(S) == S \cup {None}

\* A populated user.booking: "found" is false when it refers to no document.
Memory == [booking : OrNone(Booking), found : BOOLEAN, paid : BOOLEAN, unsaved : BOOLEAN]

Nothing == [booking |-> None, found |-> FALSE, paid |-> FALSE, unsaved |-> FALSE]

Builder == [user : OrNone(Request), booking : OrNone(Request), session : OrNone(Request)]

\* The operation runs within the transaction of its session or outside, or the
\* transaction it was sent in is over; "room" is the roomBooking that it saves.
Use == [of : Builder, mode : {"within", "outside", "over"}, room : OrNone(Request)]

NoBuilder == [user |-> None, booking |-> None, session |-> None]
NoUse == [of |-> NoBuilder, mode |-> "outside", room |-> None]

TypeOK ==
    /\ TxnTypeOK
    /\ link \in [User -> OrNone(Booking)]
    /\ owner \in [Booking -> OrNone(User)]
    /\ status \in [Booking -> {"in_progress", "completed"}]
    /\ inRoom \in [Booking -> OrNone(Request)]
    /\ builder \in Builder
    /\ pc \in [Request -> PC]
    /\ ask \in [Request -> Ask]
    /\ retries \in [Request -> 0..MaxRetries]
    /\ mem \in [Request -> Memory]
    /\ roomMem \in [Request -> OrNone(Request)]
    /\ using \in [Request -> Use]
    /\ roomSaved \in [Request -> OrNone(Request)]
    /\ roomed \in [Request -> SUBSET User]
    /\ plan \in [Request -> [User -> OrNone(Booking)]]
    /\ todo \in [Request -> SUBSET User]

Everyone(v) == [u \in User |-> v]
Each(v) == [t \in Request |-> v]

\* The prior bookings are in progress, and each user is linked to one of its own.
Init ==
    /\ TxnInit
    /\ link \in [User -> OrNone(Prior)]
    /\ \A u \in User :
          LET own == {b \in Prior : PriorOwner[b] = u} IN
          IF own = {} THEN link[u] = None ELSE link[u] \in own
    /\ owner = [b \in Booking |-> IF b \in Prior THEN PriorOwner[b] ELSE None]
    /\ status = [b \in Booking |-> "in_progress"]
    /\ inRoom = [b \in Booking |-> None]
    /\ builder = NoBuilder
    /\ ask \in [Request -> Ask]
    /\ pc = [t \in Request |-> IF ask[t].user = None THEN "answer" ELSE "new"]
    /\ retries = Each(0)
    /\ mem = Each(Nothing)
    /\ roomMem = Each(None)
    /\ using = Each(NoUse)
    /\ roomSaved = Each(None)
    /\ roomed = Each({})
    /\ plan = Each(Everyone(None))
    /\ todo = Each({})

-----------------------------------------------------------------------------
Asks(t, op) == ask[t].op = op
Actor(t) == ask[t].user

Kind(b) ==
    IF b \in Prior THEN PriorKind[b] ELSE IF Asks(b, "pass") THEN "UserPass" ELSE "UserBooking"

\* The user a booking was made for.
UserOf(b) == IF b \in Prior THEN PriorOwner[b] ELSE Actor(b)

Exists(b) == owner[b] # None

Roomed == {u \in User : link[u] # None /\ Exists(link[u]) /\ inRoom[link[u]] # None}

\* What becomes of the operations that others have sent in the transactions of T.
Over(T) ==
    [u \in Request |-> IF using[u].mode = "within" /\ using[u].of.session \in T
                       THEN [using[u] EXCEPT !.mode = "over"] ELSE using[u]]

\* t leaves its callback: its attempt is gone.
EndAttempt(t) ==
    /\ roomSaved' = [roomSaved EXCEPT ![t] = None]
    /\ roomed' = [roomed EXCEPT ![t] = {}]
    /\ plan' = [plan EXCEPT ![t] = Everyone(None)]
    /\ todo' = [todo EXCEPT ![t] = {}]

\* The transactions of T are aborted and t leaves its callback.  The booking that it
\* has made is none, also for who was going to give it a room.
Abort(T, t) ==
    /\ AbortTxns(T)
    /\ EndAttempt(t)
    /\ using' = [u \in Request |->
          IF u = t \/ (pc[u] = "room" /\ using[u].of.booking = t) THEN NoUse ELSE Over(T)[u]]

\* An exception that leaves the transaction open, for the mutant of Fail.
FailLeavingItOpen(t) ==
    /\ pc' = [pc EXCEPT ![t] = "failed"]
    /\ UNCHANGED <<txnVars, dbVars, memVars, using, attemptVars, ask, retries>>

\* An exception of the callback: the client gets the error.
Fail(t) ==
    /\ Abort({t}, t)
    /\ pc' = [pc EXCEPT ![t] = "failed"]
    /\ UNCHANGED <<dbVars, memVars, ask, retries>>

\* The 120 s of withTransaction() are not over.
AnotherTry(t) == retries[t] < MaxRetries

\* A TransientTransactionError in the session s, thrown in request t: both
\* transactions are over, and t runs its callback again on what is in memory.
RunAgainAfter(s, t) ==
    /\ Abort({s, t}, t)
    /\ IF AnotherTry(t)
       THEN /\ pc' = [pc EXCEPT ![t] = "answer"]
            /\ retries' = [retries EXCEPT ![t] = @ + 1]
       ELSE /\ pc' = [pc EXCEPT ![t] = "failed"]
            /\ UNCHANGED retries
    /\ UNCHANGED <<dbVars, memVars, ask>>

\* The operation is tried again in the aborted transaction, for the mutant of RunAgain.
RunOperationAgain(t) == UNCHANGED vars

RunAgain(t) == RunAgainAfter(t, t)

-----------------------------------------------------------------------------
\* JwtStrategy.validate: findOne() of the user, outside any transaction.
LoadUser(t) ==
    /\ pc[t] = "new"
    /\ mem' = [mem EXCEPT ![t] = [Nothing EXCEPT !.booking = link[Actor(t)]]]
    /\ pc' = [pc EXCEPT ![t] = IF link[Actor(t)] = None THEN "answer" ELSE "populate"]
    /\ UNCHANGED <<txnVars, dbVars, builder, roomMem, using, attemptVars, ask, retries>>

\* The populate() of its booking, a query of its own.
PopulateBooking(t) ==
    /\ pc[t] = "populate"
    /\ LET b == mem[t].booking IN
       mem' = [mem EXCEPT ![t].found = Exists(b),
                          ![t].paid = Exists(b) /\ status[b] = "completed"]
    /\ pc' = [pc EXCEPT ![t] = "answer"]
    /\ UNCHANGED <<txnVars, dbVars, builder, roomMem, using, attemptVars, ask, retries>>

\* t goes on to save the users of T, each with its value in p.
SaveNext(t, T, p) ==
    /\ plan' = [plan EXCEPT ![t] = p]
    /\ todo' = [todo EXCEPT ![t] = T]
    /\ pc' = [pc EXCEPT ![t] = IF T = {} THEN "commit" ELSE "save"]
    /\ UNCHANGED <<dbVars, builder, roomMem, using, roomSaved, roomed, ask, retries>>

\* addPass: user.booking is the new pass in memory before it is saved, and remains so
\* when the attempt is aborted.
CreateUserPass(t) ==
    /\ pc[t] = "answer" /\ Asks(t, "pass")
    /\ \/ /\ mem[t].booking # None
          /\ Fail(t)
       \/ /\ mem[t].booking = None
          /\ TakeSnapshot(t)
          /\ mem' = [mem EXCEPT ![t].booking = t]
          /\ SaveNext(t, {Actor(t)}, [Everyone(None) EXCEPT ![Actor(t)] = t])

\* removeUserPass without the save of the user, for the mutant of UsersToUnlink.
NoUserToUnlink(t) == {}

\* The users whose booking removeUserPass unsets.
UsersToUnlink(t) == {Actor(t)}

\* cancelBooking asks the booking that the guard has loaded whether it is paid, and
\* isOfKind() answers false for every kind: removeUserPass, which finds passes only.
\* A retried callback finds no booking in memory and throws.
CancelBooking(t) ==
    /\ pc[t] = "answer" /\ Asks(t, "cancel")
    /\ LET b == mem[t].booking
           isPass == b # None /\ Kind(b) = "UserPass" /\ Exists(b)
           unlinked == [mem EXCEPT ![t] = Nothing]
       IN \/ /\ ~ mem[t].found \/ mem[t].paid
             /\ Fail(t)
          \/ /\ mem[t].found /\ ~ mem[t].paid
             /\ IF isPass THEN HoldFirst(t, b) ELSE TakeSnapshot(t)
             /\ mem' = unlinked
             /\ SaveNext(t, UsersToUnlink(t), Everyone(None))
          \/ /\ mem[t].found /\ ~ mem[t].paid
             /\ isPass /\ Conflicts(t, b)
             /\ RunAgain(t)

\* Every booking of the collection, for the mutant of BookingsToRestore.
BookingsOfAnyone(u) == {b \in Booking : Exists(b)}

\* What restoreBookings finds of user u in its snapshot.
BookingsToRestore(u) == {b \in Booking : owner[b] = u}

\* restoreBookings: a user gets the last of its bookings in the order the database
\* returns them, and is saved if that changes its link.  It throws when one of the
\* addresses it was sent is no user's.
RestoreBookings(t) ==
    /\ pc[t] = "answer" /\ Asks(t, "restore")
    /\ \/ Fail(t)
       \/ /\ TakeSnapshot(t)
          /\ \E p \in [User -> OrNone(Booking)] :
                /\ \A u \in User :
                      IF u \notin ask[t].users \/ BookingsToRestore(u) = {}
                      THEN p[u] = link[u]
                      ELSE p[u] \in BookingsToRestore(u)
                /\ SaveNext(t, {u \in User : p[u] # link[u]}, p)
          /\ UNCHANGED mem

\* cron after its deadline: the bookings in progress of its snapshot are unlinked.  A
\* link to no document is null when populated, and null has no isCompleted().
UnlinkUnpaid(t) ==
    /\ pc[t] = "answer" /\ Asks(t, "cron")
    /\ TakeSnapshot(t)
    /\ LET null(u) == link[u] # None /\ ~ Exists(link[u])
           unpaid(u) == link[u] # None /\ status[link[u]] = "in_progress"
       IN SaveNext(t, {u \in User : null(u) \/ unpaid(u)},
                   [u \in User |-> IF null(u) THEN link[u] ELSE None])
    /\ UNCHANGED mem

\* user.save({ session })
SaveUser(t) ==
    /\ pc[t] = "save"
    /\ \E u \in todo[t] :
          /\ Asks(t, "cron") => plan[t][u] = None
          /\ \/ /\ t \in open
                /\ HoldDoc(t, u)
                /\ SaveNext(t, todo[t] \ {u}, plan[t])
                /\ UNCHANGED mem
             \/ /\ t \notin open \/ Conflicts(t, u)
                /\ RunAgain(t)

\* The nightly job throws at a user whose booking is null.
NullBooking(t) ==
    /\ pc[t] = "save" /\ Asks(t, "cron")
    /\ \E u \in todo[t] : plan[t][u] # None
    /\ Fail(t)

-----------------------------------------------------------------------------
\* this._user = this._user ?? user, for the mutant of Remember.
RememberFirst(t) ==
    [user |-> IF builder.user = None THEN t ELSE builder.user, booking |-> t, session |-> t]

\* The fields of the builder after initialize().
Remember(t) == [user |-> t, booking |-> t, session |-> t]

\* addBooking with a room: initialize() inserts the booking in the session of t and
\* then sets the three fields, and bookRoom() asks for the roommates in that session.
InitializeBuilder(t) ==
    /\ pc[t] = "answer" /\ Asks(t, "room")
    /\ \/ /\ mem[t].booking # None
          /\ Fail(t)
       \/ /\ mem[t].booking = None
          /\ TakeSnapshot(t)
          /\ builder' = Remember(t)
          /\ roomMem' = [roomMem EXCEPT ![t] = None]
          /\ roomed' = [roomed EXCEPT ![t] = Roomed]
          /\ pc' = [pc EXCEPT ![t] = "roommates"]
          /\ UNCHANGED <<dbVars, mem, using, roomSaved, plan, todo, ask, retries>>

\* The users with a room for an operation in the session of t: its snapshot and what
\* has been written in it.
RoomedIn(t) ==
    {u \in User : IF u \in held[t]
                  THEN plan[t][u] # None /\ roomSaved[t] # None
                  ELSE u \in roomed[t]}

\* bookRoom: nobody of the room is "already in another room".  The booking that will
\* get the room is read of the builder before the room booking is made.
CheckRoommates(t) ==
    /\ pc[t] = "roommates"
    /\ LET taken == RoomedIn(t) \cap (ask[t].users \cup {Actor(t)}) # {} IN
       \/ /\ t \in open /\ ~ taken
          /\ using' = [using EXCEPT ![t] = [NoUse EXCEPT !.of = builder]]
          /\ pc' = [pc EXCEPT ![t] = "room"]
          /\ UNCHANGED <<txnVars, dbVars, memVars, attemptVars, ask, retries>>
       \/ t \in open /\ taken /\ Fail(t)
       \/ t \notin open /\ RunAgain(t)

\* How an operation that is sent now runs in the session of s.
Modes(s) ==
    IF pc[s] \in Answered THEN {"outside"}
    ELSE IF pc[s] = "answer" THEN {"outside", "over"}
    ELSE IF s \in open THEN {"within"} ELSE {"over"}

\* The requests that are saving the booking or the user of the builder.
BookingSaves(t) == {u \in Request \ {t} : pc[u] = "get" /\ using[u].of.booking = builder.booking}
UserSaves(t) == {u \in Request \ {t} : pc[u] = "link" /\ using[u].of.user = builder.user}

\* t calls save() on what the builder refers to, and goes on to stage p; r is the
\* roomBooking saved.  A save() of a document that S are saving throws
\* ParallelSaveError; a save in a transaction that is over may have failed already.
SendSave(t, p, r, S) ==
    /\ \/ /\ \A u \in S : using[u].mode = "over"
          /\ \E m \in Modes(builder.session) :
                using' = [using EXCEPT ![t] = [of |-> builder, mode |-> m, room |-> r]]
          /\ pc' = [pc EXCEPT ![t] = p]
       \/ /\ S # {}
          /\ using' = [using EXCEPT ![t] = NoUse]
          /\ pc' = [pc EXCEPT ![t] = "thrown"]
    /\ UNCHANGED <<ask, retries>>

\* createRoomBooking, without the session: the document stays whatever becomes of the
\* transaction.  Its hotel may have no such room.  Then get() saves the booking of
\* the builder.
CreateRoomBooking(t) ==
    /\ pc[t] = "room"
    /\ LET b == using[t].of.booking
           given == IF b = None THEN roomMem ELSE [roomMem EXCEPT ![b] = t]
       IN \/ Fail(t)
          \/ /\ roomMem' = given
             /\ SendSave(t, "get", given[builder.booking], BookingSaves(t))
             /\ UNCHANGED <<txnVars, dbVars, builder, mem, attemptVars>>

\* this._user.booking = this._userBooking._id, and the save of that user is sent.
SendUser(t) ==
    LET v == builder.user
        b == builder.booking
    IN /\ mem' = IF mem[v].booking = b THEN mem
                 ELSE [mem EXCEPT ![v] = [Nothing EXCEPT !.booking = b, !.unsaved = TRUE]]
       /\ SendSave(t, "link", None, UserSaves(t))
       /\ UNCHANGED <<builder, roomMem>>

\* The first half of get(): the booking is saved in the session it was read with.
\* Outside a transaction there is no such document unless its request is done.
GetBooking(t) ==
    /\ pc[t] = "get"
    /\ LET s == using[t].of.session
           b == using[t].of.booking
           r == using[t].room
       IN \/ /\ using[t].mode = "over"
             /\ RunAgain(t) \/ Fail(t)
          \/ /\ using[t].mode = "within"
             /\ roomSaved' = [roomSaved EXCEPT ![s] = r]
             /\ SendUser(t)
             /\ UNCHANGED <<txnVars, dbVars, roomed, plan, todo>>
          \/ /\ using[t].mode = "outside" /\ Exists(b)
             /\ inRoom' = [inRoom EXCEPT ![b] = r]
             /\ SendUser(t)
             /\ UNCHANGED <<txnVars, link, owner, status, attemptVars>>
          \/ /\ using[t].mode = "outside" /\ ~ Exists(b)
             /\ Fail(t)

\* An exception on its way out of the callback.
Thrown(t) == pc[t] = "thrown" /\ Fail(t)

\* get() returns, and addBooking goes on to its e-mail.
LeaveBuilder(t) ==
    /\ pc' = [pc EXCEPT ![t] = "commit"]
    /\ UNCHANGED <<builder, roomMem, ask, retries>>

\* The second half of get(): the user of the builder is saved, if its booking is not
\* saved yet, in the session that was read with it.
LinkUser(t) ==
    /\ pc[t] = "link"
    /\ LET s == using[t].of.session
           v == using[t].of.user
           u == Actor(v)
           b == mem[v].booking
           saved == [mem EXCEPT ![v].unsaved = FALSE]
       IN \/ /\ using[t].mode = "over"
             /\ RunAgain(t) \/ Fail(t)
          \/ /\ using[t].mode # "over" /\ ~ mem[v].unsaved
             /\ LeaveBuilder(t)
             /\ UNCHANGED <<txnVars, dbVars, mem, using, attemptVars>>
          \/ /\ using[t].mode = "within" /\ mem[v].unsaved
             /\ HoldDoc(s, u)
             /\ plan' = [plan EXCEPT ![s][u] = b]
             /\ mem' = saved
             /\ LeaveBuilder(t)
             /\ UNCHANGED <<dbVars, using, roomSaved, roomed, todo>>
          \/ /\ using[t].mode = "within" /\ mem[v].unsaved
             /\ Conflicts(s, u)
             /\ RunAgainAfter(s, t)
          \/ /\ using[t].mode = "outside" /\ mem[v].unsaved
             /\ WriteNow(u)
             /\ link' = [link EXCEPT ![u] = b]
             /\ mem' = saved
             /\ LeaveBuilder(t)
             /\ UNCHANGED <<owner, status, inRoom, using, attemptVars>>

-----------------------------------------------------------------------------
\* The e-mail of addPass and addBooking is sent before the commit, and may fail.
Commit(t) ==
    /\ pc[t] = "commit"
    /\ \/ /\ t \in open
          /\ CommitTxn(t)
          /\ link' = [u \in User |-> IF u \in held[t] THEN plan[t][u] ELSE link[u]]
          /\ owner' = [b \in Booking |->
                IF b \in held[t] THEN None
                ELSE IF b = t /\ ask[t].op \in {"pass", "room"} THEN Actor(t) ELSE owner[b]]
          /\ inRoom' = [b \in Booking |-> IF b = t THEN roomSaved[t] ELSE inRoom[b]]
          /\ EndAttempt(t)
          /\ using' = [Over({t}) EXCEPT ![t] = NoUse]
          /\ pc' = [pc EXCEPT ![t] = "done"]
          /\ UNCHANGED <<status, memVars, ask, retries>>
       \/ t \notin open /\ RunAgain(t)
       \/ ask[t].op \in {"pass", "room"} /\ Fail(t)

\* A status outside the enumeration, for the mutant of CompletedStatus.
CompletedStatusMisspelt == "paid"

\* BookingStatus.completed.
CompletedStatus == "completed"

\* A payment completes a booking, in a transaction of its own.
CompleteBooking(b) ==
    /\ Payable
    /\ Exists(b) /\ status[b] = "in_progress"
    /\ WriteNow(b)
    /\ status' = [status EXCEPT ![b] = CompletedStatus]
    /\ UNCHANGED <<link, owner, inRoom, memVars, using, attemptVars, pc, ask, retries>>

\* Where request t waits outside a transaction for the user it saves.
Awaits(t, u) ==
    /\ pc[t] = "link" /\ using[t].mode = "outside"
    /\ mem[using[t].of.user].unsaved /\ u = Actor(using[t].of.user)

\* transactionLifetimeLimitSeconds: the database aborts a transaction that has made
\* another operation wait for too long.  It may be the transaction of the same request.
Expire(s) ==
    /\ \E t \in Request, u \in held[s] : Awaits(t, u)
    /\ AbortTxns({s})
    /\ using' = Over({s})
    /\ UNCHANGED <<dbVars, memVars, attemptVars, pc, ask, retries>>

\* The server process stops: the database aborts the open transactions.
Crash ==
    LET lost == {t \in Request : pc[t] \notin Answered \cup {"new"}} IN
    /\ lost # {}
    /\ AbortTxns(lost)
    /\ pc' = [t \in Request |-> IF t \in lost THEN "lost" ELSE pc[t]]
    /\ builder' = NoBuilder
    /\ mem' = Each(Nothing)
    /\ roomMem' = Each(None)
    /\ using' = Each(NoUse)
    /\ roomSaved' = Each(None)
    /\ roomed' = Each({})
    /\ plan' = Each(Everyone(None))
    /\ todo' = Each({})
    /\ UNCHANGED <<dbVars, ask, retries>>

Answer(t) ==
    \/ LoadUser(t) \/ PopulateBooking(t)
    \/ CreateUserPass(t) \/ CancelBooking(t) \/ RestoreBookings(t) \/ UnlinkUnpaid(t)
    \/ SaveUser(t) \/ NullBooking(t)
    \/ InitializeBuilder(t) \/ CheckRoommates(t) \/ CreateRoomBooking(t)
    \/ GetBooking(t) \/ LinkUser(t) \/ Thrown(t)
    \/ Commit(t)

AllAnswered ==
    /\ \A t \in Request : pc[t] \in Answered
    /\ UNCHANGED vars

Next ==
    \/ \E t \in Request : Answer(t)
    \/ \E t \in Request : Expire(t)
    \/ \E b \in Booking : CompleteBooking(b)
    \/ Crash
    \/ AllAnswered

Spec == Init /\ [][Next]_vars

\* Every await of a request ends, and its continuation is run; the database does not let
\* a transaction keep others waiting for ever.
FairSpec == Spec /\ \A t \in Request : WF_vars(Answer(t)) /\ WF_vars(Expire(t))
-----------------------------------------------------------------------------
\* A user's booking is one made for that user, although the builder of all requests is
\* one object (user-booking.builder.ts:19-21) and restoring matches bookings to users
\* by hand (booking.service.ts:180-186).
OwnBooking ==
    \A u \in User : link[u] # None => UserOf(link[u]) = u

\* The pass a user is linked to exists: removeUserPass deletes the pass and the link
\* together (user-pass.service.ts:100-110), against a restoration, a nightly job or
\* another cancellation of the same pass at the same time.
PassLinkIsLive ==
    \A u \in User : link[u] # None /\ Kind(link[u]) = "UserPass" => Exists(link[u])

\* The inductive invariant behind OwnBooking and PassLinkIsLive.

\* The three fields of the builder, or a reading of them, are of one request, or unset.
OfOneRequest(o) ==
    \/ o = NoBuilder
    \/ \E t \in Request : Asks(t, "room") /\ o = [user |-> t, booking |-> t, session |-> t]

InBuilder == {"roommates", "room", "get", "link"}

BuilderInv ==
    /\ OfOneRequest(builder)
    /\ (\E t \in Request : pc[t] \in InBuilder) => builder # NoBuilder

OwnOrNone(u, b) == b = None \/ UserOf(b) = u

IsPass(b) == b # None /\ Kind(b) = "UserPass"

\* What a request may rely on when it resumes.
RequestInv(t) ==
    /\ pc[t] \in {"new", "populate", "answer"} \cup Answered => t \notin open
    /\ pc[t] = "new" => Actor(t) # None
    /\ pc[t] \in InBuilder => Asks(t, "room")
    /\ pc[t] \in {"get", "link"} => using[t].of # NoBuilder
    /\ OfOneRequest(using[t].of)
    /\ using[t].mode = "within" => using[t].of.session \in open
    /\ OwnOrNone(Actor(t), mem[t].booking)
    /\ mem[t].unsaved => mem[t].booking = t /\ Asks(t, "room")

\* What its transaction is going to write: a value of user.booking is the user's own,
\* and a pass either is made or deleted by the transaction together with the link or,
\* if another transaction has deleted it meanwhile, that one has also changed the link.
AttemptInv(t) ==
    /\ \A u \in User : OwnOrNone(u, plan[t][u])
    /\ ~ Asks(t, "cancel") => held[t] \subseteq User
    /\ Asks(t, "pass") => \A u \in User : plan[t][u] \in {None, t}
    /\ Asks(t, "room") => \A u \in User : ~ IsPass(plan[t][u])
    /\ Asks(t, "cancel") =>
          /\ plan[t] = Everyone(None)
          /\ todo[t] \subseteq {Actor(t)}
          /\ \A b \in held[t] \ User : UserOf(b) = Actor(t)
          /\ pc[t] = "commit" /\ t \in open => Actor(t) \in held[t]
    /\ ask[t].op \in {"restore", "cron"} /\ t \in open =>
          \A u \in User : IsPass(plan[t][u]) => Exists(plan[t][u]) \/ u \in missed[t]

IInv ==
    /\ TypeOK
    /\ OneWriter
    /\ BuilderInv
    /\ \A t \in Request : RequestInv(t) /\ AttemptInv(t)
    /\ \A b \in Booking : owner[b] \in {None, UserOf(b)}
    /\ OwnBooking
    /\ PassLinkIsLive

\* Every request that has reached its handler is answered, although operations outside
\* a transaction wait for the transactions that hold their document.
EveryRequestAnswered ==
    \A t \in Request : pc[t] = "answer" ~> pc[t] \in Answered

\* "Successful Registration" (messaging.service.ts:29): a user who is told so has that
\* booking.  It does not hold: see the run booking_untold.
BookedWhenTold ==
    [][\A t \in Request : Asks(t, "room") /\ pc[t] # "done" /\ pc'[t] = "done"
                             => link'[Actor(t)] = t]_vars

\* "This user has already paid his booking" (booking.service.ts:155): a paid booking is
\* not cancelled.  It does not hold: see the run booking_cancelled.
PaidBookingKept ==
    [][\A b \in Booking : Exists(b) /\ status[b] = "completed" => Exists(b)']_vars
=============================================================================
