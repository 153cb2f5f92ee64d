------------------------------ MODULE Payment -------------------------------
(***************************************************************************)
(* POST /payment: a treasurer records that a payer has paid a list of      *)
(* bookings (payment.controller.ts, payment.service.ts).  Each request     *)
(* runs pay() inside withTransaction(), but the bookings and the count of  *)
(* past payments are read without the session, so one run of pay() mixes   *)
(* its snapshot with states committed after it.                            *)
(*                                                                         *)
(* A Pass is a UserPass or a UserBooking: both are completed by the first  *)
(* payment that names them.  A Room is a RoomBooking: it is paid by shares *)
(* and takes a room of its hotel when the last share comes in.             *)
(* The bookings exist, or are missing, from the start: they are created    *)
(* and cancelled in BookingDesk.                                           *)
(***************************************************************************)
EXTENDS MongoTxn, Naturals, Sequences, FiniteSets

CONSTANTS
    Request,        \* POST /payment requests, a re-sent one being another
    Body,           \* their possible bodies: who pays, and how often each booking is named
    User,           \* registered users
    Gone,           \* booking ids that name no document
    Pass,           \* UserPass and UserBooking documents
    Room,           \* RoomBooking documents
    Hotel,          \* hotel documents
    Collection,     \* the (hotel, room type) entries of the hotels' rooms
    HotelOf,        \* the hotel of a collection
    CollectionOf,   \* the collection a room booking asks for
    Capacity,       \* roomType.capacity of a room booking
    Count,          \* the number of rooms of a collection
    MaxRetries,     \* retries of a callback before the driver's 120 s are over
    None

Booking == Pass \cup Room

ASSUME ConstantsAssumption ==
    /\ Request \subseteq Txn
    /\ Doc = Booking \cup Hotel
    /\ Pass \cap Room = {}
    /\ Hotel \cap Booking = {}
    /\ Body \subseteq [payer : User \cup {None}, occurs : [Booking -> Nat]]
    /\ Gone \subseteq Booking
    /\ HotelOf \in [Collection -> Hotel]
    /\ CollectionOf \in [Room -> Collection]
    /\ Capacity \in [Room -> Nat \ {0}]
    /\ Count \in [Collection -> Nat]
    /\ MaxRetries \in Nat
    /\ None \notin Room \cup User

VARIABLES
    \* committed documents
    status,     \* the status of a booking, or "missing"
    hotels,     \* the hotels that have not been deleted
    rooms,      \* the room bookings listed in a collection, in order
    payments,   \* the requests whose payment document is stored
    shares,     \* how often the payment documents name a room booking ($group / $sum)
    \* one run of pay()
    pc,         \* where it stands between two awaits
    body,       \* the request's body
    retries,    \* how often withTransaction() has run the callback again
    todo,       \* the bookings the loop has still to visit
    paidSeen,   \* the loaded bookings whose status was completed
    cur,        \* the room booking being completed
    done,       \* the bookings saved as completed by this transaction
    view        \* the hotels as this transaction reads them: snapshot and own writes

dbVars == <<status, hotels, rooms, payments, shares>>
runVars == <<pc, body, retries, todo, paidSeen, cur, done, view>>
vars == <<txnVars, dbVars, runVars>>

\* The hotel documents as a transaction reads them.
HotelView == [hotels : SUBSET Hotel, rooms : [Collection -> Seq(Room)]]

Blank == [hotels |-> {}, rooms |-> [c \in Collection |-> <<>>]]

Answered == {"done", "failed", "lost"}

PC == {"new", "retry", "load", "loop", "hotel", "room"} \cup Answered

TypeOK ==
    /\ TxnTypeOK
    /\ status \in [Booking -> {"in_progress", "completed", "missing"}]
    /\ hotels \subseteq Hotel
    /\ rooms \in [Collection -> Seq(Room)]
    /\ payments \subseteq Request
    /\ shares \in [Room -> Nat]
    /\ pc \in [Request -> PC]
    /\ body \in [Request -> Body]
    /\ retries \in [Request -> 0..MaxRetries]
    /\ todo \in [Request -> SUBSET Booking]
    /\ paidSeen \in [Request -> SUBSET Booking]
    /\ cur \in [Request -> Room \cup {None}]
    /\ \A t \in Request : pc[t] \in {"hotel", "room"} => cur[t] # None
    /\ done \in [Request -> SUBSET Booking]
    /\ view \in [Request -> HotelView]

Init ==
    /\ TxnInit
    /\ status = [b \in Booking |-> IF b \in Gone THEN "missing" ELSE "in_progress"]
    /\ hotels = Hotel
    /\ rooms = [c \in Collection |-> <<>>]
    /\ payments = {}
    /\ shares = [r \in Room |-> 0]
    /\ pc = [t \in Request |-> "new"]
    /\ body \in [Request -> Body]
    /\ retries = [t \in Request |-> 0]
    /\ todo = [t \in Request |-> {}]
    /\ paidSeen = [t \in Request |-> {}]
    /\ cur = [t \in Request |-> None]
    /\ done = [t \in Request |-> {}]
    /\ view = [t \in Request |-> Blank]

-----------------------------------------------------------------------------
\* bookingIdsMap: how often the request names a booking.
Occurs(t, b) == body[t].occurs[b]

\* The keys of bookingIdsMap.
Named(t) == {b \in Booking : Occurs(t, b) > 0}

\* What the run of t kept in memory is dropped at the end of an attempt.
ForgetRuns(T) ==
    /\ todo' = [t \in Request |-> IF t \in T THEN {} ELSE todo[t]]
    /\ paidSeen' = [t \in Request |-> IF t \in T THEN {} ELSE paidSeen[t]]
    /\ cur' = [t \in Request |-> IF t \in T THEN None ELSE cur[t]]
    /\ done' = [t \in Request |-> IF t \in T THEN {} ELSE done[t]]
    /\ view' = [t \in Request |-> IF t \in T THEN Blank ELSE view[t]]

\* An exception of the callback: the transaction is aborted, the client gets the error.
Fail(t) ==
    /\ AbortTxns({t})
    /\ ForgetRuns({t})
    /\ pc' = [pc EXCEPT ![t] = "failed"]
    /\ UNCHANGED <<dbVars, body, retries>>

\* withTransaction() keeps one clock over all attempts.
AnotherTry(n) == n + 1

\* The operation is tried again in the aborted transaction, for the mutant of RunAgain.
RunOperationAgain(t) == UNCHANGED vars

\* A TransientTransactionError: the transaction is aborted and the whole callback
\* is run again, unless its time is over.
RunAgain(t) ==
    /\ AbortTxns({t})
    /\ ForgetRuns({t})
    /\ IF retries[t] < MaxRetries
       THEN /\ pc' = [pc EXCEPT ![t] = "retry"]
            /\ retries' = [retries EXCEPT ![t] = AnotherTry(@)]
       ELSE /\ pc' = [pc EXCEPT ![t] = "failed"]
            /\ UNCHANGED retries
    /\ UNCHANGED <<dbVars, body>>

-----------------------------------------------------------------------------
\* A getUser(payer) without its session, for the mutant of ReadWithSession.
ReadWithoutSession(t) == UNCHANGED txnVars

\* A first read that carries the session.
ReadWithSession(t) == TakeSnapshot(t)

\* getUser(payer, session): the snapshot is taken before the bookings are read.
GetPayer(t) ==
    /\ pc[t] \in {"new", "retry"}
    /\ \/ /\ body[t].payer \in User
          /\ ReadWithSession(t)
          /\ view' = [view EXCEPT ![t] = [hotels |-> hotels, rooms |-> rooms]]
          /\ pc' = [pc EXCEPT ![t] = "load"]
          /\ UNCHANGED <<dbVars, body, retries, todo, paidSeen, cur, done>>
       \/ /\ body[t].payer \notin User
          /\ Fail(t)

\* findAllBookings() without the session: the latest committed bookings are read.
FindBookings(t) ==
    /\ pc[t] = "load"
    /\ \/ /\ Named(t) # {}
          /\ \A b \in Named(t) : status[b] # "missing"
          /\ todo' = [todo EXCEPT ![t] = Named(t)]
          /\ paidSeen' = [paidSeen EXCEPT ![t] = {b \in Named(t) : status[b] = "completed"}]
          /\ pc' = [pc EXCEPT ![t] = "loop"]
          /\ UNCHANGED <<txnVars, dbVars, body, retries, cur, done, view>>
       \/ /\ Named(t) = {} \/ \E b \in Named(t) : status[b] = "missing"
          /\ Fail(t)

\* A complete() without its guard, for the mutant of AlreadyPaid.
AlreadyPaidUnchecked(t, b) == FALSE

\* complete() throws on a booking that was loaded as completed.
AlreadyPaid(t, b) == b \in paidSeen[t]

\* complete() in memory, then save({ session }).
SaveCompleted(t, b) ==
    /\ HoldDoc(t, b)
    /\ done' = [done EXCEPT ![t] = @ \cup {b}]
    /\ UNCHANGED <<dbVars, body, retries, paidSeen, view>>

\* One turn of the loop for a pass or a user booking; find() promises no order.
CompleteUserPass(t, b) ==
    /\ pc[t] = "loop"
    /\ b \in todo[t]
    /\ \/ /\ ~ AlreadyPaid(t, b)
          /\ SaveCompleted(t, b)
          /\ todo' = [todo EXCEPT ![t] = @ \ {b}]
          /\ UNCHANGED <<pc, cur>>
       \/ /\ ~ AlreadyPaid(t, b)
          /\ Conflicts(t, b)
          /\ RunAgain(t)
       \/ /\ AlreadyPaid(t, b)
          /\ Fail(t)

\* A count that takes the payment at hand twice, for the mutant of LastShare.
LastShareCountedTwice(t, r) == shares[r] + 2 * Occurs(t, r) = Capacity[r]

\* The count of past payments, read without the session, reaches the capacity exactly.
LastShare(t, r) == shares[r] + Occurs(t, r) = Capacity[r]

\* One turn of the loop for a room booking: a share is only counted by its payment
\* document, and nothing is written unless it is the last one.
CountPastPayments(t, r) ==
    /\ pc[t] = "loop"
    /\ r \in todo[t]
    /\ todo' = [todo EXCEPT ![t] = @ \ {r}]
    /\ IF LastShare(t, r)
       THEN pc' = [pc EXCEPT ![t] = "hotel"] /\ cur' = [cur EXCEPT ![t] = r]
       ELSE UNCHANGED <<pc, cur>>
    /\ UNCHANGED <<txnVars, dbVars, body, retries, paidSeen, done, view>>

\* A guard that lets one booking too many in, for the mutant of NoRoomLeft.
NoRoomLeftOffByOne(t, c) == Len(view[t].rooms[c]) > Count[c]

\* Hotel.addBooking: "There are no longer rooms of this type available".
NoRoomLeft(t, c) == Len(view[t].rooms[c]) >= Count[c]

\* A change of the Mixed path rooms that mongoose does not see, for the mutant of PushBooking.
PushBookingUnmarked(list, r) == list

\* Hotel.addBooking: push, and assign the map anew so that save() writes it.
PushBooking(list, r) == Append(list, r)

\* accommodationService.addBooking: getHotel, the room is taken, the hotel is saved.
AddBookingToHotel(t) ==
    /\ pc[t] = "hotel"
    /\ LET r == cur[t]
           c == CollectionOf[r]
           h == HotelOf[c]
           found == h \in view[t].hotels
       IN \/ /\ found /\ ~ NoRoomLeft(t, c)
             /\ HoldDoc(t, h)
             /\ view' = [view EXCEPT ![t].rooms[c] = PushBooking(@, r)]
             /\ pc' = [pc EXCEPT ![t] = "room"]
             /\ UNCHANGED <<dbVars, body, retries, todo, paidSeen, cur, done>>
          \/ /\ found /\ ~ NoRoomLeft(t, c)
             /\ Conflicts(t, h)
             /\ RunAgain(t)
          \/ /\ ~ found \/ NoRoomLeft(t, c)
             /\ Fail(t)

\* The second half of completeRoomBooking.
CompleteRoomBooking(t) ==
    /\ pc[t] = "room"
    /\ \/ /\ ~ AlreadyPaid(t, cur[t])
          /\ SaveCompleted(t, cur[t])
          /\ pc' = [pc EXCEPT ![t] = "loop"]
          /\ cur' = [cur EXCEPT ![t] = None]
          /\ UNCHANGED todo
       \/ /\ ~ AlreadyPaid(t, cur[t])
          /\ Conflicts(t, cur[t])
          /\ RunAgain(t)
       \/ /\ AlreadyPaid(t, cur[t])
          /\ Fail(t)

\* A status outside the enumeration, for the mutant of CompletedStatus.
CompletedStatusMisspelt == "paid"

\* BookingStatus.completed.
CompletedStatus == "completed"

\* createPayments and commitTransaction: a new document never conflicts, so the
\* payment becomes visible together with the completions and the rooms taken.
CreatePayment(t) ==
    /\ pc[t] = "loop"
    /\ todo[t] = {}
    /\ status' = [b \in Booking |-> IF b \in done[t] THEN CompletedStatus ELSE status[b]]
    /\ rooms' = [c \in Collection |->
                    IF HotelOf[c] \in held[t] THEN view[t].rooms[c] ELSE rooms[c]]
    /\ payments' = payments \cup {t}
    /\ shares' = [r \in Room |-> shares[r] + Occurs(t, r)]
    /\ CommitTxn(t)
    /\ ForgetRuns({t})
    /\ pc' = [pc EXCEPT ![t] = "done"]
    /\ UNCHANGED <<hotels, body, retries>>

\* DELETE /hotel/delete and /hotel/clear: findByIdAndDelete without a session.
RemoveHotel(h) ==
    /\ h \in hotels
    /\ WriteNow(h)
    /\ hotels' = hotels \ {h}
    /\ UNCHANGED <<status, rooms, payments, shares, runVars>>

\* The server process stops: the open transactions are aborted by the database and
\* the requests are never answered.
InFlight == {t \in Request : pc[t] \notin Answered \cup {"new"}}

Crash ==
    /\ InFlight # {}
    /\ AbortTxns(InFlight)
    /\ ForgetRuns(InFlight)
    /\ pc' = [t \in Request |-> IF t \in InFlight THEN "lost" ELSE pc[t]]
    /\ UNCHANGED <<dbVars, body, retries>>

-----------------------------------------------------------------------------
Pay(t) ==
    \/ GetPayer(t)
    \/ FindBookings(t)
    \/ \E b \in Pass : CompleteUserPass(t, b)
    \/ \E r \in Room : CountPastPayments(t, r)
    \/ AddBookingToHotel(t)
    \/ CompleteRoomBooking(t)
    \/ CreatePayment(t)

\* Every request has been answered: nothing is left to do.
AllAnswered ==
    /\ \A t \in Request : pc[t] \in Answered
    /\ UNCHANGED vars

Next ==
    \/ \E t \in Request : Pay(t)
    \/ \E h \in Hotel : RemoveHotel(h)
    \/ Crash
    \/ AllAnswered

Spec == Init /\ [][Next]_vars

\* Node's event loop resumes every continuation whose await is over, and every
\* call to the database returns or throws.
FairSpec == Spec /\ \A t \in Request : WF_vars(Pay(t))
-----------------------------------------------------------------------------
\* The payment documents that name booking b.
PaymentsOf(b) == {t \in payments : b \in Named(t)}

\* However the requests of the treasurers interleave, conflict and retry, at most
\* one payment document names a given pass or user booking: complete()'s guard
\* (booking.schema.ts:87) is checked on a document read outside the transaction, and
\* only the write conflict on save() makes the check hold at the commit.
PassPaidOnce ==
    \A p \in Pass : \A t, u \in PaymentsOf(p) : t = u

\* A booking is completed exactly as far as payment documents back it: a pass when
\* one names it, a room booking only when they name it at least as often as the
\* room has places (payment.service.ts:106-169 writes both in one transaction).
CompletedIsPaid ==
    /\ \A p \in Pass : status[p] = "completed" <=> PaymentsOf(p) # {}
    /\ \A r \in Room : status[r] = "completed" => shares[r] >= Capacity[r]

\* "make sure that bookings never exceed total number of rooms"
\* (room-collection.schema.ts:41): the validator there never runs on the Mixed path
\* rooms, so this rests on addBooking's check and on the conflict on the hotel.
HotelNotOverbooked ==
    \A c \in Collection : Len(rooms[c]) <= Count[c]

\* The room bookings a list names.
Listed(list) == {list[i] : i \in 1..Len(list)}

EachOnce(list) == \A i, j \in 1..Len(list) : list[i] = list[j] => i = j

\* A hotel that still exists lists exactly the completed room bookings of each
\* room type, each once: the listing and the status are two documents, written in
\* the order of room-booking.service.ts:307-314.
HotelListsCompleted ==
    \A c \in Collection : HotelOf[c] \in hotels =>
        /\ EachOnce(rooms[c])
        /\ Listed(rooms[c]) = {r \in Room : CollectionOf[r] = c /\ status[r] = "completed"}

\* The inductive invariant behind PassPaidOnce, CompletedIsPaid and
\* HotelNotOverbooked.

Active == {"load", "loop", "hotel", "room"}

\* What one run of pay() may rely on when it resumes.  The sixth line is the point
\* of reading the bookings after the snapshot: a named booking that the run has not
\* seen completed is not completed, unless a commit has made it unwritable for t.
RunInv(t) ==
    /\ t \in open <=> pc[t] \in Active
    /\ done[t] \subseteq held[t] \cap Named(t)
    /\ done[t] \cap paidSeen[t] = {}
    /\ done[t] # {} => pc[t] \in Active \ {"load"}
    /\ cur[t] # None => pc[t] \in {"hotel", "room"}
    /\ pc[t] \in Active \ {"load"} =>
          /\ \A b \in Named(t) \ (missed[t] \cup paidSeen[t]) : status[b] # "completed"
          /\ Named(t) \cap Pass \subseteq todo[t] \cup done[t]
          /\ todo[t] \subseteq Named(t)
    /\ cur[t] \in Named(t) \cup {None}
    /\ \A r \in Room : r \in done[t] \cup {cur[t]} => shares[r] + Occurs(t, r) >= Capacity[r]
    /\ \A c \in Collection : Len(view[t].rooms[c]) <= Count[c]

\* What the committed documents satisfy.
LedgerInv ==
    /\ \A p \in Pass : PaymentsOf(p) # {} <=> status[p] = "completed"
    /\ PassPaidOnce
    /\ \A r \in Room : status[r] = "completed" => shares[r] >= Capacity[r]
    /\ HotelNotOverbooked

IInv ==
    /\ TypeOK
    /\ OneWriter
    /\ \A t \in Request : RunInv(t)
    /\ LedgerInv

\* The inductive invariant behind HotelListsCompleted and the refinement of
\* PaymentLedger, on top of IInv.

\* The room bookings t has put into its view of their hotels.
Taken(t) == (done[t] \cap Room) \cup IF pc[t] = "room" THEN {cur[t]} ELSE {}

HotelFor(r) == HotelOf[CollectionOf[r]]

\* What one run of pay() may rely on about the hotels.  The hotels it has read and
\* nobody has changed since exist, and its view of them is the committed list plus
\* the room bookings it has taken itself; a room booking is taken by who holds its
\* hotel; and the one at hand has not been completed by another unless that has
\* changed its hotel too.
HotelRunInv(t) ==
    /\ Named(t) # {} \/ pc[t] \notin Active \ {"load"}
    /\ t \in payments <=> pc[t] = "done"
    /\ view[t].hotels # {} => pc[t] \in Active
    /\ done[t] \cap todo[t] = {}
    /\ held[t] \cap Hotel \subseteq view[t].hotels
    /\ view[t].hotels \ missed[t] \subseteq hotels
    /\ \A r \in Taken(t) : HotelFor(r) \in held[t]
    /\ \A c \in Collection : HotelOf[c] \in view[t].hotels \ missed[t] =>
          /\ EachOnce(view[t].rooms[c])
          /\ Listed(view[t].rooms[c]) =
                 Listed(rooms[c]) \cup {r \in Taken(t) : CollectionOf[r] = c}
    /\ cur[t] # None =>
          /\ cur[t] \notin todo[t] \cup done[t]
          /\ HotelFor(cur[t]) \notin missed[t] => status[cur[t]] # "completed"

HotelInv ==
    /\ \A t \in Request : HotelRunInv(t)
    /\ HotelListsCompleted

\* A room booking all of whose shares are paid is completed.  It does not hold:
\* see the run payment_stranded.
FullyPaidRoomIsCompleted ==
    \A r \in Room : shares[r] = Capacity[r] => status[r] = "completed"

\* Every request that has reached the service is answered (or lost in a crash):
\* the conflicts between concurrent payments cannot keep one retrying forever.
EveryPaymentAnswered ==
    \A t \in Request : pc[t] = "load" ~> pc[t] \in Answered

\* A payment and the completions it pays for become visible in one step, also when
\* the server stops in the middle: what PaymentLedger says.
Ledger ==
    INSTANCE PaymentLedger WITH
        recorded <- payments,
        completed <- {b \in Booking : status[b] = "completed"},
        taken <- [c \in Collection |-> Listed(rooms[c])]

LedgerSpec == Ledger!Spec
=============================================================================
