----------------------------- MODULE Programme ------------------------------
(***************************************************************************)
(* Workshops and transports, and the bookings of them (workshop,           *)
(* transport, booking/workshop-booking, booking/transport-booking).        *)
(*                                                                         *)
(* The administrators' routes change one document each.  No route reaches  *)
(* the other methods with the userId that the schemas of the bookings      *)
(* require, so that their calls come from inside the backend.  The methods *)
(* that cannot succeed whoever calls them are the actions of Unfinished.   *)
(*                                                                         *)
(* The groups of workshops are numbered from 1: group g is slot g of a     *)
(* booking.  An array stores undefined as null, here None.                 *)
(***************************************************************************)
EXTENDS Sessions

CONSTANTS
    User,
    Book,       \* user bookings
    Workshop, Transport,
    Groups,     \* the number of groups
    Capacity,   \* the capacities an administrator may give
    Participants \* the lists of participants an administrator may give

ASSUME ProgrammeAssumption ==
    /\ Groups \in Nat \ {0}
    /\ Capacity \subseteq Nat
    /\ Participants \subseteq Seq(User)
    /\ None \notin Workshop \cup Book

\* The documents: users, their bookings, and the booking of workshops and of a transport
\* that the user booking b refers to.
Member(u) == <<"user", u>>
Card(b) == <<"booking", b>>
Choice(b) == <<"choice", b>>
Ride(b) == <<"ride", b>>
Hall(w) == <<"workshop", w>>
Bus(x) == <<"transport", x>>

Status == {"in_progress", "completed"}
Slot == Workshop \cup {None}

WorkshopDocument == [group : 1..Groups, capacity : Capacity, who : Seq(User)]
TransportDocument == [capacity : Capacity, who : Seq(User)]
WorkshopBooking == [user : User, ids : [1..Groups -> Slot], status : Status]
TransportBooking == [user : User, on : Transport, status : Status]

\* What the documents of f hold, those of them that are of the programme.
ProgrammeContents(f) ==
    /\ \A u \in User : Member(u) \in DOMAIN f => f[Member(u)] \in Book \cup {None}
    /\ \A w \in Workshop : Hall(w) \in DOMAIN f => f[Hall(w)] \in WorkshopDocument \cup {None}
    /\ \A x \in Transport : Bus(x) \in DOMAIN f => f[Bus(x)] \in TransportDocument \cup {None}
    /\ \A b \in Book :
          /\ Choice(b) \in DOMAIN f => f[Choice(b)] \in WorkshopBooking \cup {None, Gone}
          /\ Ride(b) \in DOMAIN f => f[Ride(b)] \in TransportBooking \cup {None, Gone}

-----------------------------------------------------------------------------
\* The documents of one POST are inserted in parallel, each on its own: one that exists
\* already (the title is unique) does not stop the others.
NewWorkshop(g, c) == [group |-> g, capacity |-> c, who |-> <<>>]
NewTransport(c) == [capacity |-> c, who |-> <<>>]

AddWorkshop(t, w, g, c) == doc[Hall(w)] = None /\ Write(t, Hall(w), NewWorkshop(g, c))
AddTransport(t, x, c) == doc[Bus(x)] = None /\ Write(t, Bus(x), NewTransport(c))

\* The body of the update has the group, the capacity and the participants, of which the
\* answers of the API show only how many places are left.
ChangeWorkshopMetaData(t, w, g, c) ==
    /\ Stored(Hall(w))
    /\ \E who \in Participants \cup {doc[Hall(w)].who} :
          Write(t, Hall(w), [group |-> g, capacity |-> c, who |-> who])

ChangeTransportMetaData(t, x, c) ==
    Stored(Bus(x)) /\ Write(t, Bus(x), [doc[Bus(x)] EXCEPT !.capacity = c])

RemoveWorkshop(t, w) == Stored(Hall(w)) /\ Write(t, Hall(w), None)
RemoveTransport(t, x) == Stored(Bus(x)) /\ Write(t, Bus(x), None)
RemoveAllWorkshops(t) == WriteAll(t, [d \in {Hall(w) : w \in Workshop} |-> None])
RemoveAllTransports(t) == WriteAll(t, [d \in {Bus(x) : x \in Transport} |-> None])

Administer(t) ==
    \/ \E w \in Workshop, g \in 1..Groups, c \in Capacity :
          AddWorkshop(t, w, g, c) \/ ChangeWorkshopMetaData(t, w, g, c)
    \/ \E x \in Transport, c \in Capacity :
          AddTransport(t, x, c) \/ ChangeTransportMetaData(t, x, c)
    \/ \E w \in Workshop : RemoveWorkshop(t, w)
    \/ \E x \in Transport : RemoveTransport(t, x)
    \/ RemoveAllWorkshops(t)
    \/ RemoveAllTransports(t)

-----------------------------------------------------------------------------
\* getPopulatedUserBookingByUserId(): "User is not booked in", "Booking not found".
BookOf(u) == doc[Member(u)]
Booked(u) == BookOf(u) # None /\ Stored(Card(BookOf(u)))

IsFull(d) == Len(doc[d].who) = doc[d].capacity

\* addParticipant and addPassenger of the schemas refuse; and with the comparison of
\* isFull turned around for the mutant.
NoSeatOffByOne(d) == Len(doc[d].who) > doc[d].capacity

NoSeat(d) == Len(doc[d].who) >= doc[d].capacity

Sits(d, u) == \E k \in DOMAIN doc[d].who : doc[d].who[k] = u

\* findIndex() and splice(index, 1); without an index, splice(-1, 1) takes the last one.
Place(s, u) == CHOOSE k \in DOMAIN s : s[k] = u /\ \A j \in 1..(k - 1) : s[j] # u
Dropped(s, k) == SubSeq(s, 1, k - 1) \o SubSeq(s, k + 1, Len(s))

\* The status of a completed booking, and a misspelt one for the mutant.
CompletedMisspelt(b) == [b EXCEPT !.status = "complete"]

Completed(b) == [b EXCEPT !.status = "completed"]

\* WorkshopService.removeParticipant takes the last participant when it does not find
\* this one.
LeaveWorkshop(t, u, w) ==
    LET d == Hall(w)
        s == doc[d].who
    IN Awaited(t, Stored(d),
               Saved(d, [doc[d] EXCEPT !.who = Dropped(s, IF Sits(d, u) THEN Place(s, u) ELSE Len(s))]))

\* The choice of workshop w for slot g when a booking is made; "Workshop is full" is asked
\* only of a workshop that is not the chosen one, that is, never.
Fits(g, w) == w = None \/ (Stored(Hall(w)) /\ doc[Hall(w)].group = g)

\* The caller refers to it from u's booking b, which has none, also none that is still to
\* be written.
CreateWorkshopBooking(t, u, b, ids) ==
    /\ doc[Choice(b)] = None
    /\ \A i \in late : i.does = "set" => i.book # b
    /\ Awaited(t, \A g \in 1..Groups : Fits(g, ids[g]),
               Saved(Choice(b), [user |-> u, ids |-> ids, status |-> "in_progress"]))

\* changeWorkshop of the schema without its comparison of the groups, for the mutant.
ChangeableToAny(b, g, w) ==
    w = None \/ (/\ Stored(Hall(w))
                 /\ doc[Choice(b)].ids[g] # None
                 /\ doc[Choice(b)].ids[g] = w \/ ~ IsFull(Hall(w)))

\* A slot that was emptied holds null, whose equals() throws: it is never filled again.
Changeable(b, g, w) ==
    w = None \/ (/\ Stored(Hall(w))
                 /\ doc[Hall(w)].group = g
                 /\ doc[Choice(b)].ids[g] # None
                 /\ doc[Choice(b)].ids[g] = w \/ ~ IsFull(Hall(w)))

AllChangeable(b, ids) ==
    Stored(Choice(b)) /\ \A g \in 1..Groups : Changeable(b, g, ids[g])

Chosen(b, ids) == Saved(Choice(b), [doc[Choice(b)] EXCEPT !.ids = ids])

TransfersParticipant(t, u, ids) ==
    LET b == BookOf(u)
    IN Awaited(t, Booked(u) /\ AllChangeable(b, ids), Chosen(b, ids))

TransferParticipant(t, u, g, w) ==
    LET b == BookOf(u)
    IN Awaited(t, Booked(u) /\ Stored(Choice(b)) /\ Changeable(b, g, w),
               Saved(Choice(b), [doc[Choice(b)] EXCEPT !.ids[g] = w]))

\* The saves of an exchange are not awaited.
ToChoose(t, b, g, w) == [does |-> "set", call |-> t, book |-> b, slot |-> g, ws |-> w]

ExchangeParticipants(t, u, v, g) ==
    LET b == BookOf(u)
        c == BookOf(v)
        w == doc[Choice(b)].ids[g]
        y == doc[Choice(c)].ids[g]
        checks == /\ Booked(u) /\ Stored(Choice(b)) /\ w # None
                  /\ Booked(v) /\ Stored(Choice(c)) /\ y # None
                  /\ Changeable(b, g, y) /\ Changeable(c, g, w)
    IN /\ b # c
       /\ Attempt(t, checks, <<>>)
       /\ late' = late \cup (IF checks THEN {ToChoose(t, b, g, y), ToChoose(t, c, g, w)} ELSE {})
       /\ UNCHANGED doc

\* removeParticipant and removePassenger of the bookings: the reference goes too.
RemoveParticipant(t, u) == Awaited(t, Booked(u), Saved(Choice(BookOf(u)), None))
RemovePassenger(t, u) == Awaited(t, Booked(u), Saved(Ride(BookOf(u)), None))

\* By its id: the reference stays.
Deleted(d) == IF Stored(d) THEN Saved(d, Gone) ELSE <<>>

RemoveWorkshopBooking(t, b) == Awaited(t, TRUE, Deleted(Choice(b)))
RemoveTransportBooking(t, b) == Awaited(t, TRUE, Deleted(Ride(b)))

\* The additions of a completed booking are started and not awaited, before complete()
\* has had a chance to refuse.
ToLoad(t, u, w) == [does |-> "load", call |-> t, user |-> u, ws |-> w]

CompleteWorkshopBooking(t, b) ==
    LET c == doc[Choice(b)] IN
    /\ Stored(Choice(b))
    /\ Attempt(t, c.status # "completed", Saved(Choice(b), Completed(c)))
    /\ late' = late \cup {ToLoad(t, c.user, w) : w \in {c.ids[g] : g \in 1..Groups} \ {None}}
    /\ UNCHANGED doc

-----------------------------------------------------------------------------
\* createTransportBooking looks at no capacity; the caller refers to it from b.
CreateTransportBooking(t, u, b, x) ==
    /\ doc[Ride(b)] = None
    /\ Awaited(t, Stored(Bus(x)), Saved(Ride(b), [user |-> u, on |-> x, status |-> "in_progress"]))

\* "Transport is full" is asked first; the seat in the list of the transport does not
\* move with the booking.
Transferable(b, x) == Stored(Bus(x)) /\ ~ IsFull(Bus(x)) /\ Stored(Ride(b))

Moved(b, x) == Saved(Ride(b), [doc[Ride(b)] EXCEPT !.on = x])

TransferPassenger(t, u, x) ==
    Awaited(t, Booked(u) /\ Transferable(BookOf(u), x), Moved(BookOf(u), x))

\* TransportService.removePassenger.
LeaveTransport(t, u, x) ==
    LET d == Bus(x)
    IN Awaited(t, Stored(d) /\ Sits(d, u),
               Saved(d, [doc[d] EXCEPT !.who = Dropped(@, Place(@, u))]))

\* The seat and the status; and without the await in front of addPassenger, as in
\* completeWorkshopBooking, for the mutant.
SeatNotAwaited(d, b, r) == Saved(Ride(b), Completed(r))

SeatAndStatus(d, b, r) ==
    Saved(d, [doc[d] EXCEPT !.who = Append(@, r.user)]) ++ Saved(Ride(b), Completed(r))

CompleteTransportBooking(t, b) ==
    LET r == doc[Ride(b)]
        d == Bus(r.on)
    IN /\ Stored(Ride(b))
       /\ Awaited(t, Stored(d) /\ ~ NoSeat(d) /\ r.status # "completed", SeatAndStatus(d, b, r))

-----------------------------------------------------------------------------
\* A save, an addParticipant or a push taken off its object has no "this", and a booking
\* made without a userId is not valid: these throw before anything is written.
Throws(t) == Awaited(t, FALSE, <<>>)

TransferWorkshop(t) == Throws(t)
ExchangeWorkshops(t) == Throws(t)
AddParticipant(t) == Throws(t)
BookWorkshops(t) == Throws(t)
TransferSeat(t) == Throws(t)
ExchangeSeats(t) == Throws(t)
AddPassenger(t) == Throws(t)
ExchangePassengers(t) == Throws(t)
BookTransport(t) == Throws(t)

Unfinished(t) ==
    \/ TransferWorkshop(t) \/ ExchangeWorkshops(t) \/ AddParticipant(t) \/ BookWorkshops(t)
    \/ TransferSeat(t) \/ ExchangeSeats(t) \/ AddPassenger(t) \/ ExchangePassengers(t)
    \/ BookTransport(t)

-----------------------------------------------------------------------------
\* WorkshopService.addParticipant after its load of the workshop.
LoadLate(i) ==
    /\ i.does = "load"
    /\ Stored(Hall(i.ws))
    /\ ~ NoSeat(Hall(i.ws))
    /\ late' = (late \ {i}) \cup {[i EXCEPT !.does = "add"]}
    /\ UNCHANGED <<doc, pc, writes>>

\* The save of addParticipant, which sends a $push.
AddLate(i) ==
    /\ i.does = "add"
    /\ Joins(i, Hall(i.ws), [Seen(i, Hall(i.ws)) EXCEPT !.who = Append(@, i.user)])

\* The save of an exchange, which sends one element of the array.
SetLate(i) ==
    /\ i.does = "set"
    /\ Joins(i, Choice(i.book), [Seen(i, Choice(i.book)) EXCEPT !.ids[i.slot] = i.ws])

ProgrammeLate(i) == LoadLate(i) \/ AddLate(i) \/ SetLate(i)

OfWorkshops(t) ==
    \/ \E u \in User, w \in Workshop : LeaveWorkshop(t, u, w)
    \/ \E u \in User, ids \in [1..Groups -> Slot] :
          \/ BookOf(u) # None /\ CreateWorkshopBooking(t, u, BookOf(u), ids)
          \/ TransfersParticipant(t, u, ids)
    \/ \E u \in User, g \in 1..Groups, w \in Slot : TransferParticipant(t, u, g, w)
    \/ \E u, v \in User, g \in 1..Groups : ExchangeParticipants(t, u, v, g)
    \/ \E u \in User : RemoveParticipant(t, u)
    \/ \E b \in Book : RemoveWorkshopBooking(t, b) \/ CompleteWorkshopBooking(t, b)

OfTransports(t) ==
    \/ \E u \in User, x \in Transport :
          \/ BookOf(u) # None /\ CreateTransportBooking(t, u, BookOf(u), x)
          \/ TransferPassenger(t, u, x)
          \/ LeaveTransport(t, u, x)
    \/ \E u \in User : RemovePassenger(t, u)
    \/ \E b \in Book : RemoveTransportBooking(t, b) \/ CompleteTransportBooking(t, b)

ServeProgramme(t) == Administer(t) \/ OfWorkshops(t) \/ OfTransports(t) \/ Unfinished(t)
-----------------------------------------------------------------------------
\* What is chosen for slot g of the booking b: in the documents, in the transactions
\* under way and in the saves that nobody awaits.
Picked(b, g) ==
    LET writing == {t \in Call : Choice(b) \in DOMAIN writes[t]}
        copies == {doc[Choice(b)]} \cup {writes[t][Choice(b)] : t \in writing}
    IN {c.ids[g] : c \in copies \ {None, Gone}}
          \cup {i.ws : i \in {k \in late : k.does = "set" /\ k.book = b /\ k.slot = g}}

\* Slot g of a booking is for the workshops of group g (workshop-booking.schema.ts:70,
\* workshop-booking.service.ts:72): however choices, transfers and exchanges interleave
\* with each other, with saves that come late (:281) and with the administrators, nobody
\* comes to choose a workshop for a slot that was not its group's at that time.  An
\* administrator who changes the group of a workshop moves nobody.
ChosenInItsGroup ==
    [][\A b \in Book, g \in 1..Groups :
          \A w \in Picked(b, g)' \ (Picked(b, g) \cup {None}) :
             Stored(Hall(w)) /\ doc[Hall(w)].group = g]_vars

Seats(x) == IF Stored(Bus(x)) THEN doc[Bus(x)].who ELSE <<>>

\* The transport is read and saved in one transaction (transport.service.ts:85): two
\* completions for its last seat cannot both have it, and a completion that races with an
\* administrator who takes seats away does not exceed what is left.
SeatsWithinCapacity ==
    [][\A x \in Transport :
          Len(Seats(x)') > Len(Seats(x)) => Len(Seats(x)') <= doc'[Bus(x)].capacity]_doc

SeatsOf(x, u) == Cardinality({k \in DOMAIN Seats(x) : Seats(x)[k] = u})

RideIs(b, x, u, s) == Stored(Ride(b)) /\ doc[Ride(b)] = [user |-> u, on |-> x, status |-> s]

\* The seat is awaited before the status of the booking is saved
\* (transport-booking.service.ts:253-259), so that both are committed together: a user
\* gets a seat exactly when a booking of the user for that transport is completed, whatever
\* transfers, removals and completions of the same booking are under way.
SeatWithCompletion ==
    [][\A x \in Transport, u \in User :
          SeatsOf(x, u)' > SeatsOf(x, u) <=>
             \E b \in Book : RideIs(b, x, u, "in_progress") /\ RideIs(b, x, u, "completed")']_doc

\* What a transaction that is to save the documents of f does to the seats of a transport:
\* it completes the booking b together with a seat, or takes the k-th seat away.
Seated(f, b) ==
    LET r == doc[Ride(b)]
        d == Bus(r.on)
    IN /\ Stored(Ride(b)) /\ Stored(d)
       /\ {Ride(b), d} \subseteq DOMAIN f
       /\ r.status = "in_progress" /\ f[Ride(b)] = Completed(r)
       /\ Len(doc[d].who) < doc[d].capacity /\ f[d] = [doc[d] EXCEPT !.who = Append(@, r.user)]

Vacated(f, x, k) ==
    /\ Stored(Bus(x))
    /\ k \in DOMAIN doc[Bus(x)].who
    /\ f[Bus(x)] = [doc[Bus(x)] EXCEPT !.who = Dropped(@, k)]

SeatPlan(f) ==
    /\ \A x \in Transport : Bus(x) \in DOMAIN f =>
          \/ \E b \in Book : Seated(f, b) /\ doc[Ride(b)].on = x
          \/ \E k \in DOMAIN doc[Bus(x)].who : Vacated(f, x, k)
    /\ \A b \in Book : Ride(b) \in DOMAIN f /\ f[Ride(b)] \notin {None, Gone} =>
          \/ f[Ride(b)].status = "in_progress"
          \/ Seated(f, b)
          \/ Stored(Ride(b)) /\ doc[Ride(b)].status = "completed"
=============================================================================
