------------------------------ MODULE Lodging -------------------------------
(***************************************************************************)
(* Hotels, room bookings and the user bookings that refer to them          *)
(* (accommodation, booking/room-booking, booking/user-booking), composed   *)
(* with the workshops and transports of Programme, which updateBooking()   *)
(* changes together with the room.                                         *)
(*                                                                         *)
(* Invitation and Payment model what guests and treasurers do with rooms;  *)
(* here are the methods that move and remove roommates, which callers      *)
(* inside the backend use, and the administration of hotels.  A hotel has  *)
(* rooms of one type with Beds places.                                     *)
(***************************************************************************)
EXTENDS Programme, SequencesExt

CONSTANTS
    Room,       \* room bookings
    Hotel,
    Counts,     \* the numbers of rooms a hotel may be added with
    Lists,      \* the lists of bookings it may be added with
    Beds

ASSUME LodgingAssumption ==
    /\ Counts \subseteq Nat
    /\ Lists \subseteq Seq(Room)
    /\ Beds \in Nat \ {0}
    /\ None \notin Room
    /\ IsFiniteSet(User)

Flat(r) == <<"room", r>>
Inn(h) == <<"hotel", h>>

\* The user booking refers to a room booking, which lists the roommates; rooms is the
\* hotel's list of the room bookings that were completed.
UserBooking == [room : Room \cup {None}]
RoomBooking == [hotel : Hotel, who : Seq(User), status : Status]
HotelDocument == [count : Counts, rooms : Seq(Room)]

\* What is not there is none of these.
ASSUME AbsenceAssumption ==
    \A v \in {None, Gone} :
        v \notin WorkshopDocument \cup TransportDocument \cup WorkshopBooking \cup TransportBooking
                    \cup UserBooking \cup RoomBooking \cup HotelDocument

Contents(f) ==
    /\ ProgrammeContents(f)
    /\ \A b \in Book : Card(b) \in DOMAIN f => f[Card(b)] \in UserBooking \cup {None, Gone}
    /\ \A r \in Room : Flat(r) \in DOMAIN f => f[Flat(r)] \in RoomBooking \cup {None, Gone}
    /\ \A h \in Hotel : Inn(h) \in DOMAIN f => f[Inn(h)] \in HotelDocument \cup {None}

Document ==
    {Member(u) : u \in User} \cup {Hall(w) : w \in Workshop} \cup {Bus(x) : x \in Transport}
       \cup {Card(b) : b \in Book} \cup {Choice(b) : b \in Book} \cup {Ride(b) : b \in Book}
       \cup {Flat(r) : r \in Room} \cup {Inn(h) : h \in Hotel}

ASSUME StartAssumption ==
    \A start \in Start : DOMAIN start = Document /\ Contents(start)

\* The saves that nobody awaits.
LateSave ==
    [does : {"load", "add"}, call : Call, user : User, ws : Workshop]
       \cup [does : {"set"}, call : Call, book : Book, slot : 1..Groups, ws : Slot]
       \cup [does : {"leave"}, call : Call, room : Room, user : User, was : Seq(User)]
       \cup [does : {"join"}, call : Call, room : Room, user : User]

LodgingTypeOK ==
    /\ SessionsTypeOK
    /\ DOMAIN doc = Document
    /\ Contents(doc)
    /\ \A t \in Call : Contents(writes[t])
    /\ late \subseteq LateSave

-----------------------------------------------------------------------------
\* The body has the bookings too; the validator of the collections, that they are no more
\* than the rooms, is not run on the Mixed path.
NewHotel(n, list) == [count |-> n, rooms |-> list]

AddHotels(t, h, n, list) == doc[Inn(h)] = None /\ Write(t, Inn(h), NewHotel(n, list))

\* The name and the addresses only: the body of the update has no rooms.
ChangeHotelMetaData(t, h) == Stored(Inn(h)) /\ Write(t, Inn(h), doc[Inn(h)])

RemoveHotel(t, h) == Stored(Inn(h)) /\ Write(t, Inn(h), None)
ClearHotels(t) == WriteAll(t, [d \in {Inn(h) : h \in Hotel} |-> None])

\* AccommodationService.removeBooking(): rooms is a mixed path, and what is spliced out
\* of it in place is not seen by save().
RemoveBookingFromHotel(t, r, h) ==
    Awaited(t, Stored(Inn(h)) /\ Contains(doc[Inn(h)].rooms, r), <<>>)

OfHotels(t) ==
    \/ \E h \in Hotel : \/ \E n \in Counts, list \in Lists : AddHotels(t, h, n, list)
                        \/ ChangeHotelMetaData(t, h)
                        \/ RemoveHotel(t, h)
                        \/ \E r \in Room : RemoveBookingFromHotel(t, r, h)
    \/ ClearHotels(t)

-----------------------------------------------------------------------------
\* createRoomBooking(): "Incorrect hotel id", "No more left rooms of that type", and the
\* validator of roommates.
HasRoom(h, list) ==
    /\ Stored(Inn(h))
    /\ Len(doc[Inn(h)].rooms) < doc[Inn(h)].count
    /\ Len(list) <= Beds

NewRoom(h, list) == [hotel |-> h, who |-> list, status |-> "in_progress"]

\* The next room booking that nobody has made, if the instance has one left.
NewRooms ==
    LET free == {r \in Room : doc[Flat(r)] = None /\ Free(Flat(r))}
    IN IF free = {} THEN {} ELSE {CHOOSE r \in free : TRUE}

CreateRoomBooking(t, r, h, list) ==
    Awaited(t, HasRoom(h, list), Saved(Flat(r), NewRoom(h, list)))

RoomOf(b) == doc[Card(b)].room

\* The user booking b refers to a room that is stored.
Housed(b) == Stored(Card(b)) /\ RoomOf(b) # None /\ Stored(Flat(RoomOf(b)))

Roommates(r) == doc[Flat(r)].who

AddRoommate(t, r, u) ==
    LET b == BookOf(u) IN
    Awaited(t, /\ Booked(u) /\ RoomOf(b) = None
               /\ Stored(Flat(r)) /\ Len(Roommates(r)) < Beds,
            Saved(Flat(r), [doc[Flat(r)] EXCEPT !.who = Append(@, u)]) ++ Saved(Card(b), [room |-> r]))

\* Two saves that nobody awaits: the list without u, which fails when the list has
\* changed since, and u at the end of the list.
ToLeave(t, r, u) == [does |-> "leave", call |-> t, room |-> r, user |-> u, was |-> Roommates(r)]
ToJoin(t, r, u) == [does |-> "join", call |-> t, room |-> r, user |-> u]

LeaveLate(i) ==
    /\ i.does = "leave"
    /\ LET who == Seen(i, Flat(i.room)).who IN
       /\ Stored(Flat(i.room)) /\ who = i.was
       /\ Joins(i, Flat(i.room), [Seen(i, Flat(i.room)) EXCEPT !.who = Dropped(who, Place(who, i.user))])

JoinLate(i) ==
    /\ i.does = "join"
    /\ Joins(i, Flat(i.room), [Seen(i, Flat(i.room)) EXCEPT !.who = Append(@, i.user)])

\* The room of b loses u before anyone asks whether the room of c has a place; then u
\* is linked to the user booking c.
CanLeave(b, u) == Housed(b) /\ Contains(Roommates(RoomOf(b)), u)

TransferRoommate(t, b, c, u) ==
    LET fits == CanLeave(b, u) /\ Housed(c) /\ Len(Roommates(RoomOf(c))) < Beds IN
    /\ b # c
    /\ Attempt(t, fits, Saved(Member(u), c))
    /\ late' = late \cup (IF CanLeave(b, u) THEN {ToLeave(t, RoomOf(b), u)} ELSE {})
                    \cup (IF fits THEN {ToJoin(t, RoomOf(c), u)} ELSE {})
    /\ UNCHANGED doc

\* addRoommate is taken off its document and has no "this".
ExchangeRoommates(t) == Throws(t)

\* rooms.get() of a hotel whose rooms are no Map.
CreateRoomBookings(t) == Throws(t)

\* A room that somebody else stays in is kept; and with the comparison off by one for
\* the mutant.
OthersStayOffByOne(r) == Len(Roommates(r)) > 2

OthersStay(r) == Len(Roommates(r)) > 1

\* What removeRoommate() saves, and what it leaves to a save that nobody awaits.
CanMoveOut(u) ==
    /\ Booked(u) /\ Housed(BookOf(u))
    /\ OthersStay(RoomOf(BookOf(u))) => Contains(Roommates(RoomOf(BookOf(u))), u)

MovedOut(u) ==
    LET r == RoomOf(BookOf(u)) IN
    Saved(Card(BookOf(u)), [room |-> None]) ++ (IF OthersStay(r) THEN <<>> ELSE Saved(Flat(r), Gone))

MovingOut(t, u) ==
    LET r == RoomOf(BookOf(u)) IN
    IF CanMoveOut(u) /\ OthersStay(r) THEN {ToLeave(t, r, u)} ELSE {}

RemoveRoommate(t, u) ==
    /\ Attempt(t, CanMoveOut(u), MovedOut(u))
    /\ late' = late \cup MovingOut(t, u)
    /\ UNCHANGED doc

RemoveRoomBooking(t, r) == Awaited(t, TRUE, Deleted(Flat(r)))

\* UserBookingService.removeBooking(): the bookings of a transport and of workshops are
\* looked for by the id of the user, which is none of theirs.
RemoveBooking(t, u) ==
    /\ Attempt(t, CanMoveOut(u), Saved(Member(u), None) ++ (Saved(Card(BookOf(u)), Gone) ++ MovedOut(u)))
    /\ late' = late \cup MovingOut(t, u)
    /\ UNCHANGED doc

-----------------------------------------------------------------------------
\* UserBookingService.updateBooking(): of the room r in hotel h, the workshops ids and the
\* transport x each may be undefined.  The room is created first, outside the transaction,
\* and u's booking does not come to refer to it; neither does it to new bookings of
\* workshops and of a transport.  A transport that is booked is replaced by itself.
WorkshopsFit(b, ids) ==
    IF doc[Choice(b)] # None THEN AllChangeable(b, ids) ELSE \A g \in 1..Groups : Fits(g, ids[g])

TransportFits(b, x) ==
    IF doc[Ride(b)] # None THEN Stored(Ride(b)) /\ Transferable(b, doc[Ride(b)].on) ELSE Stored(Bus(x))

UpdateBooking(t, u, r, h, ids, x) ==
    LET b == BookOf(u)
        created == r # None /\ Booked(u) /\ RoomOf(b) = None /\ HasRoom(h, <<u>>)
        fits == /\ Booked(u)
                /\ r # None => created
                /\ ids # None => WorkshopsFit(b, ids)
                /\ x # None => TransportFits(b, x)
        chosen == IF ids # None /\ Stored(Choice(b)) THEN Chosen(b, ids) ELSE <<>>
        moved == IF x # None /\ Stored(Ride(b)) THEN Moved(b, doc[Ride(b)].on) ELSE <<>>
    IN /\ Attempt(t, fits, chosen ++ moved)
       /\ doc' = IF created THEN [doc EXCEPT ![Flat(r)] = NewRoom(h, <<u>>)] ELSE doc
       /\ UNCHANGED late

-----------------------------------------------------------------------------
OfRooms(t) ==
    \/ \E r \in NewRooms, h \in Hotel, list \in {<<u>> : u \in User} \cup {SetToSeq(User)} :
          CreateRoomBooking(t, r, h, list)
    \/ \E r \in Room, u \in User : AddRoommate(t, r, u)
    \/ \E b, c \in Book, u \in User : TransferRoommate(t, b, c, u)
    \/ ExchangeRoommates(t)
    \/ CreateRoomBookings(t)
    \/ \E u \in User : RemoveRoommate(t, u)
    \/ \E r \in Room : RemoveRoomBooking(t, r)

OfBookings(t) ==
    \/ \E u \in User : RemoveBooking(t, u)
    \/ \E u \in User, r \in NewRooms \cup {None}, h \in Hotel,
          ids \in [1..Groups -> Slot] \cup {None}, x \in Transport \cup {None} :
             UpdateBooking(t, u, r, h, ids, x)

Serve(t) ==
    \/ ServeProgramme(t)
    \/ OfHotels(t)
    \/ OfRooms(t)
    \/ OfBookings(t)
    \/ Commit(t)
    \/ Abort(t)

Settle(i) == ProgrammeLate(i) \/ LeaveLate(i) \/ JoinLate(i) \/ LoseLate(i)

Next ==
    \/ \E t \in Call : Serve(t)
    \/ \E i \in late : Settle(i)
    \/ Stop

Spec == Init /\ [][Next]_vars
-----------------------------------------------------------------------------
\* The booking of user u leaves its room, and the room is deleted with it.
TakesRoomAlong(u) ==
    LET b == BookOf(u) IN
    Booked(u) /\ Housed(b) /\ doc'[Card(b)] # doc[Card(b)] /\ doc'[Flat(RoomOf(b))] = Gone

\* Nobody but u is among the roommates.
Alone(u) ==
    LET who == Roommates(RoomOf(BookOf(u))) IN \A k \in DOMAIN who : who[k] = u

\* The roommates are counted in one step and the room is deleted in another
\* (room-booking.service.ts:268-282).  However additions, transfers and removals, also the
\* saves of them that come late, interleave with it: a user who is among the roommates
\* takes no room away that somebody else is in at the commit.
RoomKeptForOthers ==
    [][\A u \in User :
          TakesRoomAlong(u) /\ Contains(Roommates(RoomOf(BookOf(u))), u) => Alone(u)]_doc

\* "remove room booking if no one is left" (room-booking.service.ts:279), of every user who
\* leaves: the one who is unlinked from the booking, or the only one linked to it.  It does
\* not hold for a user whose own addition is still to be saved: see the run
\* services_evicted.
RoomLeftEmpty ==
    [][\A u \in User :
          /\ TakesRoomAlong(u)
          /\ \/ doc'[Member(u)] # BookOf(u)
             \/ \A v \in User \ {u} : BookOf(v) # BookOf(u)
          => Alone(u)]_doc

\* A transaction that is to save the documents of f leaves the booking of a room and
\* deletes the room, which has at most one roommate.
RoomPlan(f) ==
    \A b \in Book, r \in Room :
        Card(b) \in DOMAIN f /\ Flat(r) \in DOMAIN f /\ f[Flat(r)] = Gone =>
            Stored(Flat(r)) /\ Len(Roommates(r)) <= 1

\* The document of a late save, which its own transaction has not deleted; the roommate
\* who leaves was in the room.
Target(i) ==
    CASE i.does = "set" -> Choice(i.book)
      [] i.does \in {"load", "add"} -> Hall(i.ws)
      [] i.does \in {"leave", "join"} -> Flat(i.room)

LateInv(i) ==
    /\ Target(i) \in DOMAIN writes[i.call] => writes[i.call][Target(i)] \notin {None, Gone}
    /\ i.does = "leave" => Contains(i.was, i.user)

\* The inductive invariant.
IInv ==
    /\ LodgingTypeOK
    /\ SessionsInv
    /\ \A t \in Call : SeatPlan(writes[t]) /\ RoomPlan(writes[t])
    /\ \A i \in late : LateInv(i)
=============================================================================
