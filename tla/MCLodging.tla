----------------------------- MODULE MCLodging ------------------------------
(***************************************************************************)
(* A small instance of Lodging for TLC: two users with a user booking      *)
(* each, two workshops of the first of two groups, one transport with one  *)
(* place and one hotel.                                                    *)
(***************************************************************************)
EXTENDS Lodging

CONSTANTS u1, u2, b1, b2, w1, w2, x1, r1, r2, h1, c1, c2, c3

MCSymmetry == Permutations({c1, c2, c3})

Workshops == Hall(w1) :> NewWorkshop(1, 1) @@ Hall(w2) :> NewWorkshop(1, 1)
Transports == Bus(x1) :> NewTransport(1)

Joined(r, s) ==
    Member(u1) :> b1 @@ Member(u2) :> b2 @@ Card(b1) :> [room |-> r] @@ Card(b2) :> [room |-> s]

Picks(u, w) == [user |-> u, ids |-> <<w, None>>, status |-> "in_progress"]
Rides(u) == [user |-> u, on |-> x1, status |-> "in_progress"]
Stays(u) == [hotel |-> h1, who |-> <<u>>, status |-> "in_progress"]

Nothing ==
    [d \in {Choice(b1), Choice(b2), Ride(b1), Ride(b2), Flat(r1), Flat(r2),
            Hall(w1), Hall(w2), Bus(x1)} |-> None]

\* Both users have booked workshops, the last place of the transport, or rooms, one of
\* them or one each; what else there is to book is what a call can add to that.
MCStart ==
    {Choice(b1) :> Picks(u1, w1) @@ Choice(b2) :> Picks(u2, w2) @@ Joined(None, None) @@ Workshops,
     Ride(b1) :> Rides(u1) @@ Ride(b2) :> Rides(u2) @@ Joined(None, None) @@ Transports,
     Flat(r1) :> Stays(u1) @@ Joined(r1, None) @@ Hall(w1) :> NewWorkshop(1, 1) @@ Transports,
     Flat(r1) :> Stays(u1) @@ Flat(r2) :> Stays(u2) @@ Joined(r1, r2)}

\* Lists in the bodies of the administrators: a participant besides those there are; no
\* booking, or one.
MCParticipants == {<<u2>>}
MCLists == {<<>>, <<r2>>}

MCDocuments == {start @@ Inn(h1) :> NewHotel(1, <<>>) @@ Nothing : start \in MCStart}
=============================================================================
