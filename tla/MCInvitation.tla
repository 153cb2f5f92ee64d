---------------------------- MODULE MCInvitation ----------------------------
(***************************************************************************)
(* Small instances of Invitation for TLC: two hosts, each with a room, two *)
(* guests, and invitations into one room (i1, i2), or into another room    *)
(* and still to be sent to one of the guests (i3 and, when it is sent      *)
(* twice, i4).                                                             *)
(***************************************************************************)
EXTENDS Invitation, TLC

CONSTANTS h1, h2, g1, g2, r1, r2, i1, i2, i3, i4, q1, q2, q3

MCInv == {i1, i2, i3, i4}
MCUser == {h1, h2, g1, g2}
MCDoc == MCInv \cup MCUser \cup {r1, r2}
MCHostOf == i1 :> h1 @@ i2 :> h1 @@ i3 :> h2 @@ i4 :> h2
MCGuestOf == i1 :> g1 @@ i2 :> g2 @@ i3 :> g2 @@ i4 :> g2
MCRoomOf == i1 :> r1 @@ i2 :> r1 @@ i3 :> r2 @@ i4 :> r2
MCBooker == r1 :> h1 @@ r2 :> h2

\* Room r1 has one free place, or as many as the run says; r2 has two.
MCCapacity == r1 :> 2 @@ r2 :> 3
MCCapacityThree == r1 :> 3 @@ r2 :> 3

On(op, i) == [op |-> op, inv |-> i]

MCAsks == <<On("accept", i1), On("accept", i2), On("accept", i3),
            On("reject", i1), On("cancel", i1), On("send", i3)>>

MCAsk == {MCAsks[k] : k \in DOMAIN MCAsks}

\* Requests are interchangeable: it is enough that they ask in the order of MCAsks.
Place(t) == CHOOSE k \in DOMAIN MCAsks : MCAsks[k] = ask[t]

MCOrderedInit == Init /\ Place(q1) <= Place(q2) /\ Place(q2) <= Place(q3)

MCOrderedSpec == MCOrderedInit /\ [][Next]_vars /\ \A t \in Request : WF_vars(Answer(t))

\* Two guests who are invited into the room r1: no two requests are about one invitation.
MCAskRoom == {On("accept", i1), On("accept", i2)}

MCDistinctInit == Init /\ \A t, u \in Request : t # u => Invite(t) # Invite(u)

MCDistinctSpec == MCDistinctInit /\ [][Next]_vars
=============================================================================
