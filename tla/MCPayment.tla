----------------------------- MODULE MCPayment ------------------------------
(***************************************************************************)
(* Small instances of Payment for TLC: two passes, three room bookings of  *)
(* one hotel (r1, of two places, and r2 compete for the single room of c1; *)
(* r3 asks for another room type, c2, of the same document) and one id     *)
(* that names no booking.                                                  *)
(***************************************************************************)
EXTENDS Payment, TLC

CONSTANTS u1, p1, p2, r1, r2, r3, gone, h1, c1, c2, q1, q2

MCPass == {p1, p2, gone}
MCRoom == {r1, r2, r3}
MCDoc == MCPass \cup MCRoom \cup {h1}
MCHotelOf == [c \in {c1, c2} |-> h1]
MCCollectionOf == r1 :> c1 @@ r2 :> c1 @@ r3 :> c2
MCCapacity == r1 :> 2 @@ r2 :> 1 @@ r3 :> 1
MCCount == c1 :> 1 @@ c2 :> 1

\* A body that names the bookings of f, each as often as f says.
Naming(f) == [payer |-> u1, occurs |-> f @@ [b \in MCPass \cup MCRoom |-> 0]]

\* The answers that need no concurrency: an unknown payer, no booking, an unknown booking.
Refused == {[Naming(p1 :> 1) EXCEPT !.payer = None], Naming(<<>>), Naming(p1 :> 1 @@ gone :> 1)}

\* Passes alone and in common, shares of r1 one by one and at once, the rivals for c1,
\* the other room type, and a pass with each kind of room booking.
Contended == {
    Naming(p1 :> 1), Naming(p1 :> 2 @@ p2 :> 1),
    Naming(r1 :> 1), Naming(r1 :> 2 @@ p1 :> 1),
    Naming(r2 :> 1), Naming(r2 :> 1 @@ p2 :> 1), Naming(r3 :> 1)}

MCBody == Refused \cup Contended

\* Two treasurers paying one share each of the two-place room, and a pass.
MCBodyShares == {Naming(r1 :> 1), Naming(r1 :> 1 @@ p1 :> 1), Naming(r2 :> 1 @@ p1 :> 1)}
=============================================================================
