--------------------------- MODULE PaymentLedger ----------------------------
(***************************************************************************)
(* What the treasurers are promised: recording a payment is one step.  It  *)
(* completes every pass the payment names, none of which was completed     *)
(* before, and completes a named room booking only when its shares are     *)
(* paid and its hotel has a room left.                                     *)
(*                                                                         *)
(* It does not promise that a room booking is completed as soon as its     *)
(* shares are paid: the code does not keep that (see Payment).             *)
(***************************************************************************)
EXTENDS Naturals, FiniteSets

CONSTANTS Request, Pass, Room, Collection, CollectionOf, Capacity, Count

VARIABLES
    body,       \* what a request asks for
    recorded,   \* the requests that are recorded as payments
    shares,     \* how often the recorded payments name a room booking
    completed,  \* the completed bookings
    taken       \* the room bookings that have a room, by collection

vars == <<body, recorded, shares, completed, taken>>

Init ==
    /\ recorded = {}
    /\ shares = [r \in Room |-> 0]
    /\ completed = {}
    /\ taken = [c \in Collection |-> {}]

Pays(t, b) == body[t].occurs[b] > 0

Record(t) ==
    /\ t \notin recorded
    /\ \E b \in Pass \cup Room : Pays(t, b)
    /\ \A p \in Pass : Pays(t, p) => p \notin completed
    /\ recorded' = recorded \cup {t}
    /\ shares' = [r \in Room |-> shares[r] + body[t].occurs[r]]
    /\ \E full \in SUBSET {r \in Room \ completed : Pays(t, r) /\ shares'[r] >= Capacity[r]} :
          /\ completed' = completed \cup full \cup {p \in Pass : Pays(t, p)}
          /\ taken' = [c \in Collection |-> taken[c] \cup {r \in full : CollectionOf[r] = c}]
    /\ \A c \in Collection : Cardinality(taken'[c]) <= Count[c]
    /\ UNCHANGED body

Next == \E t \in Request : Record(t)

Spec == Init /\ [][Next]_vars
=============================================================================
