--------------------------- MODULE MCBookingDesk ----------------------------
(***************************************************************************)
(* Small instances of BookingDesk for TLC: two users, of whom u1 has a     *)
(* pass and a user booking from before.                                    *)
(***************************************************************************)
EXTENDS BookingDesk, TLC

CONSTANTS u1, u2, b1, b2, q1, q2, q3

MCUser == {u1, u2}
MCPrior == {b1, b2}
MCDoc == User \cup Prior \cup Request
MCPriorKind == b1 :> "UserPass" @@ b2 :> "UserBooking"
MCPriorOwner == b1 :> u1 @@ b2 :> u1

MCSymmetry == Permutations({q1, q2, q3})

By(op, u, T) == [op |-> op, user |-> u, users |-> T]

MCAsk == {By("pass", u2, {}), By("room", u1, {}), By("room", u2, {u1}), By("cancel", u1, {}),
          By("restore", None, {u1}), By("cron", None, {})}

\* One user who books several times at once, and the nightly job.
MCAskOne == {By("room", u1, {}), By("pass", u1, {}), By("cron", None, {})}

\* Two users who book at once: no two requests are of one user.
MCAskRooms == {By("room", u1, {}), By("room", u2, {})}

MCTwoUsersInit == Init /\ \A s, t \in Request : s # t => Actor(s) # Actor(t)

MCTwoUsersSpec == MCTwoUsersInit /\ [][Next]_vars

\* The booking of a user who cancels may be paid meanwhile.
MCAskCancel == {By("cancel", u1, {}), By("pass", u2, {})}

MCNoPrior == <<>>
=============================================================================
