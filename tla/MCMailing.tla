----------------------------- MODULE MCMailing ------------------------------
(***************************************************************************)
(* Small instances of Mailing for TLC: an admin and a participant who are  *)
(* members, and a newcomer with two activation links of different          *)
(* passwords.                                                              *)
(***************************************************************************)
EXTENDS Mailing

CONSTANTS adm, usr, ncr, p1, p2, q1, q2, q3

MCRole == adm :> "admin" @@ usr :> "participant" @@ ncr :> "participant"

MCSymmetry == Permutations({q1, q2, q3})

A(op, e, p) == [op |-> op, email |-> e, pwd |-> p]

MCPosted == {[to |-> "activate", email |-> ncr, pwd |-> p1], [to |-> "reset", email |-> usr, pwd |-> None]}

MCAsk == {A("signup", ncr, p2), A("activate", ncr, p1), A("activate", ncr, p2), A("signin", ncr, p1),
          A("signin", usr, p1), A("refresh", usr, p1), A("call", usr, p1), A("forgot", usr, p1),
          A("reset", usr, p2), A("forgot", ncr, p1), A("reset", ncr, p2), A("announce", adm, p1),
          A("announce", usr, p1), A("preview", adm, p1), A("contact", ncr, p1)}

\* Calls of a member, with the token stored or the one before.
MCAskCall == {A("call", usr, p1)}

\* One mail and a half, a stranger or a newcomer, a repetition.
MCRecipientLists == {<<adm, usr, ncr>>, <<adm, usr>>, <<usr, usr>>}
=============================================================================
