----------------------------- MODULE Invitation -----------------------------
(***************************************************************************)
(* Room-sharing invitations (request/invitation): a host invites a guest   *)
(* into its room booking; the guest accepts or rejects, the host cancels.  *)
(*                                                                         *)
(* The guards load the user, the invitation and its room before the        *)
(* transaction starts, and withTransaction() runs its callback again on    *)
(* those same objects: "mem" is what a request has in memory, and it       *)
(* outlives an aborted attempt.                                            *)
(*                                                                         *)
(* Requests by somebody who is neither the host nor the guest are refused  *)
(* by InvitationGuard and are left out.                                    *)
(***************************************************************************)
EXTENDS MongoTxn, Naturals, Sequences, FiniteSets

CONSTANTS
    Request,    \* requests to the invitation controller
    Ask,        \* what they may ask: an operation on an invitation
    Inv,        \* invitation documents, as many as there may be of a kind
    Standing,   \* the invitations that are open at the start
    User,       \* registered users
    Room,       \* RoomBooking documents
    HostOf, GuestOf, RoomOf,    \* what an invitation refers to
    Booker,     \* the user who made a room booking
    Capacity,   \* roomType.capacity of a room booking
    Leaving,    \* the users who may be unbooked
    MaxRetries, \* retries of a callback before the driver's 120 s are over
    None

Op == {"send", "accept", "reject", "cancel"}

ASSUME InvitationAssumption ==
    /\ Request \subseteq Txn
    /\ Doc = Inv \cup User \cup Room
    /\ Inv \cap User = {} /\ Inv \cap Room = {} /\ User \cap Room = {}
    /\ Request \cap User = {}
    /\ Ask \subseteq [op : Op, inv : Inv]
    /\ Standing \subseteq Inv
    /\ HostOf \in [Inv -> User]
    /\ GuestOf \in [Inv -> User]
    /\ RoomOf \in [Inv -> Room]
    /\ Booker \in [Room -> User]
    /\ Capacity \in [Room -> Nat \ {0}]
    /\ Leaving \subseteq User
    /\ MaxRetries \in Nat
    /\ None \notin Room \cup User \cup Request

\* A UserBooking document: a user's own, or the one made by an acceptance.
UserBooking == User \cup Request

VARIABLES
    \* committed documents
    state,      \* the state of an invitation, or "none" before it is sent
    roommates,  \* the users listed in a room booking
    booking,    \* user.booking
    inRoom,     \* userBooking.roomBooking, None while there is no such document
    \* one request
    pc,         \* where it stands between two awaits
    ask,        \* what it asks
    retries,    \* how often withTransaction() has run the callback again
    mem,        \* the documents loaded by the guards, as changed in memory
    seats,      \* the seats saved by the attempt
    hostRoom    \* the room of the host's booking in the attempt's snapshot

dbVars == <<state, roommates, booking, inRoom>>
runVars == <<pc, ask, retries, mem, seats, hostRoom>>
vars == <<txnVars, dbVars, runVars>>

RequestState == {"in_progress", "completed", "cancelled", "rejected"}

\* user.booking as a truth value, invitation.state, the length of room.roommates and
\* the users pushed to it that no save() has sent.
Memory == [booked : BOOLEAN, state : RequestState \cup {"none"}, mates : Nat, unsaved : Nat]

Unloaded == [booked |-> FALSE, state |-> "none", mates |-> 0, unsaved |-> 0]

Answered == {"sent", "accepted", "rejected", "cancelled", "failed", "lost"}

PC == {"new", "invitation", "room", "find", "check", "create",
       "answer", "seated", "host", "guest", "save", "refused"} \cup Answered

TypeOK ==
    /\ TxnTypeOK
    /\ state \in [Inv -> RequestState \cup {"none"}]
    /\ roommates \in [Room -> Seq(User)]
    /\ booking \in [User -> UserBooking \cup {None}]
    /\ inRoom \in [UserBooking -> Room \cup {None}]
    /\ pc \in [Request -> PC]
    /\ ask \in [Request -> Ask]
    /\ retries \in [Request -> 0..MaxRetries]
    /\ mem \in [Request -> Memory]
    /\ seats \in [Request -> Nat]
    /\ hostRoom \in [Request -> Room \cup {None}]

\* Every room booking belongs to the user who made it, the standing invitations have
\* been sent.
Init ==
    /\ TxnInit
    /\ state = [i \in Inv |-> IF i \in Standing THEN "in_progress" ELSE "none"]
    /\ roommates = [r \in Room |-> <<Booker[r]>>]
    /\ booking = [u \in User |-> IF \E r \in Room : Booker[r] = u THEN u ELSE None]
    /\ inRoom = [b \in UserBooking |->
                    IF \E r \in Room : Booker[r] = b THEN CHOOSE r \in Room : Booker[r] = b ELSE None]
    /\ pc = [t \in Request |-> "new"]
    /\ ask \in [Request -> Ask]
    /\ retries = [t \in Request |-> 0]
    /\ mem = [t \in Request |-> Unloaded]
    /\ seats = [t \in Request |-> 0]
    /\ hostRoom = [t \in Request |-> None]

-----------------------------------------------------------------------------
Asks(t, op) == ask[t].op = op
Invite(t) == ask[t].inv

\* The user who sends the request.
Actor(t) ==
    IF ask[t].op \in {"send", "cancel"} THEN HostOf[Invite(t)] ELSE GuestOf[Invite(t)]

\* The room a user is booked into.
RoomBooked(u) == IF booking[u] = None THEN None ELSE inRoom[booking[u]]

\* The transaction's own writes are gone.
EndAttempt(t) ==
    /\ seats' = [seats EXCEPT ![t] = 0]
    /\ hostRoom' = [hostRoom EXCEPT ![t] = None]

\* An exception that leaves the transaction open, for the mutant of Fail.
FailLeavingItOpen(t) ==
    /\ EndAttempt(t)
    /\ pc' = [pc EXCEPT ![t] = "failed"]
    /\ UNCHANGED <<txnVars, dbVars, ask, retries, mem>>

\* An exception of a guard or of the callback: the client gets the error.
Fail(t) ==
    /\ AbortTxns({t})
    /\ EndAttempt(t)
    /\ pc' = [pc EXCEPT ![t] = "failed"]
    /\ UNCHANGED <<dbVars, ask, retries, mem>>

\* A TransientTransactionError: the callback runs again, on memory m.
RunAgain(t, m) ==
    /\ AbortTxns({t})
    /\ EndAttempt(t)
    /\ mem' = [mem EXCEPT ![t] = m]
    /\ IF retries[t] < MaxRetries
       THEN /\ pc' = [pc EXCEPT ![t] = "answer"]
            /\ retries' = [retries EXCEPT ![t] = @ + 1]
       ELSE /\ pc' = [pc EXCEPT ![t] = "failed"]
            /\ UNCHANGED retries
    /\ UNCHANGED <<dbVars, ask>>

\* A step that changes nothing but the request: it goes on to p with memory m.
GoOn(t, p, m) ==
    /\ pc' = [pc EXCEPT ![t] = p]
    /\ mem' = [mem EXCEPT ![t] = m]
    /\ UNCHANGED <<txnVars, dbVars, ask, retries, seats, hostRoom>>

-----------------------------------------------------------------------------
\* JwtStrategy.validate: the user and its booking, outside any transaction.
LoadUser(t) ==
    /\ pc[t] = "new"
    /\ GoOn(t, IF Asks(t, "send") THEN "find" ELSE "invitation",
            [mem[t] EXCEPT !.booked = booking[Actor(t)] # None])

\* InvitationGuard: getInvitation(), outside any transaction.
LoadInvitation(t) ==
    /\ pc[t] = "invitation"
    /\ \/ /\ state[Invite(t)] # "none"
          /\ GoOn(t, "room", [mem[t] EXCEPT !.state = state[Invite(t)]])
       \/ /\ state[Invite(t)] = "none"
          /\ Fail(t)

\* The populate() of its room and roommates, which are queries of their own.
PopulateRoom(t) ==
    /\ pc[t] = "room"
    /\ GoOn(t, "answer", [mem[t] EXCEPT !.mates = Len(roommates[RoomOf[Invite(t)]])])

-----------------------------------------------------------------------------
\* sendInvitation: the host has a booking, and the guest, read in the snapshot, has
\* none.  It also throws at a host whose booking has no room and at an unknown guest.
FindInvited(t) ==
    /\ pc[t] = "find"
    /\ \/ /\ mem[t].booked /\ booking[GuestOf[Invite(t)]] = None
          /\ GuestOf[Invite(t)] # Actor(t)
          /\ TakeSnapshot(t)
          /\ pc' = [pc EXCEPT ![t] = "check"]
          /\ UNCHANGED <<dbVars, ask, retries, mem, seats, hostRoom>>
       \/ Fail(t)

\* checkExistingInvitation, without the session.
CheckExisting(t) ==
    /\ pc[t] = "check"
    /\ LET existing == \E i \in Inv : /\ state[i] = "in_progress"
                                      /\ GuestOf[i] = GuestOf[Invite(t)]
                                      /\ HostOf[i] = HostOf[Invite(t)]
       IN \/ ~ existing /\ GoOn(t, "create", mem[t])
          \/ existing /\ Fail(t)

\* The default of request.state, and one outside its enumeration for the mutant.
InitialStateMisspelt == "pending"

InitialState == "in_progress"

\* The documents that may become the invitation which t sends: a second request for
\* the same host, guest and room makes a second one.
Unsent(t) ==
    {i \in Inv : /\ state[i] = "none"
                 /\ HostOf[i] = HostOf[Invite(t)]
                 /\ GuestOf[i] = GuestOf[Invite(t)]
                 /\ RoomOf[i] = RoomOf[Invite(t)]}

\* The document is created and the e-mail sent before the commit.  There may be no such
\* room, and the mailer may fail.
CreateInvitation(t) ==
    /\ pc[t] = "create"
    /\ \/ /\ \E i \in Unsent(t) : state' = [state EXCEPT ![i] = InitialState]
          /\ CommitTxn(t)
          /\ pc' = [pc EXCEPT ![t] = "sent"]
          /\ UNCHANGED <<roommates, booking, inRoom, ask, retries, mem, seats, hostRoom>>
       \/ Fail(t)

-----------------------------------------------------------------------------
\* addRoommate and complete() in memory.
Seated(m) == [m EXCEPT !.mates = @ + 1, !.unsaved = @ + 1]

\* After reject() in memory.
Rejected(m) == [m EXCEPT !.state = "rejected"]

\* The catch of acceptInvitation on memory m: the invitation is rejected, saved with
\* the session, and then an exception is thrown, which takes the rejection back.
\* reject() itself throws on an invitation that is rejected in memory.
Refuse(t, m) ==
    \/ /\ m.state = "rejected"
       /\ Fail(t)
    \/ /\ m.state # "rejected"
       /\ HoldFirst(t, Invite(t))
       /\ pc' = [pc EXCEPT ![t] = "refused"]
       /\ mem' = [mem EXCEPT ![t] = Rejected(m)]
       /\ UNCHANGED <<dbVars, ask, retries, seats, hostRoom>>
    \/ /\ m.state # "rejected"
       /\ Conflicts(t, Invite(t))
       /\ RunAgain(t, Rejected(m))

\* "The room you want to join is already full"
Refused(t) ==
    /\ pc[t] = "refused"
    /\ Fail(t)

\* addRoommate throws: "Maximum room capacity already reached."
RoomFull(t) == mem[t].mates >= Capacity[RoomOf[Invite(t)]]

\* n seats of the guest appended to its room: save() sends a $push.
Push(t, n) ==
    [roommates EXCEPT ![RoomOf[Invite(t)]] = @ \o [k \in 1..n |-> GuestOf[Invite(t)]]]

\* A room saved outside the transaction, for the mutant of RoomSaved.
RoomSavedNow(t, n) == Push(t, n)

\* room.save({ session }): nobody else sees the seats before the commit.
RoomSaved(t, n) == roommates

\* The first half of acceptInvitation, up to room.save().  A conflict there is caught
\* too: the rejection's save() fails in the aborted transaction, and the callback runs
\* again with the guest already pushed in memory.
TakeSeat(t) ==
    /\ pc[t] = "answer" /\ Asks(t, "accept")
    /\ \/ /\ mem[t].booked
          /\ Fail(t)
       \/ /\ ~ mem[t].booked
          /\ RoomFull(t)
          /\ Refuse(t, mem[t])
       \/ /\ ~ mem[t].booked /\ ~ RoomFull(t)
          /\ mem[t].state = "completed"
          /\ Refuse(t, Seated(mem[t]))
       \/ /\ ~ mem[t].booked /\ ~ RoomFull(t) /\ mem[t].state # "completed"
          /\ HoldFirst(t, RoomOf[Invite(t)])
          /\ seats' = [seats EXCEPT ![t] = mem[t].unsaved + 1]
          /\ roommates' = RoomSaved(t, mem[t].unsaved + 1)
          /\ mem' = [mem EXCEPT ![t] = [Seated(@) EXCEPT !.state = "completed", !.unsaved = 0]]
          /\ hostRoom' = [hostRoom EXCEPT ![t] = RoomBooked(HostOf[Invite(t)])]
          /\ pc' = [pc EXCEPT ![t] = "seated"]
          /\ UNCHANGED <<state, booking, inRoom, ask, retries>>
       \/ /\ ~ mem[t].booked /\ ~ RoomFull(t) /\ mem[t].state # "completed"
          /\ Conflicts(t, RoomOf[Invite(t)])
          /\ RunAgain(t, Rejected(Seated(mem[t])))

\* A save({ session }) of document d on the way to p; on a conflict the catch runs.
SaveOrRefuse(t, d, p) ==
    \/ /\ HoldDoc(t, d)
       /\ pc' = [pc EXCEPT ![t] = p]
       /\ UNCHANGED <<dbVars, ask, retries, mem, seats, hostRoom>>
    \/ /\ Conflicts(t, d)
       /\ RunAgain(t, Rejected(mem[t]))

SaveInvitation(t) == pc[t] = "seated" /\ SaveOrRefuse(t, Invite(t), "host")

\* getUserBookingByUserId(host) in the snapshot, and createUserBooking for the guest.
FindHostBooking(t) ==
    /\ pc[t] = "host"
    /\ \/ /\ hostRoom[t] # None
          /\ GoOn(t, "guest", [mem[t] EXCEPT !.booked = TRUE])
       \/ /\ hostRoom[t] = None
          /\ Refuse(t, mem[t])

SaveGuest(t) == pc[t] = "guest" /\ SaveOrRefuse(t, GuestOf[Invite(t)], "save")

CommitAccept(t) ==
    /\ pc[t] = "save" /\ Asks(t, "accept")
    /\ state' = [state EXCEPT ![Invite(t)] = "completed"]
    /\ roommates' = Push(t, seats[t])
    /\ inRoom' = [inRoom EXCEPT ![t] = hostRoom[t]]
    /\ booking' = [booking EXCEPT ![GuestOf[Invite(t)]] = t]
    /\ CommitTxn(t)
    /\ EndAttempt(t)
    /\ pc' = [pc EXCEPT ![t] = "accepted"]
    /\ UNCHANGED <<ask, retries, mem>>

-----------------------------------------------------------------------------
\* rejectInvitation: reject() in memory and save({ session }).
Reject(t) ==
    /\ pc[t] = "answer" /\ Asks(t, "reject")
    /\ \/ /\ mem[t].state = "rejected"
          /\ Fail(t)
       \/ /\ mem[t].state # "rejected"
          /\ HoldFirst(t, Invite(t))
          /\ pc' = [pc EXCEPT ![t] = "save"]
          /\ mem' = [mem EXCEPT ![t] = Rejected(@)]
          /\ UNCHANGED <<dbVars, ask, retries, seats, hostRoom>>
       \/ /\ mem[t].state # "rejected"
          /\ Conflicts(t, Invite(t))
          /\ RunAgain(t, Rejected(mem[t]))

CommitReject(t) ==
    /\ pc[t] = "save" /\ Asks(t, "reject")
    /\ state' = [state EXCEPT ![Invite(t)] = "rejected"]
    /\ CommitTxn(t)
    /\ pc' = [pc EXCEPT ![t] = "rejected"]
    /\ UNCHANGED <<roommates, booking, inRoom, ask, retries, mem, seats, hostRoom>>

\* cancelInvitation runs outside any transaction: save() waits for the writer of the
\* invitation, if there is one, and then overwrites its state.
Cancel(t) ==
    /\ pc[t] = "answer" /\ Asks(t, "cancel")
    /\ \/ /\ mem[t].state = "cancelled"
          /\ Fail(t)
       \/ /\ mem[t].state # "cancelled"
          /\ WriteNow(Invite(t))
          /\ state' = [state EXCEPT ![Invite(t)] = "cancelled"]
          /\ pc' = [pc EXCEPT ![t] = "cancelled"]
          /\ UNCHANGED <<roommates, booking, inRoom, ask, retries, mem, seats, hostRoom>>

-----------------------------------------------------------------------------
\* A user who has not paid cancels the booking, or the nightly job does: the link is
\* removed, the documents stay.
RemoveBooking(u) ==
    /\ u \in Leaving
    /\ booking[u] # None
    /\ WriteNow(u)
    /\ booking' = [booking EXCEPT ![u] = None]
    /\ UNCHANGED <<state, roommates, inRoom, runVars>>

\* The server process stops: the database aborts the open transactions.
Crash ==
    LET lost == {t \in Request : pc[t] \notin Answered \cup {"new"}} IN
    /\ lost # {}
    /\ AbortTxns(lost)
    /\ pc' = [t \in Request |-> IF t \in lost THEN "lost" ELSE pc[t]]
    /\ seats' = [t \in Request |-> 0]
    /\ hostRoom' = [t \in Request |-> None]
    /\ UNCHANGED <<dbVars, ask, retries, mem>>

Answer(t) ==
    \/ LoadUser(t) \/ LoadInvitation(t) \/ PopulateRoom(t)
    \/ FindInvited(t) \/ CheckExisting(t) \/ CreateInvitation(t)
    \/ TakeSeat(t) \/ SaveInvitation(t) \/ FindHostBooking(t) \/ SaveGuest(t)
    \/ CommitAccept(t) \/ Refused(t)
    \/ Reject(t) \/ CommitReject(t) \/ Cancel(t)

AllAnswered ==
    /\ \A t \in Request : pc[t] \in Answered
    /\ UNCHANGED vars

Next ==
    \/ \E t \in Request : Answer(t)
    \/ \E u \in User : RemoveBooking(u)
    \/ Crash
    \/ AllAnswered

Spec == Init /\ [][Next]_vars

\* Every await of a request ends, and its continuation is run.
FairSpec == Spec /\ \A t \in Request : WF_vars(Answer(t))
-----------------------------------------------------------------------------
\* The acceptances of guest u for room r that were answered as accepted.
Acceptances(u, r) ==
    {t \in Request : pc[t] = "accepted" /\ GuestOf[Invite(t)] = u /\ RoomOf[Invite(t)] = r}

\* The room, the invitation and the guest's booking are three documents; acceptance
\* changes them together or not at all (invitation.service.ts:196-227).  A user is
\* listed in a room exactly when it made the booking or was told "accepted", every
\* accepted request has left a user booking and every other one has not, a user's
\* booking is its own, and an invitation is completed only by an acceptance of it.
AcceptanceIsWhole ==
    /\ \A r \in Room, u \in User :
          (\E k \in 1..Len(roommates[r]) : roommates[r][k] = u) <=>
              u = Booker[r] \/ Acceptances(u, r) # {}
    /\ \A t \in Request : inRoom[t] # None <=> pc[t] = "accepted"
    /\ \A u \in User : booking[u] \in Request => GuestOf[Invite(booking[u])] = u
    /\ \A i \in Inv : state[i] = "completed" =>
          \E t \in Request : pc[t] = "accepted" /\ Invite(t) = i

\* The inductive invariant behind AcceptanceIsWhole.

InTransaction == {"check", "create", "seated", "host", "guest", "save", "refused"}

\* What a request may rely on when it resumes: an acceptance on its way to the commit
\* has a seat to save, and past the look-up of the host's booking a room to refer to.
RequestInv(t) ==
    /\ t \in open <=> pc[t] \in InTransaction
    /\ Asks(t, "accept") =>
          /\ pc[t] \in {"seated", "host", "guest", "save"} => seats[t] > 0
          /\ pc[t] \in {"guest", "save"} => hostRoom[t] # None

IInv ==
    /\ TypeOK
    /\ OneWriter
    /\ \A t \in Request : RequestInv(t)
    /\ AcceptanceIsWhole

\* Every request that has reached its handler is answered, although a cancellation
\* waits for the transactions that hold its invitation.
EveryRequestAnswered ==
    \A t \in Request : pc[t] = "answer" ~> pc[t] \in Answered

\* "there is a slot left in the room" (invitation.service.ts:198), the validator of
\* roommates: no room has more roommates than places.  It does not hold: see the run
\* invitation_overfull.
RoomHasPlaces ==
    \A r \in Room : Len(roommates[r]) <= Capacity[r]
=============================================================================
