-------------------------- MODULE InvitationProofs --------------------------
(***************************************************************************)
(* Proofs about Invitation for every set of requests, invitations, users   *)
(* and rooms.                                                              *)
(***************************************************************************)
EXTENDS Invitation, MongoTxnProofs, SequenceTheorems

(***************************************************************************)
(* The model's operators.                                                  *)
(***************************************************************************)

LEMMA RequestFacts ==
    ASSUME TypeOK, NEW t \in Request
    PROVE  /\ t \in Txn
           /\ Invite(t) \in Inv /\ Invite(t) \in Doc
           /\ RoomOf[Invite(t)] \in Room /\ RoomOf[Invite(t)] \in Doc
           /\ HostOf[Invite(t)] \in User
           /\ GuestOf[Invite(t)] \in User /\ GuestOf[Invite(t)] \in Doc
<1>1. ask[t] \in [op : Op, inv : Inv]
  BY InvitationAssumption DEF TypeOK
<1>2. Invite(t) \in Inv
  BY <1>1 DEF Invite
<1>3. QED
  BY <1>2, InvitationAssumption

LEMMA MemoryType ==
    ASSUME NEW m \in Memory
    PROVE  Seated(m) \in Memory /\ Rejected(m) \in Memory
<1>1. m.mates + 1 \in Nat /\ m.unsaved + 1 \in Nat
  BY DEF Memory
<1>2. Seated(m) \in Memory
  BY <1>1 DEF Memory, Seated
<1>3. Rejected(m) \in Memory
  BY DEF Memory, Rejected, RequestState
<1>4. QED
  BY <1>2, <1>3

LEMMA RoomBookedType ==
    ASSUME TypeOK, NEW u \in User
    PROVE  RoomBooked(u) \in Room \cup {None}
  BY DEF TypeOK, RoomBooked

\* A $push of n copies of the guest: every other room is as it was, and the guest is
\* listed in this one as soon as there is a copy.
LEMMA PushedSeats ==
    ASSUME TypeOK, NEW t \in Request, NEW n \in Nat
    PROVE  /\ Push(t, n) \in [Room -> Seq(User)]
           /\ \A r \in Room, u \in User :
                 (\E k \in 1..Len(Push(t, n)[r]) : Push(t, n)[r][k] = u) <=>
                     \/ \E k \in 1..Len(roommates[r]) : roommates[r][k] = u
                     \/ n > 0 /\ r = RoomOf[Invite(t)] /\ u = GuestOf[Invite(t)]
<1> DEFINE guest == GuestOf[Invite(t)]
           here == RoomOf[Invite(t)]
           copies == [k \in 1..n |-> guest]
           old == roommates[here]
<1>1. guest \in User /\ here \in Room
  BY RequestFacts
<1>2. copies \in Seq(User) /\ Len(copies) = n
  BY <1>1, SeqDef
<1>3. old \in Seq(User)
  BY <1>1 DEF TypeOK
<1>4. /\ old \o copies \in Seq(User)
      /\ Len(old \o copies) = Len(old) + n
      /\ \A k \in 1..(Len(old) + n) :
            (old \o copies)[k] = IF k <= Len(old) THEN old[k] ELSE copies[k - Len(old)]
  BY <1>2, <1>3, ConcatProperties
<1>5. \A r \in Room : Push(t, n)[r] = IF r = here THEN old \o copies ELSE roommates[r]
  BY <1>1 DEF Push, TypeOK
<1>6. Push(t, n) \in [Room -> Seq(User)]
  BY <1>1, <1>4 DEF Push, TypeOK
<1>7. ASSUME NEW u \in User
      PROVE  (\E k \in 1..(Len(old) + n) : (old \o copies)[k] = u) <=>
                 \/ \E k \in 1..Len(old) : old[k] = u
                 \/ n > 0 /\ u = guest
  <2>1. Len(old) \in Nat
    BY <1>3
  <2>2. ASSUME NEW k \in 1..(Len(old) + n), (old \o copies)[k] = u, ~ (\E j \in 1..Len(old) : old[j] = u)
        PROVE  n > 0 /\ u = guest
    <3>1. ~ (k <= Len(old))
      BY <1>4, <2>1, <2>2
    <3>2. k - Len(old) \in 1..n
      BY <2>1, <3>1
    <3>3. QED
      BY <1>4, <2>1, <2>2, <3>1, <3>2
  <2>3. ASSUME NEW k \in 1..Len(old), old[k] = u
        PROVE  \E j \in 1..(Len(old) + n) : (old \o copies)[j] = u
    <3>1. k \in 1..(Len(old) + n)
      BY <2>1
    <3>2. (old \o copies)[k] = u
      BY <1>4, <2>1, <2>3, <3>1
    <3>3. QED
      BY <3>1, <3>2
  <2>4. ASSUME n > 0, u = guest
        PROVE  \E j \in 1..(Len(old) + n) : (old \o copies)[j] = u
    <3>1. Len(old) + 1 \in 1..(Len(old) + n) /\ ~ (Len(old) + 1 <= Len(old)) /\ 1 \in 1..n
      BY <2>1, <2>4
    <3>2. (Len(old) + 1) - Len(old) = 1
      BY <2>1
    <3>3. (old \o copies)[Len(old) + 1] = u
      BY <1>4, <2>4, <3>1, <3>2
    <3>4. QED
      BY <3>1, <3>3
  <2>5. QED
    BY <2>2, <2>3, <2>4
<1>8. ASSUME NEW r \in Room, NEW u \in User
      PROVE  (\E k \in 1..Len(Push(t, n)[r]) : Push(t, n)[r][k] = u) <=>
                 \/ \E k \in 1..Len(roommates[r]) : roommates[r][k] = u
                 \/ n > 0 /\ r = here /\ u = guest
  <2>1. CASE r = here
    <3>1. Push(t, n)[r] = old \o copies /\ roommates[r] = old
      BY <1>5, <2>1
    <3> HIDE DEF old, copies
    <3>2. QED
      BY <1>4, <1>7, <2>1, <3>1
  <2>2. CASE r # here
    BY <1>5, <2>2
  <2>3. QED
    BY <2>1, <2>2
<1>9. QED
  BY <1>6, <1>8

(***************************************************************************)
(* Type correctness.                                                       *)
(***************************************************************************)

LEMMA EndAttemptType ==
    ASSUME TypeOK, NEW t \in Request, EndAttempt(t)
    PROVE  seats' \in [Request -> Nat] /\ hostRoom' \in [Request -> Room \cup {None}]
  BY DEF TypeOK, EndAttempt

LEMMA AbortTxnsType ==
    ASSUME TypeOK, NEW T, AbortTxns(T)
    PROVE  TxnTypeOK'
  BY DEF TypeOK, TxnTypeOK, AbortTxns

LEMMA FailType ==
    ASSUME TypeOK, NEW t \in Request, Fail(t)
    PROVE  TypeOK'
<1>1. pc' \in [Request -> PC]
  BY DEF TypeOK, Fail, PC, Answered
<1>2. QED
  BY <1>1, EndAttemptType, AbortTxnsType DEF Fail, TypeOK, dbVars

LEMMA RunAgainType ==
    ASSUME TypeOK, NEW t \in Request, NEW m \in Memory, RunAgain(t, m)
    PROVE  TypeOK'
<1>1. pc' \in [Request -> PC]
  BY DEF TypeOK, RunAgain, PC, Answered
<1>2. mem' \in [Request -> Memory]
  BY DEF TypeOK, RunAgain
<1>3. retries' \in [Request -> 0..MaxRetries]
  <2>1. retries[t] \in 0..MaxRetries /\ MaxRetries \in Nat
    BY InvitationAssumption DEF TypeOK
  <2>2. retries[t] < MaxRetries => retries[t] + 1 \in 0..MaxRetries
    BY <2>1
  <2>3. QED
    BY <2>2 DEF TypeOK, RunAgain
<1>4. QED
  BY <1>1, <1>2, <1>3, EndAttemptType, AbortTxnsType DEF RunAgain, TypeOK, dbVars

LEMMA GoOnType ==
    ASSUME TypeOK, NEW t \in Request, NEW p \in PC, NEW m \in Memory, GoOn(t, p, m)
    PROVE  TypeOK'
<1>1. pc' \in [Request -> PC] /\ mem' \in [Request -> Memory]
  BY DEF TypeOK, GoOn
<1>2. TxnTypeOK'
  BY DEF TypeOK, TxnTypeOK, GoOn, txnVars
<1>3. QED
  BY <1>1, <1>2 DEF GoOn, TypeOK, dbVars

LEMMA HoldType ==
    ASSUME TypeOK, NEW t \in Request, NEW d \in Doc, HoldDoc(t, d) \/ HoldFirst(t, d)
    PROVE  TxnTypeOK'
<1>1. t \in Txn
  BY InvitationAssumption
<1>2. QED
  BY <1>1 DEF TypeOK, TxnTypeOK, HoldDoc, HoldFirst

LEMMA RefuseType ==
    ASSUME TypeOK, NEW t \in Request, NEW m \in Memory, Refuse(t, m)
    PROVE  TypeOK'
<1>1. CASE Fail(t)
  BY <1>1, FailType
<1>2. CASE RunAgain(t, Rejected(m))
  BY <1>2, RunAgainType, MemoryType
<1>3. CASE ~ Fail(t) /\ ~ RunAgain(t, Rejected(m))
  <2>1. /\ HoldFirst(t, Invite(t))
        /\ pc' = [pc EXCEPT ![t] = "refused"]
        /\ mem' = [mem EXCEPT ![t] = Rejected(m)]
        /\ UNCHANGED <<dbVars, ask, retries, seats, hostRoom>>
    BY <1>3 DEF Refuse
  <2>2. pc' \in [Request -> PC] /\ mem' \in [Request -> Memory]
    BY <2>1, MemoryType DEF TypeOK, PC
  <2>3. TxnTypeOK'
    BY <2>1, HoldType, RequestFacts
  <2>4. QED
    BY <2>1, <2>2, <2>3 DEF TypeOK, dbVars
<1>4. QED
  BY <1>1, <1>2, <1>3

LEMMA SaveOrRefuseType ==
    ASSUME TypeOK, NEW t \in Request, NEW d \in Doc, NEW p \in PC, SaveOrRefuse(t, d, p)
    PROVE  TypeOK'
<1>1. mem[t] \in Memory
  BY DEF TypeOK
<1>2. CASE RunAgain(t, Rejected(mem[t]))
  BY <1>1, <1>2, RunAgainType, MemoryType
<1>3. CASE ~ RunAgain(t, Rejected(mem[t]))
  <2>1. /\ HoldDoc(t, d)
        /\ pc' = [pc EXCEPT ![t] = p]
        /\ UNCHANGED <<dbVars, ask, retries, mem, seats, hostRoom>>
    BY <1>3 DEF SaveOrRefuse
  <2>2. TxnTypeOK' /\ pc' \in [Request -> PC]
    BY <2>1, HoldType DEF TypeOK
  <2>3. QED
    BY <2>1, <2>2 DEF TypeOK, dbVars
<1>4. QED
  BY <1>2, <1>3

LEMMA CommitTxnType ==
    ASSUME TypeOK, NEW t \in Request, CommitTxn(t)
    PROVE  TxnTypeOK'
<1>1. t \in Txn
  BY InvitationAssumption
<1>2. QED
  BY <1>1 DEF TypeOK, TxnTypeOK, CommitTxn

LEMMA LoadType ==
    ASSUME TypeOK, NEW t \in Request, LoadUser(t) \/ LoadInvitation(t) \/ PopulateRoom(t)
    PROVE  TypeOK'
<1>1. mem[t] \in Memory
  BY DEF TypeOK
<1>2. CASE LoadUser(t)
  <2> DEFINE p == IF Asks(t, "send") THEN "find" ELSE "invitation"
             m == [mem[t] EXCEPT !.booked = booking[Actor(t)] # None]
  <2>1. p \in PC
    BY DEF PC
  <2>2. m \in Memory
    BY <1>1 DEF Memory
  <2>3. GoOn(t, p, m)
    BY <1>2 DEF LoadUser
  <2>4. QED
    BY <2>1, <2>2, <2>3, GoOnType
<1>3. CASE LoadInvitation(t)
  <2> DEFINE m == [mem[t] EXCEPT !.state = state[Invite(t)]]
  <2>1. m \in Memory
    BY <1>1, RequestFacts DEF Memory, TypeOK
  <2>2. "room" \in PC
    BY DEF PC
  <2>3. GoOn(t, "room", m) \/ Fail(t)
    BY <1>3 DEF LoadInvitation
  <2>4. QED
    BY <2>1, <2>2, <2>3, GoOnType, FailType
<1>4. CASE PopulateRoom(t)
  <2> DEFINE m == [mem[t] EXCEPT !.mates = Len(roommates[RoomOf[Invite(t)]])]
  <2>1. Len(roommates[RoomOf[Invite(t)]]) \in Nat
    <3>1. roommates[RoomOf[Invite(t)]] \in Seq(User)
      BY RequestFacts DEF TypeOK
    <3>2. QED
      BY <3>1
  <2>2. m \in Memory
    BY <1>1, <2>1 DEF Memory
  <2>3. "answer" \in PC
    BY DEF PC
  <2>4. GoOn(t, "answer", m)
    BY <1>4 DEF PopulateRoom
  <2>5. QED
    BY <2>2, <2>3, <2>4, GoOnType
<1>5. QED
  BY <1>2, <1>3, <1>4

LEMMA SendType ==
    ASSUME TypeOK, NEW t \in Request, FindInvited(t) \/ CheckExisting(t) \/ CreateInvitation(t)
    PROVE  TypeOK'
<1>1. CASE Fail(t)
  BY <1>1, FailType
<1>2. CASE FindInvited(t) /\ ~ Fail(t)
  <2>1. /\ TakeSnapshot(t)
        /\ pc' = [pc EXCEPT ![t] = "check"]
        /\ UNCHANGED <<dbVars, ask, retries, mem, seats, hostRoom>>
    BY <1>2 DEF FindInvited
  <2>2. TxnTypeOK' /\ pc' \in [Request -> PC]
    BY <2>1, RequestFacts DEF TypeOK, TxnTypeOK, TakeSnapshot, PC
  <2>3. QED
    BY <2>1, <2>2 DEF TypeOK, dbVars
<1>3. CASE CheckExisting(t) /\ ~ Fail(t)
  <2>1. mem[t] \in Memory /\ "create" \in PC
    BY DEF TypeOK, PC
  <2>2. QED
    BY <1>3, <2>1, GoOnType DEF CheckExisting
<1>4. CASE CreateInvitation(t) /\ ~ Fail(t)
  <2>1. /\ \E i \in Inv : state' = [state EXCEPT ![i] = "in_progress"]
        /\ CommitTxn(t)
        /\ pc' = [pc EXCEPT ![t] = "sent"]
        /\ UNCHANGED <<roommates, booking, inRoom, ask, retries, mem, seats, hostRoom>>
    BY <1>4 DEF CreateInvitation, InitialState, Unsent
  <2>2. /\ state' \in [Inv -> RequestState \cup {"none"}]
        /\ pc' \in [Request -> PC]
    BY <2>1 DEF TypeOK, RequestState, PC, Answered
  <2>3. QED
    BY <2>1, <2>2, CommitTxnType DEF TypeOK
<1>5. QED
  BY <1>1, <1>2, <1>3, <1>4

\* The success of TakeSeat: everything it changes.
SeatTaken(t) ==
    /\ pc[t] = "answer" /\ Asks(t, "accept")
    /\ HoldFirst(t, RoomOf[Invite(t)])
    /\ seats' = [seats EXCEPT ![t] = mem[t].unsaved + 1]
    /\ mem' = [mem EXCEPT ![t] = [Seated(@) EXCEPT !.state = "completed", !.unsaved = 0]]
    /\ hostRoom' = [hostRoom EXCEPT ![t] = RoomBooked(HostOf[Invite(t)])]
    /\ pc' = [pc EXCEPT ![t] = "seated"]
    /\ UNCHANGED <<dbVars, ask, retries>>

LEMMA TakeSeatCases ==
    ASSUME TypeOK, NEW t \in Request, TakeSeat(t)
    PROVE  \/ Fail(t)
           \/ \E m \in Memory : Refuse(t, m) \/ RunAgain(t, m)
           \/ SeatTaken(t)
<1>1. mem[t] \in Memory /\ Seated(mem[t]) \in Memory /\ Rejected(Seated(mem[t])) \in Memory
  BY MemoryType DEF TypeOK
<1>2. QED
  BY <1>1 DEF TakeSeat, SeatTaken, RoomSaved, dbVars

LEMMA TakeSeatType ==
    ASSUME TypeOK, NEW t \in Request, TakeSeat(t)
    PROVE  TypeOK'
<1>1. ASSUME SeatTaken(t) PROVE TypeOK'
  <2>1. mem[t] \in Memory /\ mem[t].unsaved + 1 \in Nat
    BY DEF TypeOK, Memory
  <2>2. [Seated(mem[t]) EXCEPT !.state = "completed", !.unsaved = 0] \in Memory
    BY <2>1, MemoryType DEF Memory, RequestState
  <2>3. mem' \in [Request -> Memory] /\ seats' \in [Request -> Nat]
    BY <1>1, <2>1, <2>2 DEF SeatTaken, TypeOK
  <2>4. hostRoom' \in [Request -> Room \cup {None}]
    BY <1>1, RequestFacts, RoomBookedType DEF SeatTaken, TypeOK
  <2>5. TxnTypeOK' /\ pc' \in [Request -> PC]
    BY <1>1, RequestFacts, HoldType DEF SeatTaken, TypeOK, PC
  <2>6. QED
    BY <1>1, <2>3, <2>4, <2>5 DEF SeatTaken, TypeOK, dbVars
<1>2. QED
  BY <1>1, TakeSeatCases, FailType, RefuseType, RunAgainType

LEMMA AcceptType ==
    ASSUME TypeOK, NEW t \in Request,
           SaveInvitation(t) \/ FindHostBooking(t) \/ SaveGuest(t) \/ CommitAccept(t) \/ Refused(t)
    PROVE  TypeOK'
<1>1. CASE SaveInvitation(t) \/ SaveGuest(t)
  <2>1. "host" \in PC /\ "save" \in PC
    BY DEF PC
  <2>2. QED
    BY <1>1, <2>1, RequestFacts, SaveOrRefuseType DEF SaveInvitation, SaveGuest
<1>2. CASE FindHostBooking(t)
  <2>1. mem[t] \in Memory /\ [mem[t] EXCEPT !.booked = TRUE] \in Memory /\ "guest" \in PC
    BY DEF TypeOK, Memory, PC
  <2>2. QED
    BY <1>2, <2>1, GoOnType, RefuseType DEF FindHostBooking
<1>3. CASE CommitAccept(t)
  <2>1. /\ state' \in [Inv -> RequestState \cup {"none"}]
        /\ pc' \in [Request -> PC]
    BY <1>3 DEF CommitAccept, TypeOK, RequestState, PC, Answered
  <2>2. roommates' \in [Room -> Seq(User)]
    <3>1. seats[t] \in Nat
      BY DEF TypeOK
    <3>2. QED
      BY <1>3, <3>1, PushedSeats DEF CommitAccept
  <2>3. inRoom' \in [UserBooking -> Room \cup {None}]
    BY <1>3 DEF CommitAccept, TypeOK
  <2>4. booking' \in [User -> UserBooking \cup {None}]
    BY <1>3 DEF CommitAccept, TypeOK, UserBooking
  <2>5. TxnTypeOK'
    BY <1>3, CommitTxnType DEF CommitAccept
  <2>6. seats' \in [Request -> Nat] /\ hostRoom' \in [Request -> Room \cup {None}]
    BY <1>3, EndAttemptType DEF CommitAccept
  <2>7. QED
    BY <1>3, <2>1, <2>2, <2>3, <2>4, <2>5, <2>6 DEF CommitAccept, TypeOK
<1>4. CASE Refused(t)
  BY <1>4, FailType DEF Refused
<1>5. QED
  BY <1>1, <1>2, <1>3, <1>4

LEMMA RejectType ==
    ASSUME TypeOK, NEW t \in Request, Reject(t) \/ CommitReject(t)
    PROVE  TypeOK'
<1>1. mem[t] \in Memory /\ Rejected(mem[t]) \in Memory
  BY MemoryType DEF TypeOK
<1>2. CASE Fail(t) \/ RunAgain(t, Rejected(mem[t]))
  BY <1>1, <1>2, FailType, RunAgainType
<1>3. CASE Reject(t) /\ ~ Fail(t) /\ ~ RunAgain(t, Rejected(mem[t]))
  <2>1. /\ HoldFirst(t, Invite(t))
        /\ pc' = [pc EXCEPT ![t] = "save"]
        /\ mem' = [mem EXCEPT ![t] = Rejected(@)]
        /\ UNCHANGED <<dbVars, ask, retries, seats, hostRoom>>
    BY <1>3 DEF Reject
  <2>2. pc' \in [Request -> PC] /\ mem' \in [Request -> Memory]
    BY <1>1, <2>1 DEF TypeOK, PC
  <2>3. TxnTypeOK'
    BY <2>1, HoldType, RequestFacts
  <2>4. QED
    BY <2>1, <2>2, <2>3 DEF TypeOK, dbVars
<1>4. CASE CommitReject(t)
  <2>1. /\ state' \in [Inv -> RequestState \cup {"none"}]
        /\ pc' \in [Request -> PC]
    BY <1>4 DEF CommitReject, TypeOK, RequestState, PC, Answered
  <2>2. QED
    BY <1>4, <2>1, CommitTxnType DEF CommitReject, TypeOK
<1>5. QED
  BY <1>2, <1>3, <1>4

LEMMA CancelType ==
    ASSUME TypeOK, NEW t \in Request, Cancel(t)
    PROVE  TypeOK'
<1>1. CASE Fail(t)
  BY <1>1, FailType
<1>2. CASE ~ Fail(t)
  <2>1. /\ WriteNow(Invite(t))
        /\ state' = [state EXCEPT ![Invite(t)] = "cancelled"]
        /\ pc' = [pc EXCEPT ![t] = "cancelled"]
        /\ UNCHANGED <<roommates, booking, inRoom, ask, retries, mem, seats, hostRoom>>
    BY <1>2 DEF Cancel
  <2>2. /\ state' \in [Inv -> RequestState \cup {"none"}]
        /\ pc' \in [Request -> PC]
    BY <2>1 DEF TypeOK, RequestState, PC, Answered
  <2>3. TxnTypeOK'
    BY <2>1, RequestFacts DEF WriteNow, TypeOK, TxnTypeOK
  <2>4. QED
    BY <2>1, <2>2, <2>3 DEF TypeOK
<1>3. QED
  BY <1>1, <1>2

LEMMA RemoveBookingType ==
    ASSUME TypeOK, NEW u \in User, RemoveBooking(u)
    PROVE  TypeOK'
<1>1. u \in Doc
  BY InvitationAssumption
<1>2. TxnTypeOK'
  BY <1>1 DEF RemoveBooking, WriteNow, TypeOK, TxnTypeOK
<1>3. booking' \in [User -> UserBooking \cup {None}]
  BY DEF RemoveBooking, TypeOK
<1>4. QED
  BY <1>2, <1>3 DEF RemoveBooking, TypeOK, runVars

LEMMA CrashType ==
    ASSUME TypeOK, Crash
    PROVE  TypeOK'
<1>1. TxnTypeOK'
  BY AbortTxnsType DEF Crash
<1>2. pc' \in [Request -> PC]
  BY DEF Crash, TypeOK, PC, Answered
<1>3. seats' \in [Request -> Nat] /\ hostRoom' \in [Request -> Room \cup {None}]
  BY DEF Crash
<1>4. QED
  BY <1>1, <1>2, <1>3 DEF Crash, TypeOK, dbVars

\* Every step of a request, of an unbooking and of a crash keeps the types.
LEMMA TypeStep == TypeOK /\ [Next]_vars => TypeOK'
<1> SUFFICES ASSUME TypeOK, [Next]_vars PROVE TypeOK'
  OBVIOUS
<1>1. ASSUME NEW t \in Request, Answer(t) PROVE TypeOK'
  BY <1>1, LoadType, SendType, TakeSeatType, AcceptType, RejectType, CancelType DEF Answer
<1>2. CASE UNCHANGED vars
  BY <1>2 DEF vars, txnVars, dbVars, runVars, TypeOK, TxnTypeOK
<1>3. QED
  BY <1>1, <1>2, RemoveBookingType, CrashType DEF Next, AllAnswered

LEMMA InitType == Init => TypeOK
<1> SUFFICES ASSUME Init PROVE TypeOK
  OBVIOUS
<1>1. TxnTypeOK
  BY DEF Init, TxnInit, TxnTypeOK
<1>2. roommates \in [Room -> Seq(User)]
  BY InvitationAssumption DEF Init
<1>3. booking \in [User -> UserBooking \cup {None}]
  BY DEF Init, UserBooking
<1>4. inRoom \in [UserBooking -> Room \cup {None}]
  <2>1. ASSUME NEW b, \E r \in Room : Booker[r] = b
        PROVE  (CHOOSE r \in Room : Booker[r] = b) \in Room
    BY <2>1
  <2>2. QED
    BY <2>1 DEF Init
<1>5. Unloaded \in Memory
  BY DEF Unloaded, Memory
<1>6. QED
  BY <1>1, <1>2, <1>3, <1>4, <1>5, InvitationAssumption DEF Init, TypeOK, RequestState, PC

\* The documents, the open transactions and what each request has loaded have the shape
\* TypeOK gives them, for every set of invitations, rooms and users.
THEOREM TypeCorrect == Spec => []TypeOK
  BY InitType, TypeStep, PTL DEF Spec

(***************************************************************************)
(* The inductive invariant.                                                *)
(***************************************************************************)

\* The conflicts are kept track of as MongoTxn says, whatever a request does.
LEMMA TxnInvFacts == IInv => TxnInv
  BY DEF IInv, TypeOK, TxnInv

\* No invitation comes to be completed.
NoneCompleted == \A i \in Inv : state'[i] = "completed" => state[i] = "completed"

\* Whoever was answered as accepted stays so, and nobody else comes to be.
LEMMA SameAcceptances ==
    ASSUME IInv, UNCHANGED <<roommates, booking, inRoom, ask>>, NoneCompleted,
           \A t \in Request : pc'[t] = "accepted" <=> pc[t] = "accepted"
    PROVE  AcceptanceIsWhole'
<1>1. \A u \in User, r \in Room : Acceptances(u, r)' = Acceptances(u, r)
  BY DEF Acceptances, Invite
<1>2. QED
  BY <1>1 DEF IInv, AcceptanceIsWhole, Invite, NoneCompleted

\* A step of t before its commit changes nothing that the acceptances are about, nor
\* another request.
LEMMA LocalStep ==
    ASSUME IInv, TypeOK', TxnInv', NEW t \in Request, RequestInv(t)',
           UNCHANGED <<roommates, booking, inRoom, ask>>, NoneCompleted,
           pc[t] # "accepted", pc'[t] # "accepted",
           \A u \in Request \ {t} :
               /\ u \in open' <=> u \in open
               /\ pc'[u] = pc[u] /\ seats'[u] = seats[u] /\ hostRoom'[u] = hostRoom[u]
    PROVE  IInv'
<1>1. \A u \in Request \ {t} : RequestInv(u)'
  BY DEF IInv, RequestInv, Asks
<1>2. AcceptanceIsWhole'
  BY SameAcceptances
<1>3. QED
  BY <1>1, <1>2 DEF IInv, TxnInv

\* The end of an attempt by exception or conflict: the request is out of its
\* transaction.
LEMMA AbortStep ==
    ASSUME IInv, TypeOK', NEW t \in Request, pc[t] # "accepted", AbortTxns({t}), EndAttempt(t),
           UNCHANGED <<roommates, booking, inRoom, ask>>, NoneCompleted,
           NEW p \in {"answer", "failed"}, pc' = [pc EXCEPT ![t] = p]
    PROVE  IInv'
<1>1. TxnInv'
  BY AbortTxnsInv, TxnInvFacts
<1>2. t \notin open' /\ pc'[t] \in {"answer", "failed"}
  BY DEF AbortTxns, IInv, TypeOK
<1>3. RequestInv(t)'
  BY <1>2 DEF RequestInv, InTransaction
<1>4. \A u \in Request \ {t} :
         /\ u \in open' <=> u \in open
         /\ pc'[u] = pc[u] /\ seats'[u] = seats[u] /\ hostRoom'[u] = hostRoom[u]
  BY DEF AbortTxns, EndAttempt, IInv, TypeOK
<1>5. QED
  BY <1>1, <1>2, <1>3, <1>4, LocalStep

LEMMA FailStep ==
    ASSUME IInv, TypeOK', NEW t \in Request, pc[t] # "accepted", Fail(t)
    PROVE  IInv'
  BY AbortStep DEF Fail, dbVars, NoneCompleted

LEMMA RunAgainStep ==
    ASSUME IInv, TypeOK', NEW t \in Request, pc[t] # "accepted", NEW m, RunAgain(t, m)
    PROVE  IInv'
  BY AbortStep DEF RunAgain, dbVars, NoneCompleted

\* A request goes on to another point on the same side of its transaction.
LEMMA GoOnStep ==
    ASSUME IInv, TypeOK', NEW t \in Request, NEW p, NEW m, GoOn(t, p, m),
           pc[t] # "accepted", p # "accepted", p \in InTransaction <=> pc[t] \in InTransaction,
           Asks(t, "accept") /\ p \in {"seated", "host", "guest", "save"} =>
               pc[t] \in {"seated", "host", "guest", "save"},
           Asks(t, "accept") /\ p \in {"guest", "save"} => hostRoom[t] # None
    PROVE  IInv'
<1>1. TxnInv'
  BY TxnStutterInv, TxnInvFacts DEF GoOn
<1>2. pc'[t] = p /\ UNCHANGED <<open, seats, hostRoom, ask, dbVars>>
  BY DEF GoOn, IInv, TypeOK, txnVars
<1>3. RequestInv(t)
  BY DEF IInv
<1>4. RequestInv(t)'
  BY <1>2, <1>3 DEF RequestInv, Asks
<1>5. \A u \in Request \ {t} : pc'[u] = pc[u]
  BY DEF GoOn, IInv, TypeOK
<1>6. QED
  BY <1>1, <1>2, <1>4, <1>5, LocalStep DEF dbVars, NoneCompleted

\* A write of the transaction of t that does not conflict.
LEMMA WriteStep ==
    ASSUME IInv, TypeOK', NEW t \in Request, NEW d \in Doc,
           HoldFirst(t, d) \/ (t \in open /\ HoldDoc(t, d)),
           pc[t] # "accepted", NEW p \in InTransaction, pc' = [pc EXCEPT ![t] = p],
           UNCHANGED <<roommates, booking, inRoom, ask>>, NoneCompleted,
           Asks(t, "accept") /\ p \in {"seated", "host", "guest", "save"} => seats'[t] > 0,
           Asks(t, "accept") /\ p \in {"guest", "save"} => hostRoom'[t] # None,
           \A u \in Request \ {t} : seats'[u] = seats[u] /\ hostRoom'[u] = hostRoom[u]
    PROVE  IInv'
<1>1. t \in Txn
  BY InvitationAssumption
<1>2. TxnInv'
  BY <1>1, HoldDocInv, HoldFirstInv, TxnInvFacts
<1>3. t \in open' /\ \A u \in Request \ {t} : u \in open' <=> u \in open
  BY DEF HoldDoc, HoldFirst
<1>4. pc'[t] = p /\ \A u \in Request \ {t} : pc'[u] = pc[u]
  BY DEF IInv, TypeOK
<1>5. RequestInv(t)'
  BY <1>3, <1>4 DEF RequestInv, Asks
<1>6. p # "accepted"
  BY DEF InTransaction
<1>7. QED
  BY <1>2, <1>3, <1>4, <1>5, <1>6, LocalStep

LEMMA RefuseStep ==
    ASSUME IInv, TypeOK', NEW t \in Request, NEW m, pc[t] # "accepted", Refuse(t, m)
    PROVE  IInv'
<1>1. CASE Fail(t)
  BY <1>1, FailStep
<1>2. CASE RunAgain(t, Rejected(m))
  BY <1>2, RunAgainStep
<1>3. CASE ~ Fail(t) /\ ~ RunAgain(t, Rejected(m))
  <2>1. /\ HoldFirst(t, Invite(t))
        /\ pc' = [pc EXCEPT ![t] = "refused"]
        /\ UNCHANGED <<dbVars, ask, retries, seats, hostRoom>>
    BY <1>3 DEF Refuse
  <2>2. Invite(t) \in Doc /\ "refused" \in InTransaction
    BY RequestFacts DEF IInv, InTransaction
  <2>3. QED
    BY <2>1, <2>2, WriteStep DEF dbVars, NoneCompleted
<1>4. QED
  BY <1>1, <1>2, <1>3

LEMMA SaveOrRefuseStep ==
    ASSUME IInv, TypeOK', NEW t \in Request, NEW d \in Doc, NEW p \in {"host", "save"},
           SaveOrRefuse(t, d, p), pc[t] = IF p = "host" THEN "seated" ELSE "guest"
    PROVE  IInv'
<1>1. CASE RunAgain(t, Rejected(mem[t]))
  BY <1>1, RunAgainStep
<1>2. CASE ~ RunAgain(t, Rejected(mem[t]))
  <2>1. /\ HoldDoc(t, d)
        /\ pc' = [pc EXCEPT ![t] = p]
        /\ UNCHANGED <<dbVars, ask, retries, mem, seats, hostRoom>>
    BY <1>2 DEF SaveOrRefuse
  <2>2. RequestInv(t)
    BY DEF IInv
  <2>3. t \in open /\ p \in InTransaction
    BY <2>2 DEF RequestInv, InTransaction
  <2>4. QED
    BY <2>1, <2>2, <2>3, WriteStep DEF RequestInv, dbVars, NoneCompleted
<1>3. QED
  BY <1>1, <1>2

LEMMA LoadStep ==
    ASSUME IInv, TypeOK', NEW t \in Request, LoadUser(t) \/ LoadInvitation(t) \/ PopulateRoom(t)
    PROVE  IInv'
<1>1. pc[t] \in {"new", "invitation", "room"}
  BY DEF LoadUser, LoadInvitation, PopulateRoom
<1>2. CASE Fail(t)
  BY <1>1, <1>2, FailStep
<1>3. CASE ~ Fail(t)
  <2>1. PICK p, m : p \in {"find", "invitation", "room", "answer"} /\ GoOn(t, p, m)
    BY <1>3 DEF LoadUser, LoadInvitation, PopulateRoom
  <2>2. QED
    BY <1>1, <2>1, GoOnStep DEF InTransaction
<1>4. QED
  BY <1>2, <1>3

\* The commit of a request that seats nobody.
LEMMA CommitStep ==
    ASSUME IInv, TypeOK', NEW t \in Request, CommitTxn(t), pc[t] # "accepted",
           NEW p \in {"sent", "rejected"}, pc' = [pc EXCEPT ![t] = p],
           UNCHANGED <<roommates, booking, inRoom, ask, seats, hostRoom>>, NoneCompleted
    PROVE  IInv'
<1>1. TxnInv' /\ t \notin open' /\ \A u \in Request \ {t} : u \in open' <=> u \in open
  BY CommitTxnInv, TxnInvFacts, InvitationAssumption DEF CommitTxn
<1>2. pc'[t] = p /\ \A u \in Request \ {t} : pc'[u] = pc[u]
  BY DEF IInv, TypeOK
<1>3. RequestInv(t)'
  BY <1>1, <1>2 DEF RequestInv, InTransaction
<1>4. QED
  BY <1>1, <1>2, <1>3, LocalStep

LEMMA SendStep ==
    ASSUME IInv, TypeOK', NEW t \in Request, FindInvited(t) \/ CheckExisting(t) \/ CreateInvitation(t)
    PROVE  IInv'
<1>1. pc[t] \in {"find", "check", "create"}
  BY DEF FindInvited, CheckExisting, CreateInvitation
<1>2. CASE Fail(t)
  BY <1>1, <1>2, FailStep
<1>3. CASE FindInvited(t) /\ ~ Fail(t)
  <2>1. /\ TakeSnapshot(t)
        /\ pc' = [pc EXCEPT ![t] = "check"]
        /\ UNCHANGED <<dbVars, ask, retries, mem, seats, hostRoom>>
    BY <1>3 DEF FindInvited
  <2>2. TxnInv' /\ t \in open' /\ \A u \in Request \ {t} : u \in open' <=> u \in open
    BY <2>1, TakeSnapshotInv, TxnInvFacts, InvitationAssumption DEF TakeSnapshot
  <2>3. pc'[t] = "check" /\ \A u \in Request \ {t} : pc'[u] = pc[u]
    BY <2>1 DEF IInv, TypeOK
  <2>4. RequestInv(t)'
    BY <2>2, <2>3 DEF RequestInv, InTransaction
  <2>5. QED
    BY <1>1, <2>1, <2>2, <2>3, <2>4, LocalStep DEF dbVars, NoneCompleted
<1>4. CASE CheckExisting(t) /\ ~ Fail(t)
  <2>1. pc[t] = "check" /\ GoOn(t, "create", mem[t])
    BY <1>4 DEF CheckExisting
  <2>2. QED
    BY <2>1, GoOnStep DEF InTransaction
<1>5. CASE CreateInvitation(t) /\ ~ Fail(t)
  <2>1. /\ CommitTxn(t)
        /\ pc' = [pc EXCEPT ![t] = "sent"]
        /\ UNCHANGED <<roommates, booking, inRoom, ask, seats, hostRoom>>
        /\ \E i \in Inv : state' = [state EXCEPT ![i] = "in_progress"]
    BY <1>5 DEF CreateInvitation, InitialState, Unsent
  <2>2. NoneCompleted
    BY <2>1 DEF NoneCompleted, IInv, TypeOK
  <2>3. QED
    BY <1>1, <2>1, <2>2, CommitStep
<1>6. QED
  BY <1>2, <1>3, <1>4, <1>5

LEMMA TakeSeatStep ==
    ASSUME IInv, TypeOK', NEW t \in Request, TakeSeat(t)
    PROVE  IInv'
<1>1. pc[t] = "answer"
  BY DEF TakeSeat
<1>2. ASSUME SeatTaken(t) PROVE IInv'
  <2>1. seats'[t] > 0
    <3>1. mem[t].unsaved \in Nat /\ seats'[t] = mem[t].unsaved + 1
      BY <1>2 DEF SeatTaken, IInv, TypeOK, Memory
    <3>2. QED
      BY <3>1
  <2>2. \A u \in Request \ {t} : seats'[u] = seats[u] /\ hostRoom'[u] = hostRoom[u]
    BY <1>2 DEF SeatTaken, IInv, TypeOK
  <2>3. RoomOf[Invite(t)] \in Doc /\ "seated" \in InTransaction
    BY RequestFacts DEF IInv, InTransaction
  <2>4. QED
    BY <1>1, <1>2, <2>1, <2>2, <2>3, WriteStep DEF SeatTaken, dbVars, NoneCompleted
<1>3. QED
  BY <1>1, <1>2, TakeSeatCases, FailStep, RefuseStep, RunAgainStep DEF IInv

LEMMA FindHostBookingStep ==
    ASSUME IInv, TypeOK', NEW t \in Request, FindHostBooking(t)
    PROVE  IInv'
<1>1. CASE Refuse(t, mem[t])
  BY <1>1, RefuseStep DEF FindHostBooking
<1>2. CASE ~ Refuse(t, mem[t])
  <2>1. /\ pc[t] = "host" /\ hostRoom[t] # None
        /\ GoOn(t, "guest", [mem[t] EXCEPT !.booked = TRUE])
    BY <1>2 DEF FindHostBooking
  <2>2. QED
    BY <2>1, GoOnStep DEF InTransaction
<1>3. QED
  BY <1>1, <1>2

\* The commit of an acceptance: the guest is listed, has a booking that is its own, and
\* the request is the one more that was accepted.
LEMMA CommitAcceptStep ==
    ASSUME IInv, TypeOK', NEW t \in Request, CommitAccept(t)
    PROVE  IInv'
<1> DEFINE guest == GuestOf[Invite(t)]
           here == RoomOf[Invite(t)]
<1>1. /\ pc[t] = "save" /\ Asks(t, "accept")
      /\ roommates' = Push(t, seats[t])
      /\ inRoom' = [inRoom EXCEPT ![t] = hostRoom[t]]
      /\ booking' = [booking EXCEPT ![guest] = t]
      /\ CommitTxn(t) /\ EndAttempt(t)
      /\ pc' = [pc EXCEPT ![t] = "accepted"]
      /\ ask' = ask
  BY DEF CommitAccept
<1>2. TypeOK /\ AcceptanceIsWhole /\ RequestInv(t)
  BY DEF IInv
<1>3. guest \in User /\ here \in Room /\ t \in UserBooking
  BY <1>2, RequestFacts DEF UserBooking
<1>4. TxnInv' /\ t \notin open' /\ \A u \in Request \ {t} : u \in open' <=> u \in open
  BY <1>1, CommitTxnInv, TxnInvFacts, InvitationAssumption DEF CommitTxn
<1>5. pc'[t] = "accepted" /\ \A u \in Request \ {t} : pc'[u] = pc[u]
  BY <1>1, <1>2 DEF TypeOK
<1>6. \A u \in Request : RequestInv(u)'
  <2>1. RequestInv(t)'
    BY <1>4, <1>5 DEF RequestInv, InTransaction
  <2>2. \A u \in Request \ {t} : seats'[u] = seats[u] /\ hostRoom'[u] = hostRoom[u]
    BY <1>1, <1>2 DEF EndAttempt, TypeOK
  <2>3. \A u \in Request \ {t} : RequestInv(u)'
    BY <1>1, <1>4, <1>5, <2>2 DEF IInv, RequestInv, Asks
  <2>4. QED
    BY <2>1, <2>3
<1>7. ASSUME NEW r \in Room, NEW u \in User
      PROVE  (\E k \in 1..Len(roommates'[r]) : roommates'[r][k] = u) <=>
                 \/ u = Booker[r]
                 \/ Acceptances(u, r)' # {}
  <2>1. seats[t] > 0 /\ seats[t] \in Nat
    BY <1>1, <1>2 DEF RequestInv, TypeOK
  <2>2. (\E k \in 1..Len(roommates'[r]) : roommates'[r][k] = u) <=>
            \/ \E k \in 1..Len(roommates[r]) : roommates[r][k] = u
            \/ r = here /\ u = guest
    BY <1>1, <1>2, <2>1, PushedSeats
  <2>3. Acceptances(u, r)' =
            Acceptances(u, r) \cup {x \in {t} : u = guest /\ r = here}
    BY <1>1, <1>5 DEF Acceptances, Invite
  <2>4. QED
    BY <1>2, <2>2, <2>3 DEF AcceptanceIsWhole
<1>8. ASSUME NEW u \in Request PROVE inRoom'[u] # None <=> pc'[u] = "accepted"
  <2>1. inRoom'[u] = IF u = t THEN hostRoom[t] ELSE inRoom[u]
    BY <1>1, <1>2 DEF TypeOK, UserBooking
  <2>2. hostRoom[t] # None
    BY <1>1, <1>2 DEF RequestInv
  <2>3. QED
    BY <1>2, <1>5, <2>1, <2>2 DEF AcceptanceIsWhole
<1>9. ASSUME NEW u \in User, booking'[u] \in Request
      PROVE  GuestOf[ask'[booking'[u]].inv] = u
  <2>1. booking'[u] = IF u = guest THEN t ELSE booking[u]
    BY <1>1, <1>2 DEF TypeOK
  <2>2. CASE u = guest
    BY <1>1, <2>1, <2>2 DEF Invite
  <2>3. CASE u # guest
    BY <1>1, <1>2, <1>9, <2>1, <2>3 DEF AcceptanceIsWhole, Invite
  <2>4. QED
    BY <2>2, <2>3
<1>10. ASSUME NEW i \in Inv, state'[i] = "completed"
       PROVE  \E x \in Request : pc'[x] = "accepted" /\ ask'[x].inv = i
  <2>1. CASE i = Invite(t)
    BY <1>1, <1>5, <2>1 DEF Invite
  <2>2. CASE i # Invite(t)
    <3>1. state[i] = "completed"
      BY <1>2, <1>10, <2>2 DEF CommitAccept, TypeOK
    <3>2. PICK x \in Request : pc[x] = "accepted" /\ Invite(x) = i
      BY <1>2, <3>1 DEF AcceptanceIsWhole
    <3>3. x # t
      BY <1>1, <3>2
    <3>4. QED
      BY <1>1, <1>5, <3>2, <3>3 DEF Invite
  <2>3. QED
    BY <2>1, <2>2
<1>11. AcceptanceIsWhole'
  <2>1. (\A u \in User : booking[u] \in Request => GuestOf[Invite(booking[u])] = u)'
    BY <1>9 DEF Invite
  <2>2. (\A i \in Inv : state[i] = "completed" =>
             \E x \in Request : pc[x] = "accepted" /\ Invite(x) = i)'
    BY <1>10 DEF Invite
  <2>3. QED
    BY <1>7, <1>8, <2>1, <2>2 DEF AcceptanceIsWhole
<1>12. QED
  BY <1>4, <1>6, <1>11 DEF IInv, TxnInv

LEMMA RejectStep ==
    ASSUME IInv, TypeOK', NEW t \in Request, Reject(t) \/ CommitReject(t)
    PROVE  IInv'
<1>1. pc[t] \in {"answer", "save"} /\ ~ Asks(t, "accept")
  BY DEF Reject, CommitReject, Asks
<1>2. CASE Fail(t) \/ RunAgain(t, Rejected(mem[t]))
  BY <1>1, <1>2, FailStep, RunAgainStep
<1>3. CASE Reject(t) /\ ~ Fail(t) /\ ~ RunAgain(t, Rejected(mem[t]))
  <2>1. /\ HoldFirst(t, Invite(t))
        /\ pc' = [pc EXCEPT ![t] = "save"]
        /\ UNCHANGED <<dbVars, ask, retries, seats, hostRoom>>
    BY <1>3 DEF Reject
  <2>2. Invite(t) \in Doc /\ "save" \in InTransaction
    BY RequestFacts DEF IInv, InTransaction
  <2>3. QED
    BY <1>1, <2>1, <2>2, WriteStep DEF dbVars, NoneCompleted
<1>4. CASE CommitReject(t)
  <2>1. NoneCompleted
    BY <1>4 DEF CommitReject, NoneCompleted, IInv, TypeOK
  <2>2. QED
    BY <1>1, <1>4, <2>1, CommitStep DEF CommitReject
<1>5. QED
  BY <1>2, <1>3, <1>4

LEMMA CancelStep ==
    ASSUME IInv, TypeOK', NEW t \in Request, Cancel(t)
    PROVE  IInv'
<1>1. pc[t] = "answer"
  BY DEF Cancel
<1>2. CASE Fail(t)
  BY <1>1, <1>2, FailStep
<1>3. CASE ~ Fail(t)
  <2>1. /\ WriteNow(Invite(t))
        /\ pc' = [pc EXCEPT ![t] = "cancelled"]
        /\ UNCHANGED <<roommates, booking, inRoom, ask, retries, mem, seats, hostRoom>>
    BY <1>3 DEF Cancel
  <2>2. TxnInv' /\ open' = open
    BY <2>1, RequestFacts, WriteNowInv, TxnInvFacts DEF WriteNow, IInv
  <2>3. pc'[t] = "cancelled" /\ \A u \in Request \ {t} : pc'[u] = pc[u]
    BY <2>1 DEF IInv, TypeOK
  <2>4. RequestInv(t)'
    BY <1>1, <2>2, <2>3 DEF IInv, RequestInv, InTransaction
  <2>5. NoneCompleted
    BY <1>3 DEF Cancel, NoneCompleted, IInv, TypeOK
  <2>6. QED
    BY <1>1, <2>1, <2>2, <2>3, <2>4, <2>5, LocalStep
<1>4. QED
  BY <1>2, <1>3

LEMMA RemoveBookingStep ==
    ASSUME IInv, TypeOK', NEW u \in User, RemoveBooking(u)
    PROVE  IInv'
<1>1. TxnInv' /\ open' = open
  BY WriteNowInv, TxnInvFacts, InvitationAssumption DEF RemoveBooking, WriteNow
<1>2. \A t \in Request : RequestInv(t)'
  BY <1>1 DEF RemoveBooking, runVars, IInv, RequestInv, Asks
<1>3. \A v \in User : booking'[v] \in {booking[v], None}
  BY DEF RemoveBooking, IInv, TypeOK
<1>4. AcceptanceIsWhole'
  <2>1. \A v \in User, r \in Room : Acceptances(v, r)' = Acceptances(v, r)
    BY DEF Acceptances, Invite, RemoveBooking, runVars
  <2>2. UNCHANGED <<state, roommates, inRoom, pc, ask>>
    BY DEF RemoveBooking, runVars
  <2>3. \A v \in User : booking'[v] \in Request => booking[v] = booking'[v]
    BY <1>3, InvitationAssumption
  <2>4. QED
    BY <2>1, <2>2, <2>3 DEF IInv, AcceptanceIsWhole, Invite
<1>5. QED
  BY <1>1, <1>2, <1>4 DEF IInv, TxnInv

LEMMA CrashStep ==
    ASSUME IInv, TypeOK', Crash
    PROVE  IInv'
<1> DEFINE lost == {t \in Request : pc[t] \notin Answered \cup {"new"}}
<1>1. /\ AbortTxns(lost)
      /\ pc' = [t \in Request |-> IF t \in lost THEN "lost" ELSE pc[t]]
      /\ UNCHANGED <<dbVars, ask>>
  BY DEF Crash
<1>2. TxnInv' /\ open' = open \ lost
  BY <1>1, AbortTxnsInv, TxnInvFacts DEF AbortTxns
<1>3. ASSUME NEW t \in Request PROVE RequestInv(t)'
  <2>1. pc'[t] \in Answered \cup {"new"} /\ (t \notin lost => pc'[t] = pc[t])
    BY <1>1 DEF Answered
  <2>2. pc'[t] \notin InTransaction
    BY <2>1 DEF Answered, InTransaction
  <2>3. t \notin open'
    BY <1>2, <2>1 DEF IInv, RequestInv, InTransaction, Answered
  <2>4. QED
    BY <2>2, <2>3 DEF RequestInv, InTransaction
<1>4. AcceptanceIsWhole'
  <2>1. \A t \in Request : pc'[t] = "accepted" <=> pc[t] = "accepted"
    BY <1>1 DEF Answered
  <2>2. QED
    BY <1>1, <2>1, SameAcceptances DEF dbVars, NoneCompleted
<1>5. QED
  BY <1>2, <1>3, <1>4 DEF IInv, TxnInv

LEMMA InitIInv == Init => IInv
<1> SUFFICES ASSUME Init PROVE IInv
  OBVIOUS
<1>1. TypeOK /\ OneWriter
  BY InitType, TxnInitInv DEF Init, TxnInv
<1>2. ASSUME NEW t \in Request PROVE RequestInv(t)
  BY DEF Init, TxnInit, RequestInv, InTransaction
<1>3. AcceptanceIsWhole
  <2>1. \A u \in User, r \in Room : Acceptances(u, r) = {}
    BY DEF Init, Acceptances
  <2>2. \A r \in Room : roommates[r] = <<Booker[r]>>
    BY DEF Init
  <2>3. ASSUME NEW r \in Room, NEW u \in User
        PROVE  (\E k \in 1..Len(roommates[r]) : roommates[r][k] = u) <=> u = Booker[r]
    BY <2>2
  <2>4. \A t \in Request : inRoom[t] = None
    BY InvitationAssumption DEF Init, UserBooking
  <2>5. \A u \in User : booking[u] \notin Request
    BY InvitationAssumption DEF Init
  <2>6. \A t \in Request : pc[t] = "new"
    BY DEF Init
  <2>7. \A i \in Inv : state[i] # "completed"
    BY DEF Init
  <2>8. QED
    BY <2>1, <2>3, <2>4, <2>5, <2>6, <2>7 DEF AcceptanceIsWhole
<1>4. QED
  BY <1>1, <1>2, <1>3 DEF IInv

LEMMA IInvStep == IInv /\ [Next]_vars => IInv'
<1> SUFFICES ASSUME IInv, [Next]_vars PROVE IInv'
  OBVIOUS
<1>1. TypeOK'
  BY TypeStep DEF IInv
<1>2. ASSUME NEW t \in Request, SaveInvitation(t) \/ SaveGuest(t) PROVE IInv'
  BY <1>1, <1>2, RequestFacts, SaveOrRefuseStep DEF SaveInvitation, SaveGuest, IInv
<1>3. ASSUME NEW t \in Request, Refused(t) PROVE IInv'
  BY <1>1, <1>3, FailStep DEF Refused
<1>4. ASSUME NEW t \in Request, Answer(t) PROVE IInv'
  BY <1>1, <1>2, <1>3, <1>4, LoadStep, SendStep, TakeSeatStep, FindHostBookingStep,
     CommitAcceptStep, RejectStep, CancelStep DEF Answer
<1>5. CASE UNCHANGED vars
  <2>1. TxnInv'
    BY <1>5, TxnStutterInv, TxnInvFacts DEF vars
  <2>2. \A t \in Request : RequestInv(t)'
    BY <1>5 DEF IInv, RequestInv, Asks, vars, txnVars, runVars
  <2>3. AcceptanceIsWhole'
    BY <1>5, SameAcceptances DEF vars, dbVars, runVars, NoneCompleted
  <2>4. QED
    BY <1>1, <2>1, <2>2, <2>3 DEF IInv, TxnInv
<1>6. QED
  BY <1>1, <1>4, <1>5, RemoveBookingStep, CrashStep DEF Next, AllAnswered

\* The inductive invariant: what each request may rely on between two awaits, one
\* writer per document, and what the committed documents satisfy.
THEOREM InductiveInvariant == Spec => []IInv
  BY InitIInv, IInvStep, PTL DEF Spec

\* Acceptance is whole for any number of guests, hosts and rooms: whoever is told
\* "accepted" is listed in the room and has a booking with it, nobody else is or has,
\* and nobody has a booking made for another (invitation.service.ts:196-227).
THEOREM AcceptedOrNot == Spec => []AcceptanceIsWhole
<1>1. IInv => AcceptanceIsWhole
  BY DEF IInv
<1>2. QED
  BY <1>1, InductiveInvariant, PTL
=============================================================================
