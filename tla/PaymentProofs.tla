--------------------------- MODULE PaymentProofs ----------------------------
(***************************************************************************)
(* Proofs about Payment for every set of requests, bookings and hotels.    *)
(***************************************************************************)
EXTENDS Payment, TLAPS

(***************************************************************************)
(* Type correctness.                                                       *)
(***************************************************************************)

\* What withTransaction() does when an attempt ends keeps the types.
LEMMA EndOfAttemptType ==
    ASSUME TypeOK, NEW T \in SUBSET Request, AbortTxns(T) \/ (\E t \in T : CommitTxn(t)), ForgetRuns(T)
    PROVE  /\ TxnTypeOK'
           /\ todo' \in [Request -> SUBSET Booking]
           /\ paidSeen' \in [Request -> SUBSET Booking]
           /\ cur' \in [Request -> Room \cup {None}]
           /\ \A t \in Request : cur'[t] = IF t \in T THEN None ELSE cur[t]
           /\ done' \in [Request -> SUBSET Booking]
           /\ view' \in [Request -> HotelView]
<1>1. TxnTypeOK'
  <2>1. CASE AbortTxns(T)
    BY <2>1 DEF TypeOK, TxnTypeOK, AbortTxns
  <2>2. ASSUME NEW t \in T, CommitTxn(t) PROVE TxnTypeOK'
    <3>1. t \in Txn /\ held[t] \in SUBSET Doc
      BY ConstantsAssumption DEF TypeOK, TxnTypeOK
    <3>2. QED
      BY <2>2, <3>1 DEF TypeOK, TxnTypeOK, CommitTxn
  <2>3. QED
    BY <2>1, <2>2
<1>2. Blank \in HotelView
  <2>1. <<>> \in Seq(Room)
    OBVIOUS
  <2>2. QED
    BY <2>1 DEF Blank, HotelView
<1>3. QED
  BY <1>1, <1>2 DEF TypeOK, ForgetRuns

LEMMA FailType ==
    ASSUME TypeOK, NEW t \in Request, Fail(t)
    PROVE  TypeOK'
<1>1. /\ pc' \in [Request -> PC]
      /\ \A u \in Request : pc'[u] = IF u = t THEN "failed" ELSE pc[u]
  BY DEF TypeOK, Fail, PC, Answered
<1>2. QED
  BY <1>1, EndOfAttemptType, {t} \in SUBSET Request DEF TypeOK, Fail, dbVars

LEMMA RunAgainType ==
    ASSUME TypeOK, NEW t \in Request, RunAgain(t)
    PROVE  TypeOK'
<1>1. /\ pc' \in [Request -> PC]
      /\ \A u \in Request : u # t => pc'[u] = pc[u]
      /\ pc'[t] \in {"retry", "failed"}
  BY DEF TypeOK, RunAgain, PC, Answered
<1>2. retries' \in [Request -> 0..MaxRetries]
  <2>1. retries[t] \in 0..MaxRetries /\ MaxRetries \in Nat
    BY ConstantsAssumption DEF TypeOK
  <2>2. CASE retries[t] < MaxRetries
    <3>1. retries[t] + 1 \in 0..MaxRetries
      BY <2>1, <2>2
    <3>2. QED
      BY <2>2, <3>1 DEF TypeOK, RunAgain, AnotherTry
  <2>3. QED
    BY <2>2 DEF TypeOK, RunAgain
<1>3. QED
  BY <1>1, <1>2, EndOfAttemptType, {t} \in SUBSET Request DEF TypeOK, RunAgain, dbVars

LEMMA HoldDocType ==
    ASSUME TypeOK, NEW t \in Request, NEW d \in Doc, HoldDoc(t, d)
    PROVE  TxnTypeOK'
  BY ConstantsAssumption DEF TypeOK, TxnTypeOK, HoldDoc

\* Every step of a request, of the administrator and of a crash keeps the types.
LEMMA TypeStep == TypeOK /\ [Next]_vars => TypeOK'
<1> SUFFICES ASSUME TypeOK, [Next]_vars PROVE TypeOK'
  OBVIOUS
<1>1. ASSUME NEW t \in Request, GetPayer(t) PROVE TypeOK'
  <2>1. CASE Fail(t)
    BY <2>1, FailType
  <2>2. CASE ~ Fail(t)
    <3>1. pc' \in [Request -> PC]
      BY <1>1, <2>2 DEF GetPayer, TypeOK, PC
    <3>2. view' \in [Request -> HotelView]
      <4>1. [hotels |-> hotels, rooms |-> rooms] \in HotelView
        BY DEF TypeOK, HotelView
      <4>2. QED
        BY <1>1, <2>2, <4>1 DEF GetPayer, TypeOK
    <3>3. TxnTypeOK'
      BY <1>1, <2>2, ConstantsAssumption
      DEF GetPayer, ReadWithSession, TakeSnapshot, TypeOK, TxnTypeOK
    <3>4. QED
      BY <1>1, <2>2, <3>1, <3>2, <3>3 DEF GetPayer, TypeOK, dbVars
  <2>3. QED
    BY <2>1, <2>2
<1>2. ASSUME NEW t \in Request, FindBookings(t) PROVE TypeOK'
  <2>1. CASE Fail(t)
    BY <2>1, FailType
  <2>2. CASE ~ Fail(t)
    <3>1. /\ pc' \in [Request -> PC]
          /\ todo' \in [Request -> SUBSET Booking]
          /\ paidSeen' \in [Request -> SUBSET Booking]
      <4>1. Named(t) \in SUBSET Booking
        BY DEF Named
      <4>2. {b \in Named(t) : status[b] = "completed"} \in SUBSET Booking
        BY <4>1
      <4>3. /\ pc' = [pc EXCEPT ![t] = "loop"]
            /\ todo' = [todo EXCEPT ![t] = Named(t)]
            /\ paidSeen' = [paidSeen EXCEPT ![t] = {b \in Named(t) : status[b] = "completed"}]
        BY <1>2, <2>2 DEF FindBookings
      <4>4. QED
        BY <4>1, <4>2, <4>3 DEF TypeOK, PC
    <3>2. QED
      BY <1>2, <2>2, <3>1 DEF FindBookings, TypeOK, TxnTypeOK, txnVars, dbVars
  <2>3. QED
    BY <2>1, <2>2
<1>3. ASSUME NEW t \in Request, NEW b \in Booking, SaveCompleted(t, b),
             todo' \in [Request -> SUBSET Booking], pc' \in [Request -> PC],
             cur' \in [Request -> Room \cup {None}],
             \A u \in Request : pc'[u] \in {"hotel", "room"} => cur'[u] # None
      PROVE  TypeOK'
  <2>1. TxnTypeOK'
    BY <1>3, HoldDocType, ConstantsAssumption DEF SaveCompleted
  <2>2. done' \in [Request -> SUBSET Booking]
    BY <1>3 DEF SaveCompleted, TypeOK
  <2>3. QED
    BY <1>3, <2>1, <2>2 DEF SaveCompleted, TypeOK, dbVars
<1>4. ASSUME NEW t \in Request, NEW b \in Pass, CompleteUserPass(t, b) PROVE TypeOK'
  <2>1. CASE Fail(t)
    BY <2>1, FailType
  <2>2. CASE RunAgain(t)
    BY <2>2, RunAgainType
  <2>3. CASE ~ Fail(t) /\ ~ RunAgain(t)
    BY <1>3, <1>4, <2>3 DEF CompleteUserPass, TypeOK, Booking
  <2>4. QED
    BY <2>1, <2>2, <2>3
<1>5. ASSUME NEW t \in Request, NEW r \in Room, CountPastPayments(t, r) PROVE TypeOK'
  <2>1. /\ pc' \in [Request -> PC]
        /\ cur' \in [Request -> Room \cup {None}]
        /\ \A u \in Request : pc'[u] \in {"hotel", "room"} => cur'[u] # None
        /\ todo' \in [Request -> SUBSET Booking]
    <3>1. r # None
      BY ConstantsAssumption
    <3>2. CASE LastShare(t, r)
      BY <1>5, <3>1, <3>2 DEF CountPastPayments, TypeOK, PC
    <3>3. CASE ~ LastShare(t, r)
      BY <1>5, <3>3 DEF CountPastPayments, TypeOK
    <3>4. QED
      BY <3>2, <3>3
  <2>2. QED
    BY <1>5, <2>1 DEF CountPastPayments, TypeOK, TxnTypeOK, txnVars, dbVars
<1>6. ASSUME NEW t \in Request, AddBookingToHotel(t) PROVE TypeOK'
  <2>1. CASE Fail(t)
    BY <2>1, FailType
  <2>2. CASE RunAgain(t)
    BY <2>2, RunAgainType
  <2>3. CASE ~ Fail(t) /\ ~ RunAgain(t)
    <3> DEFINE r == cur[t]
               c == CollectionOf[r]
    <3>1. /\ pc[t] = "hotel"
          /\ HoldDoc(t, HotelOf[c])
          /\ HotelOf[c] \in view[t].hotels
          /\ view' = [view EXCEPT ![t].rooms[c] = Append(@, r)]
          /\ pc' = [pc EXCEPT ![t] = "room"]
          /\ UNCHANGED <<dbVars, body, retries, todo, paidSeen, cur, done>>
      BY <1>6, <2>3 DEF AddBookingToHotel, PushBooking
    <3>2. view[t] \in HotelView
      BY DEF TypeOK
    <3>3. r \in Room /\ c \in Collection /\ HotelOf[c] \in Doc
      BY <1>6, ConstantsAssumption DEF AddBookingToHotel, TypeOK
    <3>4. view' \in [Request -> HotelView]
      <4>1. Append(view[t].rooms[c], r) \in Seq(Room)
        BY <3>2, <3>3 DEF HotelView
      <4>2. [view[t] EXCEPT !.rooms[c] = Append(@, r)] \in HotelView
        BY <3>2, <4>1 DEF HotelView
      <4>3. QED
        BY <3>1, <4>2 DEF TypeOK
    <3>5. TxnTypeOK' /\ pc' \in [Request -> PC]
      BY <3>1, <3>3, HoldDocType DEF TypeOK, PC
    <3>6. \A u \in Request : pc'[u] \in {"hotel", "room"} => cur'[u] # None
      BY <3>1 DEF TypeOK
    <3>7. QED
      BY <3>1, <3>4, <3>5, <3>6 DEF TypeOK, dbVars
  <2>4. QED
    BY <2>1, <2>2, <2>3
<1>7. ASSUME NEW t \in Request, CompleteRoomBooking(t) PROVE TypeOK'
  <2>1. CASE Fail(t)
    BY <2>1, FailType
  <2>2. CASE RunAgain(t)
    BY <2>2, RunAgainType
  <2>3. CASE ~ Fail(t) /\ ~ RunAgain(t)
    <3>1. /\ SaveCompleted(t, cur[t])
          /\ pc[t] = "room"
          /\ pc' = [pc EXCEPT ![t] = "loop"]
          /\ cur' = [cur EXCEPT ![t] = None]
          /\ UNCHANGED todo
      BY <1>7, <2>3 DEF CompleteRoomBooking
    <3>2. cur[t] \in Booking
      BY <3>1 DEF TypeOK, Booking
    <3>3. /\ pc' \in [Request -> PC]
          /\ cur' \in [Request -> Room \cup {None}]
          /\ todo' \in [Request -> SUBSET Booking]
          /\ \A u \in Request : pc'[u] \in {"hotel", "room"} => cur'[u] # None
      BY <3>1 DEF TypeOK, PC
    <3>4. QED
      BY <1>3, <3>1, <3>2, <3>3
  <2>4. QED
    BY <2>1, <2>2, <2>3
<1>8. ASSUME NEW t \in Request, CreatePayment(t) PROVE TypeOK'
  <2>1. /\ status' \in [Booking -> {"in_progress", "completed", "missing"}]
        /\ rooms' \in [Collection -> Seq(Room)]
        /\ payments' \subseteq Request
        /\ pc' \in [Request -> PC]
    <3>1. status' \in [Booking -> {"in_progress", "completed", "missing"}]
      BY <1>8 DEF CreatePayment, TypeOK, CompletedStatus
    <3>2. rooms' \in [Collection -> Seq(Room)]
      <4>1. view[t].rooms \in [Collection -> Seq(Room)]
        BY DEF TypeOK, HotelView
      <4>2. QED
        BY <1>8, <4>1 DEF CreatePayment, TypeOK
    <3>3. payments' \subseteq Request /\ pc' \in [Request -> PC]
      BY <1>8 DEF CreatePayment, TypeOK, PC, Answered
    <3>4. QED
      BY <3>1, <3>2, <3>3
  <2>2. shares' \in [Room -> Nat]
    <3>1. \A r \in Room : Occurs(t, r) \in Nat
      BY ConstantsAssumption DEF TypeOK, Occurs, Booking
    <3>2. QED
      BY <1>8, <3>1 DEF CreatePayment, TypeOK
  <2>3. QED
    BY <1>8, <2>1, <2>2, EndOfAttemptType, {t} \in SUBSET Request DEF CreatePayment, TypeOK
<1>9. ASSUME NEW h \in Hotel, RemoveHotel(h) PROVE TypeOK'
  <2>1. TxnTypeOK'
    BY <1>9, ConstantsAssumption DEF RemoveHotel, WriteNow, TypeOK, TxnTypeOK
  <2>2. QED
    BY <1>9, <2>1 DEF RemoveHotel, TypeOK, runVars
<1>10. CASE Crash
  <2>1. InFlight \in SUBSET Request
    BY DEF InFlight
  <2>2. pc' \in [Request -> PC]
    BY <1>10 DEF Crash, TypeOK, PC, Answered
  <2>3. QED
    BY <1>10, <2>1, <2>2, EndOfAttemptType DEF Crash, TypeOK, dbVars
<1>11. CASE UNCHANGED vars
  BY <1>11 DEF vars, txnVars, dbVars, runVars, TypeOK, TxnTypeOK
<1>12. QED
  BY <1>1, <1>2, <1>4, <1>5, <1>6, <1>7, <1>8, <1>9, <1>10, <1>11 DEF Next, Pay, AllAnswered

LEMMA InitType == Init => TypeOK
<1> SUFFICES ASSUME Init PROVE TypeOK
  OBVIOUS
<1>1. TxnTypeOK
  BY DEF Init, TxnInit, TxnTypeOK
<1>2. Blank \in HotelView
  <2>1. <<>> \in Seq(Room)
    OBVIOUS
  <2>2. QED
    BY <2>1 DEF Blank, HotelView
<1>3. rooms \in [Collection -> Seq(Room)] /\ view \in [Request -> HotelView]
  <2>1. <<>> \in Seq(Room)
    OBVIOUS
  <2>2. QED
    BY <1>2, <2>1 DEF Init
<1>4. QED
  BY <1>1, <1>3, ConstantsAssumption DEF Init, TypeOK, PC

\* The state of the service, of the database and of every open transaction has the
\* shape TypeOK gives it, whatever the requests, bookings and hotels are.
THEOREM TypeCorrect == Spec => []TypeOK
  BY InitType, TypeStep, PTL DEF Spec

(***************************************************************************)
(* The inductive invariant.  One lemma per kind of step; the last ones     *)
(* assemble them.                                                          *)
(***************************************************************************)

\* The end of an attempt by exception, conflict or crash: the runs of T are back to
\* nothing, the committed documents and the other runs are as they were.
LEMMA AbortStep ==
    ASSUME IInv, TypeOK', NEW T \in SUBSET Request, AbortTxns(T), ForgetRuns(T),
           UNCHANGED <<dbVars, body>>,
           \A t \in T : pc'[t] \notin Active,
           \A t \in Request \ T : pc'[t] = pc[t]
    PROVE  IInv'
<1> USE DEF dbVars
<1>1. OneWriter'
  BY DEF IInv, OneWriter, AbortTxns, TypeOK, TxnTypeOK
<1>2. ASSUME NEW t \in Request PROVE RunInv(t)'
  <2>1. /\ Named(t)' = Named(t)
        /\ \A r \in Room : Occurs(t, r)' = Occurs(t, r)
    BY DEF Named, Occurs
  <2>2. CASE t \in T
    <3>1. /\ t \notin open' /\ pc'[t] \notin Active
          /\ done'[t] = {} /\ cur'[t] = None
          /\ \A c \in Collection : view'[t].rooms[c] = <<>>
      BY <2>2 DEF AbortTxns, ForgetRuns, Blank
    <3>2. None \notin Room
      BY ConstantsAssumption
    <3>3. \A c \in Collection : Len(view'[t].rooms[c]) <= Count[c]
      BY <3>1, ConstantsAssumption
    <3>4. QED
      BY <3>1, <3>2, <3>3 DEF RunInv
  <2>3. CASE t \notin T
    <3>1. /\ t \in open' <=> t \in open
          /\ held'[t] = held[t] /\ missed'[t] = missed[t] /\ pc'[t] = pc[t]
          /\ done'[t] = done[t] /\ todo'[t] = todo[t] /\ paidSeen'[t] = paidSeen[t]
          /\ cur'[t] = cur[t] /\ view'[t] = view[t]
      BY <2>3, ConstantsAssumption DEF AbortTxns, ForgetRuns, IInv, TypeOK, TxnTypeOK
    <3>2. RunInv(t)
      BY DEF IInv
    <3>3. QED
      BY <2>1, <3>1, <3>2 DEF RunInv
  <2>4. QED
    BY <2>2, <2>3
<1>3. LedgerInv'
  BY DEF IInv, LedgerInv, PaymentsOf, PassPaidOnce, HotelNotOverbooked, Named, Occurs
<1>4. QED
  BY <1>1, <1>2, <1>3 DEF IInv

LEMMA FailStep ==
    ASSUME IInv, TypeOK', NEW t \in Request, Fail(t)
    PROVE  IInv'
  BY AbortStep, {t} \in SUBSET Request DEF Fail, Active, IInv, TypeOK

LEMMA RunAgainStep ==
    ASSUME IInv, TypeOK', NEW t \in Request, RunAgain(t)
    PROVE  IInv'
  BY AbortStep, {t} \in SUBSET Request DEF RunAgain, Active, IInv, TypeOK

LEMMA CrashStep ==
    ASSUME IInv, TypeOK', Crash
    PROVE  IInv'
<1>1. InFlight \in SUBSET Request
  BY DEF InFlight
<1>2. QED
  BY <1>1, AbortStep DEF Crash, Active, IInv, TypeOK

\* A write without conflict keeps one writer per document.
LEMMA HoldStep ==
    ASSUME TypeOK, OneWriter, NEW t \in Request, t \in open, NEW d \in Doc, HoldDoc(t, d)
    PROVE  OneWriter'
<1>1. \A u \in Txn : held'[u] = IF u = t THEN held[u] \cup {d} ELSE held[u]
  BY ConstantsAssumption DEF HoldDoc, TypeOK, TxnTypeOK
<1>2. d \notin missed[t] /\ \A u \in Txn \ {t} : d \notin held[u]
  BY DEF HoldDoc, Conflicts
<1>3. QED
  BY <1>1, <1>2, ConstantsAssumption DEF OneWriter, HoldDoc, TypeOK, TxnTypeOK

\* A step of t that changes neither the committed documents nor another run keeps
\* the invariant as soon as it keeps what the run of t relies on.
LEMMA LocalStep ==
    ASSUME IInv, TypeOK', OneWriter', NEW t \in Request, RunInv(t)',
           UNCHANGED <<dbVars, body>>,
           \A u \in Request \ {t} :
               /\ u \in open' <=> u \in open
               /\ held'[u] = held[u] /\ missed'[u] = missed[u] /\ pc'[u] = pc[u]
               /\ done'[u] = done[u] /\ todo'[u] = todo[u] /\ paidSeen'[u] = paidSeen[u]
               /\ cur'[u] = cur[u] /\ view'[u] = view[u]
    PROVE  IInv'
<1> USE DEF dbVars
<1>1. ASSUME NEW u \in Request \ {t} PROVE RunInv(u)'
  BY <1>1 DEF IInv, RunInv, Named, Occurs
<1>2. LedgerInv'
  BY DEF IInv, LedgerInv, PaymentsOf, PassPaidOnce, HotelNotOverbooked, Named, Occurs
<1>3. QED
  BY <1>1, <1>2 DEF IInv

LEMMA GetPayerStep ==
    ASSUME IInv, TypeOK', NEW t \in Request, GetPayer(t)
    PROVE  IInv'
<1>1. CASE Fail(t)
  BY <1>1, FailStep
<1>2. CASE ~ Fail(t)
  <2>1. /\ pc[t] \in {"new", "retry"}
        /\ TakeSnapshot(t)
        /\ view' = [view EXCEPT ![t] = [hotels |-> hotels, rooms |-> rooms]]
        /\ pc' = [pc EXCEPT ![t] = "load"]
        /\ UNCHANGED <<dbVars, body, todo, paidSeen, cur, done>>
    BY <1>2 DEF GetPayer, ReadWithSession
  <2>2. OneWriter'
    BY <2>1 DEF IInv, OneWriter, TakeSnapshot
  <2>3. RunInv(t)'
    <3>1. RunInv(t) /\ LedgerInv
      BY DEF IInv
    <3>2. t \in open' /\ pc'[t] = "load" /\ view'[t].rooms = rooms
      BY <2>1 DEF TakeSnapshot, IInv, TypeOK
    <3>3. \A c \in Collection : Len(view'[t].rooms[c]) <= Count[c]
      BY <3>1, <3>2 DEF LedgerInv, HotelNotOverbooked
    <3>4. QED
      BY <2>1, <3>1, <3>2, <3>3
      DEF RunInv, Active, TakeSnapshot, Named, Occurs, dbVars
  <2>4. QED
    BY <2>1, <2>2, <2>3, LocalStep DEF TakeSnapshot, IInv, TypeOK
<1>3. QED
  BY <1>1, <1>2

LEMMA FindBookingsStep ==
    ASSUME IInv, TypeOK', NEW t \in Request, FindBookings(t)
    PROVE  IInv'
<1>1. CASE Fail(t)
  BY <1>1, FailStep
<1>2. CASE ~ Fail(t)
  <2>1. /\ pc[t] = "load"
        /\ todo' = [todo EXCEPT ![t] = Named(t)]
        /\ paidSeen' = [paidSeen EXCEPT ![t] = {b \in Named(t) : status[b] = "completed"}]
        /\ pc' = [pc EXCEPT ![t] = "loop"]
        /\ UNCHANGED <<txnVars, dbVars, body, cur, done, view>>
    BY <1>2 DEF FindBookings
  <2>2. OneWriter'
    BY <2>1 DEF IInv, OneWriter, txnVars
  <2>3. RunInv(t)'
    <3>1. RunInv(t)
      BY DEF IInv
    <3>2. /\ pc'[t] = "loop" /\ todo'[t] = Named(t)
          /\ paidSeen'[t] = {b \in Named(t) : status[b] = "completed"}
      BY <2>1 DEF IInv, TypeOK
    <3>3. Named(t)' = Named(t) /\ \A r \in Room : Occurs(t, r)' = Occurs(t, r)
      BY <2>1 DEF Named, Occurs
    <3>4. done[t] = {}
      BY <2>1, <3>1 DEF RunInv
    <3>5. QED
      BY <2>1, <3>1, <3>2, <3>3, <3>4 DEF RunInv, Active, txnVars, dbVars
  <2>4. QED
    BY <2>1, <2>2, <2>3, LocalStep DEF txnVars, IInv, TypeOK
<1>3. QED
  BY <1>1, <1>2

\* complete() and save() of a booking that was not seen completed.
LEMMA SaveStep ==
    ASSUME IInv, TypeOK', NEW t \in Request, pc[t] \in Active \ {"load"},
           NEW b \in Named(t), b \notin paidSeen[t], SaveCompleted(t, b),
           pc' = [pc EXCEPT ![t] = "loop"], todo' \in {todo, [todo EXCEPT ![t] = @ \ {b}]},
           cur'[t] = None, \A u \in Request \ {t} : cur'[u] = cur[u],
           b \in Room => b = cur[t]
    PROVE  IInv'
<1>1. t \in open /\ b \in Doc /\ b \in Booking
  BY ConstantsAssumption DEF IInv, RunInv, Named
<1>2. OneWriter'
  BY <1>1, HoldStep DEF SaveCompleted, IInv
<1>3. RunInv(t)'
  <2>1. RunInv(t)
    BY DEF IInv
  <2>2. /\ held'[t] = held[t] \cup {b} /\ done'[t] = done[t] \cup {b}
        /\ pc'[t] = "loop" /\ todo'[t] \in {todo[t], todo[t] \ {b}}
        /\ UNCHANGED <<open, missed, status, shares, paidSeen, view, body>>
    BY <1>1, ConstantsAssumption
    DEF SaveCompleted, HoldDoc, IInv, TypeOK, TxnTypeOK, dbVars
  <2>3. Named(t)' = Named(t) /\ \A r \in Room : Occurs(t, r)' = Occurs(t, r)
    BY <2>2 DEF Named, Occurs
  <2>4. None \notin Room
    BY ConstantsAssumption
  <2>5. QED
    BY <1>1, <2>1, <2>2, <2>3, <2>4 DEF RunInv, Active
<1>4. QED
  BY <1>2, <1>3, LocalStep, ConstantsAssumption
  DEF SaveCompleted, HoldDoc, IInv, TypeOK, TxnTypeOK

LEMMA CompleteUserPassStep ==
    ASSUME IInv, TypeOK', NEW t \in Request, NEW b \in Pass, CompleteUserPass(t, b)
    PROVE  IInv'
<1>1. CASE Fail(t)
  BY <1>1, FailStep
<1>2. CASE RunAgain(t)
  BY <1>2, RunAgainStep
<1>3. CASE ~ Fail(t) /\ ~ RunAgain(t)
  <2>1. /\ pc[t] = "loop" /\ b \in todo[t] /\ b \notin paidSeen[t]
        /\ SaveCompleted(t, b)
        /\ todo' = [todo EXCEPT ![t] = @ \ {b}]
        /\ UNCHANGED <<pc, cur>>
    BY <1>3 DEF CompleteUserPass, AlreadyPaid
  <2>2. b \in Named(t)
    BY <2>1 DEF IInv, RunInv, Active
  <2>3. cur[t] = None
    BY <2>1 DEF IInv, RunInv
  <2>4. pc' = [pc EXCEPT ![t] = "loop"]
    BY <2>1 DEF IInv, TypeOK
  <2>5. b \notin Room
    BY ConstantsAssumption
  <2>6. QED
    BY <2>1, <2>2, <2>3, <2>4, <2>5, SaveStep DEF Active
<1>4. QED
  BY <1>1, <1>2, <1>3

LEMMA CountPastPaymentsStep ==
    ASSUME IInv, TypeOK', NEW t \in Request, NEW r \in Room, CountPastPayments(t, r)
    PROVE  IInv'
<1>1. /\ pc[t] = "loop" /\ r \in todo[t]
      /\ todo' = [todo EXCEPT ![t] = @ \ {r}]
      /\ UNCHANGED <<txnVars, dbVars, body, retries, paidSeen, done, view>>
  BY DEF CountPastPayments
<1>2. OneWriter'
  BY <1>1 DEF IInv, OneWriter, txnVars
<1>3. Named(t)' = Named(t) /\ \A q \in Room : Occurs(t, q)' = Occurs(t, q)
  BY <1>1 DEF Named, Occurs
<1>4. r \notin Pass
  BY ConstantsAssumption
<1>5. todo'[t] = todo[t] \ {r}
  BY <1>1 DEF IInv, TypeOK
<1>6. RunInv(t)'
  <2>1. RunInv(t)
    BY DEF IInv
  <2>2. r \in Named(t)
    BY <1>1, <2>1 DEF RunInv, Active
  <2>3. CASE LastShare(t, r)
    <3>1. pc'[t] = "hotel" /\ cur'[t] = r
      BY <2>3 DEF CountPastPayments, IInv, TypeOK
    <3>2. shares[r] + Occurs(t, r) >= Capacity[r]
      BY <2>3, ConstantsAssumption DEF LastShare
    <3>3. QED
      BY <1>1, <1>3, <1>4, <1>5, <2>1, <2>2, <3>1, <3>2 DEF RunInv, Active, txnVars, dbVars
  <2>4. CASE ~ LastShare(t, r)
    <3>1. pc' = pc /\ cur' = cur
      BY <2>4 DEF CountPastPayments
    <3>2. QED
      BY <1>1, <1>3, <1>4, <1>5, <2>1, <3>1 DEF RunInv, Active, txnVars, dbVars
  <2>5. QED
    BY <2>3, <2>4
<1>7. \A u \in Request \ {t} : pc'[u] = pc[u] /\ cur'[u] = cur[u]
  BY DEF CountPastPayments, IInv, TypeOK
<1>8. QED
  BY <1>1, <1>2, <1>6, <1>7, LocalStep DEF txnVars, IInv, TypeOK

LEMMA AddBookingToHotelStep ==
    ASSUME IInv, TypeOK', NEW t \in Request, AddBookingToHotel(t)
    PROVE  IInv'
<1> DEFINE r == cur[t]
           c == CollectionOf[r]
           h == HotelOf[c]
<1>1. CASE Fail(t)
  BY <1>1, FailStep
<1>2. CASE RunAgain(t)
  BY <1>2, RunAgainStep
<1>3. CASE ~ Fail(t) /\ ~ RunAgain(t)
  <2>1. /\ pc[t] = "hotel"
        /\ HoldDoc(t, h)
        /\ ~ NoRoomLeft(t, c)
        /\ view' = [view EXCEPT ![t].rooms[c] = Append(@, r)]
        /\ pc' = [pc EXCEPT ![t] = "room"]
        /\ UNCHANGED <<dbVars, body, retries, todo, paidSeen, cur, done>>
    BY <1>3 DEF AddBookingToHotel, PushBooking
  <2>2. r \in Room /\ c \in Collection /\ h \in Doc
    BY <2>1, ConstantsAssumption DEF IInv, TypeOK
  <2>3. t \in open
    BY <2>1 DEF IInv, RunInv, Active
  <2>4. OneWriter'
    BY <2>1, <2>2, <2>3, HoldStep DEF IInv
  <2>5. RunInv(t)'
    <3>1. RunInv(t)
      BY DEF IInv
    <3>2. /\ held'[t] = held[t] \cup {h} /\ pc'[t] = "room"
          /\ UNCHANGED <<open, missed>>
      BY <2>1, ConstantsAssumption DEF HoldDoc, IInv, TypeOK, TxnTypeOK
    <3>3. Named(t)' = Named(t) /\ \A q \in Room : Occurs(t, q)' = Occurs(t, q)
      BY <2>1 DEF Named, Occurs
    <3>4. \A d \in Collection : Len(view'[t].rooms[d]) <= Count[d]
      <4>1. view[t] \in HotelView
        BY DEF IInv, TypeOK
      <4>2. view'[t].rooms = [view[t].rooms EXCEPT ![c] = Append(@, r)]
        BY <2>1, <4>1 DEF IInv, TypeOK, HotelView
      <4>3. /\ view[t].rooms[c] \in Seq(Room)
            /\ Len(view[t].rooms[c]) < Count[c]
            /\ Count[c] \in Nat
        BY <2>1, <2>2, <4>1, ConstantsAssumption DEF HotelView, NoRoomLeft
      <4>4. Len(Append(view[t].rooms[c], r)) <= Count[c]
        BY <2>2, <4>3
      <4>5. QED
        BY <3>1, <4>1, <4>2, <4>4 DEF RunInv, HotelView
    <3>5. QED
      BY <2>1, <3>1, <3>2, <3>3, <3>4 DEF RunInv, Active, dbVars
  <2>6. QED
    BY <2>1, <2>4, <2>5, LocalStep, ConstantsAssumption
    DEF HoldDoc, IInv, TypeOK, TxnTypeOK
<1>4. QED
  BY <1>1, <1>2, <1>3

LEMMA CompleteRoomBookingStep ==
    ASSUME IInv, TypeOK', NEW t \in Request, CompleteRoomBooking(t)
    PROVE  IInv'
<1>1. CASE Fail(t)
  BY <1>1, FailStep
<1>2. CASE RunAgain(t)
  BY <1>2, RunAgainStep
<1>3. CASE ~ Fail(t) /\ ~ RunAgain(t)
  <2>1. /\ pc[t] = "room" /\ cur[t] \notin paidSeen[t]
        /\ SaveCompleted(t, cur[t])
        /\ pc' = [pc EXCEPT ![t] = "loop"]
        /\ cur' = [cur EXCEPT ![t] = None]
        /\ UNCHANGED todo
    BY <1>3 DEF CompleteRoomBooking, AlreadyPaid
  <2>2. cur[t] \in Named(t)
    BY <2>1 DEF IInv, RunInv, TypeOK
  <2>3. cur'[t] = None /\ \A u \in Request \ {t} : cur'[u] = cur[u]
    BY <2>1 DEF IInv, TypeOK
  <2>4. QED
    BY <2>1, <2>2, <2>3, SaveStep DEF Active
<1>4. QED
  BY <1>1, <1>2, <1>3

\* What the commit of t relies on: no pass it completes was completed before.
LEMMA FirstPayment ==
    ASSUME IInv, NEW t \in Request, pc[t] = "loop", todo[t] = {},
           NEW p \in Pass, p \in Named(t)
    PROVE  p \in done[t] /\ PaymentsOf(p) = {}
<1>1. p \in done[t]
  BY DEF IInv, RunInv, Active
<1>2. p \notin missed[t] /\ p \notin paidSeen[t]
  BY <1>1, ConstantsAssumption DEF IInv, RunInv, OneWriter
<1>3. status[p] # "completed"
  BY <1>2 DEF IInv, RunInv, Active
<1>4. QED
  BY <1>1, <1>3 DEF IInv, LedgerInv

\* The commit of a payment.
LEMMA CreatePaymentStep ==
    ASSUME IInv, TypeOK', NEW t \in Request, CreatePayment(t)
    PROVE  IInv'
<1>1. /\ pc[t] = "loop" /\ todo[t] = {}
      /\ CommitTxn(t) /\ ForgetRuns({t})
      /\ pc' = [pc EXCEPT ![t] = "done"]
      /\ payments' = payments \cup {t}
      /\ UNCHANGED <<hotels, body, retries>>
  BY DEF CreatePayment
<1>2. \A b \in Booking : status'[b] = IF b \in done[t] THEN "completed" ELSE status[b]
  BY DEF CreatePayment, CompletedStatus
<1>3. /\ \A r \in Room : shares'[r] = shares[r] + Occurs(t, r)
      /\ \A r \in Room : shares[r] \in Nat /\ Occurs(t, r) \in Nat /\ Capacity[r] \in Nat
  BY ConstantsAssumption DEF CreatePayment, IInv, TypeOK, Occurs, Booking
<1>4. \A u \in Request : Named(u)' = Named(u) /\ \A r \in Room : Occurs(u, r)' = Occurs(u, r)
  BY <1>1 DEF Named, Occurs
<1>5. t \in Txn /\ Request \subseteq Txn
  BY ConstantsAssumption
<1>6. OneWriter'
  <2>1. /\ \A u \in Txn : held'[u] = IF u = t THEN {} ELSE held[u]
        /\ \A u \in Txn : missed'[u] = IF u \in open \ {t} THEN missed[u] \cup held[t] ELSE {}
        /\ open' = open \ {t}
    BY <1>1 DEF CommitTxn, IInv, TypeOK, TxnTypeOK
  <2>2. OneWriter
    BY DEF IInv
  <2>3. QED
    BY <1>5, <2>1, <2>2 DEF OneWriter
<1>7. ASSUME NEW u \in Request PROVE RunInv(u)'
  <2>1. RunInv(u) /\ RunInv(t)
    BY DEF IInv
  <2>2. CASE u = t
    <3>1. /\ t \notin open' /\ pc'[t] \notin Active
          /\ done'[t] = {} /\ cur'[t] = None
          /\ \A c \in Collection : view'[t].rooms[c] = <<>>
      BY <1>1 DEF CommitTxn, ForgetRuns, Blank, Active, IInv, TypeOK
    <3>2. \A c \in Collection : Len(view'[t].rooms[c]) <= Count[c]
      BY <3>1, ConstantsAssumption
    <3>3. QED
      BY <2>2, <3>1, <3>2, ConstantsAssumption DEF RunInv
  <2>3. CASE u # t
    <3>1. /\ u \in open' <=> u \in open
          /\ held'[u] = held[u] /\ pc'[u] = pc[u]
          /\ u \in open => missed'[u] = missed[u] \cup held[t]
          /\ done'[u] = done[u] /\ todo'[u] = todo[u] /\ paidSeen'[u] = paidSeen[u]
          /\ cur'[u] = cur[u] /\ view'[u] = view[u]
      BY <1>1, <1>5, <2>3 DEF CommitTxn, ForgetRuns, IInv, TypeOK, TxnTypeOK
    <3>2. ASSUME pc[u] \in Active \ {"load"}, NEW b \in Named(u) \ (missed'[u] \cup paidSeen[u])
          PROVE  status'[b] # "completed"
      <4>1. u \in open /\ b \notin held[t] /\ b \notin missed[u]
        BY <2>1, <3>1, <3>2 DEF RunInv
      <4>2. b \notin done[t] /\ b \in Booking
        BY <2>1, <4>1 DEF RunInv, Named
      <4>3. QED
        BY <1>2, <2>1, <3>2, <4>1, <4>2 DEF RunInv
    <3>3. \A r \in Room : shares[r] + Occurs(u, r) >= Capacity[r] =>
                             shares'[r] + Occurs(u, r) >= Capacity[r]
      BY <1>3, ConstantsAssumption DEF IInv, TypeOK, Occurs, Booking
    <3>4. QED
      BY <1>4, <2>1, <3>1, <3>2, <3>3 DEF RunInv
  <2>4. QED
    BY <2>2, <2>3
<1>8. LedgerInv'
  <2>1. LedgerInv /\ RunInv(t)
    BY DEF IInv
  <2>2. ASSUME NEW p \in Pass
        PROVE  /\ PaymentsOf(p)' # {} <=> status'[p] = "completed"
               /\ \A x, y \in PaymentsOf(p)' : x = y
    <3>1. PaymentsOf(p)' = IF p \in Named(t) THEN PaymentsOf(p) \cup {t} ELSE PaymentsOf(p)
      BY <1>1, <1>4 DEF PaymentsOf, IInv, TypeOK
    <3>2. CASE p \in Named(t)
      <4>1. p \in done[t] /\ PaymentsOf(p) = {}
        BY <1>1, <3>2, FirstPayment
      <4>2. QED
        BY <1>2, <3>1, <3>2, <4>1 DEF Booking
    <3>3. CASE p \notin Named(t)
      <4>1. p \notin done[t]
        BY <2>1, <3>3 DEF RunInv
      <4>2. QED
        BY <1>2, <2>1, <3>1, <3>3, <4>1 DEF LedgerInv, PassPaidOnce, Booking
    <3>4. QED
      BY <3>2, <3>3
  <2>3. ASSUME NEW r \in Room, status'[r] = "completed" PROVE shares'[r] >= Capacity[r]
    <3>1. CASE r \in done[t]
      BY <1>3, <2>1, <3>1 DEF RunInv
    <3>2. CASE r \notin done[t]
      <4>1. shares[r] >= Capacity[r]
        BY <1>2, <2>1, <2>3, <3>2 DEF LedgerInv, Booking
      <4>2. QED
        BY <1>3, <4>1
    <3>3. QED
      BY <3>1, <3>2
  <2>4. ASSUME NEW c \in Collection PROVE Len(rooms'[c]) <= Count[c]
    BY <2>1 DEF CreatePayment, RunInv, LedgerInv, HotelNotOverbooked
  <2>5. QED
    BY <2>2, <2>3, <2>4 DEF LedgerInv, PassPaidOnce, HotelNotOverbooked
<1>9. QED
  BY <1>6, <1>7, <1>8 DEF IInv

\* A hotel deleted outside any transaction.
LEMMA RemoveHotelStep ==
    ASSUME IInv, TypeOK', NEW h \in Hotel, RemoveHotel(h)
    PROVE  IInv'
<1>1. /\ \A u \in Txn : h \notin held[u]
      /\ missed' = [u \in Txn |-> IF u \in open THEN missed[u] \cup {h} ELSE {}]
      /\ UNCHANGED <<open, held, status, rooms, payments, shares, runVars>>
  BY DEF RemoveHotel, WriteNow
<1>2. OneWriter'
  BY <1>1 DEF IInv, OneWriter
<1>3. h \notin Booking
  BY ConstantsAssumption
<1>4. ASSUME NEW u \in Request PROVE RunInv(u)'
  <2>1. RunInv(u)
    BY DEF IInv
  <2>2. u \in open => missed'[u] = missed[u] \cup {h}
    BY <1>1, ConstantsAssumption
  <2>3. Named(u)' = Named(u) /\ \A r \in Room : Occurs(u, r)' = Occurs(u, r)
    BY <1>1 DEF Named, Occurs, runVars
  <2>4. QED
    BY <1>1, <1>3, <2>1, <2>2, <2>3 DEF RunInv, runVars, Active
<1>5. LedgerInv'
  BY <1>1 DEF IInv, LedgerInv, PaymentsOf, PassPaidOnce, HotelNotOverbooked, Named, Occurs, runVars
<1>6. QED
  BY <1>2, <1>4, <1>5 DEF IInv

LEMMA InitIInv == Init => IInv
<1> SUFFICES ASSUME Init PROVE IInv
  OBVIOUS
<1>1. TypeOK
  BY InitType
<1>2. OneWriter
  BY DEF Init, TxnInit, OneWriter
<1>3. ASSUME NEW t \in Request PROVE RunInv(t)
  <2>1. t \in Txn /\ None \notin Room
    BY ConstantsAssumption
  <2>2. \A c \in Collection : view[t].rooms[c] = <<>> /\ Count[c] \in Nat
    BY ConstantsAssumption DEF Init, Blank
  <2>3. \A c \in Collection : Len(view[t].rooms[c]) <= Count[c]
    BY <2>2
  <2>4. QED
    BY <2>1, <2>3 DEF Init, TxnInit, RunInv, Active
<1>4. LedgerInv
  <2>1. \A b \in Booking : status[b] # "completed"
    BY DEF Init
  <2>2. \A p \in Pass : PaymentsOf(p) = {}
    BY DEF Init, PaymentsOf
  <2>3. \A c \in Collection : Len(rooms[c]) <= Count[c]
    BY ConstantsAssumption DEF Init
  <2>4. QED
    BY <2>1, <2>2, <2>3 DEF LedgerInv, PassPaidOnce, HotelNotOverbooked, Booking
<1>5. QED
  BY <1>1, <1>2, <1>3, <1>4 DEF IInv

LEMMA IInvStep == IInv /\ [Next]_vars => IInv'
<1> SUFFICES ASSUME IInv, [Next]_vars PROVE IInv'
  OBVIOUS
<1>1. TypeOK'
  BY TypeStep DEF IInv
<1>2. ASSUME NEW t \in Request, Pay(t) PROVE IInv'
  BY <1>1, <1>2, GetPayerStep, FindBookingsStep, CompleteUserPassStep, CountPastPaymentsStep,
     AddBookingToHotelStep, CompleteRoomBookingStep, CreatePaymentStep DEF Pay
<1>3. ASSUME NEW h \in Hotel, RemoveHotel(h) PROVE IInv'
  BY <1>1, <1>3, RemoveHotelStep
<1>4. CASE Crash
  BY <1>1, <1>4, CrashStep
<1>5. CASE UNCHANGED vars
  <2>1. OneWriter'
    BY <1>5 DEF IInv, OneWriter, vars, txnVars
  <2>2. \A t \in Request : RunInv(t)'
    BY <1>5 DEF IInv, RunInv, Named, Occurs, vars, txnVars, dbVars, runVars
  <2>3. LedgerInv'
    BY <1>5 DEF IInv, LedgerInv, PaymentsOf, PassPaidOnce, HotelNotOverbooked, Named, Occurs,
                vars, dbVars, runVars
  <2>4. QED
    BY <1>1, <2>1, <2>2, <2>3 DEF IInv
<1>6. QED
  BY <1>2, <1>3, <1>4, <1>5 DEF Next, AllAnswered

\* The inductive invariant: what each run of pay() may rely on between two awaits,
\* and what the committed documents satisfy.
THEOREM InductiveInvariant == Spec => []IInv
  BY InitIInv, IInvStep, PTL DEF Spec

\* No pass or user booking is ever named by two payment documents, for any number of
\* concurrent and retried requests (payment.service.ts:69, booking.schema.ts:85).
THEOREM PaidOnce == Spec => []PassPaidOnce
<1>1. IInv => PassPaidOnce
  BY DEF IInv, LedgerInv
<1>2. QED
  BY <1>1, InductiveInvariant, PTL

\* A pass is completed exactly when a payment names it, and a completed room booking
\* is named at least as often as its room has places (payment.service.ts:106-168).
THEOREM CompletionIsBacked == Spec => []CompletedIsPaid
<1>1. IInv => CompletedIsPaid
  BY DEF IInv, LedgerInv, CompletedIsPaid
<1>2. QED
  BY <1>1, InductiveInvariant, PTL

\* A room type never holds more bookings than it has rooms, although its validator
\* never runs (hotel.schema.ts:157, room-collection.schema.ts:41).
THEOREM NotOverbooked == Spec => []HotelNotOverbooked
<1>1. IInv => HotelNotOverbooked
  BY DEF IInv, LedgerInv
<1>2. QED
  BY <1>1, InductiveInvariant, PTL
=============================================================================
