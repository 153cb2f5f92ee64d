------------------------ MODULE PaymentLedgerProofs -------------------------
(***************************************************************************)
(* Payment keeps the hotels' lists and the bookings' statuses together and *)
(* implements PaymentLedger, for every set of requests, bookings, hotels.  *)
(***************************************************************************)
EXTENDS PaymentProofs, FiniteSetTheorems

(***************************************************************************)
(* Lists of room bookings.                                                 *)
(***************************************************************************)

LEMMA ListedEmpty == Listed(<<>>) = {} /\ EachOnce(<<>>)
  BY DEF Listed, EachOnce

\* What Hotel.addBooking's push does to the room bookings a list names.
LEMMA ListedAppend ==
    ASSUME NEW S, NEW s \in Seq(S), NEW x \in S
    PROVE  /\ Listed(Append(s, x)) = Listed(s) \cup {x}
           /\ EachOnce(s) /\ x \notin Listed(s) => EachOnce(Append(s, x))
<1> DEFINE a == Append(s, x)
<1>1. /\ Len(s) \in Nat /\ Len(a) = Len(s) + 1
      /\ a[Len(s) + 1] = x
      /\ \A i \in 1..Len(s) : a[i] = s[i]
  OBVIOUS
<1>2. 1..Len(a) = 1..Len(s) \cup {Len(s) + 1}
  BY <1>1
<1> HIDE DEF a
<1>3. Listed(a) = Listed(s) \cup {x}
  BY <1>1, <1>2 DEF Listed
<1>4. ASSUME EachOnce(s), x \notin Listed(s) PROVE EachOnce(a)
  <2> SUFFICES ASSUME NEW i \in 1..Len(a), NEW j \in 1..Len(a), a[i] = a[j] PROVE i = j
    BY DEF EachOnce
  <2>1. CASE i \in 1..Len(s) /\ j \in 1..Len(s)
    BY <1>1, <1>4, <2>1 DEF EachOnce
  <2>2. \A k \in 1..Len(s) : a[k] # x
    BY <1>1, <1>4 DEF Listed
  <2>3. QED
    BY <1>1, <1>2, <2>1, <2>2
<1>5. QED
  BY <1>3, <1>4 DEF a

\* A list names at most as many room bookings as it is long.
LEMMA ListedCardinality ==
    ASSUME NEW S, NEW s \in Seq(S)
    PROVE  IsFiniteSet(Listed(s)) /\ Cardinality(Listed(s)) <= Len(s)
<1>1. Len(s) \in Nat
  OBVIOUS
<1>2. IsFiniteSet(1..Len(s)) /\ Cardinality(1..Len(s)) = Len(s)
  BY <1>1, FS_Interval
<1> DEFINE f == [i \in 1..Len(s) |-> s[i]]
<1>3. f \in Surjection(1..Len(s), Listed(s))
  BY DEF Listed, Surjection
<1>4. QED
  BY <1>2, <1>3, FS_Surjection

(***************************************************************************)
(* The inductive invariant about the hotels' lists.                        *)
(***************************************************************************)

\* A run whose own state and whose committed documents are as they were.
LEMMA SameRun ==
    ASSUME NEW u \in Request, HotelRunInv(u), UNCHANGED <<dbVars, body>>,
           held'[u] = held[u], missed'[u] = missed[u], pc'[u] = pc[u],
           done'[u] = done[u], todo'[u] = todo[u], cur'[u] = cur[u], view'[u] = view[u]
    PROVE  HotelRunInv(u)'
  BY DEF HotelRunInv, Taken, Named, Occurs, dbVars

\* A step of t before its commit touches neither the committed documents nor
\* another run.
LEMMA HotelLocalStep ==
    ASSUME HotelInv, NEW t \in Request, HotelRunInv(t)', UNCHANGED <<dbVars, body>>,
           \A u \in Request \ {t} :
               /\ held'[u] = held[u] /\ missed'[u] = missed[u] /\ pc'[u] = pc[u]
               /\ done'[u] = done[u] /\ todo'[u] = todo[u]
               /\ cur'[u] = cur[u] /\ view'[u] = view[u]
    PROVE  HotelInv'
<1>1. \A u \in Request \ {t} : HotelRunInv(u)'
  BY SameRun DEF HotelInv
<1>2. HotelListsCompleted'
  BY DEF HotelInv, HotelListsCompleted, dbVars
<1>3. QED
  BY <1>1, <1>2 DEF HotelInv

\* A run that is over has nothing to rely on.
LEMMA RunIsOver ==
    ASSUME NEW t \in Request,
           held'[t] = {}, done'[t] = {}, cur'[t] = None, view'[t] = Blank,
           pc'[t] \notin Active, t \in payments' <=> pc'[t] = "done"
    PROVE  HotelRunInv(t)'
  BY DEF HotelRunInv, Taken, Blank, Active

LEMMA HotelAbortStep ==
    ASSUME IInv, HotelInv, NEW T \in SUBSET Request, AbortTxns(T), ForgetRuns(T),
           UNCHANGED <<dbVars, body>>,
           \A t \in T : pc[t] # "done" /\ pc'[t] \notin Active \cup {"done"},
           \A t \in Request \ T : pc'[t] = pc[t]
    PROVE  HotelInv'
<1>1. Request \subseteq Txn
  BY ConstantsAssumption
<1>2. ASSUME NEW t \in T PROVE HotelRunInv(t)'
  <2>1. /\ held'[t] = {} /\ done'[t] = {} /\ cur'[t] = None /\ view'[t] = Blank
        /\ pc'[t] \notin Active /\ pc'[t] # "done"
    BY <1>1 DEF AbortTxns, ForgetRuns
  <2>2. t \notin payments'
    BY DEF HotelInv, HotelRunInv, dbVars
  <2>3. QED
    BY <2>1, <2>2, RunIsOver
<1>3. ASSUME NEW u \in Request \ T PROVE HotelRunInv(u)'
  BY <1>1, SameRun DEF AbortTxns, ForgetRuns, HotelInv
<1>4. HotelListsCompleted'
  BY DEF HotelInv, HotelListsCompleted, dbVars
<1>5. QED
  BY <1>2, <1>3, <1>4 DEF HotelInv

LEMMA HotelFailStep ==
    ASSUME IInv, HotelInv, NEW t \in Request, pc[t] # "done", Fail(t)
    PROVE  HotelInv'
  BY HotelAbortStep, {t} \in SUBSET Request DEF Fail, Active, IInv, TypeOK

LEMMA HotelRunAgainStep ==
    ASSUME IInv, HotelInv, NEW t \in Request, pc[t] # "done", RunAgain(t)
    PROVE  HotelInv'
  BY HotelAbortStep, {t} \in SUBSET Request DEF RunAgain, Active, IInv, TypeOK

LEMMA HotelCrashStep ==
    ASSUME IInv, HotelInv, Crash
    PROVE  HotelInv'
<1>1. InFlight \in SUBSET Request
  BY DEF InFlight
<1>2. QED
  BY <1>1, HotelAbortStep DEF Crash, InFlight, Answered, Active, IInv, TypeOK

LEMMA HotelGetPayerStep ==
    ASSUME IInv, HotelInv, NEW t \in Request, GetPayer(t)
    PROVE  HotelInv'
<1>1. CASE Fail(t)
  BY <1>1, HotelFailStep DEF GetPayer
<1>2. CASE ~ Fail(t)
  <2>1. /\ pc[t] \in {"new", "retry"}
        /\ TakeSnapshot(t)
        /\ view' = [view EXCEPT ![t] = [hotels |-> hotels, rooms |-> rooms]]
        /\ pc' = [pc EXCEPT ![t] = "load"]
        /\ UNCHANGED <<dbVars, body, todo, paidSeen, cur, done>>
    BY <1>2 DEF GetPayer, ReadWithSession
  <2>2. /\ t \in Txn \ open /\ held[t] = {} /\ missed[t] = {}
        /\ done[t] = {} /\ cur[t] = None
    BY <2>1, ConstantsAssumption DEF IInv, OneWriter, RunInv, Active
  <2>3. HotelRunInv(t)'
    <3>1. /\ held'[t] = {} /\ missed'[t] = {} /\ pc'[t] = "load"
          /\ view'[t].hotels = hotels /\ view'[t].rooms = rooms
      BY <2>1, <2>2 DEF TakeSnapshot, IInv, TypeOK
    <3>2. Taken(t)' = {}
      BY <2>1, <2>2, <3>1 DEF Taken
    <3>3. HotelRunInv(t) /\ HotelListsCompleted
      BY DEF HotelInv
    <3>4. QED
      BY <2>1, <2>2, <3>1, <3>2, <3>3 DEF HotelRunInv, Active, HotelListsCompleted, dbVars
  <2>4. QED
    BY <2>1, <2>3, HotelLocalStep DEF TakeSnapshot, IInv, TypeOK
<1>3. QED
  BY <1>1, <1>2

LEMMA HotelFindBookingsStep ==
    ASSUME IInv, HotelInv, NEW t \in Request, FindBookings(t)
    PROVE  HotelInv'
<1>1. CASE Fail(t)
  BY <1>1, HotelFailStep DEF FindBookings
<1>2. CASE ~ Fail(t)
  <2>1. /\ pc[t] = "load" /\ Named(t) # {}
        /\ todo' = [todo EXCEPT ![t] = Named(t)]
        /\ pc' = [pc EXCEPT ![t] = "loop"]
        /\ UNCHANGED <<txnVars, dbVars, body, cur, done, view>>
    BY <1>2 DEF FindBookings
  <2>2. done[t] = {} /\ cur[t] = None
    BY <2>1 DEF IInv, RunInv
  <2>3. Named(t)' = Named(t)
    BY <2>1 DEF Named, Occurs
  <2>4. pc'[t] = "loop"
    BY <2>1 DEF IInv, TypeOK
  <2>5. HotelRunInv(t)'
    <3>1. HotelRunInv(t)
      BY DEF HotelInv
    <3>2. QED
      BY <2>1, <2>2, <2>3, <2>4, <3>1 DEF HotelRunInv, Active, Taken, txnVars, dbVars
  <2>6. QED
    BY <2>1, <2>5, HotelLocalStep DEF txnVars, IInv, TypeOK
<1>3. QED
  BY <1>1, <1>2

\* save() of a completed booking: the pass at hand, or the room booking that has
\* taken its room.
LEMMA HotelSaveStep ==
    ASSUME IInv, HotelInv, TypeOK', NEW t \in Request, NEW b \in Named(t), SaveCompleted(t, b),
           \/ pc[t] = "loop" /\ b \in Pass
           \/ pc[t] = "room" /\ b = cur[t],
           pc' = [pc EXCEPT ![t] = "loop"], b \notin todo'[t],
           todo' \in {todo, [todo EXCEPT ![t] = @ \ {b}]},
           cur'[t] = None, \A u \in Request \ {t} : cur'[u] = cur[u]
    PROVE  HotelInv'
<1>1. /\ held'[t] = held[t] \cup {b} /\ done'[t] = done[t] \cup {b}
      /\ pc'[t] = "loop" /\ todo'[t] \subseteq todo[t]
      /\ UNCHANGED <<missed, dbVars, view, body>>
  BY ConstantsAssumption DEF SaveCompleted, HoldDoc, IInv, TypeOK, TxnTypeOK
<1>2. b \in Booking /\ b \notin Hotel /\ Named(t)' = Named(t)
  BY <1>1, ConstantsAssumption DEF Named, Occurs
<1>3. Taken(t)' = Taken(t)
  <2>1. CASE b \in Pass
    BY <1>1, <2>1, ConstantsAssumption DEF Taken, IInv, TypeOK
  <2>2. CASE pc[t] = "room" /\ b = cur[t]
    BY <1>1, <2>2 DEF Taken, IInv, TypeOK
  <2>3. QED
    BY <2>1, <2>2
<1>4. HotelRunInv(t)'
  <2>1. HotelRunInv(t)
    BY DEF HotelInv
  <2>2. QED
    BY <1>1, <1>2, <1>3, <2>1 DEF HotelRunInv, Active, dbVars
<1>5. QED
  BY <1>4, HotelLocalStep, ConstantsAssumption
  DEF SaveCompleted, HoldDoc, IInv, TypeOK, TxnTypeOK

LEMMA HotelCompleteUserPassStep ==
    ASSUME IInv, HotelInv, TypeOK', NEW t \in Request, NEW b \in Pass, CompleteUserPass(t, b)
    PROVE  HotelInv'
<1>1. CASE Fail(t)
  BY <1>1, HotelFailStep DEF CompleteUserPass
<1>2. CASE RunAgain(t)
  BY <1>2, HotelRunAgainStep DEF CompleteUserPass
<1>3. CASE ~ Fail(t) /\ ~ RunAgain(t)
  <2>1. /\ pc[t] = "loop" /\ b \in todo[t]
        /\ SaveCompleted(t, b)
        /\ todo' = [todo EXCEPT ![t] = @ \ {b}]
        /\ UNCHANGED <<pc, cur>>
    BY <1>3 DEF CompleteUserPass
  <2>2. b \in Named(t) /\ cur[t] = None
    BY <2>1 DEF IInv, RunInv, Active
  <2>3. pc' = [pc EXCEPT ![t] = "loop"] /\ b \notin todo'[t]
    BY <2>1 DEF IInv, TypeOK
  <2>4. QED
    BY <2>1, <2>2, <2>3, HotelSaveStep
<1>4. QED
  BY <1>1, <1>2, <1>3

LEMMA HotelCompleteRoomBookingStep ==
    ASSUME IInv, HotelInv, TypeOK', NEW t \in Request, CompleteRoomBooking(t)
    PROVE  HotelInv'
<1>1. CASE Fail(t)
  BY <1>1, HotelFailStep DEF CompleteRoomBooking
<1>2. CASE RunAgain(t)
  BY <1>2, HotelRunAgainStep DEF CompleteRoomBooking
<1>3. CASE ~ Fail(t) /\ ~ RunAgain(t)
  <2>1. /\ pc[t] = "room"
        /\ SaveCompleted(t, cur[t])
        /\ pc' = [pc EXCEPT ![t] = "loop"]
        /\ cur' = [cur EXCEPT ![t] = None]
        /\ UNCHANGED todo
    BY <1>3 DEF CompleteRoomBooking
  <2>2. cur[t] \in Named(t) /\ cur[t] # None
    BY <2>1 DEF IInv, RunInv, TypeOK
  <2>3. cur[t] \notin todo'[t]
    BY <2>1, <2>2 DEF HotelInv, HotelRunInv
  <2>4. cur'[t] = None /\ \A u \in Request \ {t} : cur'[u] = cur[u]
    BY <2>1 DEF IInv, TypeOK
  <2>5. QED
    BY <2>1, <2>2, <2>3, <2>4, HotelSaveStep
<1>4. QED
  BY <1>1, <1>2, <1>3

LEMMA HotelCountPastPaymentsStep ==
    ASSUME IInv, HotelInv, TypeOK', NEW t \in Request, NEW r \in Room, CountPastPayments(t, r)
    PROVE  HotelInv'
<1>1. /\ pc[t] = "loop" /\ r \in todo[t]
      /\ todo' = [todo EXCEPT ![t] = @ \ {r}]
      /\ UNCHANGED <<txnVars, dbVars, body, done, view>>
  BY DEF CountPastPayments
<1>2. Named(t)' = Named(t) /\ todo'[t] = todo[t] \ {r}
  BY <1>1 DEF Named, Occurs, IInv, TypeOK
<1>3. HotelRunInv(t) /\ cur[t] = None
  BY <1>1 DEF HotelInv, IInv, RunInv
<1>4. HotelRunInv(t)'
  <2>1. CASE LastShare(t, r)
    <3>1. pc'[t] = "hotel" /\ cur'[t] = r
      BY <2>1 DEF CountPastPayments, IInv, TypeOK
    \* A completed room booking has all its shares, and this payment adds one more.
    <3>2. status[r] # "completed"
      <4>1. r \in Named(t)
        BY <1>1 DEF IInv, RunInv, Active
      <4>2. Occurs(t, r) > 0 /\ Occurs(t, r) \in Nat /\ shares[r] \in Nat /\ Capacity[r] \in Nat
        BY <4>1, ConstantsAssumption DEF Named, Occurs, IInv, TypeOK
      <4>3. shares[r] < Capacity[r]
        BY <2>1, <4>2 DEF LastShare
      <4>4. QED
        BY <4>2, <4>3 DEF IInv, LedgerInv
    <3>3. Taken(t)' = Taken(t)
      BY <1>1, <3>1 DEF Taken
    <3>4. QED
      BY <1>1, <1>2, <1>3, <3>1, <3>2, <3>3 DEF HotelRunInv, Active, txnVars, dbVars
  <2>2. CASE ~ LastShare(t, r)
    <3>1. pc' = pc /\ cur' = cur
      BY <2>2 DEF CountPastPayments
    <3>2. QED
      BY <1>1, <1>2, <1>3, <3>1 DEF HotelRunInv, Taken, txnVars, dbVars
  <2>3. QED
    BY <2>1, <2>2
<1>5. \A u \in Request \ {t} : pc'[u] = pc[u] /\ cur'[u] = cur[u]
  BY DEF CountPastPayments, IInv, TypeOK
<1>6. QED
  BY <1>1, <1>4, <1>5, HotelLocalStep DEF txnVars, IInv, TypeOK

\* The room is taken in the view: the write of the hotel conflicts unless the view
\* is still the committed list, so the booking is not listed yet.
LEMMA HotelAddBookingStep ==
    ASSUME IInv, HotelInv, NEW t \in Request, AddBookingToHotel(t)
    PROVE  HotelInv'
<1> DEFINE r == cur[t]
           c == CollectionOf[r]
           h == HotelOf[c]
<1>1. CASE Fail(t)
  BY <1>1, HotelFailStep DEF AddBookingToHotel
<1>2. CASE RunAgain(t)
  BY <1>2, HotelRunAgainStep DEF AddBookingToHotel
<1>3. CASE ~ Fail(t) /\ ~ RunAgain(t)
  <2>1. /\ pc[t] = "hotel" /\ h \in view[t].hotels
        /\ HoldDoc(t, h)
        /\ view' = [view EXCEPT ![t].rooms[c] = Append(@, r)]
        /\ pc' = [pc EXCEPT ![t] = "room"]
        /\ UNCHANGED <<dbVars, body, retries, todo, paidSeen, cur, done>>
    BY <1>3 DEF AddBookingToHotel, PushBooking
  <2>2. r \in Room /\ r # None /\ c \in Collection /\ h \in Hotel /\ h \in Doc
    BY <2>1, ConstantsAssumption DEF IInv, TypeOK
  <2>3. /\ held'[t] = held[t] \cup {h} /\ pc'[t] = "room" /\ missed' = missed
        /\ h \notin missed[t]
    BY <2>1, <2>2, ConstantsAssumption DEF HoldDoc, Conflicts, IInv, TypeOK, TxnTypeOK
  <2>4. HotelRunInv(t) /\ HotelListsCompleted
    BY DEF HotelInv
  <2>5. Taken(t) = done[t] \cap Room /\ Taken(t)' = Taken(t) \cup {r}
    BY <2>1, <2>3 DEF Taken
  <2>6. /\ view'[t].hotels = view[t].hotels
        /\ \A d \in Collection :
              view'[t].rooms[d] = IF d = c THEN Append(view[t].rooms[c], r) ELSE view[t].rooms[d]
    BY <2>1, <2>2 DEF IInv, TypeOK, HotelView
  <2>7. r \notin Listed(view[t].rooms[c])
    <3>1. status[r] # "completed"
      BY <2>2, <2>3, <2>4 DEF HotelRunInv, HotelFor
    <3>2. r \notin Listed(rooms[c])
      BY <2>1, <2>2, <2>3, <2>4, <3>1 DEF HotelRunInv, HotelListsCompleted
    <3>3. r \notin Taken(t)
      BY <2>2, <2>4, <2>5 DEF HotelRunInv
    <3>4. QED
      BY <2>1, <2>2, <2>3, <2>4, <3>2, <3>3 DEF HotelRunInv
  <2>8. ASSUME NEW d \in Collection, HotelOf[d] \in view'[t].hotels \ missed'[t]
        PROVE  /\ EachOnce(view'[t].rooms[d])
               /\ Listed(view'[t].rooms[d]) =
                      Listed(rooms'[d]) \cup {q \in Taken(t)' : CollectionOf[q] = d}
    <3>1. /\ EachOnce(view[t].rooms[d])
          /\ Listed(view[t].rooms[d]) =
                 Listed(rooms[d]) \cup {q \in Taken(t) : CollectionOf[q] = d}
      BY <2>3, <2>4, <2>6, <2>8 DEF HotelRunInv
    <3>2. view[t].rooms[d] \in Seq(Room)
      BY DEF IInv, TypeOK, HotelView
    <3>3. rooms' = rooms
      BY <2>1 DEF dbVars
    <3>4. CASE d = c
      <4>1. /\ EachOnce(Append(view[t].rooms[d], r))
            /\ Listed(Append(view[t].rooms[d], r)) = Listed(view[t].rooms[d]) \cup {r}
        BY <2>2, <2>7, <3>1, <3>2, <3>4, ListedAppend
      <4>2. {q \in Taken(t)' : CollectionOf[q] = d} = {q \in Taken(t) : CollectionOf[q] = d} \cup {r}
        BY <2>5, <3>4
      <4>3. QED
        BY <2>6, <3>1, <3>3, <3>4, <4>1, <4>2
    <3>5. CASE d # c
      <4>1. {q \in Taken(t)' : CollectionOf[q] = d} = {q \in Taken(t) : CollectionOf[q] = d}
        BY <2>5, <3>5
      <4>2. QED
        BY <2>6, <3>1, <3>3, <3>5, <4>1
    <3>6. QED
      BY <3>4, <3>5
  <2>9. HotelRunInv(t)'
    <3>1. Named(t)' = Named(t)
      BY <2>1 DEF Named, Occurs
    <3>2. \A q \in Taken(t)' : HotelFor(q) \in held'[t]
      BY <2>3, <2>4, <2>5 DEF HotelRunInv, HotelFor
    <3>3. /\ held'[t] \cap Hotel \subseteq view'[t].hotels
          /\ view'[t].hotels \ missed'[t] \subseteq hotels'
      BY <2>1, <2>3, <2>4, <2>6 DEF HotelRunInv, dbVars
    <3>4. /\ Named(t)' # {} \/ pc'[t] \notin Active \ {"load"}
          /\ t \in payments' <=> pc'[t] = "done"
          /\ view'[t].hotels # {} => pc'[t] \in Active
          /\ done'[t] \cap todo'[t] = {}
          /\ cur'[t] # None =>
                /\ cur'[t] \notin todo'[t] \cup done'[t]
                /\ HotelFor(cur'[t]) \notin missed'[t] => status'[cur'[t]] # "completed"
      BY <2>1, <2>3, <2>4, <3>1 DEF HotelRunInv, HotelFor, dbVars, Active
    <3>5. QED
      BY <2>8, <3>2, <3>3, <3>4 DEF HotelRunInv, HotelFor
  <2>10. QED
    BY <2>1, <2>2, <2>9, HotelLocalStep, ConstantsAssumption
    DEF HoldDoc, IInv, TypeOK, TxnTypeOK
<1>4. QED
  BY <1>1, <1>2, <1>3

\* What the commit of t relies on: the hotels it writes are as it saw them, up to the
\* rooms it has taken itself, and nothing it completes was completed before.
LEMMA CommitView ==
    ASSUME IInv, HotelInv, NEW t \in Request, pc[t] = "loop", NEW c \in Collection
    PROVE  /\ HotelOf[c] \in held[t] =>
                 /\ EachOnce(view[t].rooms[c])
                 /\ Listed(view[t].rooms[c]) =
                        Listed(rooms[c]) \cup {r \in done[t] \cap Room : CollectionOf[r] = c}
           /\ HotelOf[c] \notin held[t] => {r \in done[t] \cap Room : CollectionOf[r] = c} = {}
<1>1. HotelRunInv(t) /\ held[t] \cap missed[t] = {}
  BY ConstantsAssumption DEF HotelInv, IInv, OneWriter
<1>2. Taken(t) = done[t] \cap Room
  BY DEF Taken
<1>3. HotelOf[c] \in Hotel
  BY ConstantsAssumption
<1>4. QED
  BY <1>1, <1>2, <1>3 DEF HotelRunInv, HotelFor

LEMMA FirstCompletion ==
    ASSUME IInv, NEW t \in Request, pc[t] = "loop", NEW b \in done[t]
    PROVE  status[b] # "completed"
<1>1. RunInv(t) /\ held[t] \cap missed[t] = {}
  BY ConstantsAssumption DEF IInv, OneWriter
<1>2. QED
  BY <1>1 DEF RunInv, Active

LEMMA HotelCreatePaymentStep ==
    ASSUME IInv, HotelInv, NEW t \in Request, CreatePayment(t)
    PROVE  HotelInv'
<1>1. /\ pc[t] = "loop"
      /\ CommitTxn(t) /\ ForgetRuns({t})
      /\ pc' = [pc EXCEPT ![t] = "done"]
      /\ payments' = payments \cup {t}
      /\ rooms' = [c \in Collection |->
                     IF HotelOf[c] \in held[t] THEN view[t].rooms[c] ELSE rooms[c]]
      /\ UNCHANGED <<hotels, body>>
  BY DEF CreatePayment
<1>2. \A b \in Booking : status'[b] = IF b \in done[t] THEN "completed" ELSE status[b]
  BY DEF CreatePayment, CompletedStatus
<1>3. t \in Txn /\ Request \subseteq Txn
  BY ConstantsAssumption
<1>4. ASSUME NEW u \in Request PROVE HotelRunInv(u)'
  <2>1. HotelRunInv(u) /\ RunInv(u)
    BY DEF HotelInv, IInv
  <2>2. CASE u = t
    <3>1. /\ held'[t] = {} /\ done'[t] = {} /\ cur'[t] = None /\ view'[t] = Blank
          /\ pc'[t] = "done" /\ t \in payments'
      BY <1>1, <1>3 DEF CommitTxn, ForgetRuns, IInv, TypeOK, TxnTypeOK
    <3>2. QED
      BY <2>2, <3>1, RunIsOver DEF Active
  <2>3. CASE u # t
    <3>1. /\ held'[u] = held[u] /\ pc'[u] = pc[u]
          /\ u \in open => missed'[u] = missed[u] \cup held[t]
          /\ done'[u] = done[u] /\ todo'[u] = todo[u]
          /\ cur'[u] = cur[u] /\ view'[u] = view[u]
          /\ u \in payments' <=> u \in payments
      BY <1>1, <1>3, <2>3 DEF CommitTxn, ForgetRuns, IInv, TypeOK, TxnTypeOK
    <3>2. Named(u)' = Named(u) /\ Taken(u)' = Taken(u)
      BY <1>1, <3>1 DEF Named, Occurs, Taken
    <3>3. CASE u \in open
      <4>1. \A c \in Collection : HotelOf[c] \notin missed'[u] => rooms'[c] = rooms[c]
        BY <1>1, <3>1, <3>3
      <4>2. cur[u] # None /\ HotelFor(cur[u]) \notin missed'[u] => status'[cur[u]] # "completed"
        <5> SUFFICES ASSUME cur[u] # None, HotelFor(cur[u]) \notin missed'[u]
                     PROVE  status'[cur[u]] # "completed"
          OBVIOUS
        <5>1. cur[u] \in Room /\ cur[u] \in Booking /\ CollectionOf[cur[u]] \in Collection
          BY ConstantsAssumption DEF IInv, TypeOK, Booking
        <5>2. status[cur[u]] # "completed"
          BY <2>1, <3>1, <3>3 DEF HotelRunInv
        <5>3. cur[u] \notin done[t]
          BY <1>1, <3>1, <3>3, <5>1, CommitView DEF HotelFor
        <5>4. QED
          BY <1>2, <5>1, <5>2, <5>3
      <4>3. QED
        BY <1>1, <2>1, <3>1, <3>2, <3>3, <4>1, <4>2 DEF HotelRunInv
    <3>4. CASE u \notin open
      <4>1. /\ pc[u] \notin Active /\ held[u] = {} /\ missed[u] = {} /\ missed'[u] = {}
            /\ done[u] = {} /\ cur[u] = None
        BY <1>1, <1>3, <2>1, <3>4, <2>3 DEF RunInv, CommitTxn, IInv, OneWriter, Active
      <4>2. QED
        BY <1>1, <2>1, <3>1, <3>2, <4>1 DEF HotelRunInv
    <3>5. QED
      BY <3>3, <3>4
  <2>4. QED
    BY <2>2, <2>3
<1>5. HotelListsCompleted'
  <2> SUFFICES ASSUME NEW c \in Collection, HotelOf[c] \in hotels
               PROVE  /\ EachOnce(rooms'[c])
                      /\ Listed(rooms'[c]) =
                             {r \in Room : CollectionOf[r] = c /\ status'[r] = "completed"}
    BY <1>1 DEF HotelListsCompleted
  <2>1. /\ EachOnce(rooms[c])
        /\ Listed(rooms[c]) = {r \in Room : CollectionOf[r] = c /\ status[r] = "completed"}
    BY DEF HotelInv, HotelListsCompleted
  <2>2. \A r \in Room : status'[r] = "completed" <=> r \in done[t] \/ status[r] = "completed"
    BY <1>2 DEF Booking
  <2>3. QED
    BY <1>1, <2>1, <2>2, CommitView
<1>6. QED
  BY <1>4, <1>5 DEF HotelInv

\* A deleted hotel is one that every open transaction has missed a change of.
LEMMA HotelRemoveHotelStep ==
    ASSUME IInv, HotelInv, NEW h \in Hotel, RemoveHotel(h)
    PROVE  HotelInv'
<1>1. /\ \A u \in Txn : h \notin held[u]
      /\ missed' = [u \in Txn |-> IF u \in open THEN missed[u] \cup {h} ELSE {}]
      /\ hotels' = hotels \ {h}
      /\ UNCHANGED <<open, held, status, rooms, payments, shares, runVars>>
  BY DEF RemoveHotel, WriteNow
<1>2. ASSUME NEW u \in Request PROVE HotelRunInv(u)'
  <2>1. HotelRunInv(u) /\ RunInv(u) /\ u \in Txn
    BY ConstantsAssumption DEF HotelInv, IInv
  <2>2. Named(u)' = Named(u) /\ Taken(u)' = Taken(u)
    BY <1>1 DEF Named, Occurs, Taken, runVars
  <2>3. CASE u \in open
    <3>1. missed'[u] = missed[u] \cup {h}
      BY <1>1, <2>1, <2>3
    <3>2. QED
      BY <1>1, <2>1, <2>2, <3>1 DEF HotelRunInv, runVars
  <2>4. CASE u \notin open
    <3>1. pc[u] \notin Active /\ view[u].hotels = {} /\ cur[u] = None
      BY <2>1, <2>4 DEF HotelRunInv, RunInv, Active
    <3>2. QED
      BY <1>1, <2>1, <2>2, <3>1 DEF HotelRunInv, runVars
  <2>5. QED
    BY <2>3, <2>4
<1>3. HotelListsCompleted'
  BY <1>1 DEF HotelInv, HotelListsCompleted
<1>4. QED
  BY <1>2, <1>3 DEF HotelInv

LEMMA InitHotelInv == Init => HotelInv
<1> SUFFICES ASSUME Init PROVE HotelInv
  OBVIOUS
<1>1. ASSUME NEW t \in Request PROVE HotelRunInv(t)
  <2>1. t \in Txn
    BY ConstantsAssumption
  <2>2. QED
    BY <2>1 DEF Init, TxnInit, HotelRunInv, Taken, Blank, Active
<1>2. HotelListsCompleted
  <2>1. \A r \in Room : status[r] # "completed"
    BY DEF Init, Booking
  <2>2. \A c \in Collection : rooms[c] = <<>>
    BY DEF Init
  <2>3. QED
    BY <2>1, <2>2, ListedEmpty DEF HotelListsCompleted
<1>3. QED
  BY <1>1, <1>2 DEF HotelInv

LEMMA HotelInvStep == IInv /\ HotelInv /\ [Next]_vars => HotelInv'
<1> SUFFICES ASSUME IInv, HotelInv, [Next]_vars PROVE HotelInv'
  OBVIOUS
<1>1. TypeOK'
  BY TypeStep DEF IInv
<1>2. ASSUME NEW t \in Request, Pay(t) PROVE HotelInv'
  BY <1>1, <1>2, HotelGetPayerStep, HotelFindBookingsStep, HotelCompleteUserPassStep,
     HotelCountPastPaymentsStep, HotelAddBookingStep, HotelCompleteRoomBookingStep,
     HotelCreatePaymentStep DEF Pay
<1>3. ASSUME NEW h \in Hotel, RemoveHotel(h) PROVE HotelInv'
  BY <1>3, HotelRemoveHotelStep
<1>4. CASE Crash
  BY <1>4, HotelCrashStep
<1>5. CASE UNCHANGED vars
  <2>1. \A t \in Request : HotelRunInv(t)'
    BY <1>5, SameRun DEF HotelInv, vars, txnVars, dbVars, runVars
  <2>2. HotelListsCompleted'
    BY <1>5 DEF HotelInv, HotelListsCompleted, vars, dbVars
  <2>3. QED
    BY <2>1, <2>2 DEF HotelInv
<1>6. QED
  BY <1>2, <1>3, <1>4, <1>5 DEF Next, AllAnswered

\* The inductive invariant about the hotels: what a run of pay() may rely on about the
\* lists it has read and changed, and what the committed lists satisfy.
THEOREM HotelInvariant == Spec => []HotelInv
<1>1. Init => HotelInv
  BY InitHotelInv
<1>2. IInv /\ HotelInv /\ [Next]_vars => HotelInv'
  BY HotelInvStep
<1>3. QED
  BY <1>1, <1>2, InductiveInvariant, PTL DEF Spec

\* A hotel that exists lists exactly its completed room bookings, each once, for any
\* number of payments that share a hotel, retried, crashed, or deleting it under them
\* (room-booking.service.ts:307-314, accommodation.service.ts addBooking).
THEOREM ListsCompleted == Spec => []HotelListsCompleted
<1>1. HotelInv => HotelListsCompleted
  BY DEF HotelInv
<1>2. QED
  BY <1>1, HotelInvariant, PTL

(***************************************************************************)
(* Refinement: a commit records a payment, every other step is a stutter.  *)
(***************************************************************************)

LEMMA LedgerStutter ==
    ASSUME UNCHANGED <<dbVars, body>>
    PROVE  UNCHANGED Ledger!vars
  BY DEF Ledger!vars, dbVars

\* The two modules count with the same operator.
LEMMA LedgerCardinality == \A S : Ledger!Cardinality(S) = Cardinality(S)
  BY DEF Cardinality, Ledger!Cardinality

LEMMA LedgerRecord ==
    ASSUME IInv, IInv', HotelInv, NEW t \in Request, CreatePayment(t)
    PROVE  Ledger!Record(t)
<1> DEFINE full == done[t] \cap Room
           completed == {b \in Booking : status[b] = "completed"}
<1>1. /\ pc[t] = "loop" /\ todo[t] = {}
      /\ payments' = payments \cup {t}
      /\ shares' = [r \in Room |-> shares[r] + body[t].occurs[r]]
      /\ rooms' = [c \in Collection |->
                     IF HotelOf[c] \in held[t] THEN view[t].rooms[c] ELSE rooms[c]]
      /\ UNCHANGED body
  BY DEF CreatePayment, Occurs
<1>2. \A b \in Booking : status'[b] = IF b \in done[t] THEN "completed" ELSE status[b]
  BY DEF CreatePayment, CompletedStatus
<1>3. RunInv(t) /\ HotelRunInv(t)
  BY DEF IInv, HotelInv
<1>4. t \notin payments
  BY <1>1, <1>3 DEF HotelRunInv
<1>5. \A b \in Booking : b \in Named(t) <=> Ledger!Pays(t, b)
  BY DEF Named, Occurs, Ledger!Pays
<1>6. \E b \in Pass \cup Room : Ledger!Pays(t, b)
  <2>1. Named(t) # {}
    BY <1>1, <1>3 DEF HotelRunInv, Active
  <2>2. QED
    BY <1>5, <2>1 DEF Named, Booking
<1>7. \A p \in Pass : Ledger!Pays(t, p) => p \in done[t] /\ p \notin completed
  BY <1>1, <1>5, FirstPayment, FirstCompletion DEF Booking
<1>8. full \in SUBSET {r \in Room \ completed : Ledger!Pays(t, r) /\ shares'[r] >= Capacity[r]}
  <2> SUFFICES ASSUME NEW r \in Room, r \in done[t]
               PROVE  r \notin completed /\ Ledger!Pays(t, r) /\ shares'[r] >= Capacity[r]
    OBVIOUS
  <2>1. status[r] # "completed"
    BY <1>1, FirstCompletion
  <2>2. r \in Named(t) /\ shares[r] + Occurs(t, r) >= Capacity[r]
    BY <1>3 DEF RunInv
  <2>3. QED
    BY <1>1, <1>5, <2>1, <2>2 DEF Booking, Occurs
<1>9. {b \in Booking : status'[b] = "completed"} =
          completed \cup full \cup {p \in Pass : Ledger!Pays(t, p)}
  <2>1. done[t] \subseteq Booking /\ \A p \in done[t] : Ledger!Pays(t, p)
    BY <1>3, <1>5 DEF RunInv, Named
  <2>2. QED
    BY <1>2, <1>7, <2>1 DEF Booking
<1>10. [c \in Collection |-> Listed(rooms'[c])] =
           [c \in Collection |-> [d \in Collection |-> Listed(rooms[d])][c]
                                     \cup {r \in full : CollectionOf[r] = c}]
  <2>1. ASSUME NEW c \in Collection
        PROVE  Listed(rooms'[c]) = Listed(rooms[c]) \cup {r \in full : CollectionOf[r] = c}
    BY <1>1, CommitView
  <2>2. QED
    BY <2>1
<1>11. \A c \in Collection : Cardinality([d \in Collection |-> Listed(rooms'[d])][c]) <= Count[c]
  <2> SUFFICES ASSUME NEW c \in Collection PROVE Cardinality(Listed(rooms'[c])) <= Count[c]
    OBVIOUS
  <2>1. rooms'[c] \in Seq(Room) /\ Len(rooms'[c]) <= Count[c] /\ Count[c] \in Nat
    BY ConstantsAssumption DEF IInv, TypeOK, LedgerInv, HotelNotOverbooked
  <2>2. IsFiniteSet(Listed(rooms'[c])) /\ Cardinality(Listed(rooms'[c])) <= Len(rooms'[c])
    BY <2>1, ListedCardinality
  <2>3. Len(rooms'[c]) \in Nat /\ Cardinality(Listed(rooms'[c])) \in Nat
    BY <2>1, <2>2, FS_CardinalityType
  <2>4. QED
    BY <2>1, <2>2, <2>3
<1> HIDE DEF full, completed
<1>12. \E f \in SUBSET {r \in Room \ completed : Ledger!Pays(t, r) /\ shares'[r] >= Capacity[r]} :
          /\ {b \in Booking : status'[b] = "completed"} =
                 completed \cup f \cup {p \in Pass : Ledger!Pays(t, p)}
          /\ [c \in Collection |-> Listed(rooms'[c])] =
                 [c \in Collection |-> [d \in Collection |-> Listed(rooms[d])][c]
                                           \cup {r \in f : CollectionOf[r] = c}]
  BY <1>8, <1>9, <1>10
<1>13. QED
  BY <1>1, <1>4, <1>6, <1>7, <1>11, <1>12, LedgerCardinality DEF Ledger!Record, completed

\* Every step of the service is one step of the ledger or none.
LEMMA LedgerStep == IInv /\ IInv' /\ HotelInv /\ [Next]_vars => [Ledger!Next]_(Ledger!vars)
<1> SUFFICES ASSUME IInv, IInv', HotelInv, [Next]_vars PROVE [Ledger!Next]_(Ledger!vars)
  OBVIOUS
<1>1. ASSUME NEW t \in Request, CreatePayment(t) PROVE Ledger!Next
  BY <1>1, LedgerRecord DEF Ledger!Next
<1>2. ASSUME NEW t \in Request, Pay(t), ~ CreatePayment(t) PROVE UNCHANGED <<dbVars, body>>
  <2>1. ASSUME Fail(t) \/ RunAgain(t) PROVE UNCHANGED <<dbVars, body>>
    BY <2>1 DEF Fail, RunAgain
  <2>2. ASSUME NEW b, SaveCompleted(t, b) PROVE UNCHANGED <<dbVars, body>>
    BY <2>2 DEF SaveCompleted
  <2>3. QED
    BY <1>2, <2>1, <2>2 DEF Pay, GetPayer, FindBookings, CompleteUserPass, CountPastPayments,
                            AddBookingToHotel, CompleteRoomBooking
<1>3. ASSUME NEW h \in Hotel, RemoveHotel(h) PROVE UNCHANGED Ledger!vars
  BY <1>3 DEF RemoveHotel, runVars, Ledger!vars
<1>4. CASE Crash
  BY <1>4, LedgerStutter DEF Crash
<1>5. CASE UNCHANGED vars
  BY <1>5, LedgerStutter DEF vars, runVars
<1>6. QED
  BY <1>1, <1>2, <1>3, <1>4, <1>5, LedgerStutter DEF Next, AllAnswered

\* Recording a payment is one step for whoever looks at the committed documents: the
\* payment, its completions and the rooms they take appear together or not at all,
\* whatever is interleaved, retried or interrupted (payment.service.ts:58-175).
THEOREM ImplementsLedger == Spec => LedgerSpec
<1>1. Init => Ledger!Init
  <2> SUFFICES ASSUME Init PROVE Ledger!Init
    OBVIOUS
  <2>1. {b \in Booking : status[b] = "completed"} = {}
    BY DEF Init
  <2>2. \A c \in Collection : Listed(rooms[c]) = {}
    BY ListedEmpty DEF Init
  <2>3. QED
    BY <2>1, <2>2 DEF Init, Ledger!Init
<1>2. IInv /\ IInv' /\ HotelInv /\ [Next]_vars => [Ledger!Next]_(Ledger!vars)
  BY LedgerStep
<1>3. QED
  BY <1>1, <1>2, InductiveInvariant, HotelInvariant, PTL DEF Spec, LedgerSpec, Ledger!Spec
=============================================================================
