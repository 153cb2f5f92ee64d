--------------------------- MODULE BookingDeskProofs ---------------------------
(***************************************************************************)
(* Proofs about BookingDesk for every set of requests, users and bookings. *)
(*                                                                         *)
(* The types rest on the same invariant as the safety properties: that the *)
(* value a request saves is a booking at all is because the fields of the  *)
(* builder are set together.                                               *)
(***************************************************************************)
EXTENDS BookingDesk, MongoTxnProofs

(***************************************************************************)
(* The model's operators.                                                  *)
(***************************************************************************)

LEMMA DeskFacts ==
    /\ Request \subseteq Txn /\ Request \subseteq Booking
    /\ User \subseteq Doc /\ Booking \subseteq Doc
    /\ None \notin User /\ None \notin Booking /\ None \notin Request
    /\ User \cap Booking = {} /\ Prior \cap Request = {}
  BY DeskAssumption DEF Booking

LEMMA AskFacts ==
    ASSUME TypeOK, NEW t \in Request
    PROVE  /\ ask[t].op \in {"pass", "room", "cancel", "restore", "cron"}
           /\ ask[t].op \in {"pass", "room", "cancel"} <=> Actor(t) \in User
           /\ ask[t].op \in {"restore", "cron"} <=> Actor(t) = None
           /\ ask[t].users \subseteq User
<1>1. ask[t] \in [op : {"pass", "room", "cancel"}, user : User, users : SUBSET User]
                 \cup [op : {"restore", "cron"}, user : {None}, users : SUBSET User]
  BY DeskAssumption DEF TypeOK
<1>2. CASE ask[t] \in [op : {"pass", "room", "cancel"}, user : User, users : SUBSET User]
  BY <1>2, DeskFacts DEF Actor
<1>3. CASE ask[t] \in [op : {"restore", "cron"}, user : {None}, users : SUBSET User]
  BY <1>3, DeskFacts DEF Actor
<1>4. QED
  BY <1>1, <1>2, <1>3

\* The booking made by a request is that of the user who asked for it.
LEMMA MadeFacts ==
    ASSUME TypeOK, NEW t \in Request
    PROVE  /\ UserOf(t) = Actor(t)
           /\ IsPass(t) <=> Asks(t, "pass")
           /\ t \in Booking
  BY DeskFacts DEF UserOf, IsPass, Kind

\* The builder, or a reading of it, that is set refers to a request for a room.
LEMMA BuilderFacts ==
    ASSUME TypeOK, NEW o, OfOneRequest(o), o # NoBuilder
    PROVE  /\ o.user \in Request /\ o.booking = o.user /\ o.session = o.user
           /\ Asks(o.user, "room") /\ Actor(o.user) \in User /\ Actor(o.user) \in Doc
<1>1. PICK t \in Request : Asks(t, "room") /\ o = [user |-> t, booking |-> t, session |-> t]
  BY DEF OfOneRequest
<1>2. Actor(t) \in User
  BY <1>1, AskFacts DEF Asks
<1>3. QED
  BY <1>1, <1>2, DeskFacts

(***************************************************************************)
(* Types.                                                                  *)
(***************************************************************************)

LEMMA EmptyTypes ==
    /\ Nothing \in Memory
    /\ NoUse \in Use
    /\ NoBuilder \in Builder
    /\ Everyone(None) \in [User -> OrNone(Booking)]
  BY DEF Nothing, Memory, NoUse, Use, NoBuilder, Builder, Everyone, OrNone

LEMMA OverType ==
    ASSUME TypeOK, NEW T
    PROVE  /\ Over(T) \in [Request -> Use]
           /\ \A u \in Request :
                 /\ Over(T)[u].of = using[u].of
                 /\ Over(T)[u].mode = "within" =>
                       using[u].mode = "within" /\ using[u].of.session \notin T
<1> SUFFICES ASSUME NEW u \in Request
             PROVE  /\ Over(T)[u] \in Use
                    /\ Over(T)[u].of = using[u].of
                    /\ Over(T)[u].mode = "within" =>
                          using[u].mode = "within" /\ using[u].of.session \notin T
  BY DEF Over
<1>1. using[u] \in Use
  BY DEF TypeOK
<1>2. Over(T)[u] = IF using[u].mode = "within" /\ using[u].of.session \in T
                   THEN [using[u] EXCEPT !.mode = "over"] ELSE using[u]
  BY DEF Over
<1>3. QED
  BY <1>1, <1>2 DEF Use

LEMMA EndAttemptType ==
    ASSUME TypeOK, NEW t \in Request, EndAttempt(t)
    PROVE  /\ roomSaved' \in [Request -> OrNone(Request)]
           /\ roomed' \in [Request -> SUBSET User]
           /\ plan' \in [Request -> [User -> OrNone(Booking)]]
           /\ todo' \in [Request -> SUBSET User]
  BY EmptyTypes DEF EndAttempt, TypeOK, OrNone

LEMMA AbortType ==
    ASSUME TypeOK, NEW T, NEW t \in Request, Abort(T, t),
           pc' \in [Request -> PC], retries' \in [Request -> 0..MaxRetries],
           UNCHANGED <<dbVars, memVars, ask>>
    PROVE  TypeOK'
<1>1. TxnTypeOK'
  BY DEF Abort, AbortTxns, TypeOK, TxnTypeOK
<1>2. using' \in [Request -> Use]
  BY OverType, EmptyTypes DEF Abort
<1>3. QED
  BY <1>1, <1>2, EndAttemptType DEF Abort, TypeOK, dbVars, memVars

LEMMA FailType ==
    ASSUME TypeOK, NEW t \in Request, Fail(t)
    PROVE  TypeOK'
<1>1. pc' \in [Request -> PC] /\ retries' \in [Request -> 0..MaxRetries]
  BY DEF Fail, TypeOK, PC, Answered
<1>2. QED
  BY <1>1, AbortType DEF Fail

LEMMA RunAgainType ==
    ASSUME TypeOK, NEW s, NEW t \in Request, RunAgainAfter(s, t)
    PROVE  TypeOK'
<1>1. pc' \in [Request -> PC]
  BY DEF RunAgainAfter, TypeOK, PC, Answered
<1>2. retries' \in [Request -> 0..MaxRetries]
  <2>1. retries[t] \in 0..MaxRetries /\ MaxRetries \in Nat
    BY DeskAssumption DEF TypeOK
  <2>2. AnotherTry(t) => retries[t] + 1 \in 0..MaxRetries
    BY <2>1 DEF AnotherTry
  <2>3. QED
    BY <2>2 DEF RunAgainAfter, TypeOK
<1>3. QED
  BY <1>1, <1>2, AbortType DEF RunAgainAfter

LEMMA TxnTypes ==
    ASSUME TypeOK, NEW t \in Request, NEW d \in Doc,
           \/ TakeSnapshot(t) \/ HoldDoc(t, d) \/ HoldFirst(t, d) \/ CommitTxn(t) \/ WriteNow(d)
    PROVE  TxnTypeOK'
<1>1. t \in Txn
  BY DeskFacts
<1>2. CASE TakeSnapshot(t)
  BY <1>1, <1>2 DEF TypeOK, TxnTypeOK, TakeSnapshot
<1>3. CASE HoldDoc(t, d) \/ HoldFirst(t, d)
  <2>1. TxnTypeOK
    BY DEF TypeOK
  <2>2. held' = [held EXCEPT ![t] = @ \cup {d}] /\ UNCHANGED missed
    BY <1>3 DEF HoldDoc, HoldFirst
  <2>3. open' \subseteq Txn
    BY <1>1, <1>3, <2>1 DEF HoldDoc, HoldFirst, TxnTypeOK
  <2>4. QED
    BY <2>1, <2>2, <2>3 DEF TxnTypeOK
<1>4. CASE CommitTxn(t)
  BY <1>1, <1>4 DEF TypeOK, TxnTypeOK, CommitTxn
<1>5. CASE WriteNow(d)
  BY <1>5 DEF TypeOK, TxnTypeOK, WriteNow
<1>6. QED
  BY <1>2, <1>3, <1>4, <1>5

LEMMA SaveNextType ==
    ASSUME TypeOK, NEW t \in Request, NEW T \in SUBSET User,
           NEW p \in [User -> OrNone(Booking)], SaveNext(t, T, p),
           TxnTypeOK', mem' \in [Request -> Memory]
    PROVE  TypeOK'
<1>1. pc' \in [Request -> PC]
  BY DEF SaveNext, TypeOK, PC
<1>2. plan' \in [Request -> [User -> OrNone(Booking)]] /\ todo' \in [Request -> SUBSET User]
  BY DEF SaveNext, TypeOK
<1>3. QED
  BY <1>1, <1>2 DEF SaveNext, TypeOK, dbVars

LEMMA LoadUserType ==
    ASSUME TypeOK, NEW t \in Request, LoadUser(t), Actor(t) \in User
    PROVE  TypeOK'
<1> DEFINE b == link[Actor(t)]
           loaded == [Nothing EXCEPT !.booking = b]
<1>1. b \in OrNone(Booking)
  BY DEF TypeOK
<1>2. loaded \in Memory
  BY <1>1, EmptyTypes DEF Memory
<1>3. mem' = [mem EXCEPT ![t] = loaded]
  BY DEF LoadUser
<1>4. mem' \in [Request -> Memory]
  <2> HIDE DEF loaded
  <2>1. QED
    BY <1>2, <1>3 DEF TypeOK
<1>5. pc' \in [Request -> PC] /\ TxnTypeOK'
  BY DEF LoadUser, TypeOK, TxnTypeOK, txnVars, PC
<1>6. QED
  BY <1>4, <1>5 DEF LoadUser, TypeOK, dbVars, attemptVars

LEMMA MemoryTypes ==
    ASSUME TypeOK, NEW t \in Request
    PROVE  /\ mem[t] \in Memory
           /\ \A b \in OrNone(Booking) : [mem EXCEPT ![t].booking = b] \in [Request -> Memory]
           /\ \A v \in BOOLEAN : [mem EXCEPT ![t].unsaved = v] \in [Request -> Memory]
<1>1. mem \in [Request -> Memory] /\ mem[t] \in Memory
  BY DEF TypeOK
<1>2. \A b \in OrNone(Booking) : [mem[t] EXCEPT !.booking = b] \in Memory
  BY <1>1 DEF Memory
<1>3. \A v \in BOOLEAN : [mem[t] EXCEPT !.unsaved = v] \in Memory
  BY <1>1 DEF Memory
<1>4. QED
  BY <1>1, <1>2, <1>3

LEMMA PopulateBookingType ==
    ASSUME TypeOK, NEW t \in Request, PopulateBooking(t)
    PROVE  TypeOK'
<1> DEFINE found == Exists(mem[t].booking)
           paid == found /\ status[mem[t].booking] = "completed"
<1>1. found \in BOOLEAN /\ paid \in BOOLEAN
  BY DEF Exists
<1>2. mem' = [mem EXCEPT ![t] = [mem[t] EXCEPT !.found = found, !.paid = paid]]
  BY DEF PopulateBooking, TypeOK
<1>3. [mem[t] EXCEPT !.found = found, !.paid = paid] \in Memory
  <2> HIDE DEF found, paid
  <2>1. mem[t] \in Memory
    BY DEF TypeOK
  <2>2. QED
    BY <1>1, <2>1 DEF Memory
<1>4. mem' \in [Request -> Memory]
  BY <1>2, <1>3 DEF TypeOK
<1>5. pc' \in [Request -> PC] /\ TxnTypeOK'
  BY DEF PopulateBooking, TypeOK, TxnTypeOK, txnVars, PC
<1>6. QED
  BY <1>4, <1>5 DEF PopulateBooking, TypeOK, dbVars, attemptVars

LEMMA CreateUserPassType ==
    ASSUME TypeOK, NEW t \in Request, CreateUserPass(t)
    PROVE  TypeOK'
<1>1. CASE Fail(t)
  BY <1>1, FailType
<1>2. CASE ~ Fail(t)
  <2> DEFINE p == [Everyone(None) EXCEPT ![Actor(t)] = t]
  <2>1. /\ TakeSnapshot(t)
        /\ mem' = [mem EXCEPT ![t].booking = t]
        /\ SaveNext(t, {Actor(t)}, p)
    BY <1>2 DEF CreateUserPass
  <2>2. Actor(t) \in User
    BY AskFacts DEF CreateUserPass, Asks
  <2>3. t \in OrNone(Booking)
    BY DeskFacts DEF OrNone
  <2>4. p \in [User -> OrNone(Booking)] /\ {Actor(t)} \in SUBSET User
    BY <2>2, <2>3, EmptyTypes
  <2>5. TxnTypeOK' /\ mem' \in [Request -> Memory]
    BY <2>1, <2>2, <2>3, DeskFacts, TxnTypes, MemoryTypes
  <2> HIDE DEF p
  <2>6. QED
    BY <2>1, <2>4, <2>5, SaveNextType
<1>3. QED
  BY <1>1, <1>2

\* The success of CancelBooking.
Unlinked(t) ==
    /\ pc[t] = "answer" /\ Asks(t, "cancel")
    /\ mem[t].found
    /\ \/ TakeSnapshot(t)
       \/ mem[t].booking # None /\ HoldFirst(t, mem[t].booking)
    /\ mem' = [mem EXCEPT ![t] = Nothing]
    /\ SaveNext(t, {Actor(t)}, Everyone(None))

LEMMA CancelCases ==
    ASSUME NEW t \in Request, CancelBooking(t)
    PROVE  Fail(t) \/ RunAgain(t) \/ Unlinked(t)
  BY DEF CancelBooking, Unlinked, UsersToUnlink

LEMMA CancelBookingType ==
    ASSUME TypeOK, NEW t \in Request, CancelBooking(t)
    PROVE  TypeOK'
<1>1. CASE Fail(t) \/ RunAgain(t)
  BY <1>1, FailType, RunAgainType DEF RunAgain
<1>2. CASE Unlinked(t)
  <2>1. Actor(t) \in User /\ {Actor(t)} \in SUBSET User
    BY AskFacts DEF CancelBooking, Asks
  <2>2. mem[t] \in Memory
    BY DEF TypeOK
  <2>3. mem[t].booking # None => mem[t].booking \in Doc
    BY <2>2, DeskFacts DEF Memory, OrNone
  <2>4. Actor(t) \in Doc
    BY <2>1, DeskFacts
  <2>5. TxnTypeOK'
    BY <1>2, <2>3, <2>4, TxnTypes DEF Unlinked
  <2>6. mem' \in [Request -> Memory]
    BY <1>2, EmptyTypes DEF Unlinked, TypeOK
  <2>7. QED
    BY <1>2, <2>1, <2>5, <2>6, EmptyTypes, SaveNextType DEF Unlinked
<1>3. QED
  BY <1>1, <1>2, CancelCases

LEMMA RestoreBookingsType ==
    ASSUME TypeOK, NEW t \in Request, RestoreBookings(t)
    PROVE  TypeOK'
<1>1. CASE Fail(t)
  BY <1>1, FailType
<1>2. CASE ~ Fail(t)
  <2>1. PICK p \in [User -> OrNone(Booking)] : SaveNext(t, {u \in User : p[u] # link[u]}, p)
    BY <1>2 DEF RestoreBookings
  <2>2. TxnTypeOK' /\ mem' \in [Request -> Memory]
    BY <1>2, DeskFacts DEF RestoreBookings, TakeSnapshot, TypeOK, TxnTypeOK
  <2>3. QED
    BY <2>1, <2>2, SaveNextType
<1>3. QED
  BY <1>1, <1>2

LEMMA UnlinkUnpaidType ==
    ASSUME TypeOK, NEW t \in Request, UnlinkUnpaid(t)
    PROVE  TypeOK'
<1>1. PICK T \in SUBSET User, p \in [User -> OrNone(Booking)] : SaveNext(t, T, p)
  <2> DEFINE null(u) == link[u] # None /\ ~ Exists(link[u])
             unpaid(u) == link[u] # None /\ status[link[u]] = "in_progress"
             T == {u \in User : null(u) \/ unpaid(u)}
             p == [u \in User |-> IF null(u) THEN link[u] ELSE None]
  <2>1. p \in [User -> OrNone(Booking)] /\ T \in SUBSET User
    BY DEF TypeOK, OrNone
  <2>2. SaveNext(t, T, p)
    BY DEF UnlinkUnpaid
  <2> HIDE DEF p, T
  <2>3. QED
    BY <2>1, <2>2
<1>2. TxnTypeOK' /\ mem' \in [Request -> Memory]
  BY DeskFacts DEF UnlinkUnpaid, TakeSnapshot, TypeOK, TxnTypeOK
<1>3. QED
  BY <1>1, <1>2, SaveNextType

\* The success of SaveUser.
UserSaved(t, u) ==
    /\ pc[t] = "save" /\ u \in todo[t]
    /\ t \in open
    /\ HoldDoc(t, u)
    /\ SaveNext(t, todo[t] \ {u}, plan[t])
    /\ UNCHANGED mem

LEMMA SaveUserCases ==
    ASSUME NEW t \in Request, SaveUser(t)
    PROVE  RunAgain(t) \/ \E u \in todo[t] : UserSaved(t, u)
  BY DEF SaveUser, UserSaved

LEMMA SaveUserType ==
    ASSUME TypeOK, NEW t \in Request, SaveUser(t)
    PROVE  TypeOK'
<1>1. ASSUME NEW u \in todo[t], UserSaved(t, u) PROVE TypeOK'
  <2>1. todo[t] \in SUBSET User /\ plan[t] \in [User -> OrNone(Booking)] /\ mem' \in [Request -> Memory]
    BY <1>1 DEF TypeOK, UserSaved
  <2>2. u \in Doc /\ todo[t] \ {u} \in SUBSET User
    BY <2>1, DeskFacts
  <2>3. TxnTypeOK'
    BY <1>1, <2>2, TxnTypes DEF UserSaved
  <2>4. QED
    BY <1>1, <2>1, <2>2, <2>3, SaveNextType DEF UserSaved
<1>2. QED
  BY <1>1, SaveUserCases, RunAgainType DEF RunAgain

\* The success of InitializeBuilder.
Initialized(t) ==
    /\ pc[t] = "answer" /\ Asks(t, "room") /\ mem[t].booking = None
    /\ TakeSnapshot(t)
    /\ builder' = [user |-> t, booking |-> t, session |-> t]
    /\ roomMem' = [roomMem EXCEPT ![t] = None]
    /\ roomed' = [roomed EXCEPT ![t] = Roomed]
    /\ pc' = [pc EXCEPT ![t] = "roommates"]
    /\ UNCHANGED <<dbVars, mem, using, roomSaved, plan, todo, ask, retries>>

LEMMA InitializeCases ==
    ASSUME NEW t \in Request, InitializeBuilder(t)
    PROVE  Fail(t) \/ Initialized(t)
  BY DEF InitializeBuilder, Initialized, Remember

LEMMA InitializeBuilderType ==
    ASSUME TypeOK, NEW t \in Request, InitializeBuilder(t)
    PROVE  TypeOK'
<1>1. CASE Fail(t)
  BY <1>1, FailType
<1>2. CASE Initialized(t)
  <2>1. TxnTypeOK'
    BY <1>2, DeskFacts DEF Initialized, TakeSnapshot, TypeOK, TxnTypeOK
  <2>2. builder' \in Builder /\ roomMem' \in [Request -> OrNone(Request)]
    BY <1>2 DEF Initialized, TypeOK, Builder, OrNone
  <2>3. roomed' \in [Request -> SUBSET User] /\ pc' \in [Request -> PC]
    BY <1>2 DEF Initialized, TypeOK, Roomed, PC
  <2>4. QED
    BY <1>2, <2>1, <2>2, <2>3 DEF Initialized, TypeOK, dbVars
<1>3. QED
  BY <1>1, <1>2, InitializeCases

\* The success of CheckRoommates.
RoommatesFree(t) ==
    /\ pc[t] = "roommates" /\ t \in open
    /\ using' = [using EXCEPT ![t] = [NoUse EXCEPT !.of = builder]]
    /\ pc' = [pc EXCEPT ![t] = "room"]
    /\ UNCHANGED <<txnVars, dbVars, memVars, attemptVars, ask, retries>>

LEMMA CheckRoommatesCases ==
    ASSUME NEW t \in Request, CheckRoommates(t)
    PROVE  Fail(t) \/ RunAgain(t) \/ RoommatesFree(t)
  BY DEF CheckRoommates, RoommatesFree

LEMMA CheckRoommatesType ==
    ASSUME TypeOK, NEW t \in Request, CheckRoommates(t)
    PROVE  TypeOK'
<1>1. CASE RoommatesFree(t)
  <2>1. [NoUse EXCEPT !.of = builder] \in Use
    BY DEF TypeOK, NoUse, Use, OrNone
  <2>2. using' \in [Request -> Use] /\ pc' \in [Request -> PC]
    BY <1>1, <2>1 DEF RoommatesFree, TypeOK, PC
  <2>3. QED
    BY <1>1, <2>2 DEF RoommatesFree, TypeOK, TxnTypeOK, txnVars, dbVars, memVars, attemptVars
<1>2. QED
  BY <1>1, CheckRoommatesCases, FailType, RunAgainType DEF RunAgain

(***************************************************************************)
(* The builder: what a save() that is sent has read of it.                 *)
(***************************************************************************)

LEMMA BuilderSet ==
    ASSUME IInv, NEW t \in Request, pc[t] \in InBuilder
    PROVE  /\ builder # NoBuilder /\ OfOneRequest(builder)
           /\ builder.user \in Request /\ builder.booking = builder.user
           /\ builder.session = builder.user /\ Asks(builder.user, "room")
<1>1. builder # NoBuilder /\ OfOneRequest(builder)
  BY DEF IInv, BuilderInv
<1>2. TypeOK
  BY DEF IInv
<1>3. QED
  BY <1>1, <1>2, BuilderFacts

LEMMA UsingSet ==
    ASSUME IInv, NEW t \in Request, pc[t] \in {"get", "link"}
    PROVE  /\ using[t].of.user \in Request /\ using[t].of.booking = using[t].of.user
           /\ using[t].of.session = using[t].of.user /\ Asks(using[t].of.user, "room")
           /\ Actor(using[t].of.user) \in User /\ Actor(using[t].of.user) \in Doc
<1>1. OfOneRequest(using[t].of) /\ using[t].of # NoBuilder
  BY DEF IInv, RequestInv
<1>2. TypeOK
  BY DEF IInv
<1>3. QED
  BY <1>1, <1>2, BuilderFacts

\* A save() is sent in a transaction that is open, or it is not within one; and then it
\* has read the builder of one request.
SaveSent(t, p) ==
    /\ using' \in [Request -> Use] /\ pc' \in [Request -> PC]
    /\ UNCHANGED <<ask, retries>>
    /\ \A u \in Request \ {t} : using'[u] = using[u] /\ pc'[u] = pc[u]
    /\ pc'[t] \in {p, "thrown"}
    /\ OfOneRequest(using'[t].of)
    /\ pc'[t] = p => using'[t].of # NoBuilder
    /\ using'[t].mode = "within" => using'[t].of.session \in open

LEMMA SendSaveFacts ==
    ASSUME IInv, NEW t \in Request, pc[t] \in InBuilder, NEW p \in {"get", "link"},
           NEW r \in OrNone(Request), NEW S, SendSave(t, p, r, S)
    PROVE  SaveSent(t, p)
<1>1. TypeOK /\ builder # NoBuilder /\ OfOneRequest(builder)
  BY BuilderSet DEF IInv
<1>2. UNCHANGED <<ask, retries>>
  BY DEF SendSave
<1>3. ASSUME NEW m \in Modes(builder.session),
             using' = [using EXCEPT ![t] = [of |-> builder, mode |-> m, room |-> r]],
             pc' = [pc EXCEPT ![t] = p]
      PROVE  SaveSent(t, p)
  <2>1. m \in {"within", "outside", "over"} /\ (m = "within" => builder.session \in open)
    BY DEF Modes
  <2>2. [of |-> builder, mode |-> m, room |-> r] \in Use
    BY <1>1, <2>1 DEF TypeOK, Use
  <2>3. using' \in [Request -> Use] /\ pc' \in [Request -> PC]
    BY <1>1, <1>3, <2>2 DEF TypeOK, PC
  <2>4. using'[t] = [of |-> builder, mode |-> m, room |-> r] /\ pc'[t] = p
    BY <1>1, <1>3 DEF TypeOK
  <2>5. \A u \in Request \ {t} : using'[u] = using[u] /\ pc'[u] = pc[u]
    BY <1>1, <1>3 DEF TypeOK
  <2>6. QED
    BY <1>1, <1>2, <2>1, <2>3, <2>4, <2>5 DEF SaveSent
<1>4. ASSUME using' = [using EXCEPT ![t] = NoUse],
             pc' = [pc EXCEPT ![t] = "thrown"]
      PROVE  SaveSent(t, p)
  <2>1. using' \in [Request -> Use] /\ pc' \in [Request -> PC]
    BY <1>1, <1>4, EmptyTypes DEF TypeOK, PC
  <2>2. using'[t] = NoUse /\ pc'[t] = "thrown"
    BY <1>1, <1>4 DEF TypeOK
  <2>3. \A u \in Request \ {t} : using'[u] = using[u] /\ pc'[u] = pc[u]
    BY <1>1, <1>4 DEF TypeOK
  <2>4. QED
    BY <1>2, <2>1, <2>2, <2>3 DEF OfOneRequest, NoUse, SaveSent
<1>5. QED
  BY <1>3, <1>4 DEF SendSave

\* The success of CreateRoomBooking: get() has sent its first save.
RoomCreated(t) ==
    /\ pc[t] = "room"
    /\ roomMem' \in [Request -> OrNone(Request)]
    /\ SaveSent(t, "get")
    /\ UNCHANGED <<txnVars, dbVars, builder, mem, attemptVars>>

LEMMA CreateRoomBookingCases ==
    ASSUME IInv, NEW t \in Request, CreateRoomBooking(t)
    PROVE  Fail(t) \/ RoomCreated(t)
<1> DEFINE b == using[t].of.booking
           given == IF b = None THEN roomMem ELSE [roomMem EXCEPT ![b] = t]
<1>1. pc[t] = "room" /\ pc[t] \in InBuilder
  BY DEF CreateRoomBooking, InBuilder
<1>2. TypeOK /\ builder.booking \in Request
  BY <1>1, BuilderSet DEF IInv
<1>3. given \in [Request -> OrNone(Request)]
  BY <1>2 DEF TypeOK, OrNone
<1>4. ASSUME roomMem' = given, SendSave(t, "get", given[builder.booking], BookingSaves(t)),
             UNCHANGED <<txnVars, dbVars, builder, mem, attemptVars>>
      PROVE  RoomCreated(t)
  <2>1. given[builder.booking] \in OrNone(Request)
    BY <1>2, <1>3
  <2> HIDE DEF given
  <2>2. SaveSent(t, "get")
    BY <1>1, <1>4, <2>1, SendSaveFacts
  <2>3. QED
    BY <1>1, <1>3, <1>4, <2>2 DEF RoomCreated
<1>5. QED
  BY <1>4 DEF CreateRoomBooking

LEMMA CreateRoomBookingType ==
    ASSUME IInv, NEW t \in Request, CreateRoomBooking(t)
    PROVE  TypeOK'
<1>1. TypeOK
  BY DEF IInv
<1>2. CASE RoomCreated(t)
  BY <1>1, <1>2 DEF RoomCreated, SaveSent, TypeOK, TxnTypeOK, txnVars, dbVars, attemptVars
<1>3. QED
  BY <1>1, <1>2, CreateRoomBookingCases, FailType

\* this._user.booking = this._userBooking._id, and the save that is sent.
UserSent(t) ==
    /\ builder.user \in Request /\ builder.booking = builder.user /\ Asks(builder.user, "room")
    /\ \/ UNCHANGED mem
       \/ mem' = [mem EXCEPT ![builder.user] =
                     [Nothing EXCEPT !.booking = builder.user, !.unsaved = TRUE]]
    /\ mem' \in [Request -> Memory]
    /\ SaveSent(t, "link")
    /\ UNCHANGED <<builder, roomMem>>

LEMMA SendUserFacts ==
    ASSUME IInv, NEW t \in Request, pc[t] \in InBuilder, SendUser(t)
    PROVE  UserSent(t)
<1>1. TypeOK /\ builder.user \in Request /\ builder.booking = builder.user /\ Asks(builder.user, "room")
  BY BuilderSet DEF IInv
<1>2. [Nothing EXCEPT !.booking = builder.user, !.unsaved = TRUE] \in Memory
  BY <1>1, DeskFacts DEF Nothing, Memory, OrNone
<1>3. /\ UNCHANGED mem \/ mem' = [mem EXCEPT ![builder.user] =
                     [Nothing EXCEPT !.booking = builder.user, !.unsaved = TRUE]]
      /\ UNCHANGED <<builder, roomMem>>
  BY <1>1 DEF SendUser
<1>4. mem' \in [Request -> Memory]
  BY <1>1, <1>2, <1>3 DEF TypeOK
<1>5. SaveSent(t, "link")
  <2>1. SendSave(t, "link", None, UserSaves(t)) /\ None \in OrNone(Request)
    BY DEF SendUser, OrNone
  <2>2. QED
    BY <2>1, SendSaveFacts
<1>6. QED
  BY <1>1, <1>3, <1>4, <1>5 DEF UserSent

\* The success of the first half of get(), in a transaction or outside.
BookingSaved(t) ==
    /\ pc[t] = "get"
    /\ roomSaved' \in [Request -> OrNone(Request)]
    /\ inRoom' \in [Booking -> OrNone(Request)]
    /\ UserSent(t)
    /\ UNCHANGED <<txnVars, link, owner, status, roomed, plan, todo>>

LEMMA GetBookingCases ==
    ASSUME IInv, NEW t \in Request, GetBooking(t)
    PROVE  Fail(t) \/ RunAgain(t) \/ BookingSaved(t)
<1>1. pc[t] = "get" /\ pc[t] \in InBuilder
  BY DEF GetBooking, InBuilder
<1>2. TypeOK /\ using[t].room \in OrNone(Request)
  BY DEF IInv, TypeOK, Use
<1>3. roomSaved \in [Request -> OrNone(Request)] /\ inRoom \in [Booking -> OrNone(Request)]
  BY <1>2 DEF TypeOK
<1>4. ASSUME SendUser(t), UNCHANGED <<txnVars, link, owner, status, roomed, plan, todo>>,
             \/ /\ roomSaved' = [roomSaved EXCEPT ![using[t].of.session] = using[t].room]
                /\ UNCHANGED inRoom
             \/ /\ inRoom' = [inRoom EXCEPT ![using[t].of.booking] = using[t].room]
                /\ UNCHANGED roomSaved
      PROVE  BookingSaved(t)
  <2>1. roomSaved' \in [Request -> OrNone(Request)] /\ inRoom' \in [Booking -> OrNone(Request)]
    BY <1>2, <1>3, <1>4
  <2>2. QED
    BY <1>1, <1>4, <2>1, SendUserFacts DEF BookingSaved
<1>5. QED
  BY <1>4 DEF GetBooking, dbVars, attemptVars

LEMMA GetBookingType ==
    ASSUME IInv, NEW t \in Request, GetBooking(t)
    PROVE  TypeOK'
<1>1. TypeOK
  BY DEF IInv
<1>2. CASE BookingSaved(t)
  BY <1>1, <1>2 DEF BookingSaved, UserSent, SaveSent, TypeOK, TxnTypeOK, txnVars
<1>3. QED
  BY <1>1, <1>2, GetBookingCases, FailType, RunAgainType DEF RunAgain

\* The ways in which the second half of get() succeeds: the user of request v has been
\* saved before, is saved in the transaction of v, or is saved at once.
NothingToLink(t) ==
    /\ LeaveBuilder(t)
    /\ UNCHANGED <<txnVars, dbVars, mem, using, attemptVars>>

LinkedWithin(t, v) ==
    /\ using[t].mode = "within" /\ using[t].of.session = v /\ mem[v].unsaved
    /\ HoldDoc(v, Actor(v))
    /\ plan' = [plan EXCEPT ![v][Actor(v)] = mem[v].booking]
    /\ mem' = [mem EXCEPT ![v].unsaved = FALSE]
    /\ LeaveBuilder(t)
    /\ UNCHANGED <<dbVars, using, roomSaved, roomed, todo>>

LinkedNow(t, v) ==
    /\ mem[v].unsaved
    /\ WriteNow(Actor(v))
    /\ link' = [link EXCEPT ![Actor(v)] = mem[v].booking]
    /\ mem' = [mem EXCEPT ![v].unsaved = FALSE]
    /\ LeaveBuilder(t)
    /\ UNCHANGED <<owner, status, inRoom, using, attemptVars>>

LEMMA LinkUserCases ==
    ASSUME IInv, NEW t \in Request, LinkUser(t)
    PROVE  \/ Fail(t)
           \/ RunAgainAfter(t, t) \/ RunAgainAfter(using[t].of.session, t)
           \/ NothingToLink(t)
           \/ \E v \in Request : /\ Asks(v, "room") /\ Actor(v) \in User /\ Actor(v) \in Doc
                                 /\ LinkedWithin(t, v) \/ LinkedNow(t, v)
<1>1. pc[t] \in {"get", "link"}
  BY DEF LinkUser
<1>2. /\ using[t].of.user \in Request /\ using[t].of.session = using[t].of.user
      /\ Asks(using[t].of.user, "room")
      /\ Actor(using[t].of.user) \in User /\ Actor(using[t].of.user) \in Doc
  BY <1>1, UsingSet
<1>3. QED
  BY <1>2 DEF LinkUser, RunAgain, NothingToLink, LinkedWithin, LinkedNow

LEMMA LinkUserType ==
    ASSUME IInv, NEW t \in Request, LinkUser(t)
    PROVE  TypeOK'
<1>1. TypeOK
  BY DEF IInv
<1>2. ASSUME LeaveBuilder(t) PROVE pc' \in [Request -> PC] /\ UNCHANGED <<builder, roomMem, ask, retries>>
  BY <1>1, <1>2 DEF LeaveBuilder, TypeOK, PC
<1>3. CASE NothingToLink(t)
  BY <1>1, <1>2, <1>3 DEF NothingToLink, TypeOK, TxnTypeOK, txnVars, dbVars, attemptVars
<1>4. ASSUME NEW v \in Request, Actor(v) \in User, Actor(v) \in Doc, LinkedWithin(t, v) \/ LinkedNow(t, v)
      PROVE  TypeOK'
  <2>1. TxnTypeOK'
    BY <1>1, <1>4, TxnTypes DEF LinkedWithin, LinkedNow
  <2>2. mem' \in [Request -> Memory]
    BY <1>1, <1>4, MemoryTypes DEF LinkedWithin, LinkedNow
  <2>3. mem[v].booking \in OrNone(Booking)
    BY <1>1 DEF TypeOK, Memory
  <2>4. /\ plan' \in [Request -> [User -> OrNone(Booking)]]
        /\ link' \in [User -> OrNone(Booking)]
    <3>1. /\ plan \in [Request -> [User -> OrNone(Booking)]] /\ plan[v] \in [User -> OrNone(Booking)]
          /\ link \in [User -> OrNone(Booking)]
      BY <1>1 DEF TypeOK
    <3>2. [plan[v] EXCEPT ![Actor(v)] = mem[v].booking] \in [User -> OrNone(Booking)]
      BY <2>3, <3>1
    <3>3. CASE LinkedWithin(t, v)
      BY <3>1, <3>2, <3>3 DEF LinkedWithin, dbVars
    <3>4. CASE LinkedNow(t, v)
      BY <1>4, <2>3, <3>1, <3>4 DEF LinkedNow, attemptVars
    <3>5. QED
      BY <1>4, <3>3, <3>4
  <2>5. CASE LinkedWithin(t, v)
    BY <1>1, <1>2, <2>1, <2>2, <2>4, <2>5 DEF LinkedWithin, TypeOK, dbVars
  <2>6. CASE LinkedNow(t, v)
    BY <1>1, <1>2, <2>1, <2>2, <2>4, <2>6 DEF LinkedNow, TypeOK, attemptVars
  <2>7. QED
    BY <1>4, <2>5, <2>6
<1>5. QED
  BY <1>1, <1>3, <1>4, LinkUserCases, FailType, RunAgainType

(***************************************************************************)
(* The end of a transaction.                                               *)
(***************************************************************************)

\* The success of Commit.
Committed(t) ==
    /\ pc[t] = "commit" /\ t \in open
    /\ CommitTxn(t)
    /\ link' = [u \in User |-> IF u \in held[t] THEN plan[t][u] ELSE link[u]]
    /\ owner' = [b \in Booking |->
          IF b \in held[t] THEN None
          ELSE IF b = t /\ ask[t].op \in {"pass", "room"} THEN Actor(t) ELSE owner[b]]
    /\ inRoom' = [b \in Booking |-> IF b = t THEN roomSaved[t] ELSE inRoom[b]]
    /\ EndAttempt(t)
    /\ using' = [Over({t}) EXCEPT ![t] = NoUse]
    /\ pc' = [pc EXCEPT ![t] = "done"]
    /\ UNCHANGED <<status, memVars, ask, retries>>

LEMMA CommitCases ==
    ASSUME NEW t \in Request, Commit(t)
    PROVE  Fail(t) \/ RunAgain(t) \/ Committed(t)
  BY DEF Commit, Committed

LEMMA CommitType ==
    ASSUME TypeOK, NEW t \in Request, Commit(t)
    PROVE  TypeOK'
<1>1. CASE Committed(t)
  <2>1. TxnTypeOK'
    BY <1>1, DeskFacts, TxnTypes DEF Committed, TypeOK, TxnTypeOK, CommitTxn
  <2>2. link' \in [User -> OrNone(Booking)] /\ inRoom' \in [Booking -> OrNone(Request)]
    BY <1>1 DEF Committed, TypeOK
  <2>3. owner' \in [Booking -> OrNone(User)]
    <3>1. Actor(t) \in OrNone(User)
      BY AskFacts DEF OrNone
    <3>2. QED
      BY <1>1, <3>1 DEF Committed, TypeOK, OrNone
  <2>4. using' \in [Request -> Use] /\ pc' \in [Request -> PC]
    BY <1>1, OverType, EmptyTypes DEF Committed, TypeOK, PC, Answered
  <2>5. QED
    BY <1>1, <2>1, <2>2, <2>3, <2>4, EndAttemptType DEF Committed, TypeOK, memVars
<1>2. QED
  BY <1>1, CommitCases, FailType, RunAgainType DEF RunAgain

LEMMA CompleteBookingType ==
    ASSUME TypeOK, NEW b \in Booking, CompleteBooking(b)
    PROVE  TypeOK'
<1>1. TxnTypeOK'
  BY DeskFacts DEF CompleteBooking, WriteNow, TypeOK, TxnTypeOK
<1>2. status' \in [Booking -> {"in_progress", "completed"}]
  BY DEF CompleteBooking, CompletedStatus, TypeOK
<1>3. QED
  BY <1>1, <1>2 DEF CompleteBooking, TypeOK, memVars, attemptVars

LEMMA ExpireType ==
    ASSUME TypeOK, NEW s \in Request, Expire(s)
    PROVE  TypeOK'
<1>1. TxnTypeOK'
  BY DEF Expire, AbortTxns, TypeOK, TxnTypeOK
<1>2. using' \in [Request -> Use]
  BY OverType DEF Expire
<1>3. QED
  BY <1>1, <1>2 DEF Expire, TypeOK, dbVars, memVars, attemptVars

LEMMA CrashType ==
    ASSUME TypeOK, Crash
    PROVE  TypeOK'
<1>1. TxnTypeOK'
  BY DEF Crash, AbortTxns, TypeOK, TxnTypeOK
<1>2. pc' \in [Request -> PC]
  BY DEF Crash, TypeOK, PC, Answered
<1>3. /\ builder' \in Builder /\ mem' \in [Request -> Memory]
      /\ roomMem' \in [Request -> OrNone(Request)] /\ using' \in [Request -> Use]
      /\ roomSaved' \in [Request -> OrNone(Request)] /\ roomed' \in [Request -> SUBSET User]
      /\ plan' \in [Request -> [User -> OrNone(Booking)]] /\ todo' \in [Request -> SUBSET User]
  BY EmptyTypes DEF Crash, Each, OrNone
<1>4. QED
  BY <1>1, <1>2, <1>3 DEF Crash, TypeOK, dbVars

LEMMA TypeStep == IInv /\ [Next]_vars => TypeOK'
<1> SUFFICES ASSUME IInv, [Next]_vars PROVE TypeOK'
  OBVIOUS
<1>1. TypeOK
  BY DEF IInv
<1>2. ASSUME NEW t \in Request, LoadUser(t) PROVE TypeOK'
  BY <1>1, <1>2, LoadUserType, AskFacts DEF LoadUser, IInv, RequestInv
<1>3. ASSUME NEW t \in Request, NullBooking(t) \/ Thrown(t) PROVE TypeOK'
  BY <1>1, <1>3, FailType DEF NullBooking, Thrown
<1>4. ASSUME NEW t \in Request, Answer(t) PROVE TypeOK'
  BY <1>1, <1>2, <1>3, <1>4, PopulateBookingType, CreateUserPassType, CancelBookingType, RestoreBookingsType,
     UnlinkUnpaidType, SaveUserType, InitializeBuilderType, CheckRoommatesType,
     CreateRoomBookingType, GetBookingType, LinkUserType, CommitType DEF Answer
<1>5. CASE UNCHANGED vars
  BY <1>1, <1>5 DEF vars, txnVars, dbVars, memVars, attemptVars, TypeOK, TxnTypeOK
<1>6. QED
  BY <1>1, <1>4, <1>5, CompleteBookingType, ExpireType, CrashType DEF Next, AllAnswered

(***************************************************************************)
(* The inductive invariant.                                                *)
(***************************************************************************)

LEMMA TxnInvFacts == IInv => TxnInv
  BY DEF IInv, TypeOK, TxnInv

\* What a request may rely on is left alone by a step of another that at most closes
\* transactions, and tells it so.
LEMMA OtherRequest ==
    ASSUME IInv, NEW u \in Request,
           UNCHANGED ask, pc'[u] = pc[u], mem'[u] = mem[u], u \in open' => u \in open,
           OfOneRequest(using'[u].of),
           pc[u] \in {"get", "link"} => using'[u].of # NoBuilder,
           using'[u].mode = "within" => using'[u].of.session \in open'
    PROVE  RequestInv(u)'
<1>1. RequestInv(u)
  BY DEF IInv
<1>2. OfOneRequest(using[u].of)'
  BY DEF OfOneRequest, Asks
<1>3. QED
  BY <1>1, <1>2 DEF RequestInv, Asks, Actor, OwnOrNone, UserOf

\* So is what its transaction is going to write, by a step that keeps the bookings or
\* changes their users too.
LEMMA OtherAttempt ==
    ASSUME IInv, NEW u \in Request,
           UNCHANGED ask, pc'[u] = pc[u], plan'[u] = plan[u], todo'[u] = todo[u],
           held'[u] \subseteq held[u],
           u \in open' => u \in open /\ held'[u] = held[u] /\ missed[u] \subseteq missed'[u],
           u \in open' => \A b \in Booking : Exists(b) => Exists(b)' \/ UserOf(b) \in missed'[u]
    PROVE  AttemptInv(u)'
<1>1. AttemptInv(u) /\ plan[u] \in [User -> OrNone(Booking)]
  BY DEF IInv, TypeOK
<1>2. \A b : /\ UserOf(b)' = UserOf(b) /\ Actor(b)' = Actor(b) /\ IsPass(b)' = IsPass(b)
             /\ \A v : OwnOrNone(v, b)' = OwnOrNone(v, b)
  BY DEF UserOf, Actor, IsPass, Kind, Asks, OwnOrNone
<1>3. ASSUME u \in open', ask[u].op \in {"restore", "cron"}, NEW v \in User, IsPass(plan[u][v])
      PROVE  Exists(plan[u][v])' \/ v \in missed'[u]
  <2>1. Exists(plan[u][v]) \/ v \in missed[u]
    BY <1>1, <1>3 DEF AttemptInv
  <2>2. plan[u][v] \in Booking /\ UserOf(plan[u][v]) = v
    BY <1>1, <1>3 DEF AttemptInv, OwnOrNone, IsPass, OrNone
  <2>3. Exists(plan[u][v]) => owner'[plan[u][v]] # None \/ v \in missed'[u]
    BY <1>3, <2>2 DEF Exists
  <2>4. QED
    BY <1>3, <2>1, <2>3 DEF Exists
<1>4. QED
  BY <1>1, <1>2, <1>3 DEF AttemptInv, Asks, Actor, OwnOrNone, IsPass, Kind, UserOf, Exists

\* A step after which the committed documents are as before.
LEMMA SameDocuments ==
    ASSUME IInv, TypeOK', TxnInv', UNCHANGED <<link, owner, ask>>, BuilderInv',
           \A t \in Request : RequestInv(t)' /\ AttemptInv(t)'
    PROVE  IInv'
<1>1. \A b \in Booking : owner'[b] \in {None, UserOf(b)'}
  BY DEF IInv, UserOf, Actor
<1>2. OwnBooking'
  BY DEF IInv, OwnBooking, UserOf, Actor
<1>3. PassLinkIsLive'
  BY DEF IInv, PassLinkIsLive, Kind, Asks, Exists
<1>4. QED
  BY <1>1, <1>2, <1>3 DEF IInv, TxnInv

\* A step of t that changes no other request and no committed document, and closes no
\* transaction.
LEMMA LocalStep ==
    ASSUME IInv, TypeOK', TxnInv', NEW t \in Request, UNCHANGED <<dbVars, ask>>,
           BuilderInv', RequestInv(t)', AttemptInv(t)',
           open \subseteq open',
           \A u \in Request \ {t} :
               /\ u \in open' => u \in open
               /\ pc'[u] = pc[u] /\ mem'[u] = mem[u] /\ using'[u] = using[u]
               /\ plan'[u] = plan[u] /\ todo'[u] = todo[u]
               /\ held'[u] = held[u] /\ missed'[u] = missed[u]
    PROVE  IInv'
<1>1. ASSUME NEW u \in Request \ {t} PROVE RequestInv(u)'
  <2>1. RequestInv(u)
    BY DEF IInv
  <2>2. QED
    BY <2>1, OtherRequest DEF RequestInv
<1>2. ASSUME NEW u \in Request \ {t} PROVE AttemptInv(u)'
  <2>1. \A b \in Booking : Exists(b) => Exists(b)'
    BY DEF Exists, dbVars
  <2>2. QED
    BY <2>1, OtherAttempt
<1>3. QED
  BY <1>1, <1>2, SameDocuments DEF dbVars

\* The end of an attempt by exception or conflict.
LEMMA AbortStep ==
    ASSUME IInv, TypeOK', NEW T, NEW t \in T, t \in Request, Abort(T, t),
           NEW p \in {"answer", "failed"}, pc' = [pc EXCEPT ![t] = p],
           UNCHANGED <<dbVars, memVars, ask>>
    PROVE  IInv'
<1>1. TypeOK /\ TxnInv'
  BY AbortTxnsInv, TxnInvFacts DEF Abort, IInv
<1>2. /\ open' = open \ T
      /\ \A u \in Request :
            /\ held'[u] \subseteq held[u]
            /\ u \in open' => held'[u] = held[u] /\ missed'[u] = missed[u]
  BY <1>1, DeskFacts DEF Abort, AbortTxns, TypeOK, TxnTypeOK
<1>3. ASSUME NEW u \in Request
      PROVE  /\ OfOneRequest(using'[u].of)
             /\ using'[u].mode = "within" => using'[u].of.session \in open'
             /\ u # t /\ pc[u] \in {"get", "link"} => using'[u].of # NoBuilder
  <2>1. RequestInv(u)
    BY DEF IInv
  <2>2. using'[u] = IF u = t \/ (pc[u] = "room" /\ using[u].of.booking = t) THEN NoUse ELSE Over(T)[u]
    BY DEF Abort
  <2>3. CASE using'[u] = NoUse
    BY <2>2, <2>3, <1>1, OverType DEF NoUse, OfOneRequest, RequestInv, IInv
  <2>4. CASE using'[u] # NoUse
    <3>1. using'[u] = Over(T)[u]
      BY <2>2, <2>4
    <3>2. /\ Over(T)[u].of = using[u].of
          /\ Over(T)[u].mode = "within" =>
                using[u].mode = "within" /\ using[u].of.session \notin T
      BY <1>1, OverType
    <3>3. QED
      BY <1>2, <2>1, <3>1, <3>2 DEF RequestInv
  <2>5. QED
    BY <2>3, <2>4
<1>4. pc'[t] = p /\ \A u \in Request \ {t} : pc'[u] = pc[u]
  BY <1>1 DEF TypeOK
<1>5. RequestInv(t)'
  <2>1. RequestInv(t) /\ t \notin open'
    BY <1>2 DEF IInv
  <2>2. OfOneRequest(using[t].of)'
    BY <1>3 DEF OfOneRequest, Asks
  <2>3. QED
    BY <1>3, <1>4, <2>1, <2>2
    DEF RequestInv, InBuilder, Answered, Asks, Actor, OwnOrNone, UserOf, memVars
<1>6. ASSUME NEW u \in Request \ {t} PROVE RequestInv(u)'
  BY <1>2, <1>3, <1>4, OtherRequest DEF memVars
<1>7. AttemptInv(t)'
  <2>1. t \notin open' /\ held'[t] = {}
    BY <1>2, DeskFacts DEF Abort, AbortTxns
  <2>2. plan'[t] = Everyone(None) /\ todo'[t] = {}
    BY <1>1 DEF Abort, EndAttempt, TypeOK
  <2>3. \A v \in User : plan'[t][v] = None
    BY <2>2 DEF Everyone
  <2>4. QED
    BY <2>1, <2>2, <2>3 DEF AttemptInv, OwnOrNone, IsPass
<1>8. ASSUME NEW u \in Request \ {t} PROVE AttemptInv(u)'
  <2>1. plan'[u] = plan[u] /\ todo'[u] = todo[u]
    BY <1>1 DEF Abort, EndAttempt, TypeOK
  <2>2. \A b \in Booking : Exists(b) => Exists(b)'
    BY DEF Exists, dbVars
  <2>3. QED
    BY <1>2, <1>4, <2>1, <2>2, OtherAttempt
<1>9. BuilderInv'
  <2>1. \A u \in Request : pc'[u] \in InBuilder => pc[u] \in InBuilder
    BY <1>4 DEF InBuilder
  <2>2. QED
    BY <2>1 DEF IInv, BuilderInv, OfOneRequest, Asks, memVars
<1>10. QED
  BY <1>1, <1>5, <1>6, <1>7, <1>8, <1>9, SameDocuments DEF dbVars

LEMMA FailStep ==
    ASSUME IInv, TypeOK', NEW t \in Request, Fail(t)
    PROVE  IInv'
  BY AbortStep DEF Fail

LEMMA RunAgainStep ==
    ASSUME IInv, TypeOK', NEW s, NEW t \in Request, RunAgainAfter(s, t)
    PROVE  IInv'
<1>1. PICK p \in {"answer", "failed"} : pc' = [pc EXCEPT ![t] = p]
  BY DEF RunAgainAfter
<1>2. QED
  BY <1>1, AbortStep DEF RunAgainAfter

\* The two queries of the guard: what it loads is the user's own.
LEMMA GuardStep ==
    ASSUME IInv, TypeOK', NEW t \in Request, LoadUser(t) \/ PopulateBooking(t)
    PROVE  IInv'
<1>1. TypeOK /\ RequestInv(t) /\ AttemptInv(t) /\ OwnBooking /\ BuilderInv
  BY DEF IInv
<1>2. /\ pc[t] \in {"new", "populate"} /\ pc'[t] \in {"populate", "answer"}
      /\ \A u \in Request \ {t} : pc'[u] = pc[u] /\ mem'[u] = mem[u]
  BY <1>1 DEF LoadUser, PopulateBooking, TypeOK
<1>3. OwnOrNone(Actor(t), mem'[t].booking)
  <2>1. CASE LoadUser(t)
    <3>1. Actor(t) \in User
      BY <1>1, <2>1, AskFacts DEF LoadUser, RequestInv
    <3>2. mem'[t].booking = link[Actor(t)]
      BY <1>1, <2>1 DEF LoadUser, TypeOK, Nothing
    <3>3. QED
      BY <1>1, <3>1, <3>2 DEF OwnBooking, OwnOrNone
  <2>2. CASE PopulateBooking(t)
    <3>1. mem'[t].booking = mem[t].booking
      BY <1>1, <2>2 DEF PopulateBooking, TypeOK, Memory
    <3>2. QED
      BY <1>1, <3>1 DEF RequestInv
  <2>3. QED
    BY <2>1, <2>2
<1>4. mem'[t].unsaved => mem'[t].booking = t /\ Asks(t, "room")
  <2>1. CASE LoadUser(t)
    BY <1>1, <2>1 DEF LoadUser, TypeOK, Nothing
  <2>2. CASE PopulateBooking(t)
    <3>1. mem'[t].booking = mem[t].booking /\ mem'[t].unsaved = mem[t].unsaved
      BY <1>1, <2>2 DEF PopulateBooking, TypeOK, Memory
    <3>2. QED
      BY <1>1, <3>1 DEF RequestInv
  <2>3. QED
    BY <2>1, <2>2
<1>5. UNCHANGED <<open, held, missed, link, owner, status, inRoom, using, plan, todo, builder, ask>>
  BY DEF LoadUser, PopulateBooking, txnVars, dbVars, attemptVars
<1>6. RequestInv(t)'
  BY <1>1, <1>2, <1>3, <1>4, <1>5
  DEF RequestInv, InBuilder, Answered, OwnOrNone, UserOf, Actor, Asks, OfOneRequest
<1>7. AttemptInv(t)'
  BY <1>1, <1>2, <1>5 DEF AttemptInv, Asks, Actor, OwnOrNone, IsPass, Kind, UserOf, Exists
<1>8. BuilderInv'
  BY <1>1, <1>2, <1>5 DEF BuilderInv, InBuilder, OfOneRequest, Asks
<1>9. TxnInv'
  BY <1>5, TxnInvFacts, TxnStutterInv DEF txnVars
<1>10. QED
  BY <1>2, <1>5, <1>6, <1>7, <1>8, <1>9, LocalStep DEF dbVars

\* A step of the transaction of t towards the users it saves.
LEMMA SaveNextStep ==
    ASSUME IInv, TypeOK', TxnInv', NEW t \in Request, NEW T, NEW p, SaveNext(t, T, p),
           pc[t] \in {"answer", "save"}, open' = open \cup {t},
           \A u \in Request \ {t} : /\ mem'[u] = mem[u]
                                    /\ held'[u] = held[u] /\ missed'[u] = missed[u],
           OwnOrNone(Actor(t), mem'[t].booking), mem'[t].unsaved => mem[t].unsaved /\ mem'[t] = mem[t],
           AttemptInv(t)'
    PROVE  IInv'
<1>1. TypeOK /\ RequestInv(t) /\ BuilderInv
  BY DEF IInv
<1>2. UNCHANGED <<dbVars, ask, using, builder>>
  BY DEF SaveNext
<1>3. pc'[t] \in {"commit", "save"} /\ \A u \in Request \ {t} : pc'[u] = pc[u]
  BY <1>1 DEF SaveNext, TypeOK
<1>4. \A u \in Request \ {t} : plan'[u] = plan[u] /\ todo'[u] = todo[u]
  BY <1>1 DEF SaveNext, TypeOK
<1>5. RequestInv(t)'
  BY <1>1, <1>2, <1>3
  DEF RequestInv, InBuilder, Answered, OwnOrNone, UserOf, Actor, Asks, OfOneRequest
<1>6. BuilderInv'
  BY <1>1, <1>2, <1>3 DEF BuilderInv, InBuilder, OfOneRequest, Asks
<1>7. QED
  BY <1>2, <1>3, <1>4, <1>5, <1>6, LocalStep

\* A request in its handler has no transaction open.
LEMMA NotStarted ==
    ASSUME IInv, NEW t \in Request, pc[t] = "answer"
    PROVE  t \notin open /\ held[t] = {} /\ missed[t] = {}
  BY DeskFacts DEF IInv, RequestInv, OneWriter

LEMMA CreateUserPassStep ==
    ASSUME IInv, TypeOK', NEW t \in Request, CreateUserPass(t)
    PROVE  IInv'
<1>1. CASE Fail(t)
  BY <1>1, FailStep
<1>2. CASE ~ Fail(t)
  <2> DEFINE p == [Everyone(None) EXCEPT ![Actor(t)] = t]
  <2>1. /\ pc[t] = "answer" /\ Asks(t, "pass")
        /\ TakeSnapshot(t)
        /\ mem' = [mem EXCEPT ![t].booking = t]
        /\ SaveNext(t, {Actor(t)}, p)
    BY <1>2 DEF CreateUserPass
  <2>2. TypeOK /\ RequestInv(t) /\ AttemptInv(t)
    BY DEF IInv
  <2>3. Actor(t) \in User /\ UserOf(t) = Actor(t)
    BY <2>1, <2>2, AskFacts, MadeFacts DEF Asks
  <2>4. TxnInv'
    BY <2>1, DeskFacts, TxnInvFacts, TakeSnapshotInv
  <2>5. /\ mem[t] \in Memory
        /\ mem'[t].booking = t /\ mem'[t].unsaved = mem[t].unsaved
        /\ \A u \in Request \ {t} : mem'[u] = mem[u]
    BY <2>1, <2>2 DEF TypeOK, Memory
  <2>6. ~ mem[t].unsaved
    BY <2>1, <2>2 DEF RequestInv, Asks
  <2>7. \A u \in User : p[u] = IF u = Actor(t) THEN t ELSE None
    BY <2>3 DEF Everyone
  <2> HIDE DEF p
  <2>8. plan'[t] = p /\ UNCHANGED <<held, ask>>
    BY <2>1, <2>2 DEF SaveNext, TypeOK, TakeSnapshot
  <2>9. AttemptInv(t)'
    BY <2>1, <2>2, <2>3, <2>7, <2>8, DeskFacts
    DEF AttemptInv, Asks, Actor, OwnOrNone, UserOf
  <2>10. QED
    BY <2>1, <2>3, <2>4, <2>5, <2>6, <2>9, SaveNextStep DEF TakeSnapshot, OwnOrNone
<1>3. QED
  BY <1>1, <1>2

\* A cancellation holds the pass that it deletes, which is its user's own, and is going
\* to save that user.
LEMMA CancelBookingStep ==
    ASSUME IInv, TypeOK', NEW t \in Request, CancelBooking(t)
    PROVE  IInv'
<1>1. CASE Fail(t) \/ RunAgain(t)
  BY <1>1, FailStep, RunAgainStep DEF RunAgain
<1>2. CASE Unlinked(t)
  <2>1. TypeOK /\ RequestInv(t) /\ AttemptInv(t)
    BY DEF IInv
  <2>2. /\ pc[t] = "answer" /\ Asks(t, "cancel")
        /\ mem' = [mem EXCEPT ![t] = Nothing]
        /\ SaveNext(t, {Actor(t)}, Everyone(None))
    BY <1>2 DEF Unlinked
  <2>3. mem'[t] = Nothing /\ \A u \in Request \ {t} : mem'[u] = mem[u]
    BY <2>1, <2>2 DEF TypeOK
  <2>4. mem[t].booking # None => mem[t].booking \in Booking /\ UserOf(mem[t].booking) = Actor(t)
    BY <2>1 DEF TypeOK, Memory, OrNone, RequestInv, OwnOrNone
  <2>5. /\ open' = open \cup {t}
        /\ held'[t] \subseteq {b \in Booking : UserOf(b) = Actor(t)}
        /\ \A u \in Request \ {t} : held'[u] = held[u]
        /\ UNCHANGED missed
    <3>1. held \in [Txn -> SUBSET Doc] /\ t \in Txn /\ held[t] = {}
      BY <2>1, <2>2, DeskFacts, NotStarted DEF TypeOK, TxnTypeOK
    <3>2. CASE TakeSnapshot(t)
      BY <3>1, <3>2 DEF TakeSnapshot
    <3>3. CASE mem[t].booking # None /\ HoldFirst(t, mem[t].booking)
      BY <2>4, <3>1, <3>3, DeskFacts DEF HoldFirst
    <3>4. QED
      BY <1>2, <3>2, <3>3 DEF Unlinked
  <2>6. TxnInv'
    <3>1. CASE TakeSnapshot(t)
      BY <3>1, DeskFacts, TxnInvFacts, TakeSnapshotInv
    <3>2. CASE mem[t].booking # None /\ HoldFirst(t, mem[t].booking)
      BY <2>4, <3>2, DeskFacts, TxnInvFacts, HoldFirstInv
    <3>3. QED
      BY <1>2, <3>1, <3>2 DEF Unlinked
  <2>7. plan'[t] = Everyone(None) /\ todo'[t] = {Actor(t)} /\ pc'[t] = "save" /\ UNCHANGED ask
    BY <2>1, <2>2 DEF SaveNext, TypeOK
  <2>8. \A u \in User : plan'[t][u] = None
    BY <2>7 DEF Everyone
  <2>9. AttemptInv(t)'
    BY <2>2, <2>5, <2>7, <2>8 DEF AttemptInv, Asks, Actor, OwnOrNone, UserOf
  <2>10. QED
    BY <2>2, <2>3, <2>5, <2>6, <2>9, SaveNextStep DEF Nothing, OwnOrNone
<1>3. QED
  BY <1>1, <1>2, CancelCases

\* A restoration or a run of the nightly job plans bookings that are the users' own, and
\* passes only that exist in its snapshot.
LEMMA ManyUsersStep ==
    ASSUME IInv, TypeOK', NEW t \in Request, pc[t] = "answer", ask[t].op \in {"restore", "cron"},
           TakeSnapshot(t), UNCHANGED mem, NEW T, NEW p, SaveNext(t, T, p),
           \A u \in User : p[u] # None => p[u] \in Booking /\ UserOf(p[u]) = u,
           \A u \in User : IsPass(p[u]) => Exists(p[u])
    PROVE  IInv'
<1>1. TypeOK /\ RequestInv(t) /\ AttemptInv(t)
  BY DEF IInv
<1>2. TxnInv'
  BY DeskFacts, TxnInvFacts, TakeSnapshotInv
<1>3. plan'[t] = p /\ UNCHANGED <<held, missed, ask, owner>>
  BY <1>1 DEF SaveNext, TypeOK, TakeSnapshot, dbVars
<1>4. AttemptInv(t)'
  BY <1>1, <1>3 DEF AttemptInv, Asks, Actor, OwnOrNone, UserOf, IsPass, Kind, Exists
<1>5. OwnOrNone(Actor(t), mem'[t].booking) /\ mem'[t] = mem[t]
  BY <1>1 DEF RequestInv
<1>6. QED
  BY <1>1, <1>2, <1>4, <1>5, SaveNextStep DEF TakeSnapshot

LEMMA RestorePlanStep ==
    ASSUME IInv, TypeOK', NEW t \in Request, RestoreBookings(t), ~ Fail(t)
    PROVE  IInv'
<1>1. PICK p \in [User -> OrNone(Booking)] :
         /\ \A u \in User : p[u] = link[u] \/ p[u] \in BookingsToRestore(u)
         /\ SaveNext(t, {u \in User : p[u] # link[u]}, p)
  BY DEF RestoreBookings
<1>2. ASSUME NEW u \in User, p[u] # None PROVE p[u] \in Booking /\ UserOf(p[u]) = u
  <2>1. CASE p[u] = link[u]
    BY <1>2, <2>1 DEF IInv, TypeOK, OrNone, OwnBooking
  <2>2. CASE p[u] \in BookingsToRestore(u)
    <3>1. p[u] \in Booking /\ owner[p[u]] = u /\ owner[p[u]] \in {None, UserOf(p[u])}
      BY <2>2 DEF BookingsToRestore, IInv
    <3>2. QED
      BY <3>1, DeskFacts
  <2>3. QED
    BY <1>1, <2>1, <2>2
<1>3. ASSUME NEW u \in User, IsPass(p[u]) PROVE Exists(p[u])
  <2>1. CASE p[u] = link[u]
    BY <1>3, <2>1 DEF IInv, PassLinkIsLive, IsPass
  <2>2. CASE p[u] \in BookingsToRestore(u)
    BY <2>2, DeskFacts DEF BookingsToRestore, Exists
  <2>3. QED
    BY <1>1, <2>1, <2>2
<1>4. QED
  BY <1>1, <1>2, <1>3, ManyUsersStep DEF RestoreBookings, Asks

LEMMA RestoreBookingsStep ==
    ASSUME IInv, TypeOK', NEW t \in Request, RestoreBookings(t)
    PROVE  IInv'
  BY FailStep, RestorePlanStep

LEMMA UnlinkUnpaidStep ==
    ASSUME IInv, TypeOK', NEW t \in Request, UnlinkUnpaid(t)
    PROVE  IInv'
<1>1. PICK T, p : /\ \A u \in User : p[u] \in {None, link[u]}
                  /\ SaveNext(t, T, p)
  <2> DEFINE null(u) == link[u] # None /\ ~ Exists(link[u])
             unpaid(u) == link[u] # None /\ status[link[u]] = "in_progress"
             T == {u \in User : null(u) \/ unpaid(u)}
             p == [u \in User |-> IF null(u) THEN link[u] ELSE None]
  <2>1. \A u \in User : p[u] \in {None, link[u]}
    OBVIOUS
  <2>2. SaveNext(t, T, p)
    BY DEF UnlinkUnpaid
  <2> HIDE DEF p, T
  <2>3. QED
    BY <2>1, <2>2
<1>2. ASSUME NEW u \in User, p[u] # None PROVE p[u] \in Booking /\ UserOf(p[u]) = u
  BY <1>1, <1>2 DEF IInv, TypeOK, OrNone, OwnBooking
<1>3. ASSUME NEW u \in User, IsPass(p[u]) PROVE Exists(p[u])
  BY <1>1, <1>3 DEF IInv, PassLinkIsLive, IsPass
<1>4. QED
  BY <1>1, <1>2, <1>3, ManyUsersStep DEF UnlinkUnpaid, Asks

LEMMA SaveUserStep ==
    ASSUME IInv, TypeOK', NEW t \in Request, SaveUser(t)
    PROVE  IInv'
<1>1. ASSUME NEW u \in todo[t], UserSaved(t, u) PROVE IInv'
  <2>1. TypeOK /\ RequestInv(t) /\ AttemptInv(t)
    BY DEF IInv
  <2>2. u \in User /\ u \in Doc /\ t \in Txn
    BY <2>1, DeskFacts DEF TypeOK
  <2>3. TxnInv'
    BY <1>1, <2>2, TxnInvFacts, HoldDocInv DEF UserSaved
  <2>4. /\ plan'[t] = plan[t] /\ todo'[t] = todo[t] \ {u} /\ UNCHANGED <<ask, owner>>
    BY <1>1, <2>1 DEF UserSaved, SaveNext, TypeOK, dbVars
  <2>5. /\ held'[t] = held[t] \cup {u} /\ UNCHANGED <<open, missed, mem>>
        /\ \A v \in Request \ {t} : held'[v] = held[v]
    BY <1>1, <2>1, <2>2 DEF UserSaved, HoldDoc, TypeOK, TxnTypeOK
  <2>6. t \in open
    BY <1>1 DEF UserSaved
  <2>7. AttemptInv(t)'
    BY <2>1, <2>2, <2>4, <2>5
    DEF AttemptInv, Asks, Actor, OwnOrNone, UserOf, IsPass, Kind, Exists
  <2>8. open' = open \cup {t} /\ OwnOrNone(Actor(t), mem'[t].booking)
    BY <2>1, <2>5, <2>6 DEF RequestInv
  <2>9. QED
    BY <1>1, <2>3, <2>5, <2>7, <2>8, SaveNextStep DEF UserSaved
<1>2. QED
  BY <1>1, SaveUserCases, RunAgainStep DEF RunAgain

LEMMA InitializeBuilderStep ==
    ASSUME IInv, TypeOK', NEW t \in Request, InitializeBuilder(t)
    PROVE  IInv'
<1>1. CASE Fail(t)
  BY <1>1, FailStep
<1>2. CASE Initialized(t)
  <2>1. TypeOK /\ RequestInv(t) /\ AttemptInv(t)
    BY DEF IInv
  <2>2. TxnInv'
    BY <1>2, DeskFacts, TxnInvFacts, TakeSnapshotInv DEF Initialized
  <2>3. pc'[t] = "roommates" /\ \A u \in Request \ {t} : pc'[u] = pc[u]
    BY <1>2, <2>1 DEF Initialized, TypeOK
  <2>4. /\ UNCHANGED <<dbVars, link, owner, mem, using, plan, todo, ask, held, missed>>
        /\ open' = open \cup {t}
    BY <1>2 DEF Initialized, TakeSnapshot, dbVars
  <2>5. RequestInv(t)'
    BY <1>2, <2>1, <2>3, <2>4
    DEF Initialized, RequestInv, InBuilder, Answered, OwnOrNone, UserOf, Actor, Asks, OfOneRequest
  <2>6. AttemptInv(t)'
    BY <1>2, <2>1, <2>3, <2>4
    DEF Initialized, AttemptInv, Asks, Actor, OwnOrNone, UserOf, IsPass, Kind
  <2>7. BuilderInv'
    BY <1>2, <2>4, DeskFacts DEF Initialized, BuilderInv, OfOneRequest, NoBuilder, Asks
  <2>8. QED
    BY <2>2, <2>3, <2>4, <2>5, <2>6, <2>7, LocalStep
<1>3. QED
  BY <1>1, <1>2, InitializeCases

LEMMA CheckRoommatesStep ==
    ASSUME IInv, TypeOK', NEW t \in Request, CheckRoommates(t)
    PROVE  IInv'
<1>1. CASE RoommatesFree(t)
  <2>1. TypeOK /\ RequestInv(t) /\ AttemptInv(t) /\ BuilderInv
    BY DEF IInv
  <2>2. TxnInv'
    BY <1>1, TxnInvFacts, TxnStutterInv DEF RoommatesFree
  <2>3. /\ pc[t] = "roommates" /\ pc'[t] = "room"
        /\ \A u \in Request \ {t} : pc'[u] = pc[u] /\ using'[u] = using[u]
    BY <1>1, <2>1 DEF RoommatesFree, TypeOK
  <2>4. using'[t].of = builder /\ using'[t].mode = "outside"
    BY <1>1, <2>1 DEF RoommatesFree, TypeOK, NoUse
  <2>5. UNCHANGED <<dbVars, link, owner, mem, builder, plan, todo, ask, open, held, missed>>
    BY <1>1 DEF RoommatesFree, dbVars, memVars, attemptVars, txnVars
  <2>6. RequestInv(t)'
    BY <2>1, <2>3, <2>4, <2>5
    DEF RequestInv, BuilderInv, InBuilder, Answered, OwnOrNone, UserOf, Actor, Asks, OfOneRequest
  <2>7. AttemptInv(t)'
    BY <2>1, <2>3, <2>5 DEF AttemptInv, Asks, Actor, OwnOrNone, UserOf, IsPass, Kind, Exists
  <2>8. BuilderInv'
    BY <2>1, <2>3, <2>5 DEF BuilderInv, InBuilder, OfOneRequest, Asks
  <2>9. QED
    BY <2>2, <2>3, <2>5, <2>6, <2>7, <2>8, LocalStep
<1>2. QED
  BY <1>1, CheckRoommatesCases, FailStep, RunAgainStep DEF RunAgain

\* What the transaction of a request for a room is going to write.
LEMMA RoomAttempt ==
    ASSUME IInv, NEW u \in Request, Asks(u, "room"), UNCHANGED ask,
           held'[u] \subseteq held[u] \cup User,
           \A w \in User : plan'[u][w] \in {plan[u][w], u} /\ (plan'[u][w] = u => w = Actor(u))
    PROVE  AttemptInv(u)'
<1>1. TypeOK /\ AttemptInv(u)
  BY DEF IInv
<1>2. UserOf(u) = Actor(u) /\ ~ IsPass(u)
  BY <1>1, MadeFacts DEF Asks
<1>3. QED
  BY <1>1, <1>2 DEF AttemptInv, Asks, Actor, OwnOrNone, UserOf, IsPass, Kind

\* The booking of the builder is given to its user in memory, before it is saved: each
\* request for a room has its own.
LEMMA SentRequests ==
    ASSUME IInv, NEW t \in Request, NEW p \in {"get", "link"}, Asks(t, "room"),
           pc[t] \in InBuilder, SaveSent(t, p), UNCHANGED open,
           \A u \in Request :
               \/ mem'[u] = mem[u]
               \/ Asks(u, "room") /\ mem'[u].booking = u
    PROVE  \A u \in Request : RequestInv(u)'
<1>1. TypeOK /\ ask' = ask
  BY DEF IInv, SaveSent
<1>2. ASSUME NEW u \in Request PROVE RequestInv(u)'
  <2>1. RequestInv(u) /\ RequestInv(t)
    BY DEF IInv
  <2>2. OfOneRequest(using'[u].of) /\ (using'[u].mode = "within" => using'[u].of.session \in open')
    BY <2>1 DEF SaveSent, RequestInv
  <2>3. OfOneRequest(using[u].of)'
    BY <1>1, <2>2 DEF OfOneRequest, Asks
  <2>4. /\ OwnOrNone(Actor(u), mem'[u].booking)
        /\ mem'[u].unsaved => mem'[u].booking = u /\ Asks(u, "room")
    BY <1>1, <2>1, MadeFacts DEF RequestInv, OwnOrNone
  <2>5. CASE u = t
    BY <1>1, <2>1, <2>2, <2>3, <2>4, <2>5
    DEF SaveSent, RequestInv, InBuilder, Answered, Asks, Actor, OwnOrNone, UserOf
  <2>6. CASE u # t
    BY <1>1, <2>1, <2>2, <2>3, <2>4, <2>6
    DEF SaveSent, RequestInv, Asks, Actor, OwnOrNone, UserOf
  <2>7. QED
    BY <2>5, <2>6
<1>3. QED
  BY <1>2

LEMMA SentAttempts ==
    ASSUME IInv, NEW t \in Request, NEW p \in {"get", "link"}, Asks(t, "room"),
           SaveSent(t, p), UNCHANGED <<open, held, missed, owner, plan, todo>>
    PROVE  \A u \in Request : AttemptInv(u)'
<1>1. ask' = ask /\ \A u \in Request \ {t} : pc'[u] = pc[u]
  BY DEF SaveSent
<1>2. \A b \in Booking : Exists(b) => Exists(b)'
  BY DEF Exists
<1>3. ASSUME NEW u \in Request \ {t} PROVE AttemptInv(u)'
  BY <1>1, <1>2, OtherAttempt
<1>4. AttemptInv(t)'
  <2>1. \A w \in User : plan[t][w] = t => w = Actor(t)
    BY MadeFacts, DeskFacts DEF IInv, AttemptInv, OwnOrNone
  <2>2. QED
    BY <1>1, <2>1, RoomAttempt
<1>5. QED
  BY <1>3, <1>4

LEMMA CreateRoomBookingStep ==
    ASSUME IInv, TypeOK', NEW t \in Request, CreateRoomBooking(t)
    PROVE  IInv'
<1>1. CASE RoomCreated(t)
  <2>1. /\ pc[t] \in InBuilder /\ SaveSent(t, "get")
        /\ UNCHANGED <<txnVars, open, held, missed, link, owner, plan, todo, builder, mem, ask>>
    BY <1>1 DEF RoomCreated, InBuilder, txnVars, dbVars, attemptVars, SaveSent
  <2>2. Asks(t, "room") /\ BuilderInv
    BY <2>1 DEF IInv, RequestInv
  <2>3. \A u \in Request : RequestInv(u)' /\ AttemptInv(u)'
    BY <2>1, <2>2, SentRequests, SentAttempts
  <2>4. BuilderInv'
    BY <2>1, <2>2 DEF BuilderInv, OfOneRequest, Asks
  <2>5. TxnInv'
    BY <2>1, TxnInvFacts, TxnStutterInv
  <2>6. QED
    BY <2>1, <2>3, <2>4, <2>5, SameDocuments
<1>2. QED
  BY <1>1, CreateRoomBookingCases, FailStep

LEMMA GetBookingStep ==
    ASSUME IInv, TypeOK', NEW t \in Request, GetBooking(t)
    PROVE  IInv'
<1>1. CASE BookingSaved(t)
  <2>1. /\ pc[t] \in InBuilder /\ UserSent(t) /\ SaveSent(t, "link")
        /\ UNCHANGED <<txnVars, open, held, missed, link, owner, plan, todo, builder, ask>>
    BY <1>1 DEF BookingSaved, UserSent, InBuilder, txnVars, SaveSent
  <2>2. TypeOK /\ Asks(t, "room") /\ BuilderInv
    BY <2>1 DEF IInv, RequestInv
  <2>3. ASSUME NEW u \in Request
        PROVE  mem'[u] = mem[u] \/ (Asks(u, "room") /\ mem'[u].booking = u)
    <3> DEFINE given == [Nothing EXCEPT !.booking = builder.user, !.unsaved = TRUE]
    <3>1. given.booking = builder.user
      BY DEF Nothing
    <3> HIDE DEF given
    <3>2. \/ UNCHANGED mem
          \/ mem' = [mem EXCEPT ![builder.user] = given]
      BY <2>1 DEF UserSent, given
    <3>3. Asks(builder.user, "room") /\ mem \in [Request -> Memory]
      BY <2>1, <2>2 DEF UserSent, TypeOK
    <3>4. CASE mem' = [mem EXCEPT ![builder.user] = given]
      <4>1. mem'[u] = IF u = builder.user THEN given ELSE mem[u]
        BY <3>3, <3>4
      <4>2. QED
        BY <3>1, <3>3, <4>1
    <3>5. QED
      BY <3>2, <3>4
  <2>4. \A u \in Request : RequestInv(u)' /\ AttemptInv(u)'
    BY <2>1, <2>2, <2>3, SentRequests, SentAttempts
  <2>5. BuilderInv'
    BY <2>1, <2>2 DEF BuilderInv, OfOneRequest, Asks
  <2>6. TxnInv'
    BY <2>1, TxnInvFacts, TxnStutterInv
  <2>7. QED
    BY <2>1, <2>4, <2>5, <2>6, SameDocuments
<1>2. QED
  BY <1>1, GetBookingCases, FailStep, RunAgainStep DEF RunAgain

\* get() returns: the request leaves the builder.
LEMMA LeftRequests ==
    ASSUME IInv, NEW t \in Request, Asks(t, "room"), TypeOK', LeaveBuilder(t), pc[t] = "link",
           UNCHANGED <<using, open>>,
           \A u \in Request :
               /\ mem'[u].booking = mem[u].booking
               /\ mem'[u].unsaved => mem[u].unsaved
    PROVE  BuilderInv' /\ \A u \in Request : RequestInv(u)'
<1>1. TypeOK /\ BuilderInv /\ UNCHANGED <<ask, builder>>
  BY DEF IInv, LeaveBuilder
<1>2. pc'[t] = "commit" /\ \A u \in Request \ {t} : pc'[u] = pc[u]
  BY <1>1 DEF LeaveBuilder, TypeOK
<1>3. BuilderInv'
  BY <1>1, <1>2 DEF BuilderInv, InBuilder, OfOneRequest, Asks
<1>4. ASSUME NEW u \in Request PROVE RequestInv(u)'
  <2>1. RequestInv(u)
    BY DEF IInv
  <2>2. OfOneRequest(using[u].of)'
    BY <1>1, <2>1 DEF RequestInv, OfOneRequest, Asks
  <2>3. QED
    BY <1>1, <1>2, <2>1, <2>2
    DEF RequestInv, InBuilder, Answered, Asks, Actor, OwnOrNone, UserOf
<1>5. QED
  BY <1>3, <1>4

\* The attempt of another request in the meantime, if some have missed a write.
LEMMA LeftAttempt ==
    ASSUME IInv, NEW t \in Request, LeaveBuilder(t), NEW u \in Request,
           u # t \/ Asks(t, "room"),
           plan'[u] = plan[u], todo'[u] = todo[u], held'[u] = held[u],
           UNCHANGED <<open, owner>>, u \in open => missed[u] \subseteq missed'[u]
    PROVE  AttemptInv(u)'
<1>1. TypeOK /\ ask' = ask
  BY DEF IInv, LeaveBuilder
<1>2. CASE u # t
  <2>1. pc'[u] = pc[u]
    BY <1>1, <1>2 DEF LeaveBuilder, TypeOK
  <2>2. \A b \in Booking : Exists(b) => Exists(b)'
    BY DEF Exists
  <2>3. QED
    BY <1>1, <2>1, <2>2, OtherAttempt
<1>3. CASE u = t
  <2>1. \A w \in User : plan[t][w] = t => w = Actor(t)
    BY MadeFacts, DeskFacts DEF IInv, AttemptInv, OwnOrNone
  <2>2. QED
    BY <1>1, <1>3, <2>1, RoomAttempt
<1>4. QED
  BY <1>2, <1>3

\* What is saved is the user's own booking, with a room and thus no pass.
LEMMA LinkUserStep ==
    ASSUME IInv, TypeOK', NEW t \in Request, LinkUser(t)
    PROVE  IInv'
<1>1. TypeOK /\ pc[t] = "link" /\ Asks(t, "room")
  BY DEF LinkUser, IInv, RequestInv, InBuilder
<1>2. CASE NothingToLink(t)
  <2>1. LeaveBuilder(t) /\ UNCHANGED <<txnVars, open, held, missed, link, owner, mem, using, plan, todo, ask>>
    BY <1>2 DEF NothingToLink, LeaveBuilder, txnVars, dbVars, attemptVars
  <2>2. BuilderInv' /\ \A u \in Request : RequestInv(u)' /\ AttemptInv(u)'
    BY <1>1, <2>1, LeftRequests, LeftAttempt
  <2>3. QED
    BY <2>1, <2>2, TxnInvFacts, TxnStutterInv, SameDocuments
<1>3. ASSUME NEW v \in Request, Asks(v, "room"), Actor(v) \in User, Actor(v) \in Doc,
             mem[v].unsaved, mem' = [mem EXCEPT ![v].unsaved = FALSE]
      PROVE  /\ mem[v].booking = v
             /\ UserOf(v) = Actor(v) /\ ~ IsPass(v) /\ v # None
             /\ \A u \in Request : /\ mem'[u].booking = mem[u].booking
                                   /\ mem'[u].unsaved => mem[u].unsaved
  <2>1. mem \in [Request -> Memory] /\ mem[v] \in Memory
    BY <1>1 DEF TypeOK
  <2>2. /\ mem'[v] = [mem[v] EXCEPT !.unsaved = FALSE]
        /\ \A u \in Request \ {v} : mem'[u] = mem[u]
    BY <1>3, <2>1
  <2>3. mem'[v].booking = mem[v].booking /\ mem'[v].unsaved = FALSE
    BY <2>1, <2>2 DEF Memory
  <2>4. mem[v].booking = v
    BY <1>3 DEF IInv, RequestInv
  <2>5. UserOf(v) = Actor(v) /\ ~ IsPass(v) /\ v # None
    BY <1>1, <1>3, MadeFacts, DeskFacts DEF Asks
  <2>6. QED
    BY <2>2, <2>3, <2>4, <2>5
<1>4. ASSUME NEW v \in Request, Asks(v, "room"), Actor(v) \in User, Actor(v) \in Doc, LinkedWithin(t, v)
      PROVE  IInv'
  <2>1. /\ LeaveBuilder(t) /\ HoldDoc(v, Actor(v))
        /\ UNCHANGED <<link, owner, using, todo, open, missed, ask>>
        /\ mem[v].unsaved /\ mem' = [mem EXCEPT ![v].unsaved = FALSE]
        /\ plan' = [plan EXCEPT ![v][Actor(v)] = mem[v].booking]
    BY <1>4 DEF LinkedWithin, LeaveBuilder, HoldDoc, dbVars
  <2>2. v \in open /\ v \in Txn
    BY <1>4, DeskFacts DEF LinkedWithin, IInv, RequestInv
  <2>3. TxnInv'
    BY <1>4, <2>1, <2>2, TxnInvFacts, HoldDocInv
  <2>4. /\ mem[v].booking = v
        /\ \A u \in Request : /\ mem'[u].booking = mem[u].booking
                              /\ mem'[u].unsaved => mem[u].unsaved
    BY <1>3, <1>4, <2>1
  <2>5. BuilderInv' /\ \A u \in Request : RequestInv(u)'
    BY <1>1, <2>1, <2>4, LeftRequests
  <2>6. /\ held'[v] \subseteq held[v] \cup User
        /\ \A u \in Request \ {v} : held'[u] = held[u]
    BY <1>1, <1>4, <2>1, <2>2 DEF HoldDoc, TypeOK, TxnTypeOK
  <2>7. /\ \A u \in Request \ {v} : plan'[u] = plan[u]
        /\ \A w \in User : plan'[v][w] = IF w = Actor(v) THEN v ELSE plan[v][w]
    <3>1. plan \in [Request -> [User -> OrNone(Booking)]] /\ plan[v] \in [User -> OrNone(Booking)]
      BY <1>1 DEF TypeOK
    <3>2. QED
      BY <1>4, <2>1, <2>4, <3>1
  <2>8. AttemptInv(v)'
    <3>1. \A w \in User : plan[v][w] = v => w = Actor(v)
      BY <1>1, MadeFacts, DeskFacts DEF IInv, AttemptInv, OwnOrNone
    <3>2. QED
      BY <1>4, <2>1, <2>6, <2>7, <3>1, RoomAttempt
  <2>9. ASSUME NEW u \in Request \ {v} PROVE AttemptInv(u)'
    BY <1>1, <2>1, <2>6, <2>7, LeftAttempt
  <2>10. QED
    BY <2>1, <2>3, <2>5, <2>8, <2>9, SameDocuments
<1>5. ASSUME NEW v \in Request, Asks(v, "room"), Actor(v) \in User, Actor(v) \in Doc, LinkedNow(t, v)
      PROVE  IInv'
  <2>1. /\ LeaveBuilder(t) /\ WriteNow(Actor(v))
        /\ UNCHANGED <<owner, using, plan, todo, open, held, ask>>
        /\ mem[v].unsaved /\ mem' = [mem EXCEPT ![v].unsaved = FALSE]
        /\ link' = [link EXCEPT ![Actor(v)] = mem[v].booking]
    BY <1>5 DEF LinkedNow, LeaveBuilder, WriteNow, attemptVars
  <2>2. TxnInv'
    BY <1>5, <2>1, TxnInvFacts, WriteNowInv
  <2>3. /\ mem[v].booking = v /\ UserOf(v) = Actor(v) /\ ~ IsPass(v) /\ v # None
        /\ \A u \in Request : /\ mem'[u].booking = mem[u].booking
                              /\ mem'[u].unsaved => mem[u].unsaved
    BY <1>3, <1>5, <2>1
  <2>4. BuilderInv' /\ \A u \in Request : RequestInv(u)'
    BY <1>1, <2>1, <2>3, LeftRequests
  <2>5. ASSUME NEW u \in Request PROVE AttemptInv(u)'
    <3>1. u \in open => missed[u] \subseteq missed'[u]
      BY <2>1, DeskFacts DEF WriteNow
    <3>2. QED
      BY <1>1, <2>1, <3>1, LeftAttempt
  <2>6. \A u \in User : link'[u] = IF u = Actor(v) THEN v ELSE link[u]
    BY <1>1, <2>1, <2>3 DEF TypeOK
  <2>7. OwnBooking'
    BY <2>1, <2>3, <2>6 DEF IInv, OwnBooking, UserOf, Actor
  <2>8. PassLinkIsLive'
    BY <2>1, <2>3, <2>6 DEF IInv, PassLinkIsLive, IsPass, Kind, Asks, Exists
  <2>9. \A b \in Booking : owner'[b] \in {None, UserOf(b)'}
    BY <2>1 DEF IInv, UserOf, Actor
  <2>10. QED
    BY <2>2, <2>4, <2>5, <2>7, <2>8, <2>9 DEF IInv, TxnInv
<1>6. QED
  BY <1>2, <1>4, <1>5, LinkUserCases, FailStep, RunAgainStep

\* A commit that deletes a booking is that of a cancellation, and changes the link of
\* the booking's user with it.
LEMMA DeletedWithLink ==
    ASSUME IInv, NEW t \in Request, Committed(t), NEW b \in held[t] \cap Booking
    PROVE  /\ Asks(t, "cancel")
           /\ UserOf(b) = Actor(t) /\ Actor(t) \in held[t] /\ Actor(t) \in User
           /\ \A u \in User : plan[t][u] = None
<1>1. TypeOK /\ AttemptInv(t)
  BY DEF IInv
<1>2. b \notin User
  BY DeskFacts
<1>3. Asks(t, "cancel")
  BY <1>1, <1>2 DEF AttemptInv
<1>4. Actor(t) \in User
  BY <1>1, <1>3, AskFacts DEF Asks
<1>5. QED
  BY <1>1, <1>2, <1>3, <1>4 DEF AttemptInv, Committed, Everyone

LEMMA CommitStep ==
    ASSUME IInv, TypeOK', NEW t \in Request, Commit(t)
    PROVE  IInv'
<1>1. CASE Fail(t) \/ RunAgain(t)
  BY <1>1, FailStep, RunAgainStep DEF RunAgain
<1>2. CASE Committed(t)
  <2>1. /\ TypeOK /\ OneWriter /\ RequestInv(t) /\ AttemptInv(t) /\ BuilderInv
        /\ OwnBooking /\ PassLinkIsLive
        /\ \A b \in Booking : owner[b] \in {None, UserOf(b)}
    BY DEF IInv
  <2>2. TxnInv'
    BY <1>2, DeskFacts, TxnInvFacts, CommitTxnInv DEF Committed
  <2>3. UNCHANGED <<ask, builder, mem>>
    BY <1>2 DEF Committed, memVars
  <2>4. /\ open' = open \ {t}
        /\ \A u \in Request : held'[u] = IF u = t THEN {} ELSE held[u]
        /\ \A u \in Request : u \in open' => missed'[u] = missed[u] \cup held[t]
    BY <1>2, <2>1, DeskFacts DEF Committed, CommitTxn, TypeOK, TxnTypeOK
  <2>5. pc'[t] = "done" /\ \A u \in Request \ {t} : pc'[u] = pc[u]
    BY <1>2, <2>1 DEF Committed, TypeOK
  <2>6. /\ plan'[t] = Everyone(None) /\ todo'[t] = {}
        /\ \A u \in Request \ {t} : plan'[u] = plan[u] /\ todo'[u] = todo[u]
    BY <1>2, <2>1 DEF Committed, EndAttempt, TypeOK
  <2>7. using'[t] = NoUse /\ \A u \in Request \ {t} : using'[u] = Over({t})[u]
    BY <1>2, <2>1, OverType DEF Committed
  <2>8. /\ \A u \in User : link'[u] = IF u \in held[t] THEN plan[t][u] ELSE link[u]
        /\ \A b \in Booking : owner'[b] = IF b \in held[t] THEN None
              ELSE IF b = t /\ ask[t].op \in {"pass", "room"} THEN Actor(t) ELSE owner[b]
    BY <1>2 DEF Committed
  <2>9. ASSUME NEW u \in Request PROVE RequestInv(u)'
    <3>1. CASE u = t
      BY <2>1, <2>3, <2>4, <2>5, <2>7, <3>1
      DEF RequestInv, InBuilder, Answered, Asks, Actor, OwnOrNone, UserOf, OfOneRequest, NoUse
    <3>2. CASE u # t
      <4>1. RequestInv(u)
        BY DEF IInv
      <4>2. /\ Over({t})[u].of = using[u].of
            /\ Over({t})[u].mode = "within" =>
                  using[u].mode = "within" /\ using[u].of.session \notin {t}
        BY <2>1, OverType
      <4>3. /\ OfOneRequest(using'[u].of)
            /\ pc[u] \in {"get", "link"} => using'[u].of # NoBuilder
            /\ using'[u].mode = "within" => using'[u].of.session \in open'
        BY <2>4, <2>7, <3>2, <4>1, <4>2 DEF RequestInv
      <4>4. QED
        BY <2>3, <2>4, <2>5, <3>2, <4>3, OtherRequest
    <3>3. QED
      BY <3>1, <3>2
  <2>10. ASSUME NEW b \in Booking, Exists(b)
         PROVE  Exists(b)' \/ (b \in held[t] /\ UserOf(b) \in held[t])
    <3>1. CASE b \in held[t]
      BY <1>2, <3>1, DeletedWithLink
    <3>2. CASE b \notin held[t]
      <4>1. b = t /\ ask[t].op \in {"pass", "room"} => Actor(t) # None
        BY <2>1, AskFacts, DeskFacts
      <4>2. QED
        BY <2>8, <2>10, <3>2, <4>1 DEF Exists
    <3>3. QED
      BY <3>1, <3>2
  <2>11. ASSUME NEW u \in Request PROVE AttemptInv(u)'
    <3>1. CASE u = t
      <4>1. \A v \in User : plan'[t][v] = None
        BY <2>6 DEF Everyone
      <4>2. QED
        BY <2>4, <2>6, <3>1, <4>1 DEF AttemptInv, OwnOrNone, IsPass
    <3>2. CASE u # t
      BY <2>3, <2>4, <2>5, <2>6, <2>10, <3>2, OtherAttempt
    <3>3. QED
      BY <3>1, <3>2
  <2>12. BuilderInv'
    BY <2>1, <2>3, <2>5 DEF BuilderInv, InBuilder, OfOneRequest, Asks
  <2>13. ASSUME NEW b \in Booking PROVE owner'[b] \in {None, UserOf(b)'}
    <3>1. UserOf(b)' = UserOf(b) /\ UserOf(t) = Actor(t)
      BY <2>1, <2>3, MadeFacts DEF UserOf, Actor
    <3>2. QED
      BY <2>1, <2>8, <3>1
  <2>14. ASSUME NEW u \in User, link'[u] # None PROVE UserOf(link'[u]) = u
    BY <2>1, <2>8, <2>14 DEF AttemptInv, OwnOrNone, OwnBooking
  <2>15. OwnBooking'
    BY <2>3, <2>14 DEF OwnBooking, UserOf, Actor
  <2>16. ASSUME NEW u \in User, IsPass(link'[u]) PROVE owner'[link'[u]] # None
    <3>1. link'[u] \in Booking /\ UserOf(link'[u]) = u
      BY <2>14, <2>16 DEF TypeOK, OrNone, IsPass
    <3>2. CASE u \notin held[t]
      <4>1. Exists(link'[u])
        BY <2>1, <2>8, <2>16, <3>2 DEF PassLinkIsLive, IsPass
      <4>2. QED
        BY <2>10, <3>1, <3>2, <4>1 DEF Exists
    <3>3. CASE u \in held[t]
      <4>1. link'[u] = plan[t][u] /\ u \notin missed[t]
        BY <2>1, <2>8, <3>3, DeskFacts DEF OneWriter
      <4>2. ask[t].op \in {"pass", "restore", "cron"}
        BY <1>2, <2>1, <2>16, <4>1, AskFacts DEF AttemptInv, Asks, Everyone, IsPass
      <4>3. link'[u] \notin held[t]
        BY <2>1, <3>1, <4>2, DeskFacts DEF AttemptInv, Asks
      <4>4. CASE Asks(t, "pass")
        <5>1. link'[u] = t /\ Actor(t) \in User
          BY <2>1, <2>16, <4>1, <4>4, AskFacts DEF AttemptInv, IsPass, Asks
        <5>2. QED
          BY <2>8, <3>1, <4>3, <4>4, <5>1, DeskFacts DEF Asks
      <4>5. CASE ask[t].op \in {"restore", "cron"}
        <5>1. Exists(link'[u])
          BY <1>2, <2>1, <2>16, <4>1, <4>5 DEF AttemptInv, Committed
        <5>2. QED
          BY <2>8, <3>1, <4>3, <4>5, <5>1 DEF Exists
      <4>6. QED
        BY <4>2, <4>4, <4>5 DEF Asks
    <3>4. QED
      BY <3>2, <3>3
  <2>17. PassLinkIsLive'
    BY <2>3, <2>16 DEF PassLinkIsLive, IsPass, Kind, Asks, Exists
  <2>18. QED
    BY <2>2, <2>9, <2>11, <2>12, <2>13, <2>15, <2>17 DEF IInv, TxnInv
<1>3. QED
  BY <1>1, <1>2, CommitCases

LEMMA CompleteBookingStep ==
    ASSUME IInv, TypeOK', NEW b \in Booking, CompleteBooking(b)
    PROVE  IInv'
<1>1. /\ UNCHANGED <<link, owner, ask, pc, mem, builder, using, plan, todo, open, held>>
      /\ \A u \in Request : u \in open => missed[u] \subseteq missed'[u]
  BY DeskFacts DEF CompleteBooking, WriteNow, memVars, attemptVars
<1>2. TxnInv'
  BY DeskFacts, TxnInvFacts, WriteNowInv DEF CompleteBooking
<1>3. ASSUME NEW u \in Request PROVE RequestInv(u)'
  <2>1. RequestInv(u)
    BY DEF IInv
  <2>2. QED
    BY <1>1, <2>1, OtherRequest DEF RequestInv
<1>4. ASSUME NEW u \in Request PROVE AttemptInv(u)'
  <2>1. \A c \in Booking : Exists(c) => Exists(c)'
    BY <1>1 DEF Exists
  <2>2. QED
    BY <1>1, <2>1, OtherAttempt
<1>5. BuilderInv'
  BY <1>1 DEF IInv, BuilderInv, OfOneRequest, Asks
<1>6. QED
  BY <1>1, <1>2, <1>3, <1>4, <1>5, SameDocuments

LEMMA ExpireStep ==
    ASSUME IInv, TypeOK', NEW s \in Request, Expire(s)
    PROVE  IInv'
<1>1. TypeOK /\ UNCHANGED <<link, owner, ask, pc, mem, builder, plan, todo>>
  BY DEF IInv, Expire, dbVars, memVars, attemptVars
<1>2. /\ open' = open \ {s}
      /\ \A u \in Request : /\ held'[u] \subseteq held[u]
                            /\ u \in open' => held'[u] = held[u] /\ missed'[u] = missed[u]
  BY <1>1, DeskFacts DEF Expire, AbortTxns, TypeOK, TxnTypeOK
<1>3. TxnInv'
  BY TxnInvFacts, AbortTxnsInv DEF Expire
<1>4. ASSUME NEW u \in Request PROVE RequestInv(u)'
  <2>1. RequestInv(u)
    BY DEF IInv
  <2>2. /\ using'[u].of = using[u].of
        /\ using'[u].mode = "within" =>
              using[u].mode = "within" /\ using[u].of.session \notin {s}
    BY <1>1, OverType DEF Expire
  <2>3. QED
    BY <1>1, <1>2, <2>1, <2>2, OtherRequest DEF RequestInv
<1>5. ASSUME NEW u \in Request PROVE AttemptInv(u)'
  <2>1. \A c \in Booking : Exists(c) => Exists(c)'
    BY <1>1 DEF Exists
  <2>2. QED
    BY <1>1, <1>2, <2>1, OtherAttempt
<1>6. BuilderInv'
  BY <1>1 DEF IInv, BuilderInv, OfOneRequest, Asks
<1>7. QED
  BY <1>1, <1>3, <1>4, <1>5, <1>6, SameDocuments

LEMMA CrashStep ==
    ASSUME IInv, TypeOK', Crash
    PROVE  IInv'
<1> DEFINE lost == {t \in Request : pc[t] \notin Answered \cup {"new"}}
<1>1. /\ AbortTxns(lost)
      /\ pc' = [t \in Request |-> IF t \in lost THEN "lost" ELSE pc[t]]
      /\ builder' = NoBuilder /\ UNCHANGED <<dbVars, link, owner, ask>>
  BY DEF Crash, dbVars
<1>2. TypeOK /\ TxnInv'
  BY <1>1, TxnInvFacts, AbortTxnsInv DEF IInv
<1>3. \A t \in Request : pc'[t] \in Answered \/ (pc'[t] = "new" /\ pc[t] = "new")
  BY <1>1 DEF Answered
<1>4. \A t \in Request : t \notin open'
  BY <1>1 DEF AbortTxns, IInv, RequestInv
<1>5. ASSUME NEW t \in Request PROVE (RequestInv(t) /\ AttemptInv(t))'
  <2>1. held'[t] = {}
    BY <1>2, <1>4, DeskFacts DEF TxnInv, OneWriter
  <2>2. pc'[t] \notin InBuilder /\ (pc'[t] = "new" => Actor(t)' # None)
    BY <1>1, <1>3 DEF InBuilder, Answered, IInv, RequestInv, Actor
  <2>3. mem'[t] = Nothing /\ using'[t] = NoUse /\ plan'[t] = Everyone(None) /\ todo'[t] = {}
    BY DEF Crash, Each
  <2>4. RequestInv(t)'
    BY <1>4, <2>2, <2>3 DEF RequestInv, InBuilder, OfOneRequest, OwnOrNone, Nothing, NoUse
  <2>5. \A u \in User : plan'[t][u] = None
    BY <2>3 DEF Everyone
  <2>6. AttemptInv(t)'
    BY <1>4, <2>1, <2>3, <2>5 DEF AttemptInv, OwnOrNone, IsPass
  <2>7. QED
    BY <2>4, <2>6
<1>6. BuilderInv'
  BY <1>1, <1>3 DEF BuilderInv, InBuilder, Answered, OfOneRequest
<1>7. QED
  BY <1>1, <1>2, <1>5, <1>6, SameDocuments

LEMMA InitIInv == Init => IInv
<1> SUFFICES ASSUME Init PROVE IInv
  OBVIOUS
<1>1. TxnInv
  BY TxnInitInv DEF Init
<1>2. link \in [User -> OrNone(Booking)] /\ OwnBooking
  <2>1. \A u \in User : link[u] # None => link[u] \in Prior /\ PriorOwner[link[u]] = u
    BY DEF Init, OrNone
  <2>2. QED
    BY <2>1 DEF Init, OrNone, Booking, OwnBooking, UserOf
<1>3. \A b \in Prior : PriorOwner[b] \in User
  BY DeskAssumption
<1>4. /\ owner \in [Booking -> OrNone(User)]
      /\ \A b \in Booking : owner[b] \in {None, UserOf(b)}
  BY <1>3 DEF Init, OrNone, UserOf
<1>5. TypeOK
  <2>1. retries \in [Request -> 0..MaxRetries]
    BY DeskAssumption DEF Init, Each
  <2>2. pc \in [Request -> PC]
    BY DEF Init, PC
  <2>3. status \in [Booking -> {"in_progress", "completed"}] /\ inRoom \in [Booking -> OrNone(Request)]
    BY DEF Init, OrNone
  <2>4. QED
    BY <1>1, <1>2, <1>4, <2>1, <2>2, <2>3, EmptyTypes DEF Init, TypeOK, TxnInv, Each, OrNone
<1>6. PassLinkIsLive
  <2>1. \A u \in User : link[u] # None => link[u] \in Prior
    BY DEF Init, OrNone
  <2>2. \A b \in Prior : owner[b] = PriorOwner[b]
    BY DEF Init, Booking
  <2>3. QED
    BY <1>3, <2>1, <2>2, DeskFacts DEF PassLinkIsLive, Exists
<1>7. BuilderInv
  BY DEF Init, BuilderInv, InBuilder, OfOneRequest
<1>8. ASSUME NEW t \in Request PROVE RequestInv(t) /\ AttemptInv(t)
  <2>1. t \notin open /\ held[t] = {} /\ pc[t] \notin InBuilder /\ (pc[t] = "new" => Actor(t) # None)
    BY DeskFacts DEF Init, TxnInit, InBuilder, Actor
  <2>2. mem[t] = Nothing /\ using[t] = NoUse /\ plan[t] = Everyone(None) /\ todo[t] = {}
    BY DEF Init, Each
  <2>3. RequestInv(t)
    BY <2>1, <2>2 DEF RequestInv, InBuilder, OfOneRequest, OwnOrNone, Nothing, NoUse
  <2>4. \A u \in User : plan[t][u] = None
    BY <2>2 DEF Everyone
  <2>5. AttemptInv(t)
    BY <2>1, <2>2, <2>4 DEF AttemptInv, OwnOrNone, IsPass
  <2>6. QED
    BY <2>3, <2>5
<1>9. QED
  BY <1>1, <1>2, <1>4, <1>5, <1>6, <1>7, <1>8 DEF IInv, TxnInv

LEMMA IInvStep == IInv /\ [Next]_vars => IInv'
<1> SUFFICES ASSUME IInv, [Next]_vars PROVE IInv'
  OBVIOUS
<1>1. TypeOK'
  BY TypeStep
<1>2. ASSUME NEW t \in Request, NullBooking(t) \/ Thrown(t) PROVE IInv'
  BY <1>1, <1>2, FailStep DEF NullBooking, Thrown
<1>3. ASSUME NEW t \in Request, Answer(t) PROVE IInv'
  BY <1>1, <1>2, <1>3, GuardStep, CreateUserPassStep, CancelBookingStep, RestoreBookingsStep,
     UnlinkUnpaidStep, SaveUserStep, InitializeBuilderStep, CheckRoommatesStep,
     CreateRoomBookingStep, GetBookingStep, LinkUserStep, CommitStep DEF Answer
<1>4. CASE UNCHANGED vars
  <2>1. UNCHANGED <<txnVars, open, held, missed, link, owner, ask, pc, mem, builder, using, plan, todo>>
    BY <1>4 DEF vars, txnVars, dbVars, memVars, attemptVars
  <2>2. ASSUME NEW u \in Request PROVE RequestInv(u)'
    <3>1. RequestInv(u)
      BY DEF IInv
    <3>2. QED
      BY <2>1, <3>1, OtherRequest DEF RequestInv
  <2>3. ASSUME NEW u \in Request PROVE AttemptInv(u)'
    <3>1. \A c \in Booking : Exists(c) => Exists(c)'
      BY <2>1 DEF Exists
    <3>2. QED
      BY <2>1, <3>1, OtherAttempt
  <2>4. BuilderInv'
    BY <2>1 DEF IInv, BuilderInv, OfOneRequest, Asks
  <2>5. QED
    BY <1>1, <2>1, <2>2, <2>3, <2>4, TxnInvFacts, TxnStutterInv, SameDocuments
<1>5. QED
  BY <1>1, <1>3, <1>4, CompleteBookingStep, ExpireStep, CrashStep DEF Next, AllAnswered

\* What each request, each reading of the shared builder and each open transaction may
\* rely on between two awaits, and what the committed documents satisfy.
THEOREM InductiveInvariant == Spec => []IInv
  BY InitIInv, IInvStep, PTL DEF Spec

\* The documents, the builder and what each request has in memory have the shape TypeOK
\* gives them: no save() of get() reads a field of the builder that is not set.
THEOREM TypeCorrect == Spec => []TypeOK
<1>1. IInv => TypeOK
  BY DEF IInv
<1>2. QED
  BY <1>1, InductiveInvariant, PTL

\* No user is ever linked to a booking made for another, whatever requests share the
\* builder and whichever session their saves run in (user-booking.builder.ts:19-21),
\* and whatever is restored or retried meanwhile (booking.service.ts:180-186).
THEOREM BookingsAreOwn == Spec => []OwnBooking
<1>1. IInv => OwnBooking
  BY DEF IInv
<1>2. QED
  BY <1>1, InductiveInvariant, PTL

\* No user is ever linked to a pass that has been deleted: a cancellation deletes the
\* pass with the link (user-pass.service.ts:100-110), and a transaction that restores
\* the link meanwhile is refused by the conflict on the user.
THEOREM PassesAreLive == Spec => []PassLinkIsLive
<1>1. IInv => PassLinkIsLive
  BY DEF IInv
<1>2. QED
  BY <1>1, InductiveInvariant, PTL
=============================================================================
