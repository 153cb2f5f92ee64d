--------------------------- MODULE LodgingProofs ----------------------------
(***************************************************************************)
(* Proofs about Lodging and what it is composed of, Programme and          *)
(* Sessions, for every number of calls, documents and capacities.          *)
(***************************************************************************)
EXTENDS Lodging, FiniteSetTheorems, SequenceTheorems, WellFoundedInduction, TLAPS

USE LodgingAssumption, ProgrammeAssumption

-----------------------------------------------------------------------------
(***************************************************************************)
(* Places in a list                                                        *)
(***************************************************************************)

\* A set of numbers has a least one.
LEMMA LeastNumber ==
    ASSUME NEW T, T \subseteq Nat, T # {}
    PROVE  \E k \in T : \A j \in T : k <= j
<1> DEFINE R == {ss \in Nat \X Nat : ss[1] < ss[2]}
<1>1. IsWellFoundedOn(R, Nat)
    BY NatLessThanWellFounded DEF OpToRel
<1> HIDE DEF R
<1>2. PICK k \in T : \A j \in T : ~ (<<j, k>> \in R)
    BY <1>1, WFMin
<1>3. \A j \in T : j < k => <<j, k>> \in R
    BY DEF R
<1>4. \A j \in T : j \in Nat /\ k \in Nat /\ ~ (j < k)
    BY <1>2, <1>3
<1> QED
    BY <1>4

\* findIndex() finds a user who is in the list.
LEMMA PlaceFound ==
    ASSUME NEW s \in Seq(User), NEW u, \E k \in DOMAIN s : s[k] = u
    PROVE  Place(s, u) \in 1..Len(s) /\ s[Place(s, u)] = u
<1> DEFINE T == {k \in DOMAIN s : s[k] = u}
<1>1. T \subseteq Nat /\ T # {}
    BY LenProperties
<1> HIDE DEF T
<1>2. PICK k \in T : \A j \in T : k <= j
    BY <1>1, LeastNumber
<1>3. k \in DOMAIN s /\ s[k] = u /\ DOMAIN s = 1..Len(s) /\ Len(s) \in Nat
    BY <1>2, LenProperties DEF T
<1>4. \A j \in 1..(k - 1) : j \in DOMAIN s /\ ~ (k <= j)
    BY <1>3
<1>5. \A j \in 1..(k - 1) : s[j] # u
    BY <1>2, <1>4 DEF T
<1> QED
    BY <1>3, <1>5 DEF Place

\* splice(k - 1, 1): the list without its k-th member; without a member when k is 0, which
\* happens for an empty list only.
LEMMA DroppedFacts ==
    ASSUME NEW s \in Seq(User), NEW k \in 1..Len(s)
    PROVE  /\ Dropped(s, k) \in Seq(User)
           /\ Len(Dropped(s, k)) = Len(s) - 1
           /\ \A j \in 1..(Len(s) - 1) : Dropped(s, k)[j] = IF j < k THEN s[j] ELSE s[j + 1]
<1>1. Len(s) \in Nat /\ k \in Nat /\ k >= 1 /\ k <= Len(s)
    BY LenProperties
<1> DEFINE a == SubSeq(s, 1, k - 1)
           b == SubSeq(s, k + 1, Len(s))
<1>2. /\ a \in Seq(User) /\ Len(a) = k - 1
      /\ \A j \in 1..(k - 1) : a[j] = s[j]
    BY <1>1, SubSeqProperties
<1>3. /\ b \in Seq(User) /\ Len(b) = Len(s) - k
      /\ \A j \in 1..(Len(s) - k) : b[j] = s[j + k]
    BY <1>1, SubSeqProperties
<1> HIDE DEF a, b
<1>4. /\ a \o b \in Seq(User) /\ Len(a \o b) = Len(a) + Len(b)
      /\ \A j \in 1..(Len(a) + Len(b)) : (a \o b)[j] = IF j <= Len(a) THEN a[j] ELSE b[j - Len(a)]
  <2>1. Len(a) + Len(b) = Len(a \o b) /\ a \o b \in Seq(User)
    BY <1>2, <1>3, ConcatProperties
  <2>2. \A j \in 1..(Len(a) + Len(b)) : (a \o b)[j] = IF j <= Len(a) THEN a[j] ELSE b[j - Len(a)]
    BY <1>2, <1>3, ConcatProperties
  <2> QED
    BY <2>1, <2>2
<1>5. Dropped(s, k) = a \o b
    BY DEF Dropped, a, b
<1>6. Len(a) + Len(b) = Len(s) - 1
    BY <1>1, <1>2, <1>3
<1>7. ASSUME NEW j \in 1..(Len(s) - 1)
      PROVE  (a \o b)[j] = IF j < k THEN s[j] ELSE s[j + 1]
  <2>1. CASE j < k
    BY <1>1, <1>2, <1>4, <1>6, <2>1
  <2>2. CASE ~ (j < k)
    <3>1. /\ ~ (j <= Len(a)) /\ j - Len(a) = j - k + 1 /\ j - k + 1 \in 1..(Len(s) - k)
          /\ (j - k + 1) + k = j + 1
        BY <1>1, <1>2, <2>2
    <3>2. (a \o b)[j] = b[j - k + 1] /\ b[j - k + 1] = s[j + 1]
        BY <1>3, <1>4, <1>6, <3>1
    <3> QED
        BY <2>2, <3>2
  <2> QED
    BY <2>1, <2>2
<1> QED
    BY <1>4, <1>5, <1>6, <1>7

LEMMA DroppedNothing ==
    ASSUME NEW s \in Seq(User), Len(s) = 0
    PROVE  Dropped(s, 0) \in Seq(User)
<1>1. SubSeq(s, 1, 0 - 1) \in Seq(User) /\ SubSeq(s, 0 + 1, Len(s)) \in Seq(User)
    BY SubSeqProperties
<1> QED
    BY <1>1, ConcatProperties DEF Dropped

-----------------------------------------------------------------------------
(***************************************************************************)
(* Documents                                                               *)
(***************************************************************************)

\* The names of two documents differ when their kinds do, or what they are documents of.
LEMMA Names ==
    /\ \A a, b : Member(a) = Member(b) => a = b
    /\ \A a, b : Member(a) \notin {Card(b), Choice(b), Ride(b), Hall(b), Bus(b), Flat(b), Inn(b)}
    /\ \A a, b : Card(a) = Card(b) => a = b
    /\ \A a, b : Card(a) \notin {Choice(b), Ride(b), Hall(b), Bus(b), Flat(b), Inn(b)}
    /\ \A a, b : Choice(a) = Choice(b) => a = b
    /\ \A a, b : Choice(a) \notin {Ride(b), Hall(b), Bus(b), Flat(b), Inn(b)}
    /\ \A a, b : Ride(a) = Ride(b) => a = b
    /\ \A a, b : Ride(a) \notin {Hall(b), Bus(b), Flat(b), Inn(b)}
    /\ \A a, b : Hall(a) = Hall(b) => a = b
    /\ \A a, b : Hall(a) \notin {Bus(b), Flat(b), Inn(b)}
    /\ \A a, b : Bus(a) = Bus(b) => a = b
    /\ \A a, b : Bus(a) \notin {Flat(b), Inn(b)}
    /\ \A a, b : Flat(a) = Flat(b) => a = b
    /\ \A a, b : Flat(a) \notin {Inn(b)}
    /\ \A a, b : Inn(a) = Inn(b) => a = b
    BY DEF Member, Card, Choice, Ride, Hall, Bus, Flat, Inn

LEMMA DocumentNames ==
    /\ \A u \in User : Member(u) \in Document
    /\ \A w \in Workshop : Hall(w) \in Document
    /\ \A x \in Transport : Bus(x) \in Document
    /\ \A b \in Book : {Card(b), Choice(b), Ride(b)} \subseteq Document
    /\ \A r \in Room : Flat(r) \in Document
    /\ \A h \in Hotel : Inn(h) \in Document
    BY DEF Document

\* What a document is that is stored.
LEMMA StoredContents ==
    ASSUME LodgingTypeOK
    PROVE  /\ \A w \in Workshop : Stored(Hall(w)) => doc[Hall(w)] \in WorkshopDocument
           /\ \A x \in Transport : Stored(Bus(x)) => doc[Bus(x)] \in TransportDocument
           /\ \A b \in Book : Stored(Choice(b)) => doc[Choice(b)] \in WorkshopBooking
           /\ \A b \in Book : Stored(Ride(b)) => doc[Ride(b)] \in TransportBooking
           /\ \A b \in Book : Stored(Card(b)) => doc[Card(b)] \in UserBooking
           /\ \A r \in Room : Stored(Flat(r)) => doc[Flat(r)] \in RoomBooking
           /\ \A h \in Hotel : Stored(Inn(h)) => doc[Inn(h)] \in HotelDocument
           /\ \A u \in User : BookOf(u) # None => BookOf(u) \in Book
    BY DocumentNames DEF LodgingTypeOK, Contents, ProgrammeContents, Stored, BookOf

\* Nothing is saved by the empty function, and by one save only its document.
LEMMA NothingSaved ==
    DOMAIN <<>> = {}
    OBVIOUS

LEMMA OneSaved ==
    ASSUME NEW d, NEW v
    PROVE  DOMAIN Saved(d, v) = {d} /\ Saved(d, v)[d] = v
    BY DEF Saved

LEMMA BothSaved ==
    ASSUME NEW V, NEW W
    PROVE  /\ DOMAIN (V ++ W) = DOMAIN V \cup DOMAIN W
           /\ \A d \in DOMAIN V : (V ++ W)[d] = V[d]
           /\ \A d \in DOMAIN W \ DOMAIN V : (V ++ W)[d] = W[d]
    BY DEF ++

LEMMA BothContents ==
    ASSUME NEW V, NEW W, Contents(V), Contents(W)
    PROVE  Contents(V ++ W)
<1>1. /\ DOMAIN (V ++ W) = DOMAIN V \cup DOMAIN W
      /\ \A d \in DOMAIN V : (V ++ W)[d] = V[d]
      /\ \A d \in DOMAIN W \ DOMAIN V : (V ++ W)[d] = W[d]
    BY BothSaved
<1>2. \A d \in DOMAIN (V ++ W) : \/ d \in DOMAIN V /\ (V ++ W)[d] = V[d]
                                 \/ d \in DOMAIN W /\ (V ++ W)[d] = W[d]
    BY <1>1
<1> HIDE DEF ++
<1> DEFINE X == V ++ W
<1>3. \A d \in DOMAIN X : \/ d \in DOMAIN V /\ X[d] = V[d]
                          \/ d \in DOMAIN W /\ X[d] = W[d]
    BY <1>2
<1> HIDE DEF X
<1>4. Contents(X)
    BY <1>3 DEF Contents, ProgrammeContents
<1> QED
    BY <1>4 DEF X

\* A content that is saved for the kind of its document.
LEMMA SavedContents ==
    /\ \A u \in User, v \in Book \cup {None} : Contents(Saved(Member(u), v))
    /\ \A w \in Workshop, v \in WorkshopDocument \cup {None} : Contents(Saved(Hall(w), v))
    /\ \A x \in Transport, v \in TransportDocument \cup {None} : Contents(Saved(Bus(x), v))
    /\ \A b \in Book, v \in WorkshopBooking \cup {None, Gone} : Contents(Saved(Choice(b), v))
    /\ \A b \in Book, v \in TransportBooking \cup {None, Gone} : Contents(Saved(Ride(b), v))
    /\ \A b \in Book, v \in UserBooking \cup {None, Gone} : Contents(Saved(Card(b), v))
    /\ \A r \in Room, v \in RoomBooking \cup {None, Gone} : Contents(Saved(Flat(r), v))
    /\ \A h \in Hotel, v \in HotelDocument \cup {None} : Contents(Saved(Inn(h), v))
<1>1. ASSUME NEW u \in User, NEW v \in Book \cup {None}
      PROVE  Contents(Saved(Member(u), v))
  <2> DEFINE f == Saved(Member(u), v)
  <2>1. DOMAIN f = {Member(u)} /\ f[Member(u)] = v
    BY OneSaved
  <2> HIDE DEF f
  <2>2. Contents(f)
    BY <2>1, Names DEF Contents, ProgrammeContents
  <2> QED
    BY <2>2 DEF f
<1>2. ASSUME NEW w \in Workshop, NEW v \in WorkshopDocument \cup {None}
      PROVE  Contents(Saved(Hall(w), v))
  <2> DEFINE f == Saved(Hall(w), v)
  <2>1. DOMAIN f = {Hall(w)} /\ f[Hall(w)] = v
    BY OneSaved
  <2> HIDE DEF f
  <2>2. Contents(f)
    BY <2>1, Names DEF Contents, ProgrammeContents
  <2> QED
    BY <2>2 DEF f
<1>3. ASSUME NEW x \in Transport, NEW v \in TransportDocument \cup {None}
      PROVE  Contents(Saved(Bus(x), v))
  <2> DEFINE f == Saved(Bus(x), v)
  <2>1. DOMAIN f = {Bus(x)} /\ f[Bus(x)] = v
    BY OneSaved
  <2> HIDE DEF f
  <2>2. Contents(f)
    BY <2>1, Names DEF Contents, ProgrammeContents
  <2> QED
    BY <2>2 DEF f
<1>4. ASSUME NEW b \in Book, NEW v \in WorkshopBooking \cup {None, Gone}
      PROVE  Contents(Saved(Choice(b), v))
  <2> DEFINE f == Saved(Choice(b), v)
  <2>1. DOMAIN f = {Choice(b)} /\ f[Choice(b)] = v
    BY OneSaved
  <2> HIDE DEF f
  <2>2. Contents(f)
    BY <2>1, Names DEF Contents, ProgrammeContents
  <2> QED
    BY <2>2 DEF f
<1>5. ASSUME NEW b \in Book, NEW v \in TransportBooking \cup {None, Gone}
      PROVE  Contents(Saved(Ride(b), v))
  <2> DEFINE f == Saved(Ride(b), v)
  <2>1. DOMAIN f = {Ride(b)} /\ f[Ride(b)] = v
    BY OneSaved
  <2> HIDE DEF f
  <2>2. Contents(f)
    BY <2>1, Names DEF Contents, ProgrammeContents
  <2> QED
    BY <2>2 DEF f
<1>6. ASSUME NEW b \in Book, NEW v \in UserBooking \cup {None, Gone}
      PROVE  Contents(Saved(Card(b), v))
  <2> DEFINE f == Saved(Card(b), v)
  <2>1. DOMAIN f = {Card(b)} /\ f[Card(b)] = v
    BY OneSaved
  <2> HIDE DEF f
  <2>2. Contents(f)
    BY <2>1, Names DEF Contents, ProgrammeContents
  <2> QED
    BY <2>2 DEF f
<1>7. ASSUME NEW r \in Room, NEW v \in RoomBooking \cup {None, Gone}
      PROVE  Contents(Saved(Flat(r), v))
  <2> DEFINE f == Saved(Flat(r), v)
  <2>1. DOMAIN f = {Flat(r)} /\ f[Flat(r)] = v
    BY OneSaved
  <2> HIDE DEF f
  <2>2. Contents(f)
    BY <2>1, Names DEF Contents, ProgrammeContents
  <2> QED
    BY <2>2 DEF f
<1>8. ASSUME NEW h \in Hotel, NEW v \in HotelDocument \cup {None}
      PROVE  Contents(Saved(Inn(h), v))
  <2> DEFINE f == Saved(Inn(h), v)
  <2>1. DOMAIN f = {Inn(h)} /\ f[Inn(h)] = v
    BY OneSaved
  <2> HIDE DEF f
  <2>2. Contents(f)
    BY <2>1, Names DEF Contents, ProgrammeContents
  <2> QED
    BY <2>2 DEF f
<1> QED
    BY <1>1, <1>2, <1>3, <1>4, <1>5, <1>6, <1>7, <1>8

-----------------------------------------------------------------------------
(***************************************************************************)
(* The kinds of steps                                                      *)
(***************************************************************************)

\* The workshop w is one for slot g.
InGroup(w, g) == Stored(Hall(w)) /\ doc[Hall(w)].group = g

\* The choices in the documents of f are those there were, or in their group.
ChoicePlan(f) ==
    \A b \in Book, g \in 1..Groups : Choice(b) \in DOMAIN f /\ f[Choice(b)] \notin {None, Gone} =>
        LET w == f[Choice(b)].ids[g] IN w = None \/ w \in Picked(b, g) \/ InGroup(w, g)

\* What a call may save, what it may leave to late saves.
Sound(f) ==
    /\ DOMAIN f \subseteq Document
    /\ Contents(f)
    /\ SeatPlan(f)
    /\ RoomPlan(f)
    /\ ChoicePlan(f)

SoundLate(t, L, f) ==
    /\ L \subseteq LateSave
    /\ \A i \in L : /\ i.call = t
                    /\ Target(i) \notin DOMAIN f
                    /\ i.does = "leave" => Contains(i.was, i.user)
                    /\ i.does = "set" => i.ws = None \/ InGroup(i.ws, i.slot)

\* The documents stay, or a room booking that nobody refers to is made outside the
\* transaction that is to save f.
NewFlat(f) ==
    \/ doc' = doc
    \/ \E r \in Room, v \in RoomBooking :
          /\ doc[Flat(r)] = None /\ Free(Flat(r)) /\ Flat(r) \notin DOMAIN f
          /\ doc' = [doc EXCEPT ![Flat(r)] = v]

\* A call of a method of the services that passes its checks, and one that throws.
Saves(t, f, L) ==
    /\ pc[t] = "new"
    /\ Sound(f) /\ SoundLate(t, L, f)
    /\ \A d \in DOMAIN f : Free(d)
    /\ NewFlat(f)
    /\ pc' = [pc EXCEPT ![t] = "saved"]
    /\ writes' = [writes EXCEPT ![t] = f]
    /\ late' = late \cup L

Fails(t, L) ==
    /\ pc[t] = "new"
    /\ SoundLate(t, L, <<>>)
    /\ NewFlat(<<>>)
    /\ pc' = [pc EXCEPT ![t] = "failed"]
    /\ writes' = writes
    /\ late' = late \cup L

Called(t) == (\E f, L : Saves(t, f, L)) \/ (\E L : Fails(t, L))

\* What an administrator writes: the seats of a transport stay or go.
AdminPlan(f) ==
    /\ DOMAIN f \subseteq {Hall(w) : w \in Workshop} \cup {Bus(x) : x \in Transport} \cup {Inn(h) : h \in Hotel}
    /\ Contents(f)
    /\ \A x \in Transport : Bus(x) \in DOMAIN f => f[Bus(x)] = None \/ f[Bus(x)].who = Seats(x)

Administers(t) == \E f : AdminPlan(f) /\ WriteAll(t, f)

\* A late save that comes to be.
SoundSave(i, v) ==
    /\ i.does = "set" => /\ v \in WorkshopBooking
                         /\ \A g \in 1..Groups : v.ids[g] \in Picked(i.book, g)
    /\ i.does = "add" => v \in WorkshopDocument
    /\ i.does \in {"leave", "join"} => v \in RoomBooking
    /\ i.does # "load"

Settles(i) == \E v : SoundSave(i, v) /\ Joins(i, Target(i), v)

-----------------------------------------------------------------------------
(***************************************************************************)
(* Each kind keeps the invariant                                           *)
(***************************************************************************)

\* The plan of a transaction is about documents that nobody else writes.
LEMMA PlansKept ==
    ASSUME NEW t, NEW f, SeatPlan(f), RoomPlan(f), writes'[t] = f,
           \A d \in DOMAIN f : doc'[d] = doc[d]
    PROVE  (SeatPlan(writes[t]) /\ RoomPlan(writes[t]))'
<1>1. ASSUME NEW b \in Book
      PROVE  Seated(f, b) => Seated(writes[t], b)' /\ doc'[Ride(b)] = doc[Ride(b)]
    BY DEF Seated, Stored, Completed
<1>2. ASSUME NEW x \in Transport, NEW k
      PROVE  Bus(x) \in DOMAIN f /\ Vacated(f, x, k) => Vacated(writes[t], x, k)' /\ doc'[Bus(x)] = doc[Bus(x)]
    BY DEF Vacated, Stored
<1>3. SeatPlan(writes[t])'
  <2>1. ASSUME NEW x \in Transport, Bus(x) \in DOMAIN f
        PROVE  \/ \E b \in Book : Seated(writes[t], b)' /\ doc'[Ride(b)].on = x
               \/ \E k \in DOMAIN doc'[Bus(x)].who : Vacated(writes[t], x, k)'
    BY <1>1, <1>2, <2>1 DEF SeatPlan
  <2>2. ASSUME NEW b \in Book, Ride(b) \in DOMAIN f, f[Ride(b)] \notin {None, Gone}
        PROVE  \/ f[Ride(b)].status = "in_progress"
               \/ Seated(writes[t], b)'
               \/ Stored(Ride(b))' /\ doc'[Ride(b)].status = "completed"
    BY <1>1, <2>2 DEF SeatPlan, Stored
  <2> QED
    BY <2>1, <2>2 DEF SeatPlan
<1>4. RoomPlan(writes[t])'
    BY DEF RoomPlan, Stored, Roommates
<1> QED
    BY <1>3, <1>4

\* A document of another kind than the plans speak of.
LEMMA NothingPlanned ==
    ASSUME NEW f, DOMAIN f = {}
    PROVE  Contents(f) /\ SeatPlan(f) /\ RoomPlan(f)
    BY DEF Contents, ProgrammeContents, SeatPlan, RoomPlan

LEMMA NewFlatFacts ==
    ASSUME LodgingTypeOK, NEW f, NewFlat(f)
    PROVE  /\ DOMAIN doc' = Document
           /\ Contents(doc')
           /\ \A d \in DOMAIN f \cap Document : doc'[d] = doc[d]
           /\ \A t \in Call : \A d \in DOMAIN writes[t] : doc'[d] = doc[d]
<1>1. CASE doc' = doc
    BY <1>1 DEF LodgingTypeOK
<1>2. ASSUME NEW r \in Room, NEW v \in RoomBooking,
             doc[Flat(r)] = None, Free(Flat(r)), Flat(r) \notin DOMAIN f,
             doc' = [doc EXCEPT ![Flat(r)] = v]
      PROVE  /\ DOMAIN doc' = Document
             /\ Contents(doc')
             /\ \A d \in DOMAIN f \cap Document : doc'[d] = doc[d]
             /\ \A t \in Call : \A d \in DOMAIN writes[t] : doc'[d] = doc[d]
  <2>1. DOMAIN doc' = Document /\ DOMAIN doc = Document
    BY <1>2 DEF LodgingTypeOK
  <2>2. \A d \in Document \ {Flat(r)} : doc'[d] = doc[d]
    BY <1>2, <2>1
  <2>3. doc'[Flat(r)] = v
    BY <1>2, <2>1, DocumentNames
  <2>4. Contents(doc)
    BY DEF LodgingTypeOK
  <2>5. Contents(doc')
    BY <2>1, <2>2, <2>3, <2>4, Names, DocumentNames DEF Contents, ProgrammeContents
  <2> QED
    BY <1>2, <2>1, <2>2, <2>5, DocumentNames DEF Free, LodgingTypeOK, SessionsTypeOK
<1> QED
    BY <1>1, <1>2 DEF NewFlat

LEMMA SavesKeeps ==
    ASSUME IInv, NEW t \in Call, NEW f, NEW L, Saves(t, f, L)
    PROVE  IInv'
<1> USE DEF Saves
<1>1. /\ LodgingTypeOK /\ SessionsInv /\ Sound(f) /\ SoundLate(t, L, f) /\ NewFlat(f)
      /\ pc[t] = "new" /\ \A d \in DOMAIN f : Free(d)
      /\ DOMAIN writes = Call /\ pc \in [Call -> {"new", "saved", "done", "failed", "lost"}]
    BY DEF IInv, LodgingTypeOK, SessionsTypeOK
<1>2. /\ DOMAIN doc' = Document
      /\ Contents(doc')
      /\ \A d \in DOMAIN f \cap Document : doc'[d] = doc[d]
      /\ \A u \in Call : \A d \in DOMAIN writes[u] : doc'[d] = doc[d]
    BY <1>1, NewFlatFacts
<1>3. /\ DOMAIN writes' = Call /\ writes'[t] = f
      /\ \A u \in Call \ {t} : writes'[u] = writes[u]
    BY <1>1
<1>4. /\ pc' \in [Call -> {"new", "saved", "done", "failed", "lost"}]
      /\ pc'[t] = "saved" /\ \A u \in Call \ {t} : pc'[u] = pc[u]
    BY <1>1
<1>5. DOMAIN f \subseteq Document /\ Contents(f) /\ SeatPlan(f) /\ RoomPlan(f)
    BY <1>1 DEF Sound
<1>6. LodgingTypeOK'
  <2>1. SessionsTypeOK'
    BY <1>1, <1>2, <1>3, <1>4, <1>5 DEF SessionsTypeOK, LodgingTypeOK
  <2>2. \A u \in Call : Contents(writes'[u])
    BY <1>1, <1>3, <1>5 DEF LodgingTypeOK
  <2>3. late' \subseteq LateSave
    BY <1>1 DEF SoundLate, LodgingTypeOK
  <2> QED
    BY <1>2, <2>1, <2>2, <2>3 DEF LodgingTypeOK, Contents, ProgrammeContents
<1>7. SessionsInv'
  <2>1. \A u \in Call : pc'[u] # "saved" => DOMAIN writes'[u] = {}
    BY <1>1, <1>3, <1>4 DEF SessionsInv
  <2>2. \A u, v \in Call : u # v => DOMAIN writes'[u] \cap DOMAIN writes'[v] = {}
    BY <1>1, <1>3 DEF SessionsInv, Free
  <2>3. \A i \in late' : pc'[i.call] # "new"
    BY <1>1, <1>4, <1>6 DEF SessionsInv, SoundLate, LodgingTypeOK, LateSave
  <2> QED
    BY <2>1, <2>2, <2>3 DEF SessionsInv
<1>8. ASSUME NEW u \in Call
      PROVE  (SeatPlan(writes[u]) /\ RoomPlan(writes[u]))'
  <2>1. CASE u = t
    BY <1>2, <1>3, <1>5, <2>1, PlansKept
  <2>2. CASE u # t
    BY <1>2, <1>3, <2>2, PlansKept DEF IInv
  <2> QED
    BY <2>1, <2>2
<1>9. ASSUME NEW i \in late'
      PROVE  LateInv(i)'
  <2>1. CASE i \in L
    BY <1>1, <1>3, <2>1 DEF SoundLate, LateInv, Target
  <2>2. CASE i \in late
    <3>1. i.call \in Call /\ i.call # t
        BY <1>1, <2>2 DEF SessionsInv, LodgingTypeOK, LateSave
    <3>2. LateInv(i)
        BY <2>2 DEF IInv
    <3> QED
        BY <1>3, <3>1, <3>2 DEF LateInv, Target
  <2> QED
    BY <2>1, <2>2
<1> QED
    BY <1>6, <1>7, <1>8, <1>9 DEF IInv

LEMMA FailsKeeps ==
    ASSUME IInv, NEW t \in Call, NEW L, Fails(t, L)
    PROVE  IInv'
<1> USE DEF Fails
<1>1. /\ LodgingTypeOK /\ SessionsInv /\ SoundLate(t, L, <<>>) /\ NewFlat(<<>>) /\ pc[t] = "new"
      /\ DOMAIN writes = Call /\ pc \in [Call -> {"new", "saved", "done", "failed", "lost"}]
    BY DEF IInv, LodgingTypeOK, SessionsTypeOK
<1>2. /\ DOMAIN doc' = Document
      /\ Contents(doc')
      /\ \A u \in Call : \A d \in DOMAIN writes[u] : doc'[d] = doc[d]
    BY <1>1, NewFlatFacts
<1>3. /\ pc' \in [Call -> {"new", "saved", "done", "failed", "lost"}]
      /\ pc'[t] = "failed" /\ \A u \in Call \ {t} : pc'[u] = pc[u]
    BY <1>1
<1>4. LodgingTypeOK'
  <2>1. SessionsTypeOK'
    BY <1>1, <1>2, <1>3 DEF SessionsTypeOK, LodgingTypeOK
  <2>2. \A u \in Call : Contents(writes'[u])
    BY <1>1 DEF LodgingTypeOK
  <2>3. late' \subseteq LateSave
    BY <1>1 DEF SoundLate, LodgingTypeOK
  <2> QED
    BY <1>2, <2>1, <2>2, <2>3 DEF LodgingTypeOK, Contents, ProgrammeContents
<1>5. SessionsInv'
  <2>1. \A u \in Call : pc'[u] # "saved" => DOMAIN writes'[u] = {}
    BY <1>1, <1>3 DEF SessionsInv
  <2>2. \A u, v \in Call : u # v => DOMAIN writes'[u] \cap DOMAIN writes'[v] = {}
    BY <1>1 DEF SessionsInv
  <2>3. \A i \in late' : pc'[i.call] # "new"
    BY <1>1, <1>3, <1>4 DEF SessionsInv, SoundLate, LodgingTypeOK, LateSave
  <2> QED
    BY <2>1, <2>2, <2>3 DEF SessionsInv
<1>6. \A u \in Call : (SeatPlan(writes[u]) /\ RoomPlan(writes[u]))'
    BY <1>2, PlansKept DEF IInv
<1>7. ASSUME NEW i \in late'
      PROVE  LateInv(i)'
  <2>1. CASE i \in L
    <3>1. DOMAIN writes[t] = {} /\ i.call = t /\ (i.does = "leave" => Contains(i.was, i.user))
        BY <1>1, <2>1 DEF SessionsInv, SoundLate
    <3> QED
        BY <3>1 DEF LateInv, Target
  <2>2. CASE i \in late
    BY <2>2 DEF IInv, LateInv, Target
  <2> QED
    BY <2>1, <2>2
<1> QED
    BY <1>4, <1>5, <1>6, <1>7 DEF IInv

\* The administrators write documents that no transaction has saved.
LEMMA AdministersKeeps ==
    ASSUME IInv, NEW t \in Call, Administers(t)
    PROVE  IInv'
<1>1. PICK f : AdminPlan(f) /\ WriteAll(t, f)
    BY DEF Administers
<1>2. /\ LodgingTypeOK /\ SessionsInv /\ pc[t] = "new" /\ DOMAIN doc = Document
      /\ DOMAIN writes = Call /\ pc \in [Call -> {"new", "saved", "done", "failed", "lost"}]
    BY <1>1 DEF IInv, LodgingTypeOK, SessionsTypeOK, WriteAll
<1>3. DOMAIN f \subseteq Document /\ Contents(f)
    BY <1>1, DocumentNames DEF AdminPlan
<1>4. /\ doc' = f ++ doc
      /\ pc' \in [Call -> {"new", "saved", "done", "failed", "lost"}]
      /\ pc'[t] = "done" /\ \A u \in Call \ {t} : pc'[u] = pc[u]
      /\ writes' = writes /\ late' = late
    BY <1>1, <1>2 DEF WriteAll
<1>5. DOMAIN doc' = Document /\ Contents(doc')
  <2>1. DOMAIN (f ++ doc) = DOMAIN f \cup DOMAIN doc
    BY BothSaved
  <2>2. Contents(f ++ doc)
    BY <1>2, <1>3, BothContents DEF LodgingTypeOK
  <2> QED
    BY <1>2, <1>3, <1>4, <2>1, <2>2
<1>6. ASSUME NEW u \in Call, NEW d \in DOMAIN writes[u]
      PROVE  doc'[d] = doc[d]
  <2>1. d \in DOMAIN doc \ DOMAIN f
    BY <1>1, <1>2 DEF WriteAll, Free, LodgingTypeOK, SessionsTypeOK
  <2>2. (f ++ doc)[d] = doc[d]
    BY <2>1 DEF ++
  <2> QED
    BY <1>4, <2>2
<1>7. LodgingTypeOK'
  <2>1. SessionsTypeOK'
    BY <1>2, <1>4, <1>5 DEF SessionsTypeOK, LodgingTypeOK
  <2>2. \A u \in Call : Contents(writes'[u])
    BY <1>2, <1>4 DEF LodgingTypeOK
  <2> QED
    BY <1>2, <1>4, <1>5, <2>1, <2>2 DEF LodgingTypeOK, Contents, ProgrammeContents
<1>8. SessionsInv'
    BY <1>2, <1>4 DEF SessionsInv, LodgingTypeOK, LateSave
<1>9. \A u \in Call : (SeatPlan(writes[u]) /\ RoomPlan(writes[u]))'
    BY <1>4, <1>6, PlansKept DEF IInv
<1>10. \A i \in late' : LateInv(i)'
    BY <1>4 DEF IInv, LateInv, Target
<1> QED
    BY <1>7, <1>8, <1>9, <1>10 DEF IInv

LEMMA CommitKeeps ==
    ASSUME IInv, NEW t \in Call, Commit(t)
    PROVE  IInv'
<1> USE DEF Commit
<1>1. /\ LodgingTypeOK /\ SessionsInv /\ DOMAIN doc = Document
      /\ DOMAIN writes = Call /\ pc \in [Call -> {"new", "saved", "done", "failed", "lost"}]
    BY DEF IInv, LodgingTypeOK, SessionsTypeOK
<1>2. DOMAIN writes[t] \subseteq Document /\ Contents(writes[t])
    BY <1>1 DEF LodgingTypeOK, SessionsTypeOK
<1>3. /\ pc' \in [Call -> {"new", "saved", "done", "failed", "lost"}]
      /\ pc'[t] = "done" /\ \A u \in Call \ {t} : pc'[u] = pc[u]
      /\ DOMAIN writes' = Call /\ writes'[t] = <<>> /\ \A u \in Call \ {t} : writes'[u] = writes[u]
      /\ late' = late
    BY <1>1
<1>4. DOMAIN doc' = Document /\ Contents(doc')
  <2>1. DOMAIN (writes[t] ++ doc) = DOMAIN writes[t] \cup DOMAIN doc
    BY BothSaved
  <2>2. Contents(writes[t] ++ doc)
    BY <1>1, <1>2, BothContents DEF LodgingTypeOK
  <2> QED
    BY <1>1, <1>2, <2>1, <2>2
<1>5. ASSUME NEW u \in Call \ {t}, NEW d \in DOMAIN writes[u]
      PROVE  doc'[d] = doc[d]
  <2>1. d \in DOMAIN doc \ DOMAIN writes[t]
    BY <1>1 DEF SessionsInv, LodgingTypeOK, SessionsTypeOK
  <2>2. (writes[t] ++ doc)[d] = doc[d]
    BY <2>1 DEF ++
  <2>3. doc' = writes[t] ++ doc
    OBVIOUS
  <2> QED
    BY <2>2, <2>3
<1>6. LodgingTypeOK'
  <2>1. SessionsTypeOK'
    BY <1>1, <1>3, <1>4 DEF SessionsTypeOK, LodgingTypeOK
  <2>2. \A u \in Call : Contents(writes'[u])
    BY <1>1, <1>3, NothingPlanned DEF LodgingTypeOK
  <2> QED
    BY <1>1, <1>3, <1>4, <2>1, <2>2 DEF LodgingTypeOK, Contents, ProgrammeContents
<1>7. SessionsInv'
    BY <1>1, <1>3 DEF SessionsInv, LodgingTypeOK, LateSave
<1>8. ASSUME NEW u \in Call
      PROVE  (SeatPlan(writes[u]) /\ RoomPlan(writes[u]))'
  <2>1. CASE u = t
    <3>1. SeatPlan(<<>>) /\ RoomPlan(<<>>) /\ \A d \in DOMAIN <<>> : doc'[d] = doc[d]
        BY NothingPlanned, NothingSaved
    <3> QED
        BY <1>3, <2>1, <3>1, PlansKept
  <2>2. CASE u # t
    BY <1>3, <1>5, <2>2, PlansKept DEF IInv
  <2> QED
    BY <2>1, <2>2
<1>9. \A i \in late' : LateInv(i)'
    BY <1>1, <1>3 DEF IInv, LateInv, Target, LodgingTypeOK, LateSave
<1> QED
    BY <1>6, <1>7, <1>8, <1>9 DEF IInv

LEMMA AbortKeeps ==
    ASSUME IInv, NEW t \in Call, Abort(t)
    PROVE  IInv'
<1> USE DEF Abort
<1>1. /\ LodgingTypeOK /\ SessionsInv /\ DOMAIN doc = Document
      /\ DOMAIN writes = Call /\ pc \in [Call -> {"new", "saved", "done", "failed", "lost"}]
    BY DEF IInv, LodgingTypeOK, SessionsTypeOK
<1>2. /\ pc' \in [Call -> {"new", "saved", "done", "failed", "lost"}]
      /\ pc'[t] = "failed" /\ \A u \in Call \ {t} : pc'[u] = pc[u]
      /\ DOMAIN writes' = Call /\ writes'[t] = <<>> /\ \A u \in Call \ {t} : writes'[u] = writes[u]
      /\ late' = late /\ doc' = doc
    BY <1>1
<1>3. LodgingTypeOK'
  <2>1. SessionsTypeOK'
    BY <1>1, <1>2 DEF SessionsTypeOK, LodgingTypeOK
  <2>2. \A u \in Call : Contents(writes'[u])
    BY <1>1, <1>2, NothingPlanned DEF LodgingTypeOK
  <2> QED
    BY <1>1, <1>2, <2>1, <2>2 DEF LodgingTypeOK, Contents, ProgrammeContents
<1>4. SessionsInv'
    BY <1>1, <1>2 DEF SessionsInv, LodgingTypeOK, LateSave
<1>5. ASSUME NEW u \in Call
      PROVE  (SeatPlan(writes[u]) /\ RoomPlan(writes[u]))'
  <2>1. SeatPlan(writes'[u]) /\ RoomPlan(writes'[u])
    BY <1>2, NothingPlanned, NothingSaved DEF IInv
  <2> QED
    BY <1>2, <2>1, PlansKept
<1>6. \A i \in late' : LateInv(i)'
    BY <1>1, <1>2 DEF IInv, LateInv, Target, LodgingTypeOK, LateSave
<1> QED
    BY <1>3, <1>4, <1>5, <1>6 DEF IInv

-----------------------------------------------------------------------------
(***************************************************************************)
(* Late saves                                                              *)
(***************************************************************************)

\* What each late save is of.
LEMMA TargetFacts ==
    ASSUME NEW i \in LateSave
    PROVE  /\ i.call \in Call
           /\ \/ /\ i.does = "set" /\ i.book \in Book /\ i.slot \in 1..Groups /\ i.ws \in Slot
                 /\ Target(i) = Choice(i.book)
              \/ /\ i.does \in {"load", "add"} /\ i.user \in User /\ i.ws \in Workshop
                 /\ Target(i) = Hall(i.ws)
              \/ /\ i.does = "leave" /\ i.room \in Room /\ i.user \in User /\ i.was \in Seq(User)
                 /\ Target(i) = Flat(i.room)
              \/ /\ i.does = "join" /\ i.room \in Room /\ i.user \in User
                 /\ Target(i) = Flat(i.room)
<1>1. CASE i \in [does : {"load", "add"}, call : Call, user : User, ws : Workshop]
    BY <1>1 DEF Target
<1>2. CASE i \in [does : {"set"}, call : Call, book : Book, slot : 1..Groups, ws : Slot]
    BY <1>2 DEF Target
<1>3. CASE i \in [does : {"leave"}, call : Call, room : Room, user : User, was : Seq(User)]
    BY <1>3 DEF Target
<1>4. CASE i \in [does : {"join"}, call : Call, room : Room, user : User]
    BY <1>4 DEF Target
<1> QED
    BY <1>1, <1>2, <1>3, <1>4 DEF LateSave

\* A late save that comes to be is of the kind of its document, which it does not delete.
LEMMA SoundSaveFacts ==
    ASSUME NEW i \in LateSave, NEW v, SoundSave(i, v)
    PROVE  /\ Target(i) \in Document
           /\ v \notin {None, Gone}
           /\ Contents(Saved(Target(i), v))
           /\ \A x : Target(i) # Bus(x)
           /\ \A b : Target(i) \notin {Ride(b), Card(b)}
<1>1. CASE i.does = "set"
  <2>1. i.book \in Book /\ Target(i) = Choice(i.book) /\ v \in WorkshopBooking
    BY <1>1, TargetFacts DEF SoundSave
  <2> QED
    BY <2>1, DocumentNames, SavedContents, AbsenceAssumption, Names
<1>2. CASE i.does \in {"load", "add"}
  <2>1. i.ws \in Workshop /\ Target(i) = Hall(i.ws) /\ v \in WorkshopDocument
    BY <1>2, TargetFacts DEF SoundSave
  <2> QED
    BY <2>1, DocumentNames, SavedContents, AbsenceAssumption, Names
<1>3. CASE i.does \in {"leave", "join"}
  <2>1. i.room \in Room /\ Target(i) = Flat(i.room) /\ v \in RoomBooking
    BY <1>3, TargetFacts DEF SoundSave
  <2> QED
    BY <2>1, DocumentNames, SavedContents, AbsenceAssumption, Names
<1> QED
    BY <1>1, <1>2, <1>3, TargetFacts

\* It changes no plan of its transaction.
LEMMA JoinedPlan ==
    ASSUME NEW f, NEW d, NEW v, SeatPlan(f), RoomPlan(f), v # Gone,
           \A x : d # Bus(x), \A b : d \notin {Ride(b), Card(b)}
    PROVE  SeatPlan(Saved(d, v) ++ f) /\ RoomPlan(Saved(d, v) ++ f)
<1> DEFINE g == Saved(d, v) ++ f
<1>1. DOMAIN g = {d} \cup DOMAIN f /\ g[d] = v
    BY DEF Saved, ++
<1>2. \A e \in DOMAIN f : e # d => g[e] = f[e]
    BY DEF Saved, ++
<1> HIDE DEF g
<1>3. \A b \in Book : Seated(f, b) => Seated(g, b)
    BY <1>1, <1>2 DEF Seated
<1>4. \A x \in Transport : \A k : Bus(x) \in DOMAIN f /\ Vacated(f, x, k) => Vacated(g, x, k)
    BY <1>1, <1>2 DEF Vacated
<1>5. SeatPlan(g)
    BY <1>1, <1>2, <1>3, <1>4 DEF SeatPlan
<1>6. RoomPlan(g)
    BY <1>1, <1>2 DEF RoomPlan
<1> QED
    BY <1>5, <1>6 DEF g

LEMMA SettlesKeeps ==
    ASSUME IInv, NEW i \in late, Settles(i)
    PROVE  IInv'
<1>1. PICK v : SoundSave(i, v) /\ Joins(i, Target(i), v)
    BY DEF Settles
<1> DEFINE d == Target(i)
           c == i.call
<1>2. /\ LodgingTypeOK /\ SessionsInv /\ DOMAIN doc = Document
      /\ DOMAIN writes = Call /\ i \in LateSave /\ late \subseteq LateSave /\ c \in Call
    BY TargetFacts DEF IInv, LodgingTypeOK, SessionsTypeOK
<1>3. /\ d \in Document /\ v \notin {None, Gone} /\ Contents(Saved(d, v))
      /\ \A x : d # Bus(x)
      /\ \A b : d \notin {Ride(b), Card(b)}
    BY <1>1, <1>2, SoundSaveFacts
<1> HIDE DEF d
<1>4. /\ \A t \in Call \ {c} : d \notin DOMAIN writes[t]
      /\ \/ pc[c] = "saved" /\ writes' = [writes EXCEPT ![c] = Saved(d, v) ++ writes[c]] /\ doc' = doc
         \/ pc[c] # "saved" /\ doc' = [doc EXCEPT ![d] = v] /\ writes' = writes
      /\ late' = late \ {i} /\ pc' = pc
    BY <1>1 DEF Joins, d
<1>5. CASE pc[c] = "saved"
  <2>1. /\ DOMAIN writes' = Call /\ writes'[c] = Saved(d, v) ++ writes[c]
        /\ \A t \in Call \ {c} : writes'[t] = writes[t]
        /\ doc' = doc
    BY <1>2, <1>4, <1>5
  <2>2. DOMAIN writes'[c] = {d} \cup DOMAIN writes[c]
    BY <2>1 DEF Saved, ++
  <2>3. \A e \in DOMAIN writes'[c] : writes'[c][e] = IF e = d THEN v ELSE writes[c][e]
    BY <2>1, <2>2 DEF Saved, ++
  <2>4. Contents(writes'[c])
    BY <1>2, <1>3, <2>1, BothContents DEF LodgingTypeOK
  <2>5. LodgingTypeOK'
    <3>1. SessionsTypeOK'
        BY <1>2, <1>3, <1>4, <2>1, <2>2 DEF SessionsTypeOK, LodgingTypeOK
    <3>2. \A t \in Call : Contents(writes'[t])
        BY <1>2, <2>1, <2>4 DEF LodgingTypeOK
    <3> QED
        BY <1>2, <1>4, <2>1, <3>1, <3>2 DEF LodgingTypeOK, Contents, ProgrammeContents
  <2>6. SessionsInv'
    BY <1>2, <1>4, <1>5, <2>1, <2>2 DEF SessionsInv
  <2>7. ASSUME NEW t \in Call
        PROVE  (SeatPlan(writes[t]) /\ RoomPlan(writes[t]))'
    <3>1. SeatPlan(writes[t]) /\ RoomPlan(writes[t])
        BY DEF IInv
    <3>2. CASE t = c
        <4>1. SeatPlan(Saved(d, v) ++ writes[c]) /\ RoomPlan(Saved(d, v) ++ writes[c])
            BY <1>3, <3>1, <3>2, JoinedPlan
        <4>2. SeatPlan(writes'[c]) /\ RoomPlan(writes'[c])
            BY <2>1, <4>1
        <4> QED
            BY <2>1, <3>2, <4>2, PlansKept
    <3>3. CASE t # c
        BY <2>1, <3>1, <3>3, PlansKept
    <3> QED
        BY <3>2, <3>3
  <2>8. ASSUME NEW j \in late'
        PROVE  LateInv(j)'
    <3>1. LateInv(j) /\ j.call \in Call
        BY <1>2, <1>4, TargetFacts DEF IInv
    <3>2. CASE j.call = c
        BY <1>3, <2>2, <2>3, <3>1, <3>2 DEF LateInv, Target
    <3>3. CASE j.call # c
        BY <2>1, <3>1, <3>3 DEF LateInv, Target
    <3> QED
        BY <3>2, <3>3
  <2> QED
    BY <2>5, <2>6, <2>7, <2>8 DEF IInv
<1>6. CASE pc[c] # "saved"
  <2>1. /\ DOMAIN writes[c] = {} /\ writes' = writes
        /\ DOMAIN doc' = Document /\ doc'[d] = v
        /\ \A e \in Document \ {d} : doc'[e] = doc[e]
    BY <1>2, <1>3, <1>4, <1>6 DEF SessionsInv
  <2>2. Contents(doc')
    <3>1. Contents(doc)
        BY <1>2 DEF LodgingTypeOK
    <3>2. d \in DOMAIN Saved(d, v) /\ Saved(d, v)[d] = v
        BY OneSaved
    <3> QED
        BY <1>2, <1>3, <2>1, <3>1, <3>2 DEF Contents, ProgrammeContents
  <2>3. \A t \in Call : \A e \in DOMAIN writes[t] : doc'[e] = doc[e]
    BY <1>2, <1>4, <2>1 DEF LodgingTypeOK, SessionsTypeOK
  <2>4. LodgingTypeOK'
    <3>1. SessionsTypeOK'
        BY <1>2, <1>4, <2>1 DEF SessionsTypeOK, LodgingTypeOK
    <3>2. \A t \in Call : Contents(writes'[t])
        BY <1>2, <2>1 DEF LodgingTypeOK
    <3> QED
        BY <1>2, <1>4, <2>1, <2>2, <3>1, <3>2 DEF LodgingTypeOK, Contents, ProgrammeContents
  <2>5. SessionsInv'
    BY <1>2, <1>4, <2>1 DEF SessionsInv
  <2>6. \A t \in Call : (SeatPlan(writes[t]) /\ RoomPlan(writes[t]))'
    BY <2>1, <2>3, PlansKept DEF IInv
  <2>7. \A j \in late' : LateInv(j)'
    BY <1>4, <2>1 DEF IInv, LateInv, Target
  <2> QED
    BY <2>4, <2>5, <2>6, <2>7 DEF IInv
<1> QED
    BY <1>5, <1>6

\* What the session of a late save sees of the document it is about to save is the
\* document, not that it is deleted.
LEMMA SeenFacts ==
    ASSUME IInv, NEW i \in late, Stored(Target(i))
    PROVE  /\ i.does = "set" => Seen(i, Target(i)) \in WorkshopBooking
           /\ i.does \in {"load", "add"} => Seen(i, Target(i)) \in WorkshopDocument
           /\ i.does \in {"leave", "join"} => Seen(i, Target(i)) \in RoomBooking
<1> DEFINE d == Target(i)
           v == Seen(i, d)
<1>1. LodgingTypeOK /\ i \in LateSave /\ i.call \in Call /\ LateInv(i)
    BY TargetFacts DEF IInv, LodgingTypeOK
<1>2. \/ v = doc[d] /\ d \in DOMAIN doc
      \/ v = writes[i.call][d] /\ d \in DOMAIN writes[i.call]
  <2>1. d \in Document
    BY <1>1, TargetFacts, DocumentNames
  <2> QED
    BY <1>1, <2>1 DEF Seen, LodgingTypeOK
<1>3. v \notin {None, Gone}
    BY <1>1, <1>2 DEF LateInv, Stored, Seen
<1>4. \E f : Contents(f) /\ d \in DOMAIN f /\ v = f[d]
    BY <1>1, <1>2 DEF LodgingTypeOK
<1> HIDE DEF v
<1>5. PICK f : Contents(f) /\ d \in DOMAIN f /\ v = f[d]
    BY <1>4
<1>6. CASE i.does = "set"
  <2>1. i.book \in Book /\ d = Choice(i.book)
    BY <1>1, <1>6, TargetFacts
  <2> QED
    BY <1>3, <1>5, <1>6, <2>1 DEF Contents, ProgrammeContents, v
<1>7. CASE i.does \in {"load", "add"}
  <2>1. i.ws \in Workshop /\ d = Hall(i.ws)
    BY <1>1, <1>7, TargetFacts
  <2> QED
    BY <1>3, <1>5, <1>7, <2>1 DEF Contents, ProgrammeContents, v
<1>8. CASE i.does \in {"leave", "join"}
  <2>1. i.room \in Room /\ d = Flat(i.room)
    BY <1>1, <1>8, TargetFacts
  <2> QED
    BY <1>3, <1>5, <1>8, <2>1 DEF Contents, v
<1> QED
    BY <1>1, <1>6, <1>7, <1>8, TargetFacts

LEMMA SetLateSettles ==
    ASSUME IInv, NEW i \in late, SetLate(i)
    PROVE  Settles(i)
<1>1. i \in LateSave /\ i.does = "set" /\ i.book \in Book /\ i.slot \in 1..Groups /\ i.ws \in Slot
      /\ Target(i) = Choice(i.book) /\ i.call \in Call
    BY TargetFacts DEF IInv, LodgingTypeOK, SetLate
<1> DEFINE c == Seen(i, Target(i))
           v == [c EXCEPT !.ids[i.slot] = i.ws]
<1>2. Joins(i, Target(i), v) /\ Stored(Target(i))
    BY <1>1 DEF SetLate, Joins
<1>3. c \in WorkshopBooking
    BY <1>1, <1>2, SeenFacts
<1>4. v \in WorkshopBooking
  <2> HIDE DEF c
  <2>1. [c.ids EXCEPT ![i.slot] = i.ws] \in [1..Groups -> Slot]
    BY <1>1, <1>3 DEF WorkshopBooking
  <2> QED
    BY <1>3, <2>1 DEF WorkshopBooking
<1>5. \A g \in 1..Groups : v.ids[g] = IF g = i.slot THEN i.ws ELSE c.ids[g]
  <2> HIDE DEF c
  <2> QED
    BY <1>1, <1>3 DEF WorkshopBooking
<1>6. c \notin {None, Gone}
    BY <1>3, AbsenceAssumption
<1>7. ASSUME NEW g \in 1..Groups
      PROVE  v.ids[g] \in Picked(i.book, g)
  <2>1. CASE g = i.slot
    <3>1. i.ws \in {j.ws : j \in {k \in late : k.does = "set" /\ k.book = i.book /\ k.slot = g}}
        BY <1>1, <2>1
    <3> QED
        BY <1>5, <2>1, <3>1 DEF Picked
  <2>2. CASE g # i.slot
    <3>1. c \in {doc[Choice(i.book)]} \cup
                {writes[t][Choice(i.book)] : t \in {u \in Call : Choice(i.book) \in DOMAIN writes[u]}}
        BY <1>1 DEF Seen
    <3>2. c.ids[g] \in Picked(i.book, g)
        BY <1>6, <3>1 DEF Picked
    <3> QED
        BY <1>5, <2>2, <3>2
  <2> QED
    BY <2>1, <2>2
<1>8. SoundSave(i, v)
    BY <1>1, <1>4, <1>7 DEF SoundSave
<1> QED
    BY <1>2, <1>8 DEF Settles

LEMMA AddLateSettles ==
    ASSUME IInv, NEW i \in late, AddLate(i)
    PROVE  Settles(i)
<1>1. i \in LateSave /\ i.does = "add" /\ i.user \in User /\ i.ws \in Workshop /\ Target(i) = Hall(i.ws)
    BY TargetFacts DEF IInv, LodgingTypeOK, AddLate
<1> DEFINE w == Seen(i, Target(i))
           v == [w EXCEPT !.who = Append(w.who, i.user)]
<1>2. Joins(i, Target(i), v) /\ Stored(Target(i))
    BY <1>1 DEF AddLate, Joins
<1>3. w \in WorkshopDocument
    BY <1>1, <1>2, SeenFacts
<1>4. v \in WorkshopDocument
  <2> HIDE DEF w
  <2>1. Append(w.who, i.user) \in Seq(User)
    BY <1>1, <1>3, AppendProperties DEF WorkshopDocument
  <2> QED
    BY <1>3, <2>1 DEF WorkshopDocument
<1>5. SoundSave(i, v)
    BY <1>1, <1>4 DEF SoundSave
<1> QED
    BY <1>2, <1>5 DEF Settles

LEMMA JoinLateSettles ==
    ASSUME IInv, NEW i \in late, JoinLate(i)
    PROVE  Settles(i)
<1>1. i \in LateSave /\ i.does = "join" /\ i.user \in User /\ i.room \in Room /\ Target(i) = Flat(i.room)
    BY TargetFacts DEF IInv, LodgingTypeOK, JoinLate
<1> DEFINE r == Seen(i, Target(i))
           v == [r EXCEPT !.who = Append(r.who, i.user)]
<1>2. Joins(i, Target(i), v) /\ Stored(Target(i))
    BY <1>1 DEF JoinLate, Joins
<1>3. r \in RoomBooking
    BY <1>1, <1>2, SeenFacts
<1>4. v \in RoomBooking
  <2> HIDE DEF r
  <2>1. Append(r.who, i.user) \in Seq(User)
    BY <1>1, <1>3, AppendProperties DEF RoomBooking
  <2> QED
    BY <1>3, <2>1 DEF RoomBooking
<1>5. SoundSave(i, v)
    BY <1>1, <1>4 DEF SoundSave
<1> QED
    BY <1>2, <1>5 DEF Settles

\* The roommate who leaves is found, as the list is the one the roommate was found in.
LEMMA LeaveLateSettles ==
    ASSUME IInv, NEW i \in late, LeaveLate(i)
    PROVE  Settles(i)
<1>1. /\ i \in LateSave /\ i.does = "leave" /\ i.user \in User /\ i.room \in Room
      /\ i.was \in Seq(User) /\ Target(i) = Flat(i.room) /\ LateInv(i)
    BY TargetFacts DEF IInv, LodgingTypeOK, LeaveLate
<1> DEFINE r == Seen(i, Target(i))
           v == [r EXCEPT !.who = Dropped(r.who, Place(r.who, i.user))]
<1>2. Joins(i, Target(i), v) /\ Stored(Target(i)) /\ r.who = i.was
    BY <1>1 DEF LeaveLate, Joins
<1>3. r \in RoomBooking
    BY <1>1, <1>2, SeenFacts
<1>4. \E k \in DOMAIN i.was : i.was[k] = i.user
    BY <1>1, LenProperties DEF LateInv, Contains
<1>5. Place(i.was, i.user) \in 1..Len(i.was)
    BY <1>1, <1>4, PlaceFound
<1>6. v \in RoomBooking
  <2> HIDE DEF r
  <2>1. Dropped(r.who, Place(r.who, i.user)) \in Seq(User)
    BY <1>1, <1>2, <1>5, DroppedFacts
  <2> QED
    BY <1>3, <2>1 DEF RoomBooking
<1>7. SoundSave(i, v)
    BY <1>1, <1>6 DEF SoundSave
<1> QED
    BY <1>2, <1>7 DEF Settles

\* The workshop has been loaded: what was to be loaded is to be added.
LEMMA LoadLateKeeps ==
    ASSUME IInv, NEW i \in late, LoadLate(i)
    PROVE  IInv'
<1> DEFINE j == [i EXCEPT !.does = "add"]
<1>1. /\ LodgingTypeOK /\ SessionsInv /\ i \in LateSave /\ i.does = "load"
      /\ late \subseteq LateSave /\ LateInv(i)
    BY DEF IInv, LodgingTypeOK, LoadLate
<1>2. late' = (late \ {i}) \cup {j} /\ doc' = doc /\ pc' = pc /\ writes' = writes
    BY DEF LoadLate
<1>3. i \in [does : {"load", "add"}, call : Call, user : User, ws : Workshop]
    BY <1>1 DEF LateSave
<1>4. j \in [does : {"load", "add"}, call : Call, user : User, ws : Workshop] /\ j.does = "add"
      /\ j.call = i.call /\ j.ws = i.ws
    BY <1>3
<1>5. j \in LateSave /\ Target(j) = Target(i)
  <2>1. j \in LateSave
    BY <1>4 DEF LateSave
  <2>2. Target(i) = Hall(i.ws)
    BY <1>1, TargetFacts
  <2>3. Target(j) = Hall(j.ws)
    BY <1>4, <2>1, TargetFacts
  <2> QED
    BY <1>4, <2>1, <2>2, <2>3
<1> HIDE DEF j
<1>6. LodgingTypeOK'
    BY <1>1, <1>2, <1>5 DEF LodgingTypeOK, SessionsTypeOK, Contents, ProgrammeContents
<1>7. SessionsInv'
    BY <1>1, <1>2, <1>4 DEF SessionsInv
<1>8. \A u \in Call : (SeatPlan(writes[u]) /\ RoomPlan(writes[u]))'
    BY <1>2, PlansKept DEF IInv
<1>9. \A k \in late' : LateInv(k)'
  <2>1. LateInv(j)
    BY <1>1, <1>4, <1>5 DEF LateInv
  <2>2. \A k \in late' : LateInv(k)
    BY <1>2, <2>1 DEF IInv
  <2> QED
    BY <1>2, <2>2 DEF LateInv, Target
<1> QED
    BY <1>6, <1>7, <1>8, <1>9 DEF IInv

LEMMA LoseLateKeeps ==
    ASSUME IInv, NEW i \in late, LoseLate(i)
    PROVE  IInv'
<1>1. late' \subseteq late /\ doc' = doc /\ pc' = pc /\ writes' = writes
    BY DEF LoseLate
<1>2. LodgingTypeOK'
    BY <1>1 DEF IInv, LodgingTypeOK, SessionsTypeOK, Contents, ProgrammeContents
<1>3. SessionsInv'
    BY <1>1 DEF IInv, SessionsInv
<1>4. \A u \in Call : (SeatPlan(writes[u]) /\ RoomPlan(writes[u]))'
    BY <1>1, PlansKept DEF IInv
<1>5. \A k \in late' : LateInv(k)'
    BY <1>1 DEF IInv, LateInv, Target
<1> QED
    BY <1>2, <1>3, <1>4, <1>5 DEF IInv

LEMMA StopKeeps ==
    ASSUME IInv, Stop
    PROVE  IInv'
<1>1. /\ late' = {} /\ doc' = doc /\ writes' = [t \in Call |-> <<>>]
      /\ pc' = [t \in Call |-> IF pc[t] = "saved" THEN "lost" ELSE pc[t]]
    BY DEF Stop
<1>2. \A t \in Call : DOMAIN writes'[t] = {}
    BY <1>1
<1>3. LodgingTypeOK'
  <2>1. SessionsTypeOK'
    BY <1>1, <1>2 DEF IInv, LodgingTypeOK, SessionsTypeOK
  <2>2. \A t \in Call : Contents(writes'[t])
    BY <1>2, NothingPlanned
  <2> QED
    BY <1>1, <2>1, <2>2 DEF IInv, LodgingTypeOK, Contents, ProgrammeContents
<1>4. SessionsInv'
    BY <1>1, <1>2 DEF SessionsInv
<1>5. ASSUME NEW u \in Call
      PROVE  (SeatPlan(writes[u]) /\ RoomPlan(writes[u]))'
    BY <1>1, <1>2, NothingPlanned, PlansKept
<1> QED
    BY <1>1, <1>3, <1>4, <1>5 DEF IInv

LEMMA InitHolds ==
    ASSUME Init
    PROVE  IInv
<1>1. doc \in Start /\ pc = [t \in Call |-> "new"] /\ writes = [t \in Call |-> <<>>] /\ late = {}
    BY DEF Init
<1>2. DOMAIN doc = Document /\ Contents(doc)
    BY <1>1, StartAssumption
<1>3. \A t \in Call : DOMAIN writes[t] = {}
    BY <1>1
<1>4. \A t \in Call : Contents(writes[t]) /\ SeatPlan(writes[t]) /\ RoomPlan(writes[t])
    BY <1>3, NothingPlanned
<1>5. LodgingTypeOK
    BY <1>1, <1>2, <1>3, <1>4 DEF LodgingTypeOK, SessionsTypeOK
<1>6. SessionsInv
    BY <1>1, <1>3 DEF SessionsInv
<1> QED
    BY <1>1, <1>4, <1>5, <1>6 DEF IInv

-----------------------------------------------------------------------------
(***************************************************************************)
(* What a method may save                                                  *)
(***************************************************************************)

LEMMA SoundNothing ==
    /\ Sound(<<>>)
    /\ \A t : SoundLate(t, {}, <<>>)
<1>1. DOMAIN <<>> = {}
    BY NothingSaved
<1>2. Contents(<<>>) /\ SeatPlan(<<>>) /\ RoomPlan(<<>>)
    BY <1>1, NothingPlanned
<1> QED
    BY <1>1, <1>2 DEF Sound, ChoicePlan, SoundLate

\* The save of one document.
LEMMA OneDocument ==
    ASSUME NEW f, NEW d, DOMAIN f = {d}
    PROVE  /\ d \in Document => DOMAIN f \subseteq Document
           /\ RoomPlan(f)
           /\ (\A b \in Book : d # Choice(b)) => ChoicePlan(f)
           /\ (\A x \in Transport : d # Bus(x)) /\ (\A b \in Book : d # Ride(b)) => SeatPlan(f)
<1>1. d \in Document => DOMAIN f \subseteq Document
    OBVIOUS
<1>2. \A b, r : ~ (Card(b) \in DOMAIN f /\ Flat(r) \in DOMAIN f)
    BY Names
<1>3. RoomPlan(f)
    BY <1>2 DEF RoomPlan
<1>4. (\A b \in Book : d # Choice(b)) => ChoicePlan(f)
    BY DEF ChoicePlan
<1>5. (\A x \in Transport : d # Bus(x)) /\ (\A b \in Book : d # Ride(b)) => SeatPlan(f)
    BY DEF SeatPlan
<1> QED
    BY <1>1, <1>3, <1>4, <1>5

LEMMA SoundMember ==
    ASSUME NEW u \in User, NEW v \in Book \cup {None}
    PROVE  Sound(Saved(Member(u), v))
<1> DEFINE f == Saved(Member(u), v)
<1>1. DOMAIN f = {Member(u)} /\ Contents(f)
    BY OneSaved, SavedContents
<1> HIDE DEF f
<1>2. SeatPlan(f) /\ RoomPlan(f) /\ ChoicePlan(f) /\ DOMAIN f \subseteq Document
  <2>1. Member(u) \in Document
    BY DocumentNames
  <2>2. \A a : Member(u) # Choice(a) /\ Member(u) # Bus(a) /\ Member(u) # Ride(a)
    BY Names
  <2> QED
    BY <1>1, <2>1, <2>2, OneDocument
<1> QED
    BY <1>1, <1>2 DEF Sound, f

LEMMA SoundHall ==
    ASSUME NEW w \in Workshop, NEW v \in WorkshopDocument \cup {None}
    PROVE  Sound(Saved(Hall(w), v))
<1> DEFINE f == Saved(Hall(w), v)
<1>1. DOMAIN f = {Hall(w)} /\ Contents(f)
    BY OneSaved, SavedContents
<1> HIDE DEF f
<1>2. SeatPlan(f) /\ RoomPlan(f) /\ ChoicePlan(f) /\ DOMAIN f \subseteq Document
  <2>1. Hall(w) \in Document
    BY DocumentNames
  <2>2. \A a : Hall(w) # Choice(a) /\ Hall(w) # Bus(a) /\ Hall(w) # Ride(a)
    BY Names
  <2> QED
    BY <1>1, <2>1, <2>2, OneDocument
<1> QED
    BY <1>1, <1>2 DEF Sound, f

LEMMA SoundCard ==
    ASSUME NEW b \in Book, NEW v \in UserBooking \cup {None, Gone}
    PROVE  Sound(Saved(Card(b), v))
<1> DEFINE f == Saved(Card(b), v)
<1>1. DOMAIN f = {Card(b)} /\ Contents(f)
    BY OneSaved, SavedContents
<1> HIDE DEF f
<1>2. SeatPlan(f) /\ RoomPlan(f) /\ ChoicePlan(f) /\ DOMAIN f \subseteq Document
  <2>1. Card(b) \in Document
    BY DocumentNames
  <2>2. \A a : Card(b) # Choice(a) /\ Card(b) # Bus(a) /\ Card(b) # Ride(a)
    BY Names
  <2> QED
    BY <1>1, <2>1, <2>2, OneDocument
<1> QED
    BY <1>1, <1>2 DEF Sound, f

LEMMA SoundFlat ==
    ASSUME NEW r \in Room, NEW v \in RoomBooking \cup {None, Gone}
    PROVE  Sound(Saved(Flat(r), v))
<1> DEFINE f == Saved(Flat(r), v)
<1>1. DOMAIN f = {Flat(r)} /\ Contents(f)
    BY OneSaved, SavedContents
<1> HIDE DEF f
<1>2. SeatPlan(f) /\ RoomPlan(f) /\ ChoicePlan(f) /\ DOMAIN f \subseteq Document
  <2>1. Flat(r) \in Document
    BY DocumentNames
  <2>2. \A a : Flat(r) # Choice(a) /\ Flat(r) # Bus(a) /\ Flat(r) # Ride(a)
    BY Names
  <2> QED
    BY <1>1, <2>1, <2>2, OneDocument
<1> QED
    BY <1>1, <1>2 DEF Sound, f

LEMMA SoundChoice ==
    ASSUME NEW b \in Book, NEW v \in WorkshopBooking \cup {None, Gone},
           v \notin {None, Gone} =>
              \A g \in 1..Groups : v.ids[g] = None \/ v.ids[g] \in Picked(b, g) \/ InGroup(v.ids[g], g)
    PROVE  Sound(Saved(Choice(b), v))
<1> DEFINE f == Saved(Choice(b), v)
<1>1. DOMAIN f = {Choice(b)} /\ Contents(f) /\ f[Choice(b)] = v
    BY OneSaved, SavedContents
<1> HIDE DEF f
<1>2. SeatPlan(f) /\ RoomPlan(f) /\ DOMAIN f \subseteq Document
  <2>1. Choice(b) \in Document
    BY DocumentNames
  <2>2. \A a : Choice(b) # Bus(a) /\ Choice(b) # Ride(a)
    BY Names
  <2> QED
    BY <1>1, <2>1, <2>2, OneDocument
<1>3. ChoicePlan(f)
    BY <1>1, Names DEF ChoicePlan
<1> QED
    BY <1>1, <1>2, <1>3 DEF Sound, f

LEMMA SoundRide ==
    ASSUME NEW b \in Book, NEW v \in TransportBooking \cup {None, Gone},
           v \notin {None, Gone} =>
              \/ v.status = "in_progress"
              \/ Stored(Ride(b)) /\ doc[Ride(b)].status = "completed"
    PROVE  Sound(Saved(Ride(b), v))
<1> DEFINE f == Saved(Ride(b), v)
<1>1. DOMAIN f = {Ride(b)} /\ Contents(f) /\ f[Ride(b)] = v
    BY OneSaved, SavedContents
<1> HIDE DEF f
<1>2. RoomPlan(f) /\ ChoicePlan(f) /\ DOMAIN f \subseteq Document
  <2>1. Ride(b) \in Document
    BY DocumentNames
  <2>2. \A a : Ride(b) # Choice(a)
    BY Names
  <2> QED
    BY <1>1, <2>1, <2>2, OneDocument
<1>3. SeatPlan(f)
    BY <1>1, Names DEF SeatPlan
<1> QED
    BY <1>1, <1>2, <1>3 DEF Sound, f

LEMMA SoundBus ==
    ASSUME LodgingTypeOK, NEW x \in Transport, NEW k \in DOMAIN doc[Bus(x)].who, Stored(Bus(x))
    PROVE  Sound(Saved(Bus(x), [doc[Bus(x)] EXCEPT !.who = Dropped(doc[Bus(x)].who, k)]))
<1> DEFINE v == [doc[Bus(x)] EXCEPT !.who = Dropped(doc[Bus(x)].who, k)]
           f == Saved(Bus(x), v)
<1>1. doc[Bus(x)] \in TransportDocument
    BY StoredContents
<1>2. v \in TransportDocument
  <2>1. doc[Bus(x)].who \in Seq(User)
    BY <1>1 DEF TransportDocument
  <2>2. k \in 1..Len(doc[Bus(x)].who)
    BY <2>1, LenProperties
  <2>3. Dropped(doc[Bus(x)].who, k) \in Seq(User)
    BY <2>1, <2>2, DroppedFacts
  <2> QED
    BY <1>1, <2>3 DEF TransportDocument
<1>3. DOMAIN f = {Bus(x)} /\ Contents(f) /\ f[Bus(x)] = v
    BY <1>2, OneSaved, SavedContents
<1>4. Vacated(f, x, k)
    BY <1>3 DEF Vacated
<1> HIDE DEF f
<1>5. RoomPlan(f) /\ ChoicePlan(f) /\ DOMAIN f \subseteq Document
  <2>1. Bus(x) \in Document
    BY DocumentNames
  <2>2. \A a : Bus(x) # Choice(a)
    BY Names
  <2> QED
    BY <1>3, <2>1, <2>2, OneDocument
<1>6. SeatPlan(f)
    BY <1>3, <1>4, Names DEF SeatPlan
<1> QED
    BY <1>3, <1>5, <1>6 DEF Sound, f

\* Two saves of which the first is of no transport and no booking of one.
LEMMA SoundBoth ==
    ASSUME NEW f, NEW g, Sound(f), Sound(g), RoomPlan(f ++ g),
           \A x : Bus(x) \notin DOMAIN f, \A b : Ride(b) \notin DOMAIN f
    PROVE  Sound(f ++ g)
<1> DEFINE h == f ++ g
<1>1. DOMAIN h = DOMAIN f \cup DOMAIN g
    BY DEF ++
<1>2. \A d \in DOMAIN h : \/ d \in DOMAIN f /\ h[d] = f[d]
                          \/ d \in DOMAIN g \ DOMAIN f /\ h[d] = g[d]
    BY DEF ++
<1>3. Contents(h)
    BY BothContents DEF Sound
<1> HIDE DEF h
<1>4. DOMAIN h \subseteq Document
    BY <1>1 DEF Sound
<1>5. ChoicePlan(h)
    BY <1>2 DEF Sound, ChoicePlan
<1>6. SeatPlan(h)
  <2>1. \A b \in Book : Seated(g, b) => Seated(h, b)
    BY <1>1, <1>2 DEF Seated
  <2>2. \A x \in Transport : \A k : Bus(x) \in DOMAIN h /\ Vacated(g, x, k) => Vacated(h, x, k)
    BY <1>1, <1>2 DEF Vacated
  <2>3. SeatPlan(g)
    BY DEF Sound
  <2> QED
    BY <1>1, <1>2, <2>1, <2>2, <2>3 DEF SeatPlan
<1>7. RoomPlan(h)
    BY DEF h
<1> QED
    BY <1>3, <1>4, <1>5, <1>6, <1>7 DEF Sound, h

-----------------------------------------------------------------------------
(***************************************************************************)
(* Each method is a call of its kind                                       *)
(***************************************************************************)

\* A method that awaits everything: it throws, or saves f.
LEMMA ThrowingCall ==
    ASSUME NEW t, pc[t] = "new", pc' = [pc EXCEPT ![t] = "failed"], UNCHANGED <<doc, writes, late>>
    PROVE  Called(t)
<1>1. Fails(t, {})
    BY SoundNothing DEF Fails, NewFlat
<1> QED
    BY <1>1 DEF Called

LEMMA SavingCall ==
    ASSUME NEW t, NEW f, Sound(f), pc[t] = "new", \A d \in DOMAIN f : Free(d),
           pc' = [pc EXCEPT ![t] = "saved"], writes' = [writes EXCEPT ![t] = f], UNCHANGED <<doc, late>>
    PROVE  Called(t)
<1>1. Saves(t, f, {})
    BY DEF Saves, NewFlat, SoundLate
<1> QED
    BY <1>1 DEF Called

\* Who is booked in has a user booking that is stored.
LEMMA BookedFacts ==
    ASSUME LodgingTypeOK, NEW u \in User, Booked(u)
    PROVE  BookOf(u) \in Book /\ Stored(Card(BookOf(u)))
    BY StoredContents DEF Booked

LEMMA LeaveWorkshopCalled ==
    ASSUME IInv, NEW t \in Call, NEW u \in User, NEW w \in Workshop, LeaveWorkshop(t, u, w)
    PROVE  Called(t)
<1> DEFINE s == doc[Hall(w)].who
           k == IF Sits(Hall(w), u) THEN Place(s, u) ELSE Len(s)
           v == [doc[Hall(w)] EXCEPT !.who = Dropped(s, k)]
<1>1. Awaited(t, Stored(Hall(w)), Saved(Hall(w), v))
    BY DEF LeaveWorkshop
<1>2. CASE ~ Stored(Hall(w))
    BY <1>1, <1>2, ThrowingCall DEF Awaited, Attempt
<1>3. CASE Stored(Hall(w))
  <2>1. doc[Hall(w)] \in WorkshopDocument /\ s \in Seq(User)
    BY <1>3, StoredContents DEF IInv, WorkshopDocument
  <2>2. Len(s) \in Nat /\ DOMAIN s = 1..Len(s)
    BY <2>1, LenProperties
  <2>3. k \in 0..Len(s) /\ (k = 0 => Len(s) = 0)
    <3>1. CASE Sits(Hall(w), u)
        <4>1. Place(s, u) \in 1..Len(s)
            BY <2>1, <3>1, PlaceFound DEF Sits
        <4> QED
            BY <2>2, <3>1, <4>1
    <3>2. CASE ~ Sits(Hall(w), u)
        BY <2>2, <3>2
    <3> QED
        BY <3>1, <3>2
  <2>4. Dropped(s, k) \in Seq(User)
    <3> HIDE DEF k, s
    <3>1. CASE k = 0
        BY <2>1, <2>3, <3>1, DroppedNothing
    <3>2. CASE k # 0
        <4>1. k \in 1..Len(s)
            BY <2>2, <2>3, <3>2
        <4> QED
            BY <2>1, <4>1, DroppedFacts
    <3> QED
        BY <3>1, <3>2
  <2>5. v \in WorkshopDocument
    <3> HIDE DEF k, s
    <3> QED
        BY <2>1, <2>4 DEF WorkshopDocument
  <2> HIDE DEF v
  <2>6. Sound(Saved(Hall(w), v))
    BY <2>5, SoundHall
  <2> QED
    BY <1>1, <1>3, <2>6, SavingCall DEF Awaited, Attempt
<1> QED
    BY <1>2, <1>3

\* A choice that is made or changed stays, is emptied or is in its group.
LEMMA ChangeableChoice ==
    ASSUME LodgingTypeOK, NEW b \in Book, NEW g \in 1..Groups, NEW w \in Slot, Changeable(b, g, w)
    PROVE  w = None \/ InGroup(w, g)
    BY DEF Changeable, InGroup

LEMMA FittingChoice ==
    ASSUME NEW g \in 1..Groups, NEW w \in Slot, Fits(g, w)
    PROVE  w = None \/ InGroup(w, g)
    BY DEF Fits, InGroup

LEMMA StoredPicked ==
    ASSUME NEW b \in Book, NEW g \in 1..Groups, Stored(Choice(b))
    PROVE  doc[Choice(b)].ids[g] \in Picked(b, g)
    BY DEF Picked, Stored

LEMMA CreateWorkshopBookingCalled ==
    ASSUME IInv, NEW t \in Call, NEW u \in User, NEW b \in Book, NEW ids \in [1..Groups -> Slot],
           CreateWorkshopBooking(t, u, b, ids)
    PROVE  Called(t)
<1> DEFINE v == [user |-> u, ids |-> ids, status |-> "in_progress"]
           ok == \A g \in 1..Groups : Fits(g, ids[g])
<1>1. Awaited(t, ok, Saved(Choice(b), v))
    BY DEF CreateWorkshopBooking
<1>2. CASE ~ ok
    BY <1>1, <1>2, ThrowingCall DEF Awaited, Attempt
<1>3. CASE ok
  <2>1. v \in WorkshopBooking
    BY DEF WorkshopBooking, Status
  <2>2. \A g \in 1..Groups : v.ids[g] = None \/ InGroup(v.ids[g], g)
    BY <1>3, FittingChoice
  <2> HIDE DEF v
  <2>3. Sound(Saved(Choice(b), v))
    BY <2>1, <2>2, SoundChoice
  <2> QED
    BY <1>1, <1>3, <2>3, SavingCall DEF Awaited, Attempt
<1> QED
    BY <1>2, <1>3

LEMMA ChosenSound ==
    ASSUME LodgingTypeOK, NEW b \in Book, NEW ids \in [1..Groups -> Slot], AllChangeable(b, ids)
    PROVE  Sound(Chosen(b, ids))
<1> DEFINE v == [doc[Choice(b)] EXCEPT !.ids = ids]
<1>1. doc[Choice(b)] \in WorkshopBooking
    BY StoredContents DEF AllChangeable
<1>2. v \in WorkshopBooking /\ v.ids = ids
    BY <1>1 DEF WorkshopBooking
<1>3. \A g \in 1..Groups : ids[g] = None \/ InGroup(ids[g], g)
    BY ChangeableChoice DEF AllChangeable
<1> HIDE DEF v
<1>4. Sound(Saved(Choice(b), v))
    BY <1>2, <1>3, SoundChoice
<1> QED
    BY <1>4 DEF Chosen, v

LEMMA TransfersParticipantCalled ==
    ASSUME IInv, NEW t \in Call, NEW u \in User, NEW ids \in [1..Groups -> Slot],
           TransfersParticipant(t, u, ids)
    PROVE  Called(t)
<1> DEFINE b == BookOf(u)
           ok == Booked(u) /\ AllChangeable(b, ids)
<1>1. Awaited(t, ok, Chosen(b, ids))
    BY DEF TransfersParticipant
<1>2. CASE ~ ok
    BY <1>1, <1>2, ThrowingCall DEF Awaited, Attempt
<1>3. CASE ok
  <2>1. Sound(Chosen(b, ids))
    BY <1>3, BookedFacts, ChosenSound DEF IInv
  <2> QED
    BY <1>1, <1>3, <2>1, SavingCall DEF Awaited, Attempt
<1> QED
    BY <1>2, <1>3

LEMMA TransferParticipantCalled ==
    ASSUME IInv, NEW t \in Call, NEW u \in User, NEW g \in 1..Groups, NEW w \in Slot,
           TransferParticipant(t, u, g, w)
    PROVE  Called(t)
<1> DEFINE b == BookOf(u)
           c == doc[Choice(b)]
           v == [c EXCEPT !.ids[g] = w]
           ok == Booked(u) /\ Stored(Choice(b)) /\ Changeable(b, g, w)
<1>1. Awaited(t, ok, Saved(Choice(b), v))
    BY DEF TransferParticipant
<1>2. CASE ~ ok
    BY <1>1, <1>2, ThrowingCall DEF Awaited, Attempt
<1>3. CASE ok
  <2>1. b \in Book /\ c \in WorkshopBooking
    BY <1>3, BookedFacts, StoredContents DEF IInv
  <2>2. w = None \/ InGroup(w, g)
    BY <1>3, <2>1, ChangeableChoice DEF IInv
  <2>3. \A h \in 1..Groups : c.ids[h] \in Picked(b, h)
    BY <1>3, <2>1, StoredPicked
  <2> HIDE DEF c, b
  <2>4. v \in WorkshopBooking
    <3>1. [c.ids EXCEPT ![g] = w] \in [1..Groups -> Slot]
        BY <2>1 DEF WorkshopBooking
    <3> QED
        BY <2>1, <3>1 DEF WorkshopBooking
  <2>5. \A h \in 1..Groups : v.ids[h] = IF h = g THEN w ELSE c.ids[h]
    BY <2>1 DEF WorkshopBooking
  <2> HIDE DEF v
  <2>6. \A h \in 1..Groups : v.ids[h] = None \/ v.ids[h] \in Picked(b, h) \/ InGroup(v.ids[h], h)
    BY <2>2, <2>3, <2>5
  <2>7. Sound(Saved(Choice(b), v))
    BY <2>1, <2>4, <2>6, SoundChoice
  <2> QED
    BY <1>1, <1>3, <2>7, SavingCall DEF Awaited, Attempt
<1> QED
    BY <1>2, <1>3

\* The two saves of an exchange are late; nothing is saved in the transaction.
LEMMA ExchangeParticipantsCalled ==
    ASSUME IInv, NEW t \in Call, NEW u \in User, NEW v \in User, NEW g \in 1..Groups,
           ExchangeParticipants(t, u, v, g)
    PROVE  Called(t)
<1> DEFINE b == BookOf(u)
           c == BookOf(v)
           w == doc[Choice(b)].ids[g]
           y == doc[Choice(c)].ids[g]
           ok == /\ Booked(u) /\ Stored(Choice(b)) /\ w # None
                 /\ Booked(v) /\ Stored(Choice(c)) /\ y # None
                 /\ Changeable(b, g, y) /\ Changeable(c, g, w)
           L == {ToChoose(t, b, g, y), ToChoose(t, c, g, w)}
<1>1. /\ Attempt(t, ok, <<>>) /\ doc' = doc
      /\ late' = late \cup (IF ok THEN L ELSE {})
    BY DEF ExchangeParticipants
<1>2. CASE ~ ok
    BY <1>1, <1>2, ThrowingCall DEF Attempt
<1>3. CASE ok
  <2>1. b \in Book /\ c \in Book /\ w \in Slot /\ y \in Slot
    <3>1. b \in Book /\ c \in Book
        BY <1>3, BookedFacts DEF IInv
    <3>2. doc[Choice(b)] \in WorkshopBooking /\ doc[Choice(c)] \in WorkshopBooking
        BY <1>3, <3>1, StoredContents DEF IInv
    <3> QED
        BY <3>1, <3>2 DEF WorkshopBooking
  <2>2. InGroup(y, g) /\ InGroup(w, g)
    BY <1>3, <2>1, ChangeableChoice DEF IInv
  <2> HIDE DEF b, c, w, y
  <2>3. \A i \in L : /\ i \in [does : {"set"}, call : Call, book : Book, slot : 1..Groups, ws : Slot]
                     /\ i.call = t /\ i.does = "set" /\ InGroup(i.ws, i.slot)
    BY <2>1, <2>2 DEF ToChoose
  <2>4. L \subseteq LateSave
    BY <2>3 DEF LateSave
  <2>5. SoundLate(t, L, <<>>)
    BY <2>3, <2>4, NothingSaved DEF SoundLate
  <2> HIDE DEF L
  <2>6. Saves(t, <<>>, L)
    BY <1>1, <1>3, <2>5, SoundNothing, NothingSaved DEF Attempt, Saves, NewFlat
  <2> QED
    BY <2>6 DEF Called
<1> QED
    BY <1>2, <1>3

LEMMA RemoveParticipantCalled ==
    ASSUME IInv, NEW t \in Call, NEW u \in User, RemoveParticipant(t, u)
    PROVE  Called(t)
<1> DEFINE f == Saved(Choice(BookOf(u)), None)
<1>1. Awaited(t, Booked(u), f)
    BY DEF RemoveParticipant
<1>2. CASE ~ Booked(u)
    BY <1>1, <1>2, ThrowingCall DEF Awaited, Attempt
<1>3. CASE Booked(u)
  <2>1. Sound(f)
    BY <1>3, BookedFacts, SoundChoice DEF IInv
  <2> HIDE DEF f
  <2> QED
    BY <1>1, <1>3, <2>1, SavingCall DEF Awaited, Attempt
<1> QED
    BY <1>2, <1>3

LEMMA RemovePassengerCalled ==
    ASSUME IInv, NEW t \in Call, NEW u \in User, RemovePassenger(t, u)
    PROVE  Called(t)
<1> DEFINE f == Saved(Ride(BookOf(u)), None)
<1>1. Awaited(t, Booked(u), f)
    BY DEF RemovePassenger
<1>2. CASE ~ Booked(u)
    BY <1>1, <1>2, ThrowingCall DEF Awaited, Attempt
<1>3. CASE Booked(u)
  <2>1. Sound(f)
    BY <1>3, BookedFacts, SoundRide DEF IInv
  <2> HIDE DEF f
  <2> QED
    BY <1>1, <1>3, <2>1, SavingCall DEF Awaited, Attempt
<1> QED
    BY <1>2, <1>3

\* A deletion by the id, of a booking that may not be there.
LEMMA DeletionCalled ==
    ASSUME NEW t \in Call, NEW d, Awaited(t, TRUE, Deleted(d)), Sound(Saved(d, Gone))
    PROVE  Called(t)
<1>1. Sound(Deleted(d))
    BY SoundNothing DEF Deleted
<1> QED
    BY <1>1, SavingCall DEF Awaited, Attempt

LEMMA RemovalsCalled ==
    ASSUME NEW t \in Call
    PROVE  /\ \A b \in Book : RemoveWorkshopBooking(t, b) \/ RemoveTransportBooking(t, b) => Called(t)
           /\ \A r \in Room : RemoveRoomBooking(t, r) => Called(t)
<1>1. ASSUME NEW b \in Book
      PROVE  Sound(Saved(Choice(b), Gone)) /\ Sound(Saved(Ride(b), Gone))
    BY SoundChoice, SoundRide
<1>2. ASSUME NEW r \in Room
      PROVE  Sound(Saved(Flat(r), Gone))
    BY SoundFlat
<1> QED
    BY <1>1, <1>2, DeletionCalled DEF RemoveWorkshopBooking, RemoveTransportBooking, RemoveRoomBooking

\* The additions of a completed booking are late, whether or not it is refused.
LEMMA CompleteWorkshopBookingCalled ==
    ASSUME IInv, NEW t \in Call, NEW b \in Book, CompleteWorkshopBooking(t, b)
    PROVE  Called(t)
<1> DEFINE c == doc[Choice(b)]
           v == Completed(c)
           f == Saved(Choice(b), v)
           L == {ToLoad(t, c.user, w) : w \in {c.ids[g] : g \in 1..Groups} \ {None}}
<1>1. /\ Stored(Choice(b)) /\ doc' = doc
      /\ Attempt(t, c.status # "completed", f)
      /\ late' = late \cup L
    BY DEF CompleteWorkshopBooking
<1>2. c \in WorkshopBooking
    BY <1>1, StoredContents DEF IInv
<1>3. \A g \in 1..Groups : c.ids[g] \in Picked(b, g)
    BY <1>1, StoredPicked
<1> HIDE DEF c
<1>4. /\ v \in WorkshopBooking /\ v.ids = c.ids
      /\ c.user \in User /\ \A g \in 1..Groups : c.ids[g] \in Workshop \cup {None}
    BY <1>2 DEF WorkshopBooking, Completed, Status, Slot
<1>5. \A i \in L : /\ i \in [does : {"load", "add"}, call : Call, user : User, ws : Workshop]
                   /\ i.call = t /\ i.does = "load"
    BY <1>4 DEF ToLoad
<1>6. L \subseteq LateSave
    BY <1>5 DEF LateSave
<1> HIDE DEF L, v
<1>7. Sound(f)
    BY <1>3, <1>4, SoundChoice
<1>8. ASSUME NEW i \in L
      PROVE  Target(i) \notin DOMAIN f
  <2>1. Target(i) = Hall(i.ws)
    BY <1>5, <1>6, TargetFacts
  <2>2. DOMAIN f = {Choice(b)}
    BY OneSaved
  <2> QED
    BY <2>1, <2>2, Names
<1>9. SoundLate(t, L, f) /\ SoundLate(t, L, <<>>)
    BY <1>5, <1>6, <1>8, NothingSaved DEF SoundLate
<1> HIDE DEF f
<1>10. CASE c.status = "completed"
  <2>1. Fails(t, L)
    BY <1>1, <1>9, <1>10 DEF Attempt, Fails, NewFlat
  <2> QED
    BY <2>1 DEF Called
<1>11. CASE c.status # "completed"
  <2>1. Saves(t, f, L)
    BY <1>1, <1>7, <1>9, <1>11 DEF Attempt, Saves, NewFlat
  <2> QED
    BY <2>1 DEF Called
<1> QED
    BY <1>10, <1>11

LEMMA CreateTransportBookingCalled ==
    ASSUME IInv, NEW t \in Call, NEW u \in User, NEW b \in Book, NEW x \in Transport,
           CreateTransportBooking(t, u, b, x)
    PROVE  Called(t)
<1> DEFINE v == [user |-> u, on |-> x, status |-> "in_progress"]
<1>1. Awaited(t, Stored(Bus(x)), Saved(Ride(b), v))
    BY DEF CreateTransportBooking
<1>2. CASE ~ Stored(Bus(x))
    BY <1>1, <1>2, ThrowingCall DEF Awaited, Attempt
<1>3. CASE Stored(Bus(x))
  <2>1. v \in TransportBooking /\ v.status = "in_progress"
    BY DEF TransportBooking, Status
  <2> HIDE DEF v
  <2>2. Sound(Saved(Ride(b), v))
    BY <2>1, SoundRide
  <2> QED
    BY <1>1, <1>3, <2>2, SavingCall DEF Awaited, Attempt
<1> QED
    BY <1>2, <1>3

\* A booking that is moved keeps its status.
LEMMA MovedSound ==
    ASSUME LodgingTypeOK, NEW b \in Book, NEW x \in Transport, Stored(Ride(b))
    PROVE  Sound(Moved(b, x))
<1> DEFINE v == [doc[Ride(b)] EXCEPT !.on = x]
<1>1. doc[Ride(b)] \in TransportBooking
    BY StoredContents
<1>2. v \in TransportBooking /\ v.status = doc[Ride(b)].status
    BY <1>1 DEF TransportBooking
<1>3. v.status = "in_progress" \/ doc[Ride(b)].status = "completed"
    BY <1>1, <1>2 DEF TransportBooking, Status
<1> HIDE DEF v
<1>4. Sound(Saved(Ride(b), v))
    BY <1>2, <1>3, SoundRide
<1> QED
    BY <1>4 DEF Moved, v

LEMMA TransferPassengerCalled ==
    ASSUME IInv, NEW t \in Call, NEW u \in User, NEW x \in Transport, TransferPassenger(t, u, x)
    PROVE  Called(t)
<1> DEFINE b == BookOf(u)
           ok == Booked(u) /\ Transferable(b, x)
<1>1. Awaited(t, ok, Moved(b, x))
    BY DEF TransferPassenger
<1>2. CASE ~ ok
    BY <1>1, <1>2, ThrowingCall DEF Awaited, Attempt
<1>3. CASE ok
  <2>1. Sound(Moved(b, x))
    BY <1>3, BookedFacts, MovedSound DEF IInv, Transferable
  <2> QED
    BY <1>1, <1>3, <2>1, SavingCall DEF Awaited, Attempt
<1> QED
    BY <1>2, <1>3

LEMMA LeaveTransportCalled ==
    ASSUME IInv, NEW t \in Call, NEW u \in User, NEW x \in Transport, LeaveTransport(t, u, x)
    PROVE  Called(t)
<1> DEFINE s == doc[Bus(x)].who
           k == Place(s, u)
           f == Saved(Bus(x), [doc[Bus(x)] EXCEPT !.who = Dropped(s, k)])
           ok == Stored(Bus(x)) /\ Sits(Bus(x), u)
<1>1. Awaited(t, ok, f)
    BY DEF LeaveTransport
<1>2. CASE ~ ok
    BY <1>1, <1>2, ThrowingCall DEF Awaited, Attempt
<1>3. CASE ok
  <2>1. s \in Seq(User)
    BY <1>3, StoredContents DEF IInv, TransportDocument
  <2>2. k \in DOMAIN s
    BY <1>3, <2>1, PlaceFound, LenProperties DEF Sits
  <2>3. Sound(f)
    BY <1>3, <2>2, SoundBus DEF IInv
  <2> HIDE DEF f
  <2> QED
    BY <1>1, <1>3, <2>3, SavingCall DEF Awaited, Attempt
<1> QED
    BY <1>2, <1>3

\* The seat and the status are saved together.
LEMMA CompleteTransportBookingCalled ==
    ASSUME IInv, NEW t \in Call, NEW b \in Book, CompleteTransportBooking(t, b)
    PROVE  Called(t)
<1> DEFINE r == doc[Ride(b)]
           d == Bus(r.on)
           v == [doc[d] EXCEPT !.who = Append(doc[d].who, r.user)]
           f == Saved(d, v) ++ Saved(Ride(b), Completed(r))
           ok == Stored(d) /\ ~ NoSeat(d) /\ r.status # "completed"
<1>1. Stored(Ride(b)) /\ Awaited(t, ok, f)
    BY DEF CompleteTransportBooking, SeatAndStatus
<1>2. CASE ~ ok
    BY <1>1, <1>2, ThrowingCall DEF Awaited, Attempt
<1>3. CASE ok
  <2>1. r \in TransportBooking /\ r.on \in Transport /\ r.user \in User /\ r.status = "in_progress"
    BY <1>1, <1>3, StoredContents DEF IInv, TransportBooking, Status
  <2>2. doc[d] \in TransportDocument
    BY <1>3, <2>1, StoredContents DEF IInv
  <2>3. v \in TransportDocument
    <3>1. Append(doc[d].who, r.user) \in Seq(User)
        BY <2>1, <2>2, AppendProperties DEF TransportDocument
    <3> QED
        BY <2>2, <3>1 DEF TransportDocument
  <2>4. Completed(r) \in TransportBooking
    BY <2>1 DEF TransportBooking, Completed, Status
  <2>5. Len(doc[d].who) < doc[d].capacity
    <3>1. Len(doc[d].who) \in Nat /\ doc[d].capacity \in Nat
        BY <2>2, LenProperties DEF TransportDocument
    <3> QED
        BY <1>3, <3>1 DEF NoSeat
  <2>6. /\ DOMAIN f = {d, Ride(b)}
        /\ f[d] = v /\ f[Ride(b)] = Completed(r)
    <3>1. d # Ride(b)
        BY Names
    <3> HIDE DEF r, v, d
    <3> QED
        BY <3>1 DEF Saved, ++
  <2>7. Contents(f)
    BY <2>1, <2>3, <2>4, SavedContents, BothContents
  <2>8. Seated(f, b)
    BY <1>1, <1>3, <2>1, <2>5, <2>6 DEF Seated
  <2> HIDE DEF f
  <2>9. DOMAIN f \subseteq Document
    BY <2>1, <2>6, DocumentNames
  <2>10. RoomPlan(f) /\ ChoicePlan(f)
    <3>1. \A e : Card(e) \notin DOMAIN f /\ Choice(e) \notin DOMAIN f
      <4>1. \A e : Card(e) # Ride(b) /\ Choice(e) # Ride(b) /\ Card(e) # d /\ Choice(e) # d
        BY Names
      <4> QED
        BY <2>6, <4>1
    <3> QED
        BY <3>1 DEF RoomPlan, ChoicePlan
  <2>11. SeatPlan(f)
    <3>1. \A x \in Transport : Bus(x) \in DOMAIN f => x = r.on
      <4>1. \A x : Bus(x) # Ride(b) /\ (Bus(x) = d => x = r.on)
        BY Names
      <4> QED
        BY <2>6, <4>1
    <3>2. \A c \in Book : Ride(c) \in DOMAIN f => c = b
      <4>1. \A c : Ride(c) # d /\ (Ride(c) = Ride(b) => c = b)
        BY Names
      <4> QED
        BY <2>6, <4>1
    <3> QED
        BY <2>8, <3>1, <3>2 DEF SeatPlan
  <2>12. Sound(f)
    BY <2>7, <2>9, <2>10, <2>11 DEF Sound
  <2> QED
    BY <1>1, <1>3, <2>12, SavingCall DEF Awaited, Attempt
<1> QED
    BY <1>2, <1>3

\* The methods that cannot succeed.
LEMMA UnfinishedCalled ==
    ASSUME NEW t \in Call, Throws(t)
    PROVE  Called(t)
    BY ThrowingCall DEF Throws, Awaited, Attempt

-----------------------------------------------------------------------------
\* Rooms.

LEMMA SetToSeqIsSeq ==
    SetToSeq(User) \in Seq(User)
<1> DEFINE n == Cardinality(User)
<1>1. n \in Nat /\ \E s : s \in Bijection(1..n, User)
    BY FS_CardinalityType DEF ExistsBijection
<1>2. \E s \in [1..n -> User] : IsInjective(s)
    BY <1>1 DEF Bijection, Injection
<1>3. SetToSeq(User) \in [1..n -> User]
    BY <1>2 DEF SetToSeq
<1> HIDE DEF n
<1> QED
    BY <1>1, <1>3, SeqDef

LEMMA CreateRoomBookingCalled ==
    ASSUME IInv, NEW t \in Call, NEW r \in Room, NEW h \in Hotel,
           NEW list \in {<<u>> : u \in User} \cup {SetToSeq(User)},
           CreateRoomBooking(t, r, h, list)
    PROVE  Called(t)
<1> DEFINE ok == HasRoom(h, list)
           v == NewRoom(h, list)
<1>1. Awaited(t, ok, Saved(Flat(r), v))
    BY DEF CreateRoomBooking
<1>2. CASE ~ ok
    BY <1>1, <1>2, ThrowingCall DEF Awaited, Attempt
<1>3. CASE ok
  <2>1. list \in Seq(User)
    <3>1. \A u \in User : <<u>> \in Seq(User)
        OBVIOUS
    <3>2. \/ \E u \in User : list = <<u>>
          \/ list = SetToSeq(User)
        OBVIOUS
    <3> QED
        BY <3>1, <3>2, SetToSeqIsSeq
  <2>2. v \in RoomBooking
    BY <2>1 DEF NewRoom, RoomBooking, Status
  <2> HIDE DEF v
  <2>3. Sound(Saved(Flat(r), v))
    BY <2>2, SoundFlat
  <2> QED
    BY <1>1, <1>3, <2>3, SavingCall DEF Awaited, Attempt
<1> QED
    BY <1>2, <1>3

LEMMA AddRoommateCalled ==
    ASSUME IInv, NEW t \in Call, NEW r \in Room, NEW u \in User, AddRoommate(t, r, u)
    PROVE  Called(t)
<1> DEFINE b == BookOf(u)
           ok == /\ Booked(u) /\ RoomOf(b) = None
                 /\ Stored(Flat(r)) /\ Len(Roommates(r)) < Beds
           v == [doc[Flat(r)] EXCEPT !.who = Append(doc[Flat(r)].who, u)]
           f == Saved(Flat(r), v) ++ Saved(Card(b), [room |-> r])
<1>1. Awaited(t, ok, f)
    BY DEF AddRoommate
<1>2. CASE ~ ok
    BY <1>1, <1>2, ThrowingCall DEF Awaited, Attempt
<1>3. CASE ok
  <2>1. b \in Book /\ doc[Flat(r)] \in RoomBooking
    BY <1>3, BookedFacts, StoredContents DEF IInv
  <2>2. v \in RoomBooking
    <3>1. Append(doc[Flat(r)].who, u) \in Seq(User)
        BY <2>1, AppendProperties DEF RoomBooking
    <3> QED
        BY <2>1, <3>1 DEF RoomBooking
  <2>3. [room |-> r] \in UserBooking
    BY DEF UserBooking
  <2>4. v # Gone
    BY <2>2, AbsenceAssumption
  <2> HIDE DEF v, b
  <2>5. Sound(Saved(Flat(r), v)) /\ Sound(Saved(Card(b), [room |-> r]))
    BY <2>1, <2>2, <2>3, SoundFlat, SoundCard
  <2>6. RoomPlan(f)
    <3>1. \A e : Flat(e) # Card(b) /\ (Flat(e) = Flat(r) => e = r)
        BY Names
    <3>2. \A e : Flat(e) \in DOMAIN f => f[Flat(e)] = v
        BY <3>1 DEF Saved, ++
    <3> HIDE DEF f
    <3> QED
        BY <2>4, <3>2 DEF RoomPlan
  <2>7. Sound(f)
    <3>1. DOMAIN Saved(Flat(r), v) = {Flat(r)} /\ \A e : Bus(e) # Flat(r) /\ Ride(e) # Flat(r)
        BY OneSaved, Names
    <3> QED
        BY <2>5, <2>6, <3>1, SoundBoth
  <2> HIDE DEF f
  <2> QED
    BY <1>1, <1>3, <2>7, SavingCall DEF Awaited, Attempt
<1> QED
    BY <1>2, <1>3

\* A roommate who leaves was found in the list of the room.
LEMMA ToLeaveSound ==
    ASSUME LodgingTypeOK, NEW t \in Call, NEW r \in Room, NEW u \in User,
           Stored(Flat(r)), Contains(Roommates(r), u)
    PROVE  /\ ToLeave(t, r, u) \in LateSave
           /\ ToLeave(t, r, u).call = t /\ ToLeave(t, r, u).does = "leave"
           /\ Target(ToLeave(t, r, u)) = Flat(r)
           /\ Contains(ToLeave(t, r, u).was, ToLeave(t, r, u).user)
<1> DEFINE i == ToLeave(t, r, u)
<1>1. doc[Flat(r)] \in RoomBooking /\ Roommates(r) \in Seq(User)
    BY StoredContents DEF RoomBooking, Roommates
<1>2. /\ i \in [does : {"leave"}, call : Call, room : Room, user : User, was : Seq(User)]
      /\ i.call = t /\ i.does = "leave" /\ i.room = r /\ i.user = u /\ i.was = Roommates(r)
    BY <1>1 DEF ToLeave
<1> HIDE DEF i
<1>3. i \in LateSave /\ Target(i) = Flat(r) /\ Contains(i.was, i.user)
    BY <1>2 DEF LateSave, Target
<1> QED
    BY <1>2, <1>3 DEF i

LEMMA ToJoinSound ==
    ASSUME NEW t \in Call, NEW r \in Room, NEW u \in User
    PROVE  /\ ToJoin(t, r, u) \in LateSave
           /\ ToJoin(t, r, u).call = t /\ ToJoin(t, r, u).does = "join"
           /\ Target(ToJoin(t, r, u)) = Flat(r)
<1> DEFINE i == ToJoin(t, r, u)
<1>1. /\ i \in [does : {"join"}, call : Call, room : Room, user : User]
      /\ i.call = t /\ i.does = "join" /\ i.room = r
    BY DEF ToJoin
<1> HIDE DEF i
<1>2. i \in LateSave /\ Target(i) = Flat(r)
    BY <1>1 DEF LateSave, Target
<1> QED
    BY <1>1, <1>2 DEF i

\* The room of a user booking that refers to one.
LEMMA HousedFacts ==
    ASSUME LodgingTypeOK, NEW b \in Book, Housed(b)
    PROVE  /\ RoomOf(b) \in Room /\ Stored(Flat(RoomOf(b)))
           /\ doc[Flat(RoomOf(b))] \in RoomBooking
           /\ Len(Roommates(RoomOf(b))) \in Nat
<1>1. doc[Card(b)] \in UserBooking /\ RoomOf(b) \in Room
    BY StoredContents DEF Housed, UserBooking, RoomOf
<1>2. doc[Flat(RoomOf(b))] \in RoomBooking
    BY <1>1, StoredContents DEF Housed
<1>3. Roommates(RoomOf(b)) \in Seq(User)
    BY <1>2 DEF Roommates, RoomBooking
<1> QED
    BY <1>1, <1>2, <1>3, LenProperties DEF Housed

LEMMA TransferRoommateCalled ==
    ASSUME IInv, NEW t \in Call, NEW b \in Book, NEW c \in Book, NEW u \in User,
           TransferRoommate(t, b, c, u)
    PROVE  Called(t)
<1> DEFINE fits == CanLeave(b, u) /\ Housed(c) /\ Len(Roommates(RoomOf(c))) < Beds
           leaves == IF CanLeave(b, u) THEN {ToLeave(t, RoomOf(b), u)} ELSE {}
           joins == IF fits THEN {ToJoin(t, RoomOf(c), u)} ELSE {}
           L == leaves \cup joins
           f == Saved(Member(u), c)
<1>1. /\ Attempt(t, fits, f) /\ doc' = doc
      /\ late' = late \cup L
    BY DEF TransferRoommate
<1>2. LodgingTypeOK
    BY DEF IInv
<1>3. Sound(f) /\ DOMAIN f = {Member(u)}
    BY SoundMember, OneSaved
<1>4. ASSUME NEW i \in leaves
      PROVE  /\ i \in LateSave /\ i.call = t /\ i.does = "leave"
             /\ \E r : Target(i) = Flat(r)
             /\ Contains(i.was, i.user)
  <2>1. CanLeave(b, u) /\ i = ToLeave(t, RoomOf(b), u)
    OBVIOUS
  <2>2. RoomOf(b) \in Room /\ Stored(Flat(RoomOf(b))) /\ Contains(Roommates(RoomOf(b)), u)
    BY <1>2, <2>1, HousedFacts DEF CanLeave
  <2> QED
    BY <1>2, <2>1, <2>2, ToLeaveSound
<1>5. ASSUME NEW i \in joins
      PROVE  i \in LateSave /\ i.call = t /\ i.does = "join" /\ \E r : Target(i) = Flat(r)
  <2>1. fits /\ i = ToJoin(t, RoomOf(c), u)
    OBVIOUS
  <2>2. RoomOf(c) \in Room
    BY <1>2, <2>1, HousedFacts
  <2> QED
    BY <2>1, <2>2, ToJoinSound
<1> HIDE DEF leaves, joins, f
<1>6. SoundLate(t, L, f) /\ SoundLate(t, L, <<>>)
  <2>1. \A r : Flat(r) # Member(u)
    BY Names
  <2>2. \A i \in L : /\ i \in LateSave /\ i.call = t
                     /\ Target(i) \notin DOMAIN f
                     /\ i.does = "leave" => Contains(i.was, i.user)
                     /\ i.does # "set"
    BY <1>3, <1>4, <1>5, <2>1
  <2> QED
    BY <2>2, NothingSaved DEF SoundLate
<1>7. CASE fits
  <2>1. Saves(t, f, L)
    BY <1>1, <1>3, <1>6, <1>7 DEF Attempt, Saves, NewFlat
  <2> QED
    BY <2>1 DEF Called
<1>8. CASE ~ fits
  <2>1. Fails(t, L)
    BY <1>1, <1>6, <1>8 DEF Attempt, Fails, NewFlat
  <2> QED
    BY <2>1 DEF Called
<1> QED
    BY <1>7, <1>8

\* The booking that leaves its room, and the room that goes with its last roommate.
LEMMA MovedOutSound ==
    ASSUME LodgingTypeOK, NEW t \in Call, NEW u \in User, CanMoveOut(u)
    PROVE  /\ Sound(MovedOut(u))
           /\ DOMAIN MovedOut(u) \subseteq {Card(BookOf(u)), Flat(RoomOf(BookOf(u)))}
           /\ Flat(RoomOf(BookOf(u))) \in DOMAIN MovedOut(u) =>
                 Stored(Flat(RoomOf(BookOf(u)))) /\ Len(Roommates(RoomOf(BookOf(u)))) <= 1
           /\ SoundLate(t, MovingOut(t, u), MovedOut(u))
           /\ \A i \in MovingOut(t, u) : Target(i) = Flat(RoomOf(BookOf(u))) /\ OthersStay(RoomOf(BookOf(u)))
<1> DEFINE b == BookOf(u)
           r == RoomOf(b)
           e == [room |-> None]
<1>1. b \in Book /\ Housed(b)
    BY BookedFacts DEF CanMoveOut
<1>2. r \in Room /\ Stored(Flat(r)) /\ Len(Roommates(r)) \in Nat
    BY <1>1, HousedFacts
<1>3. Sound(Saved(Card(b), e))
  <2>1. e \in UserBooking
    BY DEF UserBooking
  <2> HIDE DEF e, b
  <2> QED
    BY <1>1, <2>1, SoundCard
<1>4. CASE OthersStay(r)
  <2>1. MovedOut(u) = Saved(Card(b), e)
    BY <1>4 DEF MovedOut, Saved, ++
  <2>2. MovingOut(t, u) = {ToLeave(t, r, u)} /\ Contains(Roommates(r), u)
    BY <1>4 DEF MovingOut, CanMoveOut
  <2>3. DOMAIN MovedOut(u) = {Card(b)} /\ Flat(r) # Card(b)
    BY <2>1, OneSaved, Names
  <2> DEFINE i == ToLeave(t, r, u)
  <2>4. /\ i \in LateSave /\ i.call = t /\ i.does = "leave"
        /\ Target(i) = Flat(r) /\ Contains(i.was, i.user)
    BY <1>2, <2>2, ToLeaveSound
  <2> HIDE DEF i
  <2>5. MovingOut(t, u) = {i}
    BY <2>2 DEF i
  <2> HIDE DEF e, r, b
  <2>6. SoundLate(t, MovingOut(t, u), MovedOut(u))
    BY <2>3, <2>4, <2>5 DEF SoundLate
  <2> QED
    BY <1>3, <1>4, <2>1, <2>3, <2>4, <2>5, <2>6 DEF r, b
<1>5. CASE ~ OthersStay(r)
  <2>1. MovedOut(u) = Saved(Card(b), e) ++ Saved(Flat(r), Gone)
    BY <1>5 DEF MovedOut
  <2>2. MovingOut(t, u) = {}
    BY <1>5 DEF MovingOut
  <2>3. Len(Roommates(r)) <= 1
    BY <1>2, <1>5 DEF OthersStay
  <2>4. Sound(Saved(Flat(r), Gone))
    BY <1>2, SoundFlat
  <2> HIDE DEF e, r, b
  <2>5. DOMAIN MovedOut(u) = {Card(b), Flat(r)} /\ \A q : Flat(q) # Card(b) /\ (Flat(q) = Flat(r) => q = r)
    <3>1. DOMAIN MovedOut(u) = {Card(b), Flat(r)}
        BY <2>1 DEF Saved, ++
    <3>2. \A q : Flat(q) # Card(b) /\ (Flat(q) = Flat(r) => q = r)
        BY Names
    <3> QED
        BY <3>1, <3>2
  <2>6. RoomPlan(Saved(Card(b), e) ++ Saved(Flat(r), Gone))
    BY <1>2, <2>1, <2>3, <2>5 DEF RoomPlan
  <2>7. Sound(MovedOut(u))
    <3>1. DOMAIN Saved(Card(b), e) = {Card(b)} /\ \A q : Bus(q) # Card(b) /\ Ride(q) # Card(b)
        BY OneSaved, Names
    <3> QED
        BY <1>3, <2>1, <2>4, <2>6, <3>1, SoundBoth
  <2>8. SoundLate(t, MovingOut(t, u), MovedOut(u))
    BY <2>2 DEF SoundLate
  <2> QED
    BY <1>2, <2>2, <2>3, <2>5, <2>7, <2>8 DEF r, b
<1> QED
    BY <1>4, <1>5

\* The late save of a call that throws is none.
LEMMA NotMovedOut ==
    ASSUME NEW t, NEW u, ~ CanMoveOut(u)
    PROVE  MovingOut(t, u) = {}
    BY DEF MovingOut

LEMMA RemoveRoommateCalled ==
    ASSUME IInv, NEW t \in Call, NEW u \in User, RemoveRoommate(t, u)
    PROVE  Called(t)
<1>1. LodgingTypeOK /\ Attempt(t, CanMoveOut(u), MovedOut(u)) /\ doc' = doc /\ late' = late \cup MovingOut(t, u)
    BY DEF IInv, RemoveRoommate
<1>2. CASE ~ CanMoveOut(u)
  <2>1. late' = late
    BY <1>1, <1>2, NotMovedOut
  <2> QED
    BY <1>1, <1>2, <2>1, ThrowingCall DEF Attempt
<1>3. CASE CanMoveOut(u)
  <2>1. Sound(MovedOut(u)) /\ SoundLate(t, MovingOut(t, u), MovedOut(u))
    BY <1>1, <1>3, MovedOutSound
  <2>2. Saves(t, MovedOut(u), MovingOut(t, u))
    BY <1>1, <1>3, <2>1 DEF Attempt, Saves, NewFlat
  <2> QED
    BY <2>2 DEF Called
<1> QED
    BY <1>2, <1>3

LEMMA RemoveBookingCalled ==
    ASSUME IInv, NEW t \in Call, NEW u \in User, RemoveBooking(t, u)
    PROVE  Called(t)
<1> DEFINE b == BookOf(u)
           r == RoomOf(b)
           m == MovedOut(u)
           e == Saved(Member(u), None)
           g == Saved(Card(b), Gone)
           f == e ++ (g ++ m)
<1>1. LodgingTypeOK /\ Attempt(t, CanMoveOut(u), f) /\ doc' = doc /\ late' = late \cup MovingOut(t, u)
    BY DEF IInv, RemoveBooking
<1>2. CASE ~ CanMoveOut(u)
  <2>1. late' = late
    BY <1>1, <1>2, NotMovedOut
  <2> QED
    BY <1>1, <1>2, <2>1, ThrowingCall DEF Attempt
<1>3. CASE CanMoveOut(u)
  <2>1. /\ Sound(m) /\ SoundLate(t, MovingOut(t, u), m)
        /\ DOMAIN m \subseteq {Card(b), Flat(r)}
        /\ Flat(r) \in DOMAIN m => Stored(Flat(r)) /\ Len(Roommates(r)) <= 1
        /\ \A i \in MovingOut(t, u) : Target(i) = Flat(r)
    BY <1>1, <1>3, MovedOutSound
  <2>2. b \in Book
    BY <1>1, <1>3, BookedFacts DEF CanMoveOut
  <2>3. Sound(e) /\ Sound(g) /\ DOMAIN e = {Member(u)} /\ DOMAIN g = {Card(b)}
    BY <2>2, SoundMember, SoundCard, OneSaved
  <2> HIDE DEF e, g, m, b, r
  <2>4. DOMAIN (g ++ m) = {Card(b)} \cup DOMAIN m /\ DOMAIN f = {Member(u), Card(b)} \cup DOMAIN m
    BY <2>3 DEF ++
  <2>5. /\ \A q : Flat(q) \in DOMAIN m => q = r
        /\ \A q : Flat(q) # Member(u) /\ Flat(q) # Card(b)
        /\ \A q : Bus(q) # Member(u) /\ Bus(q) # Card(b) /\ Ride(q) # Member(u) /\ Ride(q) # Card(b)
    <3>1. \A q : Flat(q) # Member(u) /\ Flat(q) # Card(b) /\ (Flat(q) = Flat(r) => q = r)
        BY Names
    <3>2. \A q : Bus(q) # Member(u) /\ Bus(q) # Card(b) /\ Ride(q) # Member(u) /\ Ride(q) # Card(b)
        BY Names
    <3> QED
        BY <2>1, <3>1, <3>2
  <2>6. RoomPlan(g ++ m) /\ RoomPlan(f)
    BY <2>1, <2>4, <2>5 DEF RoomPlan
  <2>7. Sound(g ++ m)
    BY <2>1, <2>3, <2>5, <2>6, SoundBoth
  <2>8. Sound(f)
    BY <2>3, <2>5, <2>6, <2>7, SoundBoth
  <2>9. SoundLate(t, MovingOut(t, u), f)
    BY <2>1, <2>4, <2>5 DEF SoundLate
  <2> HIDE DEF f
  <2>10. Saves(t, f, MovingOut(t, u))
    BY <1>1, <1>3, <2>8, <2>9 DEF Attempt, Saves, NewFlat
  <2> QED
    BY <2>10 DEF Called
<1> QED
    BY <1>2, <1>3

\* It has no effect at all, as save() does not see the change.
LEMMA RemoveBookingFromHotelCalled ==
    ASSUME NEW t \in Call, NEW r, NEW h, RemoveBookingFromHotel(t, r, h)
    PROVE  Called(t)
<1> DEFINE ok == Stored(Inn(h)) /\ Contains(doc[Inn(h)].rooms, r)
<1>1. Awaited(t, ok, <<>>)
    BY DEF RemoveBookingFromHotel
<1>2. CASE ~ ok
    BY <1>1, <1>2, ThrowingCall DEF Awaited, Attempt
<1>3. CASE ok
    BY <1>1, <1>3, SoundNothing, NothingSaved, SavingCall DEF Awaited, Attempt
<1> QED
    BY <1>2, <1>3

\* The ids of new room bookings are those of documents that do not exist.
LEMMA NewRoomFacts ==
    ASSUME NEW r \in NewRooms
    PROVE  r \in Room /\ doc[Flat(r)] = None /\ Free(Flat(r))
    BY DEF NewRooms

\* updateBooking() of the user u: what it saves, and the room it creates outside the
\* transaction.
LEMMA UpdateBookingCalled ==
    ASSUME IInv, NEW t \in Call, NEW u \in User, NEW r \in NewRooms \cup {None}, NEW h \in Hotel,
           NEW ids \in [1..Groups -> Slot] \cup {None}, NEW x \in Transport \cup {None},
           UpdateBooking(t, u, r, h, ids, x)
    PROVE  Called(t)
<1> DEFINE b == BookOf(u)
           created == r # None /\ Booked(u) /\ RoomOf(b) = None /\ HasRoom(h, <<u>>)
           fits == /\ Booked(u)
                   /\ r # None => created
                   /\ ids # None => WorkshopsFit(b, ids)
                   /\ x # None => TransportFits(b, x)
           chosen == IF ids # None /\ Stored(Choice(b)) THEN Chosen(b, ids) ELSE <<>>
           moved == IF x # None /\ Stored(Ride(b)) THEN Moved(b, doc[Ride(b)].on) ELSE <<>>
           f == chosen ++ moved
<1>1. /\ Attempt(t, fits, f)
      /\ doc' = IF created THEN [doc EXCEPT ![Flat(r)] = NewRoom(h, <<u>>)] ELSE doc
      /\ late' = late
    BY DEF UpdateBooking
<1>2. LodgingTypeOK
    BY DEF IInv
<1>3. DOMAIN chosen \subseteq {Choice(b)} /\ DOMAIN moved \subseteq {Ride(b)}
  <2>1. DOMAIN chosen \subseteq {Choice(b)}
    BY NothingSaved DEF Chosen, Saved
  <2>2. DOMAIN moved \subseteq {Ride(b)}
    BY NothingSaved DEF Moved, Saved
  <2> QED
    BY <2>1, <2>2
<1>4. created => NewRoom(h, <<u>>) \in RoomBooking /\ r \in NewRooms
  <2>1. <<u>> \in Seq(User)
    OBVIOUS
  <2> QED
    BY <2>1 DEF NewRoom, RoomBooking, Status
<1>5. \A g : DOMAIN g \subseteq {Choice(b), Ride(b)} => NewFlat(g)
  <2> SUFFICES ASSUME NEW g, DOMAIN g \subseteq {Choice(b), Ride(b)}
               PROVE  NewFlat(g)
    OBVIOUS
  <2>1. CASE ~ created
    BY <1>1, <2>1 DEF NewFlat
  <2>2. CASE created
    <3>1. Flat(r) # Choice(b) /\ Flat(r) # Ride(b)
        BY Names
    <3>2. r \in Room /\ doc[Flat(r)] = None /\ Free(Flat(r))
        BY <1>4, <2>2, NewRoomFacts
    <3>3. doc' = [doc EXCEPT ![Flat(r)] = NewRoom(h, <<u>>)]
        BY <1>1, <2>2
    <3> HIDE DEF b, created
    <3> QED
        BY <1>4, <2>2, <3>1, <3>2, <3>3 DEF NewFlat
  <2> QED
    BY <2>1, <2>2
<1>6. CASE ~ fits
  <2>1. NewFlat(<<>>) /\ SoundLate(t, {}, <<>>)
    BY <1>5, NothingSaved, SoundNothing
  <2>2. pc[t] = "new" /\ pc' = [pc EXCEPT ![t] = "failed"] /\ writes' = writes /\ late' = late \cup {}
    BY <1>1, <1>6 DEF Attempt
  <2> HIDE DEF fits
  <2>3. Fails(t, {})
    BY <2>1, <2>2 DEF Fails
  <2> QED
    BY <2>3 DEF Called
<1>7. CASE fits
  <2>1. b \in Book
    BY <1>2, <1>7, BookedFacts
  <2>2. Sound(chosen)
    <3>1. CASE ids # None /\ Stored(Choice(b))
      <4>1. AllChangeable(b, ids)
        BY <1>7, <3>1 DEF WorkshopsFit, Stored
      <4> QED
        BY <1>2, <2>1, <3>1, <4>1, ChosenSound
    <3>2. CASE ~ (ids # None /\ Stored(Choice(b)))
        BY <3>2, SoundNothing
    <3> QED
        BY <3>1, <3>2
  <2>3. Sound(moved)
    <3>1. CASE x # None /\ Stored(Ride(b))
      <4>1. doc[Ride(b)].on \in Transport
        BY <1>2, <2>1, <3>1, StoredContents DEF TransportBooking
      <4> QED
        BY <1>2, <2>1, <3>1, <4>1, MovedSound
    <3>2. CASE ~ (x # None /\ Stored(Ride(b)))
        BY <3>2, SoundNothing
    <3> QED
        BY <3>1, <3>2
  <2>4. pc[t] = "new" /\ (\A d \in DOMAIN f : Free(d))
        /\ pc' = [pc EXCEPT ![t] = "saved"] /\ writes' = [writes EXCEPT ![t] = f]
    BY <1>1, <1>7 DEF Attempt
  <2> HIDE DEF b, created, fits, chosen, moved
  <2>5. DOMAIN f \subseteq {Choice(b), Ride(b)}
    BY <1>3 DEF ++
  <2>6. RoomPlan(f)
    <3>1. \A q : Card(q) # Choice(b) /\ Card(q) # Ride(b)
        BY Names
    <3> HIDE DEF f
    <3> QED
        BY <2>5, <3>1 DEF RoomPlan
  <2>7. Sound(f)
    <3>1. \A q : Bus(q) # Choice(b) /\ Ride(q) # Choice(b)
        BY Names
    <3> QED
        BY <1>3, <2>2, <2>3, <2>6, <3>1, SoundBoth
  <2> HIDE DEF f
  <2>8. NewFlat(f) /\ SoundLate(t, {}, f) /\ late' = late \cup {}
    BY <1>1, <1>5, <2>5 DEF SoundLate
  <2>9. Saves(t, f, {})
    BY <2>4, <2>7, <2>8 DEF Saves
  <2> QED
    BY <2>9 DEF Called
<1> QED
    BY <1>6, <1>7

-----------------------------------------------------------------------------
(***************************************************************************)
(* The routes of the administrators                                        *)
(***************************************************************************)

\* One document of a workshop or of a hotel, and one of a transport.
LEMMA HallWritten ==
    ASSUME NEW t, NEW w \in Workshop, NEW v \in WorkshopDocument \cup {None}, Write(t, Hall(w), v)
    PROVE  Administers(t)
<1> DEFINE f == Saved(Hall(w), v)
<1>1. DOMAIN f = {Hall(w)} /\ Contents(f) /\ WriteAll(t, f)
    BY OneSaved, SavedContents DEF Write
<1>2. \A x : Bus(x) # Hall(w)
    BY Names
<1> HIDE DEF f
<1>3. AdminPlan(f)
    BY <1>1, <1>2 DEF AdminPlan
<1> QED
    BY <1>1, <1>3 DEF Administers

LEMMA InnWritten ==
    ASSUME NEW t, NEW h \in Hotel, NEW v \in HotelDocument \cup {None}, Write(t, Inn(h), v)
    PROVE  Administers(t)
<1> DEFINE f == Saved(Inn(h), v)
<1>1. DOMAIN f = {Inn(h)} /\ Contents(f) /\ WriteAll(t, f)
    BY OneSaved, SavedContents DEF Write
<1>2. \A x : Bus(x) # Inn(h)
    BY Names
<1> HIDE DEF f
<1>3. AdminPlan(f)
    BY <1>1, <1>2 DEF AdminPlan
<1> QED
    BY <1>1, <1>3 DEF Administers

LEMMA BusWritten ==
    ASSUME NEW t, NEW x \in Transport, NEW v \in TransportDocument \cup {None}, Write(t, Bus(x), v),
           v = None \/ v.who = Seats(x)
    PROVE  Administers(t)
<1> DEFINE f == Saved(Bus(x), v)
<1>1. DOMAIN f = {Bus(x)} /\ f[Bus(x)] = v /\ Contents(f) /\ WriteAll(t, f)
    BY OneSaved, SavedContents DEF Write
<1>2. \A y : Bus(y) = Bus(x) => y = x
    BY Names
<1> HIDE DEF f
<1>3. AdminPlan(f)
    BY <1>1, <1>2 DEF AdminPlan
<1> QED
    BY <1>1, <1>3 DEF Administers

\* All the documents of a kind are removed.
LEMMA AllRemoved ==
    ASSUME NEW t, NEW D,
           \/ D = {Hall(w) : w \in Workshop}
           \/ D = {Bus(x) : x \in Transport}
           \/ D = {Inn(h) : h \in Hotel},
           WriteAll(t, [d \in D |-> None])
    PROVE  Administers(t)
<1> DEFINE f == [d \in D |-> None]
<1>1. DOMAIN f = D /\ (\A d \in D : f[d] = None) /\ WriteAll(t, f)
    OBVIOUS
<1> HIDE DEF f
<1>2. /\ \A u : Member(u) \notin D
      /\ \A b : Card(b) \notin D /\ Choice(b) \notin D /\ Ride(b) \notin D
      /\ \A r : Flat(r) \notin D
    BY Names
<1>3. Contents(f)
    BY <1>1, <1>2 DEF Contents, ProgrammeContents
<1>4. AdminPlan(f)
    BY <1>1, <1>3 DEF AdminPlan
<1> QED
    BY <1>1, <1>4 DEF Administers

LEMMA AdministerPlanned ==
    ASSUME IInv, NEW t \in Call, Administer(t)
    PROVE  Administers(t)
<1>1. LodgingTypeOK /\ <<>> \in Seq(User)
    BY DEF IInv
<1>2. ASSUME NEW w \in Workshop, NEW g \in 1..Groups, NEW c \in Capacity, AddWorkshop(t, w, g, c)
      PROVE  Administers(t)
  <2>1. NewWorkshop(g, c) \in WorkshopDocument
    BY <1>1 DEF NewWorkshop, WorkshopDocument
  <2> QED
    BY <1>2, <2>1, HallWritten DEF AddWorkshop
<1>3. ASSUME NEW w \in Workshop, NEW g \in 1..Groups, NEW c \in Capacity, ChangeWorkshopMetaData(t, w, g, c)
      PROVE  Administers(t)
  <2>1. PICK who \in Participants \cup {doc[Hall(w)].who} : Write(t, Hall(w), [group |-> g, capacity |-> c, who |-> who])
    BY <1>3 DEF ChangeWorkshopMetaData
  <2>2. doc[Hall(w)] \in WorkshopDocument
    BY <1>1, <1>3, StoredContents DEF ChangeWorkshopMetaData
  <2>3. who \in Seq(User)
    BY <1>1, <2>2 DEF WorkshopDocument
  <2>4. [group |-> g, capacity |-> c, who |-> who] \in WorkshopDocument
    BY <2>3 DEF WorkshopDocument
  <2> QED
    BY <2>1, <2>4, HallWritten
<1>4. ASSUME NEW x \in Transport, NEW c \in Capacity, AddTransport(t, x, c)
      PROVE  Administers(t)
  <2>1. NewTransport(c) \in TransportDocument /\ NewTransport(c).who = <<>>
    BY <1>1 DEF NewTransport, TransportDocument
  <2>2. Seats(x) = <<>>
    BY <1>4 DEF AddTransport, Seats, Stored
  <2> QED
    BY <1>4, <2>1, <2>2, BusWritten DEF AddTransport
<1>5. ASSUME NEW x \in Transport, NEW c \in Capacity, ChangeTransportMetaData(t, x, c)
      PROVE  Administers(t)
  <2>1. doc[Bus(x)] \in TransportDocument /\ Seats(x) = doc[Bus(x)].who
    BY <1>1, <1>5, StoredContents DEF ChangeTransportMetaData, Seats
  <2> DEFINE v == [doc[Bus(x)] EXCEPT !.capacity = c]
  <2>2. v \in TransportDocument /\ v.who = Seats(x)
    BY <2>1 DEF TransportDocument
  <2>3. Write(t, Bus(x), v)
    BY <1>5 DEF ChangeTransportMetaData
  <2> HIDE DEF v
  <2> QED
    BY <2>2, <2>3, BusWritten
<1>6. ASSUME NEW w \in Workshop, RemoveWorkshop(t, w)
      PROVE  Administers(t)
    BY <1>6, HallWritten DEF RemoveWorkshop
<1>7. ASSUME NEW x \in Transport, RemoveTransport(t, x)
      PROVE  Administers(t)
    BY <1>7, BusWritten DEF RemoveTransport
<1>8. RemoveAllWorkshops(t) => Administers(t)
    BY AllRemoved DEF RemoveAllWorkshops
<1>9. RemoveAllTransports(t) => Administers(t)
    BY AllRemoved DEF RemoveAllTransports
<1> QED
    BY <1>2, <1>3, <1>4, <1>5, <1>6, <1>7, <1>8, <1>9 DEF Administer

LEMMA OfHotelsPlanned ==
    ASSUME IInv, NEW t \in Call, OfHotels(t)
    PROVE  Administers(t) \/ Called(t)
<1>1. LodgingTypeOK
    BY DEF IInv
<1>2. ASSUME NEW h \in Hotel, NEW n \in Counts, NEW list \in Lists, AddHotels(t, h, n, list)
      PROVE  Administers(t)
  <2>1. NewHotel(n, list) \in HotelDocument
    BY DEF NewHotel, HotelDocument
  <2> QED
    BY <1>2, <2>1, InnWritten DEF AddHotels
<1>3. ASSUME NEW h \in Hotel, ChangeHotelMetaData(t, h)
      PROVE  Administers(t)
  <2>1. doc[Inn(h)] \in HotelDocument
    BY <1>1, <1>3, StoredContents DEF ChangeHotelMetaData
  <2> QED
    BY <1>3, <2>1, InnWritten DEF ChangeHotelMetaData
<1>4. ASSUME NEW h \in Hotel, RemoveHotel(t, h)
      PROVE  Administers(t)
    BY <1>4, InnWritten DEF RemoveHotel
<1>5. ASSUME NEW h \in Hotel, NEW r \in Room, RemoveBookingFromHotel(t, r, h)
      PROVE  Called(t)
    BY <1>5, RemoveBookingFromHotelCalled
<1>6. ClearHotels(t) => Administers(t)
    BY AllRemoved DEF ClearHotels
<1> QED
    BY <1>2, <1>3, <1>4, <1>5, <1>6 DEF OfHotels

-----------------------------------------------------------------------------
(***************************************************************************)
(* The inductive invariant                                                 *)
(***************************************************************************)

LEMMA ServiceCalled ==
    ASSUME IInv, NEW t \in Call, OfWorkshops(t) \/ OfTransports(t) \/ Unfinished(t)
    PROVE  Called(t)
<1>1. LodgingTypeOK
    BY DEF IInv
<1>2. CASE OfWorkshops(t)
  <2>1. ASSUME NEW u \in User, NEW ids \in [1..Groups -> Slot], BookOf(u) # None,
               CreateWorkshopBooking(t, u, BookOf(u), ids)
        PROVE  Called(t)
    BY <1>1, <2>1, StoredContents, CreateWorkshopBookingCalled
  <2> QED
    BY <1>2, <2>1, LeaveWorkshopCalled, TransfersParticipantCalled, TransferParticipantCalled,
       ExchangeParticipantsCalled, RemoveParticipantCalled, RemovalsCalled, CompleteWorkshopBookingCalled
       DEF OfWorkshops
<1>3. CASE OfTransports(t)
  <2>1. ASSUME NEW u \in User, NEW x \in Transport, BookOf(u) # None,
               CreateTransportBooking(t, u, BookOf(u), x)
        PROVE  Called(t)
    BY <1>1, <2>1, StoredContents, CreateTransportBookingCalled
  <2> QED
    BY <1>3, <2>1, TransferPassengerCalled, LeaveTransportCalled, RemovePassengerCalled, RemovalsCalled,
       CompleteTransportBookingCalled
       DEF OfTransports
<1>4. CASE Unfinished(t)
  <2>1. Throws(t)
    BY <1>4 DEF Unfinished, TransferWorkshop, ExchangeWorkshops, AddParticipant, BookWorkshops,
                TransferSeat, ExchangeSeats, AddPassenger, ExchangePassengers, BookTransport
  <2> QED
    BY <2>1, UnfinishedCalled
<1> QED
    BY <1>2, <1>3, <1>4

LEMMA LodgingCalled ==
    ASSUME IInv, NEW t \in Call, OfRooms(t) \/ OfBookings(t)
    PROVE  Called(t)
<1>1. CASE OfRooms(t)
  <2>1. ASSUME NEW r \in NewRooms, NEW h \in Hotel,
               NEW list \in {<<u>> : u \in User} \cup {SetToSeq(User)}, CreateRoomBooking(t, r, h, list)
        PROVE  Called(t)
    BY <2>1, NewRoomFacts, CreateRoomBookingCalled
  <2>2. ExchangeRoommates(t) \/ CreateRoomBookings(t) => Called(t)
    BY UnfinishedCalled DEF ExchangeRoommates, CreateRoomBookings
  <2> QED
    BY <1>1, <2>1, <2>2, AddRoommateCalled, TransferRoommateCalled, RemoveRoommateCalled, RemovalsCalled
       DEF OfRooms
<1>2. CASE OfBookings(t)
    BY <1>2, RemoveBookingCalled, UpdateBookingCalled DEF OfBookings
<1> QED
    BY <1>1, <1>2

\* Every step is of one of the kinds.
LEMMA KindsOfSteps ==
    ASSUME IInv, Next
    PROVE  \/ \E t \in Call : Called(t) \/ Administers(t) \/ Commit(t) \/ Abort(t)
           \/ \E i \in late : Settles(i) \/ LoadLate(i) \/ LoseLate(i)
           \/ Stop
<1>1. ASSUME NEW t \in Call, Serve(t)
      PROVE  Called(t) \/ Administers(t) \/ Commit(t) \/ Abort(t)
    BY <1>1, ServiceCalled, LodgingCalled, AdministerPlanned, OfHotelsPlanned DEF Serve, ServeProgramme
<1>2. ASSUME NEW i \in late, Settle(i)
      PROVE  Settles(i) \/ LoadLate(i) \/ LoseLate(i)
    BY <1>2, SetLateSettles, AddLateSettles, JoinLateSettles, LeaveLateSettles DEF Settle, ProgrammeLate
<1> QED
    BY <1>1, <1>2 DEF Next

LEMMA StepKeeps ==
    ASSUME IInv, [Next]_vars
    PROVE  IInv'
<1>1. CASE Next
  <2>1. ASSUME NEW t \in Call, Called(t) \/ Administers(t) \/ Commit(t) \/ Abort(t)
        PROVE  IInv'
    BY <2>1, SavesKeeps, FailsKeeps, AdministersKeeps, CommitKeeps, AbortKeeps DEF Called
  <2>2. ASSUME NEW i \in late, Settles(i) \/ LoadLate(i) \/ LoseLate(i)
        PROVE  IInv'
    BY <2>2, SettlesKeeps, LoadLateKeeps, LoseLateKeeps
  <2> QED
    BY <1>1, <2>1, <2>2, KindsOfSteps, StopKeeps
<1>2. CASE UNCHANGED vars
  <2>1. doc' = doc /\ pc' = pc /\ writes' = writes /\ late' = late
    BY <1>2 DEF vars
  <2>2. (LodgingTypeOK /\ SessionsInv)'
    BY <2>1 DEF IInv, LodgingTypeOK, SessionsTypeOK, SessionsInv, Contents, ProgrammeContents
  <2>3. \A t \in Call : (SeatPlan(writes[t]) /\ RoomPlan(writes[t]))'
    BY <2>1, PlansKept DEF IInv
  <2>4. \A i \in late' : LateInv(i)'
    BY <2>1 DEF IInv, LateInv, Target
  <2> QED
    BY <2>2, <2>3, <2>4 DEF IInv
<1> QED
    BY <1>1, <1>2

\* What the calls, the transactions under way and the late saves keep to.  A plan that
\* was sound when it was saved stays so until the commit, as nobody else writes its
\* documents in between.
THEOREM InductiveInvariant == Spec => []IInv
<1>1. Init => IInv
    BY InitHolds
<1>2. IInv /\ [Next]_vars => IInv'
    BY StepKeeps
<1> QED
    BY <1>1, <1>2, PTL DEF Spec

\* Every document has the content of its kind, in the database and in the transactions.
THEOREM TypeCorrect == Spec => []LodgingTypeOK
<1>1. IInv => LodgingTypeOK
    BY DEF IInv
<1> QED
    BY <1>1, InductiveInvariant, PTL

-----------------------------------------------------------------------------
(***************************************************************************)
(* What a step may do to seats and rooms                                   *)
(***************************************************************************)

\* A step that is no commit leaves the user bookings and the bookings of transports alone,
\* and the seats of a transport unless it removes the transport.
Aside ==
    /\ \A b \in Book : doc'[Card(b)] = doc[Card(b)] /\ doc'[Ride(b)] = doc[Ride(b)]
    /\ \A x \in Transport : Seats(x)' \in {<<>>, Seats(x)}

LEMMA SeatsAre ==
    ASSUME LodgingTypeOK, NEW x \in Transport
    PROVE  Seats(x) \in Seq(User)
<1>1. CASE Stored(Bus(x))
  <2>1. doc[Bus(x)] \in TransportDocument
    BY <1>1, StoredContents
  <2> QED
    BY <1>1, <2>1 DEF Seats, TransportDocument
<1>2. CASE ~ Stored(Bus(x))
    BY <1>2 DEF Seats
<1> QED
    BY <1>1, <1>2

LEMMA SameSeats ==
    ASSUME NEW x, doc'[Bus(x)] = doc[Bus(x)]
    PROVE  Seats(x)' = Seats(x)
    BY DEF Seats, Stored

\* One document that is neither of a transport nor of one of these bookings.
LEMMA AsideOfOne ==
    ASSUME LodgingTypeOK, NEW d, NEW v, doc' = [doc EXCEPT ![d] = v],
           \A x : d # Bus(x), \A b : d \notin {Ride(b), Card(b)}
    PROVE  Aside
<1>1. DOMAIN doc = Document
    BY DEF LodgingTypeOK
<1>2. \A b \in Book : doc'[Card(b)] = doc[Card(b)] /\ doc'[Ride(b)] = doc[Ride(b)]
    BY <1>1, DocumentNames
<1>3. \A x \in Transport : doc'[Bus(x)] = doc[Bus(x)]
    BY <1>1, DocumentNames
<1> QED
    BY <1>2, <1>3, SameSeats DEF Aside

LEMMA AsideOfAll ==
    ASSUME doc' = doc
    PROVE  Aside
    BY SameSeats DEF Aside

LEMMA CalledAside ==
    ASSUME IInv, NEW t, Called(t)
    PROVE  Aside
<1>1. LodgingTypeOK
    BY DEF IInv
<1>2. PICK f : NewFlat(f)
    BY DEF Called, Saves, Fails
<1>3. CASE doc' = doc
    BY <1>3, AsideOfAll
<1>4. ASSUME NEW r, NEW v, doc' = [doc EXCEPT ![Flat(r)] = v]
      PROVE  Aside
  <2>1. \A a : Flat(r) # Bus(a) /\ Flat(r) # Ride(a) /\ Flat(r) # Card(a)
    BY Names
  <2> QED
    BY <1>1, <1>4, <2>1, AsideOfOne
<1> QED
    BY <1>2, <1>3, <1>4 DEF NewFlat

LEMMA AdministersAside ==
    ASSUME IInv, NEW t, Administers(t)
    PROVE  Aside
<1>1. LodgingTypeOK /\ DOMAIN doc = Document
    BY DEF IInv, LodgingTypeOK
<1>2. PICK f : AdminPlan(f) /\ doc' = f ++ doc
    BY DEF Administers, WriteAll
<1>3. \A b : Card(b) \notin DOMAIN f /\ Ride(b) \notin DOMAIN f
  <2>1. \A a, b : Card(b) \notin {Hall(a), Bus(a), Inn(a)} /\ Ride(b) \notin {Hall(a), Bus(a), Inn(a)}
    BY Names
  <2> QED
    BY <1>2, <2>1 DEF AdminPlan
<1>4. \A d \in Document \ DOMAIN f : doc'[d] = doc[d]
    BY <1>1, <1>2 DEF ++
<1>5. \A d \in DOMAIN f : doc'[d] = f[d]
    BY <1>2 DEF ++
<1>6. \A b \in Book : doc'[Card(b)] = doc[Card(b)] /\ doc'[Ride(b)] = doc[Ride(b)]
    BY <1>3, <1>4, DocumentNames
<1>7. ASSUME NEW x \in Transport
      PROVE  Seats(x)' \in {<<>>, Seats(x)}
  <2>1. CASE Bus(x) \notin DOMAIN f
    BY <1>4, <2>1, DocumentNames, SameSeats
  <2>2. CASE Bus(x) \in DOMAIN f
    <3>1. f[Bus(x)] = None \/ f[Bus(x)].who = Seats(x)
        BY <1>2, <2>2 DEF AdminPlan
    <3> QED
        BY <1>5, <2>2, <3>1 DEF Seats, Stored
  <2> QED
    BY <2>1, <2>2
<1> QED
    BY <1>6, <1>7 DEF Aside

LEMMA SettlesAside ==
    ASSUME IInv, NEW i \in late, Settles(i)
    PROVE  Aside
<1>1. LodgingTypeOK /\ i \in LateSave
    BY DEF IInv, LodgingTypeOK
<1>2. PICK v : SoundSave(i, v) /\ Joins(i, Target(i), v)
    BY DEF Settles
<1>3. (\A x : Target(i) # Bus(x)) /\ \A b : Target(i) \notin {Ride(b), Card(b)}
    BY <1>1, <1>2, SoundSaveFacts
<1>4. doc' = doc \/ doc' = [doc EXCEPT ![Target(i)] = v]
    BY <1>2 DEF Joins
<1> QED
    BY <1>1, <1>3, <1>4, AsideOfOne, AsideOfAll

\* What a commit writes are the documents of the transaction.
LEMMA StepOfDocuments ==
    ASSUME IInv, [Next]_vars
    PROVE  Aside \/ \E t \in Call : doc' = writes[t] ++ doc
<1>1. CASE Next
  <2>1. ASSUME NEW t \in Call, Called(t) \/ Administers(t) \/ Commit(t) \/ Abort(t)
        PROVE  Aside \/ doc' = writes[t] ++ doc
    BY <2>1, CalledAside, AdministersAside, AsideOfAll DEF Commit, Abort
  <2>2. ASSUME NEW i \in late, Settles(i) \/ LoadLate(i) \/ LoseLate(i)
        PROVE  Aside
    BY <2>2, SettlesAside, AsideOfAll DEF LoadLate, LoseLate
  <2>3. Stop => Aside
    BY AsideOfAll DEF Stop
  <2> QED
    BY <1>1, <2>1, <2>2, <2>3, KindsOfSteps
<1>2. CASE UNCHANGED vars
    BY <1>2, AsideOfAll DEF vars
<1> QED
    BY <1>1, <1>2

LEMMA CommittedDocuments ==
    ASSUME IInv, NEW t \in Call, doc' = writes[t] ++ doc
    PROVE  /\ \A d \in DOMAIN writes[t] : doc'[d] = writes[t][d]
           /\ \A d \in Document \ DOMAIN writes[t] : doc'[d] = doc[d]
           /\ SeatPlan(writes[t]) /\ RoomPlan(writes[t]) /\ Contents(writes[t])
<1>1. DOMAIN doc = Document /\ SeatPlan(writes[t]) /\ RoomPlan(writes[t]) /\ Contents(writes[t])
    BY DEF IInv, LodgingTypeOK
<1>2. \A d \in DOMAIN writes[t] : (writes[t] ++ doc)[d] = writes[t][d]
    BY DEF ++
<1>3. \A d \in Document \ DOMAIN writes[t] : (writes[t] ++ doc)[d] = doc[d]
    BY <1>1 DEF ++
<1> QED
    BY <1>1, <1>2, <1>3

LEMMA RoomLeftStep ==
    ASSUME IInv, [Next]_vars, NEW b \in Book, Housed(b), doc'[Card(b)] # doc[Card(b)],
           doc'[Flat(RoomOf(b))] = Gone
    PROVE  Len(Roommates(RoomOf(b))) <= 1
<1> DEFINE r == RoomOf(b)
<1>1. r \in Room /\ Stored(Flat(r))
  <2>1. doc[Card(b)] \in UserBooking
    BY StoredContents DEF IInv, Housed
  <2> QED
    BY <2>1 DEF Housed, RoomOf, UserBooking
<1>2. PICK t \in Call : doc' = writes[t] ++ doc
    BY StepOfDocuments DEF Aside
<1>3. Card(b) \in Document /\ Flat(r) \in Document
    BY <1>1, DocumentNames
<1>4. Card(b) \in DOMAIN writes[t] /\ Flat(r) \in DOMAIN writes[t] /\ writes[t][Flat(r)] = Gone
    BY <1>1, <1>2, <1>3, CommittedDocuments DEF Stored
<1>5. RoomPlan(writes[t])
    BY <1>2, CommittedDocuments
<1> QED
    BY <1>1, <1>4, <1>5 DEF RoomPlan

LEMMA AloneStep ==
    ASSUME IInv, [Next]_vars, NEW u \in User, TakesRoomAlong(u),
           Contains(Roommates(RoomOf(BookOf(u))), u)
    PROVE  Alone(u)
<1> DEFINE b == BookOf(u)
           who == Roommates(RoomOf(b))
<1>1. b \in Book /\ Housed(b) /\ doc'[Card(b)] # doc[Card(b)] /\ doc'[Flat(RoomOf(b))] = Gone
  <2>1. doc[Member(u)] \in Book \cup {None}
    BY DocumentNames DEF IInv, LodgingTypeOK, Contents, ProgrammeContents
  <2> QED
    BY <2>1 DEF TakesRoomAlong, Booked, BookOf
<1>2. Len(who) <= 1
    BY <1>1, RoomLeftStep
<1>3. who \in Seq(User)
  <2>1. doc[Card(b)] \in UserBooking
    BY <1>1, StoredContents DEF IInv, Housed
  <2>2. RoomOf(b) \in Room /\ Stored(Flat(RoomOf(b)))
    BY <1>1, <2>1 DEF Housed, RoomOf, UserBooking
  <2>3. doc[Flat(RoomOf(b))] \in RoomBooking
    BY <2>2, StoredContents DEF IInv
  <2> QED
    BY <2>3 DEF RoomBooking, Roommates
<1>4. \E k \in DOMAIN who : who[k] = u
    BY DEF Contains
<1> HIDE DEF who
<1>5. DOMAIN who = 1..Len(who) /\ Len(who) \in Nat
    BY <1>3, LenProperties
<1>6. \A k \in DOMAIN who : who[k] = u
    BY <1>2, <1>4, <1>5
<1> QED
    BY <1>6 DEF Alone, who

\* removeRoommate() and removeBooking() of a roommate delete the room only when nobody else
\* was in it at the commit.
THEOREM RoomKeptForOthersHolds == Spec => RoomKeptForOthers
<1>1. IInv /\ [Next]_vars =>
         [\A u \in User :
             TakesRoomAlong(u) /\ Contains(Roommates(RoomOf(BookOf(u))), u) => Alone(u)]_doc
    BY AloneStep
<1> QED
    BY <1>1, InductiveInvariant, PTL DEF Spec, RoomKeptForOthers

LEMMA SeatsStep ==
    ASSUME IInv, [Next]_vars, NEW x \in Transport, Len(Seats(x)') > Len(Seats(x))
    PROVE  Len(Seats(x)') <= doc'[Bus(x)].capacity
<1>1. LodgingTypeOK /\ Seats(x) \in Seq(User) /\ Len(Seats(x)) \in Nat
    BY SeatsAre, LenProperties DEF IInv
<1>2. PICK t \in Call : doc' = writes[t] ++ doc
    BY <1>1, StepOfDocuments DEF Aside
<1>3. Bus(x) \in DOMAIN writes[t]
    BY <1>1, <1>2, CommittedDocuments, SameSeats, DocumentNames
<1>4. doc'[Bus(x)] = writes[t][Bus(x)] /\ SeatPlan(writes[t])
    BY <1>2, <1>3, CommittedDocuments
<1>5. ASSUME NEW b \in Book, Seated(writes[t], b), doc[Ride(b)].on = x
      PROVE  Len(Seats(x)') <= doc'[Bus(x)].capacity
  <2> DEFINE s == Append(doc[Bus(x)].who, doc[Ride(b)].user)
  <2>1. /\ Stored(Bus(x)) /\ Stored(Ride(b)) /\ Len(doc[Bus(x)].who) < doc[Bus(x)].capacity
        /\ writes[t][Bus(x)] = [doc[Bus(x)] EXCEPT !.who = s]
    BY <1>5 DEF Seated
  <2>2. doc[Bus(x)] \in TransportDocument /\ doc[Ride(b)] \in TransportBooking
    BY <1>1, <2>1, StoredContents
  <2>3. Len(s) = Len(doc[Bus(x)].who) + 1 /\ Len(doc[Bus(x)].who) \in Nat /\ doc[Bus(x)].capacity \in Nat
    <3>1. doc[Bus(x)].who \in Seq(User) /\ doc[Ride(b)].user \in User /\ doc[Bus(x)].capacity \in Nat
        BY <2>2 DEF TransportDocument, TransportBooking
    <3> QED
        BY <3>1, AppendProperties, LenProperties
  <2>4. doc'[Bus(x)] = [doc[Bus(x)] EXCEPT !.who = s]
    BY <1>4, <2>1
  <2>5. doc'[Bus(x)].who = s /\ doc'[Bus(x)].capacity = doc[Bus(x)].capacity
    BY <2>2, <2>4 DEF TransportDocument
  <2>6. Seats(x)' \in {s, <<>>}
    BY <2>5 DEF Seats
  <2> HIDE DEF s
  <2> QED
    BY <2>1, <2>3, <2>5, <2>6
<1>6. ASSUME NEW k \in DOMAIN doc[Bus(x)].who, Vacated(writes[t], x, k)
      PROVE  FALSE
  <2>1. Stored(Bus(x)) /\ Seats(x) = doc[Bus(x)].who /\ k \in 1..Len(Seats(x))
    BY <1>1, <1>6 DEF Vacated, Seats
  <2>2. doc[Bus(x)] \in TransportDocument
    BY <1>1, <2>1, StoredContents
  <2>3. doc'[Bus(x)].who = Dropped(Seats(x), k)
    BY <1>4, <1>6, <2>1, <2>2 DEF Vacated, TransportDocument
  <2>4. Len(Dropped(Seats(x), k)) = Len(Seats(x)) - 1
    BY <1>1, <2>1, DroppedFacts
  <2>5. Seats(x)' \in {Dropped(Seats(x), k), <<>>}
    BY <2>3 DEF Seats
  <2> QED
    BY <1>1, <2>4, <2>5
<1> QED
    BY <1>3, <1>4, <1>5, <1>6 DEF SeatPlan

\* A completion is refused or seats its user within the capacity at the commit.
THEOREM SeatsWithinCapacityHolds == Spec => SeatsWithinCapacity
<1>1. IInv /\ [Next]_vars =>
         [\A x \in Transport :
             Len(Seats(x)') > Len(Seats(x)) => Len(Seats(x)') <= doc'[Bus(x)].capacity]_doc
    BY SeatsStep
<1> QED
    BY <1>1, InductiveInvariant, PTL DEF Spec, SeatsWithinCapacity

-----------------------------------------------------------------------------
(***************************************************************************)
(* Seats and completions                                                   *)
(***************************************************************************)

\* The places of u in the list s.
PlacesOf(s, u) == {k \in DOMAIN s : s[k] = u}

LEMMA PlacesFinite ==
    ASSUME NEW s \in Seq(User), NEW u
    PROVE  IsFiniteSet(PlacesOf(s, u)) /\ Cardinality(PlacesOf(s, u)) \in Nat
<1>1. Len(s) \in Nat /\ DOMAIN s = 1..Len(s)
    BY LenProperties
<1>2. IsFiniteSet(1..Len(s))
    BY <1>1, FS_Interval
<1>3. PlacesOf(s, u) \in SUBSET (1..Len(s))
    BY <1>1 DEF PlacesOf
<1> QED
    BY <1>2, <1>3, FS_Subset, FS_CardinalityType

LEMMA PlacesAppended ==
    ASSUME NEW s \in Seq(User), NEW v \in User, NEW u
    PROVE  Cardinality(PlacesOf(Append(s, v), u)) =
              IF u = v THEN Cardinality(PlacesOf(s, u)) + 1 ELSE Cardinality(PlacesOf(s, u))
<1> DEFINE n == Len(s)
           p == Append(s, v)
<1>1. n \in Nat /\ DOMAIN s = 1..n
    BY LenProperties
<1>2. /\ p \in Seq(User) /\ Len(p) = n + 1
      /\ \A k \in 1..n : p[k] = s[k]
      /\ p[n + 1] = v
    BY AppendProperties
<1>3. DOMAIN p = 1..(n + 1)
    BY <1>2, LenProperties
<1> HIDE DEF n, p
<1>4. 1..(n + 1) = (1..n) \cup {n + 1} /\ n + 1 \notin 1..n
    BY <1>1
<1>5. CASE u = v
  <2>1. PlacesOf(p, u) = PlacesOf(s, u) \cup {n + 1}
    BY <1>1, <1>2, <1>3, <1>4, <1>5 DEF PlacesOf
  <2>2. n + 1 \notin PlacesOf(s, u)
    BY <1>1, <1>4 DEF PlacesOf
  <2> QED
    BY <1>5, <2>1, <2>2, PlacesFinite, FS_AddElement DEF p
<1>6. CASE u # v
  <2>1. PlacesOf(p, u) = PlacesOf(s, u)
    BY <1>1, <1>2, <1>3, <1>4, <1>6 DEF PlacesOf
  <2> QED
    BY <1>6, <2>1 DEF p
<1> QED
    BY <1>5, <1>6

LEMMA PlacesDropped ==
    ASSUME NEW s \in Seq(User), NEW k \in 1..Len(s), NEW u
    PROVE  Cardinality(PlacesOf(Dropped(s, k), u)) <= Cardinality(PlacesOf(s, u))
<1> DEFINE n == Len(s)
           p == Dropped(s, k)
           S == PlacesOf(p, u)
           T == PlacesOf(s, u)
           f == [j \in S |-> IF j < k THEN j ELSE j + 1]
<1>1. n \in Nat /\ DOMAIN s = 1..n /\ k \in Nat
    BY LenProperties
<1>2. /\ p \in Seq(User) /\ Len(p) = n - 1
      /\ \A j \in 1..(n - 1) : p[j] = IF j < k THEN s[j] ELSE s[j + 1]
    BY DroppedFacts
<1>3. DOMAIN p = 1..(n - 1)
    BY <1>2, LenProperties
<1> HIDE DEF n, p
<1>4. ASSUME NEW j \in S
      PROVE  f[j] \in T /\ j \in Nat
  <2>1. j \in 1..(n - 1) /\ p[j] = u
    BY <1>3 DEF PlacesOf
  <2>2. CASE j < k
    <3>1. s[j] = u /\ j \in 1..n
        BY <1>1, <1>2, <2>1, <2>2
    <3> QED
        BY <1>1, <2>1, <2>2, <3>1 DEF PlacesOf
  <2>3. CASE ~ (j < k)
    <3>1. s[j + 1] = u /\ j + 1 \in 1..n
        BY <1>1, <1>2, <2>1, <2>3
    <3> QED
        BY <1>1, <2>1, <2>3, <3>1 DEF PlacesOf
  <2> QED
    BY <2>2, <2>3
<1>5. ASSUME NEW i \in S, NEW j \in S, f[i] = f[j]
      PROVE  i = j
  <2>1. i \in Nat /\ j \in Nat
    BY <1>4
  <2>2. (IF i < k THEN i ELSE i + 1) = (IF j < k THEN j ELSE j + 1)
    BY <1>5
  <2> QED
    BY <1>1, <2>1, <2>2
<1>6. f \in Injection(S, T)
  <2>1. f \in [S -> T]
    BY <1>4
  <2>2. \A i, j \in S : f[i] = f[j] => i = j
    BY <1>5
  <2> HIDE DEF f, S, T
  <2> QED
    BY <2>1, <2>2 DEF Injection, IsInjective
<1>7. IsFiniteSet(T)
    BY PlacesFinite
<1> HIDE DEF f, S, T
<1>8. Cardinality(S) <= Cardinality(T)
    BY <1>6, <1>7, FS_Injection
<1> QED
    BY <1>8 DEF S, T, p

LEMMA SeatsOfIs ==
    ASSUME NEW x, NEW u
    PROVE  /\ SeatsOf(x, u) = Cardinality(PlacesOf(Seats(x), u))
           /\ SeatsOf(x, u)' = Cardinality(PlacesOf(Seats(x)', u))
    BY DEF SeatsOf, PlacesOf

\* The commit of a completion.
LEMMA SeatedStep ==
    ASSUME LodgingTypeOK, NEW f, Contents(f), \A d \in DOMAIN f : doc'[d] = f[d],
           NEW b \in Book, Seated(f, b), NEW x \in Transport, doc[Ride(b)].on = x, NEW u \in User
    PROVE  /\ SeatsOf(x, u)' = IF u = doc[Ride(b)].user THEN SeatsOf(x, u) + 1 ELSE SeatsOf(x, u)
           /\ SeatsOf(x, u) \in Nat
           /\ u = doc[Ride(b)].user => RideIs(b, x, u, "in_progress") /\ RideIs(b, x, u, "completed")'
<1> DEFINE r == doc[Ride(b)]
           s == doc[Bus(x)].who
<1>1. /\ Stored(Ride(b)) /\ Stored(Bus(x)) /\ Ride(b) \in DOMAIN f /\ Bus(x) \in DOMAIN f
      /\ r.status = "in_progress" /\ f[Ride(b)] = Completed(r)
      /\ f[Bus(x)] = [doc[Bus(x)] EXCEPT !.who = Append(s, r.user)]
    BY DEF Seated
<1>2. r \in TransportBooking /\ doc[Bus(x)] \in TransportDocument
    BY <1>1, StoredContents
<1>3. r.user \in User /\ r.on = x /\ s \in Seq(User)
    BY <1>2 DEF TransportBooking, TransportDocument
<1>4. r = [user |-> r.user, on |-> x, status |-> "in_progress"]
    BY <1>1, <1>2 DEF TransportBooking
<1>5. Completed(r) = [user |-> r.user, on |-> x, status |-> "completed"]
    BY <1>4 DEF Completed
<1>6. Completed(r) \in TransportBooking
    BY <1>3, <1>5 DEF TransportBooking, Status
<1>7. doc'[Ride(b)] = Completed(r) /\ Completed(r) \notin {None, Gone}
    BY <1>1, <1>6, AbsenceAssumption
<1>8. u = r.user => RideIs(b, x, u, "in_progress") /\ RideIs(b, x, u, "completed")'
    BY <1>1, <1>4, <1>5, <1>7 DEF RideIs, Stored
<1>9. Seats(x) = s /\ Seats(x)' = Append(s, r.user)
  <2>1. doc'[Bus(x)].who = Append(s, r.user)
    BY <1>1, <1>2 DEF TransportDocument
  <2>2. Append(s, r.user) \in Seq(User)
    BY <1>3, AppendProperties
  <2>3. doc'[Bus(x)] \in TransportDocument
    <3>1. doc'[Bus(x)] = [doc[Bus(x)] EXCEPT !.who = Append(s, r.user)]
        BY <1>1
    <3> HIDE DEF r, s
    <3> QED
        BY <1>2, <2>2, <3>1 DEF TransportDocument
  <2>4. doc'[Bus(x)] \notin {None, Gone}
    BY <2>3, AbsenceAssumption
  <2> QED
    BY <1>1, <2>1, <2>4 DEF Seats, Stored
<1> HIDE DEF r, s
<1>10. /\ Cardinality(PlacesOf(Seats(x)', u)) =
             IF u = r.user THEN Cardinality(PlacesOf(Seats(x), u)) + 1 ELSE Cardinality(PlacesOf(Seats(x), u))
       /\ Cardinality(PlacesOf(Seats(x), u)) \in Nat
    BY <1>3, <1>9, PlacesAppended, PlacesFinite
<1> QED
    BY <1>8, <1>10, SeatsOfIs DEF r

\* A seat that is taken away.
LEMMA VacatedStep ==
    ASSUME LodgingTypeOK, NEW f, NEW x \in Transport, Bus(x) \in DOMAIN f, doc'[Bus(x)] = f[Bus(x)],
           NEW k \in DOMAIN doc[Bus(x)].who, Vacated(f, x, k), NEW u \in User
    PROVE  ~ (SeatsOf(x, u)' > SeatsOf(x, u))
<1> DEFINE s == doc[Bus(x)].who
<1>1. Stored(Bus(x)) /\ doc'[Bus(x)] = [doc[Bus(x)] EXCEPT !.who = Dropped(s, k)]
    BY DEF Vacated
<1>2. doc[Bus(x)] \in TransportDocument
    BY <1>1, StoredContents
<1>3. s \in Seq(User) /\ k \in 1..Len(s)
    BY <1>2, LenProperties DEF TransportDocument
<1>4. Seats(x) = s /\ Seats(x)' \in {Dropped(s, k), <<>>}
    BY <1>1, <1>2 DEF Seats, TransportDocument
<1> HIDE DEF s
<1>5. Dropped(s, k) \in Seq(User) /\ <<>> \in Seq(User)
    BY <1>3, DroppedFacts
<1>6. PlacesOf(<<>>, u) = {} /\ Cardinality({}) = 0
    BY FS_EmptySet DEF PlacesOf
<1>7. /\ Cardinality(PlacesOf(Dropped(s, k), u)) <= Cardinality(PlacesOf(s, u))
      /\ Cardinality(PlacesOf(Dropped(s, k), u)) \in Nat /\ Cardinality(PlacesOf(s, u)) \in Nat
    BY <1>3, <1>5, PlacesDropped, PlacesFinite
<1>8. CASE Seats(x)' = Dropped(s, k)
    BY <1>4, <1>7, <1>8, SeatsOfIs
<1>9. CASE Seats(x)' = <<>>
  <2>1. SeatsOf(x, u)' = 0
    BY <1>6, <1>9, SeatsOfIs
  <2>2. SeatsOf(x, u) \in Nat
    BY <1>4, <1>7, SeatsOfIs
  <2> QED
    BY <2>1, <2>2
<1> QED
    BY <1>4, <1>8, <1>9

LEMMA SeatCompletionStep ==
    ASSUME IInv, [Next]_vars, NEW x \in Transport, NEW u \in User
    PROVE  SeatsOf(x, u)' > SeatsOf(x, u) <=>
              \E b \in Book : RideIs(b, x, u, "in_progress") /\ RideIs(b, x, u, "completed")'
<1>1. LodgingTypeOK /\ Seats(x) \in Seq(User) /\ SeatsOf(x, u) \in Nat
    BY SeatsAre, PlacesFinite, SeatsOfIs DEF IInv
<1>2. ASSUME NEW b, doc'[Ride(b)] = doc[Ride(b)]
      PROVE  ~ (RideIs(b, x, u, "in_progress") /\ RideIs(b, x, u, "completed")')
    BY <1>2 DEF RideIs
<1>3. CASE Aside
  <2>1. \A b \in Book : doc'[Ride(b)] = doc[Ride(b)]
    BY <1>3 DEF Aside
  <2>2. Seats(x)' \in {<<>>, Seats(x)}
    BY <1>3 DEF Aside
  <2>3. PlacesOf(<<>>, u) = {} /\ Cardinality({}) = 0
    BY FS_EmptySet DEF PlacesOf
  <2>4. SeatsOf(x, u)' \in {0, SeatsOf(x, u)}
    BY <2>2, <2>3, SeatsOfIs
  <2> QED
    BY <1>1, <1>2, <2>1, <2>4
<1>4. ASSUME NEW t \in Call, doc' = writes[t] ++ doc
      PROVE  SeatsOf(x, u)' > SeatsOf(x, u) <=>
                \E b \in Book : RideIs(b, x, u, "in_progress") /\ RideIs(b, x, u, "completed")'
  <2> DEFINE f == writes[t]
  <2>1. /\ \A d \in DOMAIN f : doc'[d] = f[d]
        /\ \A d \in Document \ DOMAIN f : doc'[d] = doc[d]
        /\ SeatPlan(f) /\ Contents(f)
    BY <1>4, CommittedDocuments
  <2> HIDE DEF f
  <2>2. ASSUME SeatsOf(x, u)' > SeatsOf(x, u)
        PROVE  \E b \in Book : RideIs(b, x, u, "in_progress") /\ RideIs(b, x, u, "completed")'
    <3>1. Bus(x) \in DOMAIN f
      <4>1. CASE Bus(x) \notin DOMAIN f
        <5>1. Seats(x)' = Seats(x)
            BY <2>1, <4>1, DocumentNames, SameSeats
        <5> QED
            BY <1>1, <2>2, <5>1, SeatsOfIs
      <4> QED
        BY <4>1
    <3>2. ~ \E k \in DOMAIN doc[Bus(x)].who : Vacated(f, x, k)
        BY <1>1, <2>1, <2>2, <3>1, VacatedStep
    <3>3. PICK b \in Book : Seated(f, b) /\ doc[Ride(b)].on = x
        BY <2>1, <3>1, <3>2 DEF SeatPlan
    <3>4. /\ SeatsOf(x, u)' = IF u = doc[Ride(b)].user THEN SeatsOf(x, u) + 1 ELSE SeatsOf(x, u)
          /\ u = doc[Ride(b)].user => RideIs(b, x, u, "in_progress") /\ RideIs(b, x, u, "completed")'
        BY <1>1, <2>1, <3>3, SeatedStep
    <3>5. u = doc[Ride(b)].user
        BY <1>1, <2>2, <3>4
    <3> QED
        BY <3>4, <3>5
  <2>3. ASSUME NEW b \in Book, RideIs(b, x, u, "in_progress"), RideIs(b, x, u, "completed")'
        PROVE  SeatsOf(x, u)' > SeatsOf(x, u)
    <3>1. Ride(b) \in DOMAIN f
        BY <1>2, <2>1, <2>3, DocumentNames
    <3>2. /\ f[Ride(b)] \notin {None, Gone} /\ f[Ride(b)].status = "completed"
          /\ doc[Ride(b)].status = "in_progress" /\ doc[Ride(b)].on = x /\ doc[Ride(b)].user = u
        BY <2>1, <2>3, <3>1 DEF RideIs, Stored
    <3>3. Seated(f, b)
        BY <2>1, <3>1, <3>2 DEF SeatPlan
    <3>4. SeatsOf(x, u)' = SeatsOf(x, u) + 1
        BY <1>1, <2>1, <3>2, <3>3, SeatedStep
    <3> QED
        BY <1>1, <3>4
  <2> QED
    BY <2>2, <2>3
<1> QED
    BY <1>3, <1>4, StepOfDocuments

\* A user gets a seat exactly when a booking of the user is completed.
THEOREM SeatWithCompletionHolds == Spec => SeatWithCompletion
<1>1. IInv /\ [Next]_vars =>
         [\A x \in Transport, u \in User :
             SeatsOf(x, u)' > SeatsOf(x, u) <=>
                \E b \in Book : RideIs(b, x, u, "in_progress") /\ RideIs(b, x, u, "completed")']_doc
    BY SeatCompletionStep
<1> QED
    BY <1>1, InductiveInvariant, PTL DEF Spec, SeatWithCompletion

-----------------------------------------------------------------------------
(***************************************************************************)
(* Choices                                                                 *)
(***************************************************************************)

\* The choice of slot g that a copy of a booking has.
Copied(c, g, w) == c \notin {None, Gone} /\ w = c.ids[g]

\* A choice is in the document, in a transaction under way or in a late save, before a
\* step and after it.
LEMMA PickedIs ==
    ASSUME NEW b, NEW g, NEW w
    PROVE  /\ w \in Picked(b, g) <=>
                 \/ Copied(doc[Choice(b)], g, w)
                 \/ \E t \in Call : Choice(b) \in DOMAIN writes[t] /\ Copied(writes[t][Choice(b)], g, w)
                 \/ \E i \in late : i.does = "set" /\ i.book = b /\ i.slot = g /\ w = i.ws
           /\ w \in Picked(b, g)' <=>
                 \/ Copied(doc'[Choice(b)], g, w)
                 \/ \E t \in Call : Choice(b) \in DOMAIN writes'[t] /\ Copied(writes'[t][Choice(b)], g, w)
                 \/ \E i \in late' : i.does = "set" /\ i.book = b /\ i.slot = g /\ w = i.ws
    BY DEF Picked, Copied

\* Nothing new comes to be chosen: every copy after the step is one from before it.
LEMMA SamePicks ==
    ASSUME NEW b, NEW g, NEW w \in Picked(b, g)',
           \/ doc'[Choice(b)] = doc[Choice(b)]
           \/ \E t \in Call : Choice(b) \in DOMAIN writes[t] /\ doc'[Choice(b)] = writes[t][Choice(b)],
           \A t \in Call : DOMAIN writes'[t] = {} \/ writes'[t] = writes[t],
           \A i \in late' : i.does = "set" => i \in late
    PROVE  w \in Picked(b, g)
<1>1. CASE Copied(doc'[Choice(b)], g, w)
    BY <1>1, PickedIs
<1>2. CASE \E t \in Call : Choice(b) \in DOMAIN writes'[t] /\ Copied(writes'[t][Choice(b)], g, w)
    BY <1>2, PickedIs
<1>3. CASE \E i \in late' : i.does = "set" /\ i.book = b /\ i.slot = g /\ w = i.ws
    BY <1>3, PickedIs
<1> QED
    BY <1>1, <1>2, <1>3, PickedIs

\* The choice documents stay in every step that is no commit and no late save.
LEMMA NewFlatChoice ==
    ASSUME LodgingTypeOK, NEW f, NewFlat(f), NEW b \in Book
    PROVE  doc'[Choice(b)] = doc[Choice(b)]
<1>1. \A r : Flat(r) # Choice(b)
    BY Names
<1> QED
    BY <1>1, DocumentNames DEF NewFlat, LodgingTypeOK

LEMMA SavesChoice ==
    ASSUME IInv, NEW t \in Call, NEW f, NEW L, Saves(t, f, L),
           NEW b \in Book, NEW g \in 1..Groups, NEW w \in Picked(b, g)'
    PROVE  w = None \/ w \in Picked(b, g) \/ InGroup(w, g)
<1>1. /\ doc'[Choice(b)] = doc[Choice(b)]
      /\ writes'[t] = f /\ \A u \in Call \ {t} : writes'[u] = writes[u]
      /\ late' = late \cup L /\ ChoicePlan(f) /\ SoundLate(t, L, f)
    BY NewFlatChoice DEF Saves, Sound, IInv, LodgingTypeOK, SessionsTypeOK
<1>2. CASE Copied(doc'[Choice(b)], g, w)
    BY <1>1, <1>2, PickedIs
<1>3. ASSUME NEW u \in Call, Choice(b) \in DOMAIN writes'[u], Copied(writes'[u][Choice(b)], g, w)
      PROVE  w = None \/ w \in Picked(b, g) \/ InGroup(w, g)
  <2>1. CASE u = t
    BY <1>1, <1>3, <2>1 DEF ChoicePlan, Copied
  <2>2. CASE u # t
    BY <1>1, <1>3, <2>2, PickedIs
  <2> QED
    BY <2>1, <2>2
<1>4. ASSUME NEW i \in late', i.does = "set", i.book = b, i.slot = g, w = i.ws
      PROVE  w = None \/ w \in Picked(b, g) \/ InGroup(w, g)
    BY <1>1, <1>4, PickedIs DEF SoundLate
<1> QED
    BY <1>2, <1>3, <1>4, PickedIs

LEMMA FailsChoice ==
    ASSUME IInv, NEW t \in Call, NEW L, Fails(t, L),
           NEW b \in Book, NEW g \in 1..Groups, NEW w \in Picked(b, g)'
    PROVE  w = None \/ w \in Picked(b, g) \/ InGroup(w, g)
<1>1. /\ doc'[Choice(b)] = doc[Choice(b)] /\ writes' = writes
      /\ late' = late \cup L /\ SoundLate(t, L, <<>>)
    BY NewFlatChoice DEF Fails, IInv
<1>2. CASE Copied(doc'[Choice(b)], g, w)
    BY <1>1, <1>2, PickedIs
<1>3. CASE \E u \in Call : Choice(b) \in DOMAIN writes'[u] /\ Copied(writes'[u][Choice(b)], g, w)
    BY <1>1, <1>3, PickedIs
<1>4. ASSUME NEW i \in late', i.does = "set", i.book = b, i.slot = g, w = i.ws
      PROVE  w = None \/ w \in Picked(b, g) \/ InGroup(w, g)
    BY <1>1, <1>4, PickedIs DEF SoundLate
<1> QED
    BY <1>2, <1>3, <1>4, PickedIs

LEMMA AdministersChoice ==
    ASSUME IInv, NEW t \in Call, Administers(t),
           NEW b \in Book, NEW g \in 1..Groups, NEW w \in Picked(b, g)'
    PROVE  w \in Picked(b, g)
<1>1. PICK f : AdminPlan(f) /\ doc' = f ++ doc /\ writes' = writes /\ late' = late
    BY DEF Administers, WriteAll
<1>2. Choice(b) \notin DOMAIN f
  <2>1. \A a : Choice(b) \notin {Hall(a), Bus(a), Inn(a)}
    BY Names
  <2> QED
    BY <1>1, <2>1 DEF AdminPlan
<1>3. Choice(b) \in DOMAIN doc
    BY DocumentNames DEF IInv, LodgingTypeOK
<1>4. doc'[Choice(b)] = doc[Choice(b)]
    BY <1>1, <1>2, <1>3 DEF ++
<1> QED
    BY <1>1, <1>4, SamePicks

LEMMA CommitChoice ==
    ASSUME IInv, NEW t \in Call, Commit(t),
           NEW b \in Book, NEW g \in 1..Groups, NEW w \in Picked(b, g)'
    PROVE  w \in Picked(b, g)
<1>1. /\ doc' = writes[t] ++ doc /\ late' = late
      /\ writes'[t] = <<>> /\ \A u \in Call \ {t} : writes'[u] = writes[u]
    BY DEF Commit, IInv, LodgingTypeOK, SessionsTypeOK
<1>2. \A u \in Call : DOMAIN writes'[u] = {} \/ writes'[u] = writes[u]
    BY <1>1, NothingSaved
<1>3. \/ doc'[Choice(b)] = doc[Choice(b)]
      \/ Choice(b) \in DOMAIN writes[t] /\ doc'[Choice(b)] = writes[t][Choice(b)]
    BY <1>1, CommittedDocuments, DocumentNames
<1> QED
    BY <1>1, <1>2, <1>3, SamePicks

LEMMA SettlesChoice ==
    ASSUME IInv, NEW i \in late, Settles(i),
           NEW b \in Book, NEW g \in 1..Groups, NEW w \in Picked(b, g)'
    PROVE  w \in Picked(b, g)
<1>1. PICK v : SoundSave(i, v) /\ Joins(i, Target(i), v)
    BY DEF Settles
<1>2. i \in LateSave /\ i.call \in Call /\ DOMAIN doc = Document /\ DOMAIN writes = Call
    BY TargetFacts DEF IInv, LodgingTypeOK, SessionsTypeOK
<1>3. Target(i) = Choice(b) /\ w = v.ids[g] => w \in Picked(b, g)
  <2>1. Target(i) = Choice(b) => i.does = "set" /\ i.book = b
    BY <1>2, TargetFacts, Names
  <2> QED
    BY <1>1, <2>1 DEF SoundSave
<1>4. doc'[Choice(b)] = doc[Choice(b)] \/ (Target(i) = Choice(b) /\ doc'[Choice(b)] = v)
    BY <1>1, <1>2, DocumentNames DEF Joins
<1>5. ASSUME NEW u \in Call, Choice(b) \in DOMAIN writes'[u]
      PROVE  \/ Choice(b) \in DOMAIN writes[u] /\ writes'[u][Choice(b)] = writes[u][Choice(b)]
             \/ Target(i) = Choice(b) /\ writes'[u][Choice(b)] = v
  <2>1. \/ writes' = writes
        \/ writes' = [writes EXCEPT ![i.call] = Saved(Target(i), v) ++ writes[i.call]]
    BY <1>1 DEF Joins
  <2>2. writes'[u] = writes[u] \/ writes'[u] = Saved(Target(i), v) ++ writes[u]
    BY <1>2, <2>1
  <2> QED
    BY <1>5, <2>2 DEF Saved, ++
<1>6. late' \subseteq late
    BY <1>1 DEF Joins
<1>7. CASE Copied(doc'[Choice(b)], g, w)
    BY <1>3, <1>4, <1>7, PickedIs DEF Copied
<1>8. ASSUME NEW u \in Call, Choice(b) \in DOMAIN writes'[u], Copied(writes'[u][Choice(b)], g, w)
      PROVE  w \in Picked(b, g)
    BY <1>3, <1>5, <1>8, PickedIs DEF Copied
<1>9. CASE \E k \in late' : k.does = "set" /\ k.book = b /\ k.slot = g /\ w = k.ws
    BY <1>6, <1>9, PickedIs
<1> QED
    BY <1>7, <1>8, <1>9, PickedIs

LEMMA OtherChoice ==
    ASSUME IInv, (\E t \in Call : Abort(t)) \/ (\E i \in late : LoadLate(i) \/ LoseLate(i)) \/ Stop \/ UNCHANGED vars,
           NEW b \in Book, NEW g \in 1..Groups, NEW w \in Picked(b, g)'
    PROVE  w \in Picked(b, g)
<1>1. DOMAIN writes = Call
    BY DEF IInv, LodgingTypeOK, SessionsTypeOK
<1>2. \A t \in Call : DOMAIN writes'[t] = {} \/ writes'[t] = writes[t]
    BY <1>1, NothingSaved DEF Abort, LoadLate, LoseLate, Stop, vars
<1>3. \A i \in late' : i.does = "set" => i \in late
  <2>1. ASSUME NEW k \in late, LoadLate(k)
        PROVE  \A i \in late' : i.does = "set" => i \in late
    <3>1. k \in LateSave /\ k.does = "load" /\ late' = (late \ {k}) \cup {[k EXCEPT !.does = "add"]}
        BY <2>1 DEF LoadLate, IInv, LodgingTypeOK
    <3>2. k \in [does : {"load", "add"}, call : Call, user : User, ws : Workshop]
        BY <3>1 DEF LateSave
    <3>3. [k EXCEPT !.does = "add"].does = "add"
        BY <3>2
    <3> QED
        BY <3>1, <3>3
  <2> QED
    BY <2>1 DEF Abort, LoseLate, Stop, vars
<1>4. doc' = doc
    BY DEF Abort, LoadLate, LoseLate, Stop, vars
<1> QED
    BY <1>2, <1>3, <1>4, SamePicks

LEMMA ChosenStep ==
    ASSUME IInv, [Next]_vars, NEW b \in Book, NEW g \in 1..Groups,
           NEW w \in Picked(b, g)' \ (Picked(b, g) \cup {None})
    PROVE  Stored(Hall(w)) /\ doc[Hall(w)].group = g
<1>1. ASSUME NEW t \in Call, Called(t)
      PROVE  InGroup(w, g)
    BY <1>1, SavesChoice, FailsChoice DEF Called
<1>2. ASSUME NEW t \in Call, Administers(t) \/ Commit(t) \/ Abort(t)
      PROVE  FALSE
    BY <1>2, AdministersChoice, CommitChoice, OtherChoice
<1>3. ASSUME NEW i \in late, Settles(i) \/ LoadLate(i) \/ LoseLate(i)
      PROVE  FALSE
    BY <1>3, SettlesChoice, OtherChoice
<1>4. Stop \/ UNCHANGED vars => FALSE
    BY OtherChoice
<1>5. InGroup(w, g)
    BY <1>1, <1>2, <1>3, <1>4, KindsOfSteps
<1> QED
    BY <1>5 DEF InGroup

\* Nobody comes to choose a workshop for a slot that is not its group's, not even by a
\* save that comes late.
THEOREM ChosenInItsGroupHolds == Spec => ChosenInItsGroup
<1>1. IInv /\ [Next]_vars =>
         [\A b \in Book, g \in 1..Groups :
             \A w \in Picked(b, g)' \ (Picked(b, g) \cup {None}) :
                Stored(Hall(w)) /\ doc[Hall(w)].group = g]_vars
    BY ChosenStep
<1> QED
    BY <1>1, InductiveInvariant, PTL DEF Spec, ChosenInItsGroup
=============================================================================
