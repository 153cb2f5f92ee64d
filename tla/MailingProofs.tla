---------------------------- MODULE MailingProofs ----------------------------
(***************************************************************************)
(* Proofs about Mailing and Accounts for every set of requests, addresses  *)
(* and recipients, every size of the batches and every bound.              *)
(***************************************************************************)
EXTENDS Mailing, MongoTxnProofs, FiniteSetTheorems, SequenceTheorems

(***************************************************************************)
(* The batches of an announcement.                                         *)
(***************************************************************************)

LEMMA DivFacts ==
    ASSUME NEW x \in Nat, NEW n \in Nat \ {0}
    PROVE  /\ x \div n \in Nat
           /\ (x \div n) * n <= x
           /\ x < (x \div n) * n + n
  BY SMT

LEMMA BatchesApart ==
    ASSUME NEW n \in Nat \ {0}, NEW i \in Nat, NEW j \in Nat, i < j
    PROVE  i * n <= (j - 1) * n
  BY SMT

LEMMA Unset ==
    ASSUME NEW a \in Account, NEW s \in SUBSET Kind
    PROVE  [k \in DOMAIN a |-> IF k \in s THEN None ELSE a[k]] \in Account
  BY DEF Account, Kind

\* The last place of a slice that is not the last one, or the end of the array.
LEMMA SliceFacts ==
    ASSUME NEW S, NEW arr \in Seq(S), NEW n \in Nat \ {0}
    PROVE  /\ Slices(arr, n) \in Nat
           /\ \A i \in 1..Slices(arr, n) : (i - 1) * n \in Nat /\ (i - 1) * n + n = i * n
           /\ \A k \in 1..Len(arr) : \E i \in 1..Slices(arr, n) : (i - 1) * n < k /\ k <= i * n
<1>1. Len(arr) \in Nat
  OBVIOUS
<1>2. Slices(arr, n) \in Nat
  <2>1. Len(arr) + n - 1 \in Nat
    BY <1>1
  <2>2. QED
    BY <2>1, DivFacts DEF Slices
<1>3. ASSUME NEW i \in 1..Slices(arr, n)
      PROVE  (i - 1) * n \in Nat /\ (i - 1) * n + n = i * n
  BY <1>2
<1>4. ASSUME NEW k \in 1..Len(arr)
      PROVE  \E i \in 1..Slices(arr, n) : (i - 1) * n < k /\ k <= i * n
  <2> DEFINE q == (k - 1) \div n
             s == Slices(arr, n)
  <2>1. q \in Nat /\ q * n <= k - 1 /\ k - 1 < q * n + n
    BY DivFacts
  <2>2. Len(arr) + n - 1 < s * n + n
    <3>1. Len(arr) + n - 1 \in Nat
      BY <1>1
    <3>2. QED
      BY <3>1, DivFacts DEF Slices
  <2>3. q + 1 <= s
    <3>1. SUFFICES ASSUME s < q + 1 PROVE FALSE
      BY <2>1, <1>2
    <3>2. s * n <= q * n
      BY <3>1, <2>1, <1>2
    <3>3. s * n \in Nat /\ q * n \in Nat
      BY <2>1, <1>2
    <3>4. QED
      BY <2>1, <2>2, <3>2, <3>3, <1>1
  <2>4. (q + 1) * n = q * n + n /\ q * n \in Nat
    BY <2>1
  <2>5. q + 1 \in 1..s /\ (q + 1 - 1) * n < k /\ k <= (q + 1) * n
    BY <2>1, <2>3, <2>4, <1>2
  <2>6. QED
    BY <2>5
<1>5. QED
  BY <1>2, <1>3, <1>4

\* A batch holds the elements at its places.
LEMMA ChunkFacts ==
    ASSUME NEW S, NEW arr \in Seq(S), NEW n \in Nat \ {0}
    PROVE  /\ Chunks(arr, n) \in Seq(SUBSET S)
           /\ DOMAIN Chunks(arr, n) = 1..Slices(arr, n)
           /\ \A i \in 1..Slices(arr, n) : Chunks(arr, n)[i] =
                 {arr[k] : k \in {j \in 1..Len(arr) : (i - 1) * n < j /\ j <= i * n}}
<1> DEFINE places(i) == {j \in 1..Len(arr) : (i - 1) * n < j /\ j <= i * n}
           last(i) == IF i * n < Len(arr) THEN i * n ELSE Len(arr)
           slice(i) == SubSeq(arr, (i - 1) * n + 1, last(i))
<1>1. Len(arr) \in Nat
  OBVIOUS
<1>2. ASSUME NEW i \in 1..Slices(arr, n)
      PROVE  ToSet(slice(i)) = {arr[k] : k \in places(i)}
  <2> DEFINE m == (i - 1) * n
             l == last(i)
  <2>1. m \in Nat /\ m + n = i * n
    BY SliceFacts
  <2>2. l \in Nat /\ l <= Len(arr)
    BY <2>1, <1>1
  <2>3. \A j \in (m + 1) .. l : arr[j] \in S
    BY <2>1, <2>2, <1>1
  <2>4. \A j \in places(i) : j \in Nat /\ m < j /\ j <= l
    BY <2>1, <1>1
  <2>5. \A j \in Nat : m < j /\ j <= l => j \in places(i)
    BY <2>1, <2>2, <1>1
  <2> HIDE DEF m, l, places
  <2>6. /\ SubSeq(arr, m + 1, l) \in Seq(S)
        /\ Len(SubSeq(arr, m + 1, l)) = IF m + 1 <= l THEN l - (m + 1) + 1 ELSE 0
        /\ \A j \in 1 .. l - (m + 1) + 1 : SubSeq(arr, m + 1, l)[j] = arr[m + 1 + j - 1]
    <3>1. m + 1 \in Int /\ l \in Int
      BY <2>1, <2>2
    <3>2. QED
      BY <3>1, <2>3, SubSeqProperties
  <2> DEFINE sl == SubSeq(arr, m + 1, l)
  <2>7. DOMAIN sl = 1 .. (IF m + 1 <= l THEN l - m ELSE 0)
    BY <2>6, <2>1, <2>2, LenProperties
  <2>8. \A j \in DOMAIN sl : sl[j] = arr[m + j] /\ m + j \in places(i)
    BY <2>6, <2>7, <2>5, <2>1, <2>2
  <2>9. \A k \in places(i) : k - m \in DOMAIN sl /\ sl[k - m] = arr[k]
    BY <2>6, <2>7, <2>4, <2>1, <2>2
  <2>10. ToSet(sl) = {arr[k] : k \in places(i)}
    <3> HIDE DEF sl
    <3>1. QED
      BY <2>8, <2>9 DEF ToSet
  <2>11. QED
    BY <2>10 DEF m, l
<1>3. \A i \in 1..Slices(arr, n) : {arr[k] : k \in places(i)} \in SUBSET S
  BY <1>1
<1>4. Chunks(arr, n) = [i \in 1..Slices(arr, n) |-> {arr[k] : k \in places(i)}]
  BY <1>2 DEF Chunks
<1> HIDE DEF places
<1>5. [i \in 1..Slices(arr, n) |-> {arr[k] : k \in places(i)}] \in Seq(SUBSET S)
  BY <1>3, SliceFacts, IsASeq
<1>6. QED
  BY <1>4, <1>5 DEF places

LEMMA ChunkMembers ==
    ASSUME NEW S, NEW arr \in Seq(S), NEW n \in Nat \ {0}, NEW i \in 1..Slices(arr, n)
    PROVE  \A e : e \in Chunks(arr, n)[i] <=>
              \E k \in 1..Len(arr) : (i - 1) * n < k /\ k <= i * n /\ e = arr[k]
<1> DEFINE places == {j \in 1..Len(arr) : (i - 1) * n < j /\ j <= i * n}
<1>1. Chunks(arr, n)[i] = {arr[k] : k \in places}
  BY ChunkFacts
<1>2. \A e : e \in Chunks(arr, n)[i] <=> \E k \in places : e = arr[k]
  BY <1>1, Zenon
<1>3. QED
  BY <1>2, Zenon

\* A batch has no more places than the mailer takes.
LEMMA ChunksBounded ==
    ASSUME NEW S, NEW arr \in Seq(S), NEW n \in Nat \ {0}
    PROVE  \A i \in DOMAIN Chunks(arr, n) : Cardinality(Chunks(arr, n)[i]) <= n
<1> SUFFICES ASSUME NEW i \in 1..Slices(arr, n)
             PROVE  Cardinality(Chunks(arr, n)[i]) <= n
  BY ChunkFacts
<1> DEFINE m == (i - 1) * n
           places == {j \in 1..Len(arr) : m < j /\ j <= i * n}
<1>1. m \in Nat /\ m + n = i * n /\ Len(arr) \in Nat
  BY SliceFacts
<1>2. Chunks(arr, n)[i] = {arr[k] : k \in places}
  BY ChunkFacts
<1>3. places \subseteq (m + 1) .. (m + n)
  BY <1>1
<1> HIDE DEF m, places
<1>4. IsFiniteSet((m + 1) .. (m + n)) /\ Cardinality((m + 1) .. (m + n)) = n
  <2>1. m + 1 \in Int /\ m + n \in Int /\ ~ (m + 1 > m + n) /\ (m + n) - (m + 1) + 1 = n
    BY <1>1
  <2>2. QED
    BY <2>1, FS_Interval
<1>5. IsFiniteSet(places) /\ Cardinality(places) <= n /\ Cardinality(places) \in Nat
  BY <1>3, <1>4, FS_Subset, FS_CardinalityType
<1> DEFINE f == [k \in places |-> arr[k]]
           batch == {arr[k] : k \in places}
<1>6. f \in Surjection(places, batch)
  BY DEF Surjection
<1>7. IsFiniteSet(batch) /\ Cardinality(batch) <= Cardinality(places)
  BY <1>5, <1>6, FS_Surjection
<1>8. Cardinality(batch) \in Nat
  BY <1>7, FS_CardinalityType
<1>9. QED
  BY <1>2, <1>5, <1>7, <1>8

\* Nobody is in two batches when nobody is twice in the array.
LEMMA ChunksDisjoint ==
    ASSUME NEW S, NEW arr \in Seq(S), NEW n \in Nat \ {0},
           \A k, l \in 1..Len(arr) : k # l => arr[k] # arr[l]
    PROVE  \A i, j \in DOMAIN Chunks(arr, n) : i # j => Chunks(arr, n)[i] \cap Chunks(arr, n)[j] = {}
<1>1. ASSUME NEW i \in 1..Slices(arr, n), NEW j \in 1..Slices(arr, n), i < j,
             NEW k \in 1..Len(arr), k <= i * n,
             NEW l \in 1..Len(arr), (j - 1) * n < l
      PROVE  arr[k] # arr[l]
  <2>1. i \in Nat /\ j \in Nat /\ Slices(arr, n) \in Nat
    BY SliceFacts
  <2>2. i * n <= (j - 1) * n
    BY <1>1, <2>1, BatchesApart
  <2>3. i * n \in Nat /\ (j - 1) * n \in Nat /\ k \in Nat /\ l \in Nat
    BY <2>1, SliceFacts
  <2>4. k # l
    BY <2>2, <2>3, <1>1
  <2>5. QED
    BY <2>4
<1>2. ASSUME NEW i \in 1..Slices(arr, n), NEW j \in 1..Slices(arr, n), i < j
      PROVE  Chunks(arr, n)[i] \cap Chunks(arr, n)[j] = {}
  <2>1. ASSUME NEW e \in Chunks(arr, n)[i], e \in Chunks(arr, n)[j]
        PROVE  FALSE
    <3>1. \A h \in 1..Slices(arr, n) : \A x : x \in Chunks(arr, n)[h] <=>
             \E k \in 1..Len(arr) : (h - 1) * n < k /\ k <= h * n /\ x = arr[k]
      BY ChunkMembers, Zenon
    <3>2. PICK k \in 1..Len(arr) : (i - 1) * n < k /\ k <= i * n /\ e = arr[k]
      BY <2>1, <3>1, Zenon
    <3>3. PICK l \in 1..Len(arr) : (j - 1) * n < l /\ l <= j * n /\ e = arr[l]
      BY <2>1, <3>1, Zenon
    <3>4. QED
      BY <1>1, <1>2, <3>2, <3>3, Zenon
  <2>2. QED
    BY <2>1
<1>3. \A i, j \in 1..Slices(arr, n) : i # j => i < j \/ j < i
  BY SliceFacts
<1>4. DOMAIN Chunks(arr, n) = 1..Slices(arr, n)
  BY ChunkFacts, Zenon
<1>5. QED
  <2>1. SUFFICES ASSUME NEW i \in 1..Slices(arr, n), NEW j \in 1..Slices(arr, n), i # j
                 PROVE  Chunks(arr, n)[i] \cap Chunks(arr, n)[j] = {}
    BY <1>4
  <2>2. CASE i < j
    BY <1>2, <2>2, Zenon
  <2>3. CASE j < i
    <3>1. Chunks(arr, n)[j] \cap Chunks(arr, n)[i] = {}
      BY <1>2, <2>3, Zenon
    <3>2. QED
      BY <3>1, Zenon
  <2>4. QED
    BY <1>3, <2>1, <2>2, <2>3, Zenon

\* Everybody is in a batch.
LEMMA ChunksCover ==
    ASSUME NEW S, NEW arr \in Seq(S), NEW n \in Nat \ {0}, NEW k \in 1..Len(arr)
    PROVE  \E i \in DOMAIN Chunks(arr, n) : arr[k] \in Chunks(arr, n)[i]
<1>1. PICK i \in 1..Slices(arr, n) : (i - 1) * n < k /\ k <= i * n
  BY SliceFacts
<1>2. arr[k] \in Chunks(arr, n)[i]
  BY <1>1, ChunkMembers, Zenon
<1>3. DOMAIN Chunks(arr, n) = 1..Slices(arr, n)
  BY ChunkFacts, Zenon
<1>4. QED
  BY <1>2, <1>3

\* The users found for a list of as many addresses are those of the list, and an array of
\* them names each once.
LEMMA FoundFacts ==
    ASSUME NEW list \in Seq(Email), NEW users \in SUBSET ToSet(list),
           Cardinality(users) = Len(list), NEW found \in SetToSeqs(users)
    PROVE  /\ found \in Seq(Email)
           /\ \A k, l \in 1..Len(found) : k # l => found[k] # found[l]
           /\ \A k \in DOMAIN list : \E l \in 1..Len(found) : found[l] = list[k]
<1> DEFINE c == Len(list)
<1>1. c \in Nat /\ DOMAIN list = 1..c /\ list \in [1..c -> ToSet(list)]
  BY LenProperties DEF ToSet
<1>2. IsFiniteSet(1..c) /\ Cardinality(1..c) = c
  <2>1. 1 \in Int /\ c \in Int /\ (IF 1 > c THEN 0 ELSE c - 1 + 1) = c
    BY <1>1
  <2> HIDE DEF c
  <2>2. QED
    BY <2>1, FS_Interval
<1>3. list \in Surjection(1..c, ToSet(list))
  <2>1. \A e \in ToSet(list) : \E k \in 1..c : list[k] = e
    BY <1>1 DEF ToSet
  <2>2. QED
    BY <1>1, <2>1 DEF Surjection
<1>4. IsFiniteSet(ToSet(list)) /\ Cardinality(ToSet(list)) <= c /\ Cardinality(ToSet(list)) \in Nat
  BY <1>2, <1>3, FS_Surjection, FS_CardinalityType
<1>5. users = ToSet(list)
  <2>1. IsFiniteSet(users) /\ Cardinality(users) <= Cardinality(ToSet(list))
        /\ (Cardinality(ToSet(list)) = Cardinality(users) => ToSet(list) = users)
    BY <1>4, FS_Subset
  <2>2. QED
    BY <2>1, <1>4
<1>6. found \in [1..c -> users] /\ \A k, l \in 1..c : k # l => found[k] # found[l]
  BY DEF SetToSeqs
<1>7. users \subseteq Email
  BY <1>1 DEF ToSet
<1>8. found \in Seq(Email) /\ Len(found) = c
  BY <1>1, <1>6, <1>7
<1>9. found \in Surjection(1..c, users)
  <2>1. found \in Injection(1..c, users)
    BY <1>6 DEF Injection, IsInjective
  <2>2. IsFiniteSet(users) /\ Cardinality(1..c) = Cardinality(users)
    BY <1>2, <1>4, <1>5
  <2>3. QED
    BY <2>1, <2>2, FS_Injection
<1>10. \A k \in DOMAIN list : \E l \in 1..c : found[l] = list[k]
  BY <1>5, <1>9 DEF Surjection, ToSet
<1>11. QED
  BY <1>6, <1>8, <1>10

(***************************************************************************)
(* The state of the accounts and of the requests.                          *)
(***************************************************************************)

LEMMA AskFacts ==
    ASSUME TypeOK, NEW t \in Request
    PROVE  /\ t \in Txn
           /\ ask[t].op \in Op /\ ask[t].pwd \in Password
           /\ Of(t) \in Email /\ Of(t) \in Doc
<1>1. ask[t] \in [op : Op, email : Email, pwd : Password]
  BY AccountsAssumption DEF TypeOK
<1>2. QED
  BY <1>1, AccountsAssumption DEF Of

\* An account there is is a document.
LEMMA KnownFacts ==
    ASSUME TypeOK, NEW e \in Email, Known(e)
    PROVE  account[e] \in Account
  BY DEF TypeOK, Known

LEMMA NewAccountFacts ==
    ASSUME NEW p \in Password
    PROVE  NewAccount(p) \in Account /\ NewAccount(p) # None
<1>1. NewAccount(p) \in Account
  BY DEF NewAccount, Account
<1>2. QED
  BY <1>1, AccountsAssumption

\* What a step leaves of a request for the sake of the stored token: one that has stored
\* its own stays past that and keeps it, one that was refused stays refused.
Keeps(t) ==
    Asks(t, {"signin", "refresh"}) =>
        /\ pc[t] \in {"refreshed", "access", "ok", "lost"} =>
              /\ pc'[t] \in {"refreshed", "access", "ok", "lost"}
              /\ stamp'[t]["refresh"] = stamp[t]["refresh"]
        /\ pc[t] = "refused" => pc'[t] = "refused"

LEMMA RenewableKept ==
    ASSUME ask' = ask, \A u \in Request : Keeps(u), NEW t \in Request, Renewable(t),
           account'[Of(t)].refresh = account[Of(t)].refresh
    PROVE  Renewable(t)'
<1>1. \A u \in Request : Of(u)' = Of(u) /\ \A ops : Asks(u, ops)' <=> Asks(u, ops)
  BY DEF Of, Asks
<1>2. ASSUME NEW u \in Request, Asks(u, {"signin", "refresh"}), Of(u) = Of(t),
             pc[u] \in {"refreshed", "access", "ok", "lost"},
             account[Of(t)].refresh = stamp[u]["refresh"]
      PROVE  Renewable(t)'
  BY <1>1, <1>2 DEF Keeps, Renewable
<1>3. ASSUME account[Of(t)].refresh = None,
             NEW u \in Request, At(u, {"refresh"}, "refused"), Of(u) = Of(t)
      PROVE  Renewable(t)'
  <2>1. Asks(u, {"signin", "refresh"}) /\ pc[u] = "refused"
    BY <1>3 DEF At, Asks
  <2>2. At(u, {"refresh"}, "refused")'
    BY <1>1, <1>3, <2>1 DEF Keeps, At
  <2>3. QED
    BY <1>1, <1>3, <2>2 DEF Renewable
<1>4. QED
  BY <1>2, <1>3 DEF Renewable

\* A step of request t keeps the invariants of the others when it moves nobody else, takes
\* no account away, tells those who are about to insert one, accounts for a refresh token
\* that it changes, and changes a password only as a reset of that account.
LEMMA Frame ==
    ASSUME AccountsInv, TypeOK', OneWriter', ForAccounts', NEW t \in Request,
           ask' = ask,
           \A u \in Request \ {t} :
              /\ pc'[u] = pc[u] /\ stale'[u] = stale[u] /\ stamp'[u] = stamp[u]
              /\ u \in open' <=> u \in open
              /\ held'[u] = held[u] /\ missed[u] \subseteq missed'[u],
           \A e \in Email : account[e] # None => account'[e] # None,
           \A u \in Request \ {t} :
              account[Of(u)] = None /\ account'[Of(u)] # None =>
                 /\ pc[u] = "create" => Of(u) \in missed'[u]
                 /\ pc[u] \notin {"welcome", "commit"},
           \A u \in Request \ {t} :
              account[Of(u)] # None /\ account'[Of(u)].refresh # account[Of(u)].refresh =>
                 Renewable(u)',
           Keeps(t),
           \A u \in Request \ {t} :
              account[Of(u)] # None /\ account'[Of(u)].pwd # account[Of(u)].pwd =>
                 Asks(t, {"reset"}) /\ Of(t) = Of(u) /\ pc'[t] \notin {"new", "hash"},
           Asks(t, {"reset"}) /\ pc'[t] \in {"new", "hash"} => pc[t] \in {"new", "hash"},
           RequestInv(t)', RenewalInv(t)', ActivationInv(t)'
    PROVE  AccountsInv'
<1>1. \A u \in Request : Of(u)' = Of(u) /\ \A ops : Asks(u, ops)' <=> Asks(u, ops)
  BY DEF Of, Asks
<1>2. ASSUME NEW u \in Request \ {t}
      PROVE  RequestInv(u)'
  <2>1. RequestInv(u) /\ Of(u) \in Email
    BY AskFacts DEF AccountsInv
  <2>2. OnItsWay(u)' /\ (InTransaction(u)' <=> InTransaction(u)) /\ (HasAccount(u)' <=> HasAccount(u))
    BY <1>1, <2>1 DEF RequestInv, OnItsWay, InTransaction, HasAccount, At
  <2>3. QED
    BY <1>1, <2>1, <2>2 DEF RequestInv, Known
<1>3. ASSUME NEW u \in Request \ {t}
      PROVE  RenewalInv(u)'
  <2>1. SUFFICES ASSUME Asks(u, {"signin", "refresh"}), pc[u] \in {"refreshed", "access", "ok"}
                 PROVE  Renewable(u)'
    BY <1>1 DEF RenewalInv
  <2>2. Renewable(u)
    BY <2>1 DEF AccountsInv, RenewalInv
  <2>3. account[Of(u)] # None
    BY <2>1 DEF AccountsInv, RequestInv, HasAccount, Known, At, Asks
  <2>4. \A v \in Request : Keeps(v)
    BY DEF Keeps
  <2>5. QED
    BY <2>2, <2>3, <2>4, RenewableKept
<1>4. ASSUME NEW u \in Request \ {t}
      PROVE  ActivationInv(u)'
  <2>1. SUFFICES ASSUME At(u, {"activate"}, "ok")
                 PROVE  /\ \A v \in Request \ {u} :
                              ~ (Asks(v, {"activate"}) /\ pc'[v] = "ok" /\ Of(v) = Of(u))
                        /\ (\A v \in Request : Asks(v, {"reset"}) /\ Of(v) = Of(u) => pc'[v] \in {"new", "hash"})
                              => account'[Of(u)].pwd = ask[u].pwd
    BY <1>1 DEF ActivationInv, At
  <2>2. ActivationInv(u) /\ account[Of(u)] # None
    BY <2>1 DEF AccountsInv, RequestInv, HasAccount, Known, At, Asks
  <2>3. ASSUME NEW v \in Request \ {u}, Asks(v, {"activate"}), pc'[v] = "ok", Of(v) = Of(u)
        PROVE  FALSE
    <3>1. CASE v = t
      BY <3>1, <2>1, <2>3, <1>1 DEF ActivationInv, At
    <3>2. CASE v # t
      BY <3>2, <2>1, <2>2, <2>3 DEF ActivationInv, At
    <3>3. QED
      BY <3>1, <3>2
  <2>4. ASSUME \A v \in Request : Asks(v, {"reset"}) /\ Of(v) = Of(u) => pc'[v] \in {"new", "hash"}
        PROVE  account'[Of(u)].pwd = ask[u].pwd
    <3>1. \A v \in Request : Asks(v, {"reset"}) /\ Of(v) = Of(u) => pc[v] \in {"new", "hash"}
      BY <2>4
    <3>2. account[Of(u)].pwd = ask[u].pwd
      BY <3>1, <2>1, <2>2 DEF ActivationInv
    <3>3. QED
      BY <2>2, <2>4, <3>2
  <2>5. QED
    BY <2>3, <2>4
<1>5. QED
  BY <1>2, <1>3, <1>4 DEF AccountsInv

LEMMA AccountsStutter ==
    ASSUME AccountsInv, UNCHANGED vars
    PROVE  AccountsInv'
<1>1. txnVars' = txnVars /\ UNCHANGED <<account, mailed, issued, clock, pc, ask, retries, stamp, stale>>
  BY DEF vars, accountVars, requestVars
<1>2. TxnTypeOK' /\ OneWriter'
  BY <1>1, TxnStutterInv DEF AccountsInv, TypeOK, TxnInv
<1>3. TypeOK'
  BY <1>1, <1>2 DEF AccountsInv, TypeOK
<1>4. ForAccounts'
  BY <1>1 DEF AccountsInv, ForAccounts, Known
<1>5. ASSUME NEW t \in Request
      PROVE  (RequestInv(t) /\ RenewalInv(t) /\ ActivationInv(t))'
  <2>1. RequestInv(t) /\ RenewalInv(t) /\ ActivationInv(t)
    BY DEF AccountsInv
  <2>2. QED
    BY <1>1, <2>1 DEF RequestInv, RenewalInv, Renewable, ActivationInv, OnItsWay, InTransaction,
                      HasAccount, At, Asks, Of, Known, txnVars
<1>6. QED
  BY <1>2, <1>3, <1>4, <1>5 DEF AccountsInv

\* A step outside transactions that changes nothing but where the request stands.
LEMMA GoOnStep ==
    ASSUME AccountsInv, NEW t \in Request, NEW p \in PC, GoOn(t, p),
           ~ InTransaction(t),
           pc[t] \in {"new", "handler", "changed"} \/ ~ Asks(t, {"signin", "refresh"}),
           p \notin {"new", "create", "welcome", "commit", "refreshed", "access"},
           p = "ok" => ~ Asks(t, {"signin", "refresh", "activate"}),
           p = "hash" => pc[t] = "new",
           p = "mail" => ~ Asks(t, {"signup"}),
           p \in {"verified", "refresh", "reset", "hash", "changed"} => Known(Of(t)),
           p = "mail" => ~ Asks(t, {"forgot"}) \/ Known(Of(t)),
           OnItsWay(t)'
    PROVE  AccountsInv'
<1>1. UNCHANGED txnVars /\ UNCHANGED <<account, mailed, issued, clock, ask, retries, stamp, stale>>
      /\ pc' = [pc EXCEPT ![t] = p]
  BY DEF GoOn, GoTo, accountVars
<1>2. TypeOK /\ pc \in [Request -> PC] /\ RequestInv(t)
  BY DEF AccountsInv, TypeOK
<1>3. pc'[t] = p /\ \A u \in Request \ {t} : pc'[u] = pc[u]
  BY <1>1, <1>2
<1>4. TxnTypeOK' /\ OneWriter'
  BY <1>1, TxnStutterInv DEF AccountsInv, TypeOK, TxnInv
<1>5. TypeOK'
  BY <1>1, <1>2, <1>4 DEF TypeOK
<1>6. ForAccounts'
  BY <1>1 DEF AccountsInv, ForAccounts, Known
<1>7. RequestInv(t)'
  <2>1. ~ InTransaction(t)'
    BY <1>1, <1>3 DEF InTransaction, At, Asks
  <2>2. HasAccount(t)' => Known(Of(t))'
    BY <1>1, <1>3 DEF HasAccount, At, Asks, Known, Of
  <2>3. t \notin open /\ held[t] = {} /\ ("refresh" \in stale[t] => Asks(t, {"refresh"}))
    BY <1>2 DEF RequestInv, InTransaction
  <2>4. QED
    BY <1>1, <1>3, <2>1, <2>2, <2>3 DEF RequestInv, txnVars, Asks
<1>8. RenewalInv(t)' /\ ActivationInv(t)'
  BY <1>1, <1>3 DEF RenewalInv, ActivationInv, At, Asks
<1>9. QED
  <2>1. UNCHANGED <<open, held, missed>>
    BY <1>1 DEF txnVars
  <2>2. \A u \in Request \ {t} :
              /\ pc'[u] = pc[u] /\ stale'[u] = stale[u] /\ stamp'[u] = stamp[u]
              /\ u \in open' <=> u \in open
              /\ held'[u] = held[u] /\ missed[u] \subseteq missed'[u]
    BY <1>1, <1>3, <2>1
  <2>3. account' = account /\ ask' = ask
    BY <1>1
  <2>4. Keeps(t)
    BY DEF Keeps
  <2>5. QED
    BY <1>3, <1>5, <1>4, <1>6, <1>7, <1>8, <2>2, <2>3, <2>4, Frame

\* What a transaction does leaves the others open, with what they hold and have missed.
LEMMA OthersKeep ==
    ASSUME TxnTypeOK, OneWriter, NEW t \in Txn, NEW d,
           TakeSnapshot(t) \/ HoldDoc(t, d) \/ CommitTxn(t) \/ AbortTxns({t}) \/ WriteNow(d)
    PROVE  \A u \in Txn \ {t} :
              /\ u \in open' <=> u \in open
              /\ held'[u] = held[u] /\ missed[u] \subseteq missed'[u]
<1>1. CASE TakeSnapshot(t)
  BY <1>1 DEF TakeSnapshot
<1>2. CASE HoldDoc(t, d)
  BY <1>2 DEF HoldDoc, TxnTypeOK
<1>3. CASE CommitTxn(t)
  BY <1>3 DEF CommitTxn, TxnTypeOK, OneWriter
<1>4. CASE AbortTxns({t})
  BY <1>4 DEF AbortTxns, TxnTypeOK
<1>5. CASE WriteNow(d)
  BY <1>5 DEF WriteNow, TxnTypeOK, OneWriter
<1>6. QED
  BY <1>1, <1>2, <1>3, <1>4, <1>5

\* An exception, or a conflict and the next attempt.
LEMMA AbortStep ==
    ASSUME AccountsInv, NEW t \in Request, NEW p \in {"find", "failed"},
           AbortTxns({t}), pc' = [pc EXCEPT ![t] = p],
           p = "find" => Asks(t, {"activate"}),
           pc[t] \notin {"refreshed", "access", "ok", "lost", "refused"},
           retries' \in [Request -> 0..MaxRetries],
           UNCHANGED <<account, mailed, issued, clock, ask, stamp, stale>>
    PROVE  AccountsInv'
<1>1. TypeOK /\ RequestInv(t) /\ t \in Txn
  BY AskFacts DEF AccountsInv
<1>2. pc'[t] = p /\ pc' \in [Request -> PC] /\ \A u \in Request \ {t} : pc'[u] = pc[u]
  BY <1>1 DEF TypeOK, PC, Answered
<1>3. TxnTypeOK' /\ OneWriter'
  BY AbortTxnsInv DEF AccountsInv, TypeOK, TxnInv
<1>4. TypeOK'
  BY <1>1, <1>2, <1>3 DEF TypeOK
<1>5. ForAccounts'
  BY DEF AccountsInv, ForAccounts, Known
<1>6. RequestInv(t)'
  <2>1. t \notin open' /\ held'[t] = {} /\ ("refresh" \in stale[t] => Asks(t, {"refresh"}))
    BY <1>1 DEF AbortTxns, RequestInv
  <2>2. ~ InTransaction(t)' /\ ~ HasAccount(t)' /\ OnItsWay(t)'
    BY <1>2 DEF InTransaction, HasAccount, OnItsWay, At, Asks
  <2>3. QED
    BY <1>2, <2>1, <2>2 DEF RequestInv, Asks
<1>7. RenewalInv(t)' /\ ActivationInv(t)'
  BY <1>2 DEF RenewalInv, ActivationInv, At
<1>8. QED
  <2>1. \A u \in Request \ {t} :
              /\ pc'[u] = pc[u] /\ stale'[u] = stale[u] /\ stamp'[u] = stamp[u]
              /\ u \in open' <=> u \in open
              /\ held'[u] = held[u] /\ missed[u] \subseteq missed'[u]
    <3>1. TxnTypeOK /\ OneWriter /\ Request \subseteq Txn
      BY AccountsAssumption DEF AccountsInv, TypeOK
    <3>2. QED
      BY <1>1, <1>2, <3>1, OthersKeep
  <2>2. Keeps(t)
    BY DEF Keeps
  <2>3. QED
    BY <1>2, <1>3, <1>4, <1>5, <1>6, <1>7, <2>1, <2>2, Frame

LEMMA FailStep ==
    ASSUME AccountsInv, NEW t \in Request, Fail(t),
           pc[t] \notin {"refreshed", "access", "ok", "lost", "refused"}
    PROVE  AccountsInv'
<1>1. AbortTxns({t}) /\ pc' = [pc EXCEPT ![t] = "failed"]
      /\ UNCHANGED <<account, mailed, issued, clock, ask, retries, stamp, stale>>
  BY DEF Fail, GoTo, accountVars
<1>2. retries' \in [Request -> 0..MaxRetries]
  BY <1>1 DEF AccountsInv, TypeOK
<1>3. QED
  BY <1>1, <1>2, AbortStep

LEMMA RunAgainStep ==
    ASSUME AccountsInv, NEW t \in Request, RunAgain(t), Asks(t, {"activate"}),
           pc[t] = "create"
    PROVE  AccountsInv'
<1>1. AbortTxns({t}) /\ UNCHANGED <<account, mailed, issued, clock, ask, stamp, stale>>
  BY DEF RunAgain, accountVars
<1>2. retries \in [Request -> 0..MaxRetries] /\ MaxRetries \in Nat
  BY AccountsAssumption DEF AccountsInv, TypeOK
<1>3. CASE retries[t] < MaxRetries
  <2>1. pc' = [pc EXCEPT ![t] = "find"] /\ retries' = [retries EXCEPT ![t] = @ + 1]
    BY <1>3 DEF RunAgain, GoTo
  <2>2. retries[t] + 1 \in 0..MaxRetries
    BY <1>2, <1>3
  <2>3. retries' \in [Request -> 0..MaxRetries]
    BY <1>2, <2>1, <2>2
  <2>4. QED
    BY <1>1, <2>1, <2>3, AbortStep
<1>4. CASE ~ (retries[t] < MaxRetries)
  <2>1. pc' = [pc EXCEPT ![t] = "failed"] /\ retries' = retries
    BY <1>4 DEF RunAgain, GoTo
  <2>2. QED
    BY <1>1, <1>2, <2>1, AbortStep
<1>5. QED
  BY <1>3, <1>4

(***************************************************************************)
(* Registration.                                                           *)
(***************************************************************************)

LEMMA ReCaptchaStep ==
    ASSUME AccountsInv, NEW t \in Request, ReCaptcha(t)
    PROVE  AccountsInv'
<1>1. pc[t] = "new" /\ Asks(t, {"signup", "contact"}) /\ pc \in [Request -> PC]
  BY DEF ReCaptcha, At, AccountsInv, TypeOK
<1>2. PICK p \in {"refused", "find", "handler"} :
         /\ GoOn(t, p)
         /\ p = "find" => Asks(t, {"signup"})
         /\ p = "handler" => Asks(t, {"contact"})
  BY <1>1 DEF ReCaptcha, Asks
<1>3. OnItsWay(t)' /\ p \in PC /\ ~ InTransaction(t)
  BY <1>1, <1>2 DEF GoOn, GoTo, OnItsWay, Asks, PC, Answered, InTransaction, At
<1>4. QED
  BY <1>1, <1>2, <1>3, GoOnStep

LEMMA OpenLinkStep ==
    ASSUME AccountsInv, NEW t \in Request, OpenLink(t)
    PROVE  AccountsInv'
<1>1. pc[t] = "new" /\ Asks(t, {"activate"}) /\ pc \in [Request -> PC] /\ GoOn(t, "find")
  BY DEF OpenLink, At, AccountsInv, TypeOK
<1>2. OnItsWay(t)' /\ "find" \in PC /\ ~ InTransaction(t)
  BY <1>1 DEF GoOn, GoTo, OnItsWay, Asks, PC, Answered, InTransaction, At
<1>3. QED
  BY <1>1, <1>2, GoOnStep

\* The snapshot is taken while there is no account.
LEMMA FindByEmailStep ==
    ASSUME AccountsInv, NEW t \in Request, FindByEmail(t)
    PROVE  AccountsInv'
<1>1. CASE Fail(t)
  BY <1>1, FailStep DEF FindByEmail
<1>2. CASE ~ Fail(t)
  <2> DEFINE p == IF Asks(t, {"signup"}) THEN "mail" ELSE "create"
  <2>1. /\ pc[t] = "find" /\ ~ Known(Of(t)) /\ TakeSnapshot(t) /\ pc' = [pc EXCEPT ![t] = p]
        /\ UNCHANGED <<account, mailed, issued, clock, ask, retries, stamp, stale>>
    BY <1>2 DEF FindByEmail, GoTo, accountVars
  <2>2. TypeOK /\ RequestInv(t) /\ t \in Txn
    BY AskFacts DEF AccountsInv
  <2>3. pc'[t] = p /\ pc' \in [Request -> PC] /\ \A u \in Request \ {t} : pc'[u] = pc[u]
    BY <2>1, <2>2 DEF TypeOK, PC, Answered
  <2>4. TxnTypeOK' /\ OneWriter'
    BY <2>1, <2>2, TakeSnapshotInv DEF AccountsInv, TypeOK, TxnInv
  <2>5. TypeOK'
    BY <2>1, <2>2, <2>3, <2>4 DEF TypeOK
  <2>6. ForAccounts'
    BY <2>1 DEF AccountsInv, ForAccounts, Known
  <2>7. Asks(t, {"signup", "activate"})
    BY <2>1, <2>2 DEF RequestInv, OnItsWay
  <2>8. RequestInv(t)'
    <3>1. t \in open' /\ held'[t] = {} /\ ("refresh" \in stale[t] => Asks(t, {"refresh"}))
      BY <2>1, <2>2 DEF TakeSnapshot, RequestInv
    <3>2. InTransaction(t)' /\ ~ HasAccount(t)' /\ OnItsWay(t)'
      BY <2>1, <2>3, <2>7 DEF InTransaction, HasAccount, OnItsWay, At, Asks
    <3>3. QED
      BY <2>1, <2>3, <3>1, <3>2 DEF RequestInv, Asks, Known, Of
  <2>9. RenewalInv(t)' /\ ActivationInv(t)'
    BY <2>3 DEF RenewalInv, ActivationInv, At
  <2>10. \A u \in Request \ {t} :
              /\ pc'[u] = pc[u] /\ stale'[u] = stale[u] /\ stamp'[u] = stamp[u]
              /\ u \in open' <=> u \in open
              /\ held'[u] = held[u] /\ missed[u] \subseteq missed'[u]
    BY <2>1, <2>3 DEF TakeSnapshot
  <2>11. pc'[t] \notin {"new", "hash"} /\ account' = account /\ ask' = ask
    BY <2>1, <2>3
  <2>12. Keeps(t)
    BY <2>1 DEF Keeps
  <2>13. QED
    BY <2>4, <2>5, <2>6, <2>8, <2>9, <2>10, <2>11, <2>12, Frame
<1>3. QED
  BY <1>1, <1>2

\* A link of recovery is sent to an account; a sign-up holds nothing to commit.
LEMMA SendLinkStep ==
    ASSUME AccountsInv, NEW t \in Request, NEW link \in Link, SendLink(t, link),
           At(t, {"signup", "forgot"}, "mail"),
           link.to = "reset" => link.email = Of(t) /\ Asks(t, {"forgot"})
    PROVE  AccountsInv'
<1>1. CASE Fail(t)
  BY <1>1, FailStep DEF At
<1>2. CASE ~ Fail(t)
  <2>1. /\ CommitTxn(t) /\ pc' = [pc EXCEPT ![t] = "ok"] /\ mailed' = mailed \cup {link}
        /\ UNCHANGED <<account, issued, clock, ask, retries, stamp, stale>>
    BY <1>2 DEF SendLink, GoTo
  <2>2. TypeOK /\ RequestInv(t) /\ t \in Txn /\ Of(t) \in Email
    BY AskFacts DEF AccountsInv
  <2>3. pc'[t] = "ok" /\ pc' \in [Request -> PC] /\ \A u \in Request \ {t} : pc'[u] = pc[u]
    BY <2>1, <2>2 DEF TypeOK, PC, Answered
  <2>4. TxnTypeOK' /\ OneWriter'
    BY <2>1, <2>2, CommitTxnInv DEF AccountsInv, TypeOK, TxnInv
  <2>5. TypeOK'
    BY <2>1, <2>2, <2>3, <2>4 DEF TypeOK
  <2>6. ForAccounts'
    <3>1. link.to = "reset" => Known(Of(t))
      BY <2>2 DEF RequestInv, HasAccount, At
    <3>2. QED
      BY <2>1, <3>1 DEF AccountsInv, ForAccounts, Known
  <2>7. RequestInv(t)'
    <3>1. t \notin open' /\ held'[t] = {} /\ ("refresh" \in stale[t] => Asks(t, {"refresh"}))
      BY <2>2, <2>1 DEF CommitTxn, RequestInv, TypeOK, TxnTypeOK
    <3>2. ~ InTransaction(t)' /\ ~ HasAccount(t)' /\ OnItsWay(t)'
      BY <2>1, <2>3 DEF InTransaction, HasAccount, OnItsWay, At, Asks
    <3>3. QED
      BY <2>1, <2>3, <3>1, <3>2 DEF RequestInv, Asks
  <2>8. RenewalInv(t)' /\ ActivationInv(t)'
    BY <2>1 DEF RenewalInv, ActivationInv, At, Asks
  <2>9. \A u \in Request \ {t} :
              /\ pc'[u] = pc[u] /\ stale'[u] = stale[u] /\ stamp'[u] = stamp[u]
              /\ u \in open' <=> u \in open
              /\ held'[u] = held[u] /\ missed[u] \subseteq missed'[u]
    <3>1. TxnTypeOK /\ OneWriter /\ Request \subseteq Txn
      BY AccountsAssumption DEF AccountsInv, TypeOK
    <3>2. QED
      BY <2>1, <2>2, <2>3, <3>1, OthersKeep
  <2>10. pc'[t] \notin {"new", "hash"} /\ account' = account /\ ask' = ask
    BY <2>1, <2>3
  <2>11. Keeps(t)
    BY <1>1, <2>1 DEF Keeps, At
  <2>12. QED
    BY <2>4, <2>5, <2>6, <2>7, <2>8, <2>9, <2>10, <2>11, Frame
<1>3. QED
  BY <1>1, <1>2

LEMMA SendAccountActivationEmailStep ==
    ASSUME AccountsInv, NEW t \in Request, SendAccountActivationEmail(t)
    PROVE  AccountsInv'
<1> DEFINE link == [to |-> "activate", email |-> Of(t), pwd |-> ask[t].pwd]
<1>1. link \in Link /\ link.to = "activate"
  BY AskFacts DEF AccountsInv, Link
<1>2. At(t, {"signup", "forgot"}, "mail") /\ SendLink(t, link)
  BY DEF SendAccountActivationEmail, At, Asks
<1>3. QED
  BY <1>1, <1>2, SendLinkStep

LEMMA SendPasswordResetEmailStep ==
    ASSUME AccountsInv, NEW t \in Request, SendPasswordResetEmail(t)
    PROVE  AccountsInv'
<1> DEFINE link == [to |-> "reset", email |-> Of(t), pwd |-> None]
<1>1. link \in Link /\ link.email = Of(t)
  BY AskFacts DEF AccountsInv, Link
<1>2. At(t, {"signup", "forgot"}, "mail") /\ Asks(t, {"forgot"}) /\ SendLink(t, link)
  BY DEF SendPasswordResetEmail, At, Asks
<1>3. QED
  BY <1>1, <1>2, SendLinkStep

\* An account made since the snapshot was missed, and makes the insertion conflict.
LEMMA CreateUserStep ==
    ASSUME AccountsInv, NEW t \in Request, CreateUser(t)
    PROVE  AccountsInv'
<1>1. TypeOK /\ RequestInv(t) /\ t \in Txn /\ Of(t) \in Doc /\ pc[t] = "create" /\ Asks(t, {"activate"})
  BY AskFacts DEF AccountsInv, CreateUser, RequestInv, OnItsWay
<1>2. CASE RunAgain(t)
  BY <1>1, <1>2, RunAgainStep
<1>3. CASE ~ RunAgain(t)
  <2>1. /\ HoldDoc(t, Of(t)) /\ pc' = [pc EXCEPT ![t] = "welcome"]
        /\ UNCHANGED <<account, mailed, issued, clock, ask, retries, stamp, stale>>
    BY <1>3 DEF CreateUser, Duplicate, HoldDoc, GoTo, accountVars
  <2>2. t \in open
    BY <1>1 DEF RequestInv, InTransaction
  <2>3. pc'[t] = "welcome" /\ pc' \in [Request -> PC] /\ \A u \in Request \ {t} : pc'[u] = pc[u]
    BY <2>1, <1>1 DEF TypeOK, PC, Answered
  <2>4. TxnTypeOK' /\ OneWriter'
    BY <1>1, <2>1, <2>2, HoldDocInv DEF AccountsInv, TypeOK, TxnInv
  <2>5. TypeOK'
    BY <1>1, <2>1, <2>3, <2>4 DEF TypeOK
  <2>6. ForAccounts'
    BY <2>1 DEF AccountsInv, ForAccounts, Known
  <2>7. RequestInv(t)'
    <3>1. t \in open' /\ held'[t] = {Of(t)} /\ ("refresh" \in stale[t] => Asks(t, {"refresh"}))
      BY <1>1, <2>1, <2>2 DEF HoldDoc, RequestInv, TypeOK, TxnTypeOK
    <3>2. InTransaction(t)' /\ ~ HasAccount(t)' /\ OnItsWay(t)'
      BY <1>1, <2>1, <2>3 DEF InTransaction, HasAccount, OnItsWay, At, Asks
    <3>3. ~ Known(Of(t))
      BY <1>1, <2>1 DEF RequestInv, HoldDoc, Conflicts
    <3>4. QED
      BY <2>1, <2>3, <3>1, <3>2, <3>3 DEF RequestInv, Asks, Known, Of
  <2>8. RenewalInv(t)' /\ ActivationInv(t)'
    BY <2>3 DEF RenewalInv, ActivationInv, At
  <2>9. \A u \in Request \ {t} :
              /\ pc'[u] = pc[u] /\ stale'[u] = stale[u] /\ stamp'[u] = stamp[u]
              /\ u \in open' <=> u \in open
              /\ held'[u] = held[u] /\ missed[u] \subseteq missed'[u]
    <3>1. TxnTypeOK /\ OneWriter /\ Request \subseteq Txn
      BY AccountsAssumption DEF AccountsInv, TypeOK
    <3>2. QED
      BY <1>1, <2>1, <2>3, <3>1, OthersKeep
  <2>10. pc'[t] \notin {"new", "hash"} /\ account' = account /\ ask' = ask
    BY <2>1, <2>3
  <2>11. Keeps(t)
    BY <1>1, <2>1 DEF Keeps, At
  <2>12. QED
    BY <2>4, <2>5, <2>6, <2>7, <2>8, <2>9, <2>10, <2>11, Frame
<1>4. QED
  BY <1>2, <1>3

LEMMA SendWelcomingEmailStep ==
    ASSUME AccountsInv, NEW t \in Request, SendWelcomingEmail(t)
    PROVE  AccountsInv'
<1>1. CASE Fail(t)
  BY <1>1, FailStep DEF SendWelcomingEmail
<1>2. CASE ~ Fail(t)
  <2>1. /\ pc[t] = "welcome" /\ pc' = [pc EXCEPT ![t] = "commit"] /\ UNCHANGED txnVars
        /\ UNCHANGED <<account, mailed, issued, clock, ask, retries, stamp, stale>>
    BY <1>2 DEF SendWelcomingEmail, GoOn, GoTo, accountVars
  <2>2. TypeOK /\ RequestInv(t)
    BY DEF AccountsInv
  <2>3. pc'[t] = "commit" /\ pc' \in [Request -> PC] /\ \A u \in Request \ {t} : pc'[u] = pc[u]
    BY <2>1, <2>2 DEF TypeOK, PC, Answered
  <2>4. TxnTypeOK' /\ OneWriter'
    BY <2>1, TxnStutterInv DEF AccountsInv, TypeOK, TxnInv
  <2>5. TypeOK'
    BY <2>1, <2>2, <2>3, <2>4 DEF TypeOK
  <2>6. ForAccounts'
    BY <2>1 DEF AccountsInv, ForAccounts, Known
  <2>7. Asks(t, {"activate"}) /\ t \in open /\ held[t] = {Of(t)} /\ ~ Known(Of(t))
        /\ ("refresh" \in stale[t] => Asks(t, {"refresh"}))
    BY <2>1, <2>2 DEF RequestInv, OnItsWay, InTransaction
  <2>8. RequestInv(t)'
    <3>1. InTransaction(t)' /\ ~ HasAccount(t)' /\ OnItsWay(t)'
      BY <2>1, <2>3, <2>7 DEF InTransaction, HasAccount, OnItsWay, At, Asks
    <3>2. QED
      BY <2>1, <2>3, <2>7, <3>1 DEF RequestInv, Asks, Known, Of, txnVars
  <2>9. RenewalInv(t)' /\ ActivationInv(t)'
    BY <2>3 DEF RenewalInv, ActivationInv, At
  <2>10. \A u \in Request \ {t} :
              /\ pc'[u] = pc[u] /\ stale'[u] = stale[u] /\ stamp'[u] = stamp[u]
              /\ u \in open' <=> u \in open
              /\ held'[u] = held[u] /\ missed[u] \subseteq missed'[u]
    BY <2>1, <2>3 DEF txnVars
  <2>11. pc'[t] \notin {"new", "hash"} /\ account' = account /\ ask' = ask
    BY <2>1, <2>3
  <2>12. Keeps(t)
    BY <2>1 DEF Keeps
  <2>13. QED
    BY <2>4, <2>5, <2>6, <2>8, <2>9, <2>10, <2>11, <2>12, Frame
<1>3. QED
  BY <1>1, <1>2

\* Whoever looked before has missed the insertion or conflicts with it.
LEMMA ActivateAccountStep ==
    ASSUME AccountsInv, NEW t \in Request, ActivateAccount(t)
    PROVE  AccountsInv'
<1> DEFINE new == NewAccount(ask[t].pwd)
<1>1. /\ pc[t] = "commit" /\ CommitTxn(t) /\ pc' = [pc EXCEPT ![t] = "ok"]
      /\ account' = [account EXCEPT ![Of(t)] = new]
      /\ UNCHANGED <<mailed, issued, clock, ask, retries, stamp, stale>>
  BY DEF ActivateAccount, GoTo
<1>2. TypeOK /\ RequestInv(t) /\ t \in Txn /\ Of(t) \in Email
  BY AskFacts DEF AccountsInv
<1>3. pc'[t] = "ok" /\ pc' \in [Request -> PC] /\ \A u \in Request \ {t} : pc'[u] = pc[u]
  BY <1>1, <1>2 DEF TypeOK, PC, Answered
<1>4. new \in Account /\ new # None /\ new.pwd = ask[t].pwd
  BY <1>2, AskFacts, NewAccountFacts DEF NewAccount
<1> HIDE DEF new
<1>5. /\ account' \in [Email -> Account \cup {None}] /\ account'[Of(t)] = new
      /\ \A e \in Email \ {Of(t)} : account'[e] = account[e]
  BY <1>1, <1>2, <1>4 DEF TypeOK
<1>6. TxnTypeOK' /\ OneWriter'
  BY <1>1, <1>2, CommitTxnInv DEF AccountsInv, TypeOK, TxnInv
<1>7. TypeOK'
  BY <1>1, <1>2, <1>3, <1>5, <1>6 DEF TypeOK
<1>8. ForAccounts'
  <2>1. \A e \in Email : account[e] # None => account'[e] # None
    BY <1>4, <1>5
  <2>2. (\A token \in issued : token.email \in Email) /\ (\A link \in mailed : link.email \in Email)
    BY <1>2 DEF TypeOK, Token, Link
  <2>3. QED
    BY <1>1, <2>1, <2>2 DEF AccountsInv, ForAccounts, Known
<1>9. /\ Asks(t, {"activate"}) /\ t \in open /\ held[t] = {Of(t)} /\ ~ Known(Of(t))
      /\ "refresh" \in stale[t] => Asks(t, {"refresh"})
  BY <1>1, <1>2 DEF RequestInv, OnItsWay, InTransaction
<1>10. RequestInv(t)'
  <2>1. t \notin open' /\ held'[t] = {}
    BY <1>1, <1>2 DEF CommitTxn, TypeOK, TxnTypeOK
  <2>2. ~ InTransaction(t)' /\ OnItsWay(t)'
    BY <1>1, <1>3, <1>9 DEF InTransaction, OnItsWay, At, Asks
  <2>3. QED
    BY <1>1, <1>3, <1>4, <1>5, <1>9, <2>1, <2>2 DEF RequestInv, Asks, Known, Of
<1>11. RenewalInv(t)'
  BY <1>1, <1>9 DEF RenewalInv, Asks
<1>12. ActivationInv(t)'
  <2>1. ASSUME NEW u \in Request \ {t}, At(u, {"activate"}, "ok"), Of(u) = Of(t)
        PROVE  FALSE
    BY <2>1, <1>9 DEF AccountsInv, RequestInv, HasAccount, At, Asks
  <2>2. QED
    BY <1>1, <1>3, <1>4, <1>5, <2>1 DEF ActivationInv, At, Asks, Of
<1>13. \A u \in Request \ {t} :
            /\ pc'[u] = pc[u] /\ stale'[u] = stale[u] /\ stamp'[u] = stamp[u]
            /\ u \in open' <=> u \in open
            /\ held'[u] = held[u] /\ missed[u] \subseteq missed'[u]
  <2>1. TxnTypeOK /\ OneWriter /\ Request \subseteq Txn
    BY AccountsAssumption DEF AccountsInv, TypeOK
  <2>2. QED
    BY <1>1, <1>2, <1>3, <2>1, OthersKeep
<1>14. ASSUME NEW u \in Request \ {t}, account[Of(u)] = None, account'[Of(u)] # None
       PROVE  /\ pc[u] = "create" => Of(u) \in missed'[u]
              /\ pc[u] \notin {"welcome", "commit"}
  <2>1. Of(u) = Of(t) /\ RequestInv(u) /\ u \in Txn
    BY <1>2, <1>5, <1>14, AskFacts DEF AccountsInv
  <2>2. ASSUME pc[u] = "create" PROVE Of(u) \in missed'[u]
    BY <1>1, <1>9, <2>1, <2>2 DEF RequestInv, InTransaction, CommitTxn
  <2>3. ASSUME pc[u] \in {"welcome", "commit"} PROVE FALSE
    <3>1. held[u] = {Of(t)}
      BY <2>1, <2>3 DEF RequestInv
    <3>2. QED
      BY <1>2, <1>9, <2>1, <3>1 DEF AccountsInv, OneWriter
  <2>4. QED
    BY <2>2, <2>3
<1>15. \A u \in Request \ {t} : account[Of(u)] # None => account'[Of(u)] = account[Of(u)]
  BY <1>2, <1>5, <1>9, AskFacts DEF Known
<1>16. \A e \in Email : account[e] # None => account'[e] # None
  BY <1>4, <1>5
<1>17. pc'[t] \notin {"new", "hash"} /\ ask' = ask
  BY <1>1, <1>3
<1>18. Keeps(t)
  BY <1>1 DEF Keeps
<1>19. QED
  BY <1>6, <1>7, <1>8, <1>10, <1>11, <1>12, <1>13, <1>14, <1>15, <1>16, <1>17, <1>18, Frame

(***************************************************************************)
(* Signing in, refreshing and verifying.                                   *)
(***************************************************************************)

LEMMA VerifyPasswordStep ==
    ASSUME AccountsInv, NEW t \in Request, VerifyPassword(t)
    PROVE  AccountsInv'
<1>1. pc[t] = "new" /\ Asks(t, {"signin"}) /\ pc \in [Request -> PC]
  BY DEF VerifyPassword, At, AccountsInv, TypeOK
<1>2. PICK p \in {"verified", "refused"} : GoOn(t, p) /\ (p = "verified" => Known(Of(t)))
  BY DEF VerifyPassword
<1>3. OnItsWay(t)' /\ p \in PC /\ ~ InTransaction(t)
  BY <1>1, <1>2 DEF GoOn, GoTo, OnItsWay, Asks, PC, Answered, InTransaction, At
<1>4. QED
  BY <1>1, <1>2, <1>3, GoOnStep

\* Whoever presents a token has an account.
LEMMA VerifyStep ==
    ASSUME AccountsInv, NEW t \in Request, NEW k \in Kind, NEW s \in SUBSET Kind,
           NEW p \in {"verified", "handler", "refused"}, Verify(t, k, p, s), pc[t] = "new",
           Asks(t, {"refresh", "call", "announce", "preview"}),
           p = "verified" => Asks(t, {"refresh"}),
           p = "handler" => Asks(t, {"call", "announce", "preview"}),
           "refresh" \in s => Asks(t, {"refresh"})
    PROVE  AccountsInv'
<1>1. PICK token \in issued : token.email = Of(t) /\ UNCHANGED <<txnVars, accountVars, ask, retries, stamp>>
         /\ \E q \in {p, "reset"}, z \in {{}, s} : GoTo(t, q) /\ stale' = [stale EXCEPT ![t] = z]
  BY DEF Verify
<1>2. PICK q \in {p, "reset"}, z \in {{}, s} :
         /\ pc' = [pc EXCEPT ![t] = q] /\ stale' = [stale EXCEPT ![t] = z]
         /\ UNCHANGED txnVars /\ UNCHANGED <<account, mailed, issued, clock, ask, retries, stamp>>
  BY <1>1 DEF GoTo, accountVars
<1>3. TypeOK /\ RequestInv(t) /\ Known(Of(t))
  BY <1>1 DEF AccountsInv, ForAccounts
<1>4. /\ pc'[t] = q /\ pc' \in [Request -> PC] /\ stale'[t] = z /\ stale' \in [Request -> SUBSET Kind]
      /\ \A u \in Request \ {t} : pc'[u] = pc[u] /\ stale'[u] = stale[u]
  BY <1>2, <1>3 DEF TypeOK, PC, Answered
<1>5. TxnTypeOK' /\ OneWriter'
  BY <1>2, TxnStutterInv DEF AccountsInv, TypeOK, TxnInv
<1>6. TypeOK'
  BY <1>2, <1>3, <1>4, <1>5 DEF TypeOK
<1>7. ForAccounts'
  BY <1>2 DEF AccountsInv, ForAccounts, Known
<1>8. RequestInv(t)'
  <2>1. t \notin open /\ held[t] = {}
    BY <1>3 DEF RequestInv, InTransaction, At
  <2>2. ~ InTransaction(t)' /\ OnItsWay(t)'
    BY <1>2, <1>4 DEF InTransaction, OnItsWay, At, Asks
  <2>3. QED
    BY <1>2, <1>3, <1>4, <2>1, <2>2 DEF RequestInv, Asks, Known, Of, txnVars
<1>9. RenewalInv(t)' /\ ActivationInv(t)'
  BY <1>4 DEF RenewalInv, ActivationInv, At
<1>10. \A u \in Request \ {t} :
            /\ pc'[u] = pc[u] /\ stale'[u] = stale[u] /\ stamp'[u] = stamp[u]
            /\ u \in open' <=> u \in open
            /\ held'[u] = held[u] /\ missed[u] \subseteq missed'[u]
  BY <1>2, <1>4 DEF txnVars
<1>11. pc'[t] \notin {"new", "hash"} /\ account' = account /\ ask' = ask
  BY <1>2, <1>4
<1>12. Keeps(t)
  BY DEF Keeps
<1>13. QED
  BY <1>5, <1>6, <1>7, <1>8, <1>9, <1>10, <1>11, <1>12, Frame

LEMMA VerifyRefreshTokenStep ==
    ASSUME AccountsInv, NEW t \in Request, VerifyRefreshToken(t)
    PROVE  AccountsInv'
<1>1. /\ pc[t] = "new" /\ Asks(t, {"refresh"}) /\ Verify(t, "refresh", "verified", UnsetOnRefresh(t))
      /\ UnsetOnRefresh(t) \in SUBSET Kind /\ "refresh" \in Kind
      /\ Asks(t, {"refresh", "call", "announce", "preview"})
  BY DEF VerifyRefreshToken, At, UnsetOnRefresh, Loaded, Kind, Asks
<1>2. QED
  BY <1>1, VerifyStep

LEMMA VerifyAccessTokenStep ==
    ASSUME AccountsInv, NEW t \in Request, VerifyAccessToken(t)
    PROVE  AccountsInv'
<1>1. /\ pc[t] = "new" /\ Asks(t, {"call", "announce", "preview"})
      /\ Verify(t, "access", RoleGuard(t), UnsetOnCall(t))
      /\ RoleGuard(t) \in {"handler", "refused"}
      /\ UnsetOnCall(t) \in SUBSET Kind /\ "access" \in Kind /\ "refresh" \notin UnsetOnCall(t)
      /\ Asks(t, {"refresh", "call", "announce", "preview"})
  BY DEF VerifyAccessToken, At, RoleGuard, UnsetOnCall, Loaded, Kind, Asks
<1>2. QED
  BY <1>1, VerifyStep

LEMMA ServeStep ==
    ASSUME AccountsInv, NEW t \in Request, Serve(t)
    PROVE  AccountsInv'
<1>1. pc[t] = "handler" /\ Asks(t, {"call"}) /\ pc \in [Request -> PC] /\ GoOn(t, "ok")
  BY DEF Serve, At, AccountsInv, TypeOK
<1>2. OnItsWay(t)' /\ "ok" \in PC /\ ~ InTransaction(t) /\ ~ Asks(t, {"signin", "refresh", "activate"})
  BY <1>1 DEF GoOn, GoTo, OnItsWay, Asks, PC, Answered, InTransaction, At
<1>3. QED
  BY <1>1, <1>2, GoOnStep

\* A write of an account, which accounts for another refresh token and only as a reset
\* gives another password.
LEMMA SaveStep ==
    ASSUME AccountsInv, NEW t \in Request, NEW a \in Account, NEW p \in PC,
           WriteNow(Of(t)), account' = [account EXCEPT ![Of(t)] = a],
           pc' = [pc EXCEPT ![t] = p],
           UNCHANGED <<mailed, clock, ask, retries, stamp, stale>>,
           issued' \subseteq Token, \A token \in issued' : token \in issued \/ token.email = Of(t),
           pc[t] \in {"reset", "refresh", "access", "hash"},
           p \in {"refused", "refreshed", "ok", "changed"}, OnItsWay(t)',
           a.refresh # account[Of(t)].refresh => Renewable(t)', Keeps(t),
           a.pwd # account[Of(t)].pwd => Asks(t, {"reset"}),
           RenewalInv(t)'
    PROVE  AccountsInv'
<1>1. TypeOK /\ RequestInv(t) /\ t \in Txn /\ Of(t) \in Email /\ Of(t) \in Doc
  BY AskFacts DEF AccountsInv
<1>2. pc'[t] = p /\ pc' \in [Request -> PC] /\ \A u \in Request \ {t} : pc'[u] = pc[u]
  BY <1>1 DEF TypeOK
<1>3. a # None
  BY AccountsAssumption
<1>4. /\ account' \in [Email -> Account \cup {None}] /\ account'[Of(t)] = a
      /\ \A e \in Email \ {Of(t)} : account'[e] = account[e]
  BY <1>1 DEF TypeOK
<1>5. TxnTypeOK' /\ OneWriter'
  BY <1>1, WriteNowInv DEF AccountsInv, TypeOK, TxnInv
<1>6. TypeOK'
  BY <1>1, <1>2, <1>4, <1>5 DEF TypeOK
<1>7. /\ Known(Of(t)) /\ t \notin open /\ held[t] = {}
      /\ "refresh" \in stale[t] => Asks(t, {"refresh"})
      /\ Asks(t, {"activate"}) => FALSE
  BY <1>1 DEF RequestInv, HasAccount, InTransaction, OnItsWay, At, Asks
<1>8. ForAccounts'
  <2>1. \A e \in Email : account[e] # None => account'[e] # None
    BY <1>3, <1>4
  <2>2. (\A token \in issued : token.email \in Email) /\ (\A link \in mailed : link.email \in Email)
    BY <1>1 DEF TypeOK, Token, Link
  <2>3. QED
    BY <1>3, <1>4, <2>1, <2>2 DEF AccountsInv, ForAccounts, Known
<1>9. RequestInv(t)'
  <2>1. t \notin open' /\ held'[t] = {}
    BY <1>7 DEF WriteNow
  <2>2. ~ InTransaction(t)'
    BY <1>2 DEF InTransaction, At
  <2>3. QED
    BY <1>2, <1>3, <1>4, <1>7, <2>1, <2>2 DEF RequestInv, Asks, Known, Of
<1>10. ActivationInv(t)'
  BY <1>7 DEF ActivationInv, At, Asks
<1>11. \A u \in Request \ {t} :
            /\ pc'[u] = pc[u] /\ stale'[u] = stale[u] /\ stamp'[u] = stamp[u]
            /\ u \in open' <=> u \in open
            /\ held'[u] = held[u] /\ missed[u] \subseteq missed'[u]
  <2>1. TxnTypeOK /\ OneWriter /\ Request \subseteq Txn
    BY AccountsAssumption DEF AccountsInv, TypeOK
  <2>2. QED
    BY <1>1, <1>2, <2>1, OthersKeep
<1>12. \A u \in Request \ {t} : Of(u) \in Email
  BY <1>1, AskFacts
<1>13. \A u \in Request \ {t} : account'[Of(u)] # account[Of(u)] => Of(u) = Of(t) /\ account'[Of(u)] = a
  BY <1>4, <1>12
<1>14. \A u \in Request \ {t} : account[Of(u)] = None => account'[Of(u)] = None
  BY <1>7, <1>13 DEF Known
<1>15. \A e \in Email : account[e] # None => account'[e] # None
  BY <1>3, <1>4
<1>16. pc'[t] \notin {"new", "hash"} /\ ask' = ask
  BY <1>2
<1>17. ASSUME NEW u \in Request \ {t}, account'[Of(u)].refresh # account[Of(u)].refresh
       PROVE  Renewable(u)'
  <2>1. Of(u) = Of(t) /\ account'[Of(u)] = a
    BY <1>13, <1>17
  <2>2. Renewable(t)' /\ Of(u)' = Of(t)'
    BY <1>17, <2>1 DEF Of
  <2>3. QED
    BY <2>2 DEF Renewable
<1>18. \A u \in Request \ {t} : account'[Of(u)].pwd # account[Of(u)].pwd =>
                                   Asks(t, {"reset"}) /\ Of(t) = Of(u)
  BY <1>13
<1>19. QED
  BY <1>5, <1>6, <1>8, <1>9, <1>10, <1>11, <1>14, <1>15, <1>16, <1>17, <1>18, Frame

\* Only a refused refresh unsets a refresh token.
LEMMA UnsetTokensStep ==
    ASSUME AccountsInv, NEW t \in Request, UnsetTokens(t)
    PROVE  AccountsInv'
<1> DEFINE a == [k \in DOMAIN account[Of(t)] |-> IF k \in stale[t] THEN None ELSE account[Of(t)][k]]
<1>1. /\ pc[t] = "reset" /\ WriteNow(Of(t)) /\ account' = [account EXCEPT ![Of(t)] = a]
      /\ pc' = [pc EXCEPT ![t] = "refused"]
      /\ UNCHANGED <<mailed, issued, clock, ask, retries, stamp, stale>>
  BY DEF UnsetTokens, SaveAccount, GoTo
<1>2. TypeOK /\ RequestInv(t) /\ Of(t) \in Email
  BY AskFacts DEF AccountsInv
<1>3. account[Of(t)] \in Account /\ stale[t] \in SUBSET Kind
  <2>1. Known(Of(t))
    BY <1>1, <1>2 DEF RequestInv, HasAccount
  <2>2. QED
    BY <1>2, <2>1, KnownFacts DEF TypeOK
<1>4. a \in Account
  BY <1>3, Unset
<1>5. DOMAIN account[Of(t)] = {"pwd", "refresh", "access"}
  BY <1>3 DEF Account
<1>6. a.pwd = account[Of(t)].pwd /\ a.refresh = IF "refresh" \in stale[t] THEN None ELSE account[Of(t)].refresh
  BY <1>3, <1>5 DEF Kind
<1> HIDE DEF a
<1>7. account'[Of(t)] = a /\ Keeps(t)
  BY <1>1, <1>2 DEF TypeOK, Keeps
<1>8. pc'[t] = "refused" /\ "refused" \in PC
  BY <1>1, <1>2 DEF TypeOK, PC, Answered
<1>9. OnItsWay(t)' /\ RenewalInv(t)'
  BY <1>8 DEF OnItsWay, RenewalInv
<1>10. issued' \subseteq Token /\ \A token \in issued' : token \in issued \/ token.email = Of(t)
  BY <1>1, <1>2 DEF TypeOK
<1>11. ASSUME a.refresh # account[Of(t)].refresh
       PROVE  Renewable(t)'
  <2>1. account'[Of(t)].refresh = None /\ Asks(t, {"refresh"})
    BY <1>2, <1>6, <1>7, <1>11 DEF RequestInv
  <2>2. At(t, {"refresh"}, "refused")' /\ Of(t)' = Of(t)
    BY <1>1, <1>8, <2>1 DEF At, Asks, Of
  <2>3. QED
    BY <2>1, <2>2 DEF Renewable
<1>12. QED
  BY <1>1, <1>4, <1>6, <1>7, <1>8, <1>9, <1>10, <1>11, SaveStep

LEMMA StampStep ==
    ASSUME AccountsInv, NEW t \in Request,
           NEW k \in Kind, NEW p, NEW q, Stamp(t, k, p, q),
           \/ k = "refresh" /\ p = "verified" /\ q = "refresh"
           \/ k = "access" /\ p = "refreshed" /\ q = "access"
    PROVE  AccountsInv'
<1>1. TypeOK /\ RequestInv(t) /\ RenewalInv(t)
  BY DEF AccountsInv
<1>2. /\ pc[t] = p /\ clock' \in Time /\ stamp' = [stamp EXCEPT ![t][k] = clock']
      /\ pc' = [pc EXCEPT ![t] = q]
      /\ UNCHANGED txnVars /\ UNCHANGED <<account, mailed, issued, ask, retries, stale>>
  BY DEF Stamp, GoTo
<1>3. pc'[t] = q /\ pc' \in [Request -> PC] /\ \A u \in Request \ {t} : pc'[u] = pc[u]
  BY <1>1, <1>2 DEF TypeOK, PC, Answered
<1>4. /\ stamp' \in [Request -> [Kind -> Time]] /\ \A u \in Request \ {t} : stamp'[u] = stamp[u]
      /\ k = "access" => stamp'[t]["refresh"] = stamp[t]["refresh"]
  <2>1. stamp \in [Request -> [Kind -> Time]] /\ "refresh" \in Kind
    BY <1>1 DEF TypeOK, Kind
  <2>2. stamp'[t] = [stamp[t] EXCEPT ![k] = clock']
    BY <1>2, <2>1
  <2>3. stamp'[t] \in [Kind -> Time] /\ (k = "access" => stamp'[t]["refresh"] = stamp[t]["refresh"])
    BY <1>2, <2>1, <2>2
  <2>4. QED
    BY <1>2, <2>1, <2>2, <2>3
<1>5. TxnTypeOK' /\ OneWriter'
  BY <1>2, TxnStutterInv DEF AccountsInv, TypeOK, TxnInv
<1>6. TypeOK'
  BY <1>1, <1>2, <1>3, <1>4, <1>5 DEF TypeOK
<1>7. ForAccounts'
  BY <1>2 DEF AccountsInv, ForAccounts, Known
<1>8. /\ Asks(t, {"signin", "refresh"}) /\ Known(Of(t)) /\ t \notin open /\ held[t] = {}
      /\ "refresh" \in stale[t] => Asks(t, {"refresh"})
  BY <1>1, <1>2 DEF RequestInv, OnItsWay, HasAccount, InTransaction, At, Asks
<1>9. RequestInv(t)'
  <2>1. ~ InTransaction(t)' /\ OnItsWay(t)'
    BY <1>2, <1>3, <1>8 DEF InTransaction, OnItsWay, At, Asks
  <2>2. QED
    BY <1>2, <1>3, <1>8, <2>1 DEF RequestInv, Asks, Known, Of, txnVars
<1>10. \A u \in Request : Keeps(u)
  <2>1. pc[t] = "verified" \/ (k = "access" /\ pc[t] = "refreshed" /\ pc'[t] = "access")
    BY <1>2, <1>3
  <2>2. QED
    BY <1>3, <1>4, <2>1 DEF Keeps
<1>11. RenewalInv(t)'
  <2>1. CASE q = "refresh"
    BY <1>3, <2>1 DEF RenewalInv
  <2>2. CASE q = "access"
    <3>1. k = "access" /\ pc[t] = "refreshed"
      BY <1>2, <2>2
    <3>2. Renewable(t)
      BY <1>1, <1>8, <3>1 DEF RenewalInv
    <3>3. QED
      BY <1>2, <1>10, <3>2, RenewableKept DEF RenewalInv
  <2>3. QED
    BY <2>1, <2>2
<1>12. ActivationInv(t)'
  BY <1>3 DEF ActivationInv, At
<1>13. \A u \in Request \ {t} :
            /\ pc'[u] = pc[u] /\ stale'[u] = stale[u] /\ stamp'[u] = stamp[u]
            /\ u \in open' <=> u \in open
            /\ held'[u] = held[u] /\ missed[u] \subseteq missed'[u]
  BY <1>2, <1>3, <1>4 DEF txnVars
<1>14. pc'[t] \notin {"new", "hash"} /\ account' = account /\ ask' = ask
  BY <1>2, <1>3
<1>15. QED
  BY <1>5, <1>6, <1>7, <1>9, <1>11, <1>12, <1>13, <1>14, <1>10, Frame

LEMMA RefreshStep ==
    ASSUME AccountsInv, NEW t \in Request, Refresh(t)
    PROVE  AccountsInv'
  BY StampStep DEF Refresh, Kind

LEMMA SigninStep ==
    ASSUME AccountsInv, NEW t \in Request, Signin(t)
    PROVE  AccountsInv'
  BY StampStep DEF Signin, Kind

LEMMA UpdateUserRefreshTokenStep ==
    ASSUME AccountsInv, NEW t \in Request, UpdateUserRefreshToken(t)
    PROVE  AccountsInv'
<1> DEFINE a == [account[Of(t)] EXCEPT !.refresh = stamp[t]["refresh"]]
<1>1. /\ pc[t] = "refresh" /\ WriteNow(Of(t)) /\ account' = [account EXCEPT ![Of(t)] = a]
      /\ pc' = [pc EXCEPT ![t] = "refreshed"]
      /\ UNCHANGED <<mailed, issued, clock, ask, retries, stamp, stale>>
  BY DEF UpdateUserRefreshToken, SignedTime, SaveAccount, GoTo
<1>2. TypeOK /\ RequestInv(t) /\ Of(t) \in Email
  BY AskFacts DEF AccountsInv
<1>3. account[Of(t)] \in Account /\ Asks(t, {"signin", "refresh"})
  <2>1. Known(Of(t))
    BY <1>1, <1>2 DEF RequestInv, HasAccount
  <2>2. QED
    BY <1>1, <1>2, <2>1, KnownFacts DEF RequestInv, OnItsWay
<1>4. stamp[t]["refresh"] \in Time
  BY <1>2 DEF TypeOK, Kind
<1>5. a \in Account /\ a.pwd = account[Of(t)].pwd /\ a.refresh = stamp[t]["refresh"]
  BY <1>3, <1>4 DEF Account
<1> HIDE DEF a
<1>6. pc'[t] = "refreshed" /\ "refreshed" \in PC
  BY <1>1, <1>2 DEF TypeOK, PC, Answered
<1>7. account'[Of(t)] = a
  BY <1>1, <1>2 DEF TypeOK
<1>8. OnItsWay(t)' /\ RenewalInv(t)' /\ Renewable(t)' /\ Keeps(t)
  <2>1. Renewable(t)'
    BY <1>1, <1>3, <1>5, <1>6, <1>7 DEF Renewable, Asks, Of
  <2>2. QED
    BY <1>1, <1>3, <1>6, <2>1 DEF OnItsWay, RenewalInv, Asks, Keeps
<1>9. issued' \subseteq Token /\ \A token \in issued' : token \in issued \/ token.email = Of(t)
  BY <1>1, <1>2 DEF TypeOK
<1>10. QED
  BY <1>1, <1>3, <1>5, <1>6, <1>8, <1>9, SaveStep

LEMMA UpdateUserAccessTokenStep ==
    ASSUME AccountsInv, NEW t \in Request, UpdateUserAccessToken(t)
    PROVE  AccountsInv'
<1> DEFINE a == [account[Of(t)] EXCEPT !.access = stamp[t]["access"]]
<1>1. /\ pc[t] = "access" /\ WriteNow(Of(t)) /\ account' = [account EXCEPT ![Of(t)] = a]
      /\ pc' = [pc EXCEPT ![t] = "ok"]
      /\ issued' = issued \cup {[kind |-> k, email |-> Of(t), time |-> stamp[t][k]] : k \in Kind}
      /\ UNCHANGED <<mailed, clock, ask, retries, stamp, stale>>
  BY DEF UpdateUserAccessToken, GoTo
<1>2. TypeOK /\ RequestInv(t) /\ RenewalInv(t) /\ Of(t) \in Email
  BY AskFacts DEF AccountsInv
<1>3. account[Of(t)] \in Account /\ Asks(t, {"signin", "refresh"})
  <2>1. Known(Of(t))
    BY <1>1, <1>2 DEF RequestInv, HasAccount
  <2>2. QED
    BY <1>1, <1>2, <2>1, KnownFacts DEF RequestInv, OnItsWay
<1>4. stamp[t] \in [Kind -> Time] /\ "access" \in Kind
  BY <1>2 DEF TypeOK, Kind
<1>5. a \in Account /\ a.pwd = account[Of(t)].pwd /\ a.refresh = account[Of(t)].refresh
  BY <1>3, <1>4 DEF Account
<1> HIDE DEF a
<1>6. pc'[t] = "ok" /\ "ok" \in PC /\ \A u \in Request \ {t} : pc'[u] = pc[u]
  BY <1>1, <1>2 DEF TypeOK, PC, Answered
<1>7. account'[Of(t)] = a
  BY <1>1, <1>2 DEF TypeOK
<1>8. OnItsWay(t)'
  BY <1>6 DEF OnItsWay
<1>9. \A u \in Request : Keeps(u)
  BY <1>1, <1>6 DEF Keeps
<1>10. RenewalInv(t)'
  <2>1. Renewable(t)
    BY <1>1, <1>2, <1>3 DEF RenewalInv
  <2>2. QED
    BY <1>1, <1>5, <1>7, <1>9, <2>1, RenewableKept DEF RenewalInv
<1>11. issued' \subseteq Token /\ \A token \in issued' : token \in issued \/ token.email = Of(t)
  BY <1>1, <1>2, <1>4 DEF TypeOK, Token
<1>12. QED
  BY <1>1, <1>3, <1>5, <1>6, <1>8, <1>10, <1>11, <1>9, SaveStep

(***************************************************************************)
(* Recovery of the password.                                               *)
(***************************************************************************)

LEMMA FindForgetfulStep ==
    ASSUME AccountsInv, NEW t \in Request, FindForgetful(t)
    PROVE  AccountsInv'
<1>1. pc[t] = "new" /\ Asks(t, {"forgot"}) /\ pc \in [Request -> PC]
  BY DEF FindForgetful, At, AccountsInv, TypeOK
<1>2. PICK p \in {"mail", "failed"} : GoOn(t, p) /\ (p = "mail" => Known(Of(t)))
  BY DEF FindForgetful
<1>3. OnItsWay(t)' /\ p \in PC /\ ~ InTransaction(t) /\ ~ Asks(t, {"signup"})
  BY <1>1, <1>2 DEF GoOn, GoTo, OnItsWay, Asks, PC, Answered, InTransaction, At
<1>4. QED
  BY <1>1, <1>2, <1>3, GoOnStep

LEMMA GetUserOfLinkStep ==
    ASSUME AccountsInv, NEW t \in Request, GetUserOfLink(t)
    PROVE  AccountsInv'
<1>1. pc[t] = "new" /\ Asks(t, {"reset"}) /\ pc \in [Request -> PC] /\ GoOn(t, "hash")
  BY DEF GetUserOfLink, At, AccountsInv, TypeOK
<1>2. Known(Of(t))
  BY DEF GetUserOfLink, AccountsInv, ForAccounts
<1>3. OnItsWay(t)' /\ "hash" \in PC /\ ~ InTransaction(t)
  BY <1>1 DEF GoOn, GoTo, OnItsWay, Asks, PC, Answered, InTransaction, At
<1>4. QED
  BY <1>1, <1>2, <1>3, GoOnStep

LEMMA ResetUserPasswordStep ==
    ASSUME AccountsInv, NEW t \in Request, ResetUserPassword(t)
    PROVE  AccountsInv'
<1> DEFINE a == [account[Of(t)] EXCEPT !.pwd = ask[t].pwd]
<1>1. /\ pc[t] = "hash" /\ WriteNow(Of(t)) /\ account' = [account EXCEPT ![Of(t)] = a]
      /\ pc' = [pc EXCEPT ![t] = "changed"]
      /\ UNCHANGED <<mailed, issued, clock, ask, retries, stamp, stale>>
  BY DEF ResetUserPassword, SaveAccount, GoTo
<1>2. TypeOK /\ RequestInv(t) /\ Of(t) \in Email /\ ask[t].pwd \in Password
  BY AskFacts DEF AccountsInv
<1>3. account[Of(t)] \in Account /\ Asks(t, {"reset"})
  <2>1. Known(Of(t))
    BY <1>1, <1>2 DEF RequestInv, HasAccount
  <2>2. QED
    BY <1>1, <1>2, <2>1, KnownFacts DEF RequestInv, OnItsWay
<1>4. a \in Account /\ a.refresh = account[Of(t)].refresh
  BY <1>2, <1>3 DEF Account
<1> HIDE DEF a
<1>5. pc'[t] = "changed" /\ "changed" \in PC
  BY <1>1, <1>2 DEF TypeOK, PC, Answered
<1>6. OnItsWay(t)' /\ RenewalInv(t)' /\ Keeps(t)
  BY <1>1, <1>3, <1>5 DEF OnItsWay, RenewalInv, Asks, Keeps
<1>7. issued' \subseteq Token /\ \A token \in issued' : token \in issued \/ token.email = Of(t)
  BY <1>1, <1>2 DEF TypeOK
<1>8. QED
  BY <1>1, <1>3, <1>4, <1>5, <1>6, <1>7, SaveStep

LEMMA SendSuccessfulPasswordResetEmailStep ==
    ASSUME AccountsInv, NEW t \in Request, SendSuccessfulPasswordResetEmail(t)
    PROVE  AccountsInv'
<1>1. PICK p \in {"ok", "failed"} : GoOn(t, p)
  BY DEF SendSuccessfulPasswordResetEmail
<1>2. pc[t] = "changed" /\ RequestInv(t) /\ pc \in [Request -> PC]
  BY DEF SendSuccessfulPasswordResetEmail, AccountsInv, TypeOK
<1>3. Asks(t, {"reset"}) /\ ~ Asks(t, {"signin", "refresh", "activate"})
  BY <1>2 DEF RequestInv, OnItsWay, Asks
<1>4. OnItsWay(t)' /\ p \in PC /\ ~ InTransaction(t)
  BY <1>1, <1>2 DEF GoOn, GoTo, OnItsWay, PC, Answered, InTransaction, At
<1>5. QED
  BY <1>1, <1>2, <1>3, <1>4, GoOnStep

\* Who was not answered is lost; nothing of its transaction stays.
LEMMA CrashStep ==
    ASSUME AccountsInv, Crash
    PROVE  AccountsInv'
<1>1. /\ AbortTxns(Request)
      /\ pc' = [t \in Request |-> IF pc[t] \in {"new"} \cup Answered THEN pc[t] ELSE "lost"]
      /\ UNCHANGED <<account, mailed, issued, clock, ask, retries, stamp, stale>>
  BY DEF Crash, accountVars
<1>2. TypeOK /\ Request \subseteq Txn
  BY AccountsAssumption DEF AccountsInv
<1>3. pc' \in [Request -> PC] /\ \A t \in Request : pc'[t] \in {"new"} \cup Answered /\ pc'[t] \in {pc[t], "lost"}
      /\ (pc'[t] = "new" => pc[t] = "new")
  BY <1>1, <1>2 DEF TypeOK, PC, Answered
<1>4. TxnTypeOK' /\ OneWriter'
  BY <1>1, AbortTxnsInv DEF AccountsInv, TypeOK, TxnInv
<1>5. TypeOK'
  BY <1>1, <1>2, <1>3, <1>4 DEF TypeOK
<1>6. ForAccounts'
  BY <1>1 DEF AccountsInv, ForAccounts, Known
<1>7. \A t \in Request : Of(t)' = Of(t) /\ \A ops : Asks(t, ops)' <=> Asks(t, ops)
  BY <1>1 DEF Of, Asks
<1>8. ASSUME NEW t \in Request
      PROVE  RequestInv(t)'
  <2>1. RequestInv(t) /\ t \notin open' /\ held'[t] = {}
    BY <1>1, <1>2 DEF AccountsInv, AbortTxns
  <2>2. ~ InTransaction(t)' /\ OnItsWay(t)' /\ (HasAccount(t)' => HasAccount(t))
    BY <1>3, <1>7 DEF InTransaction, OnItsWay, HasAccount, At, Answered
  <2>3. QED
    BY <1>1, <1>3, <1>7, <2>1, <2>2 DEF RequestInv, Known, Answered
<1>9. ASSUME NEW t \in Request
      PROVE  RenewalInv(t)'
  <2>1. SUFFICES ASSUME Asks(t, {"signin", "refresh"}), pc[t] \in {"refreshed", "access", "ok"}
                 PROVE  Renewable(t)'
    BY <1>3, <1>7 DEF RenewalInv
  <2>2. Renewable(t)
    BY <2>1 DEF AccountsInv, RenewalInv
  <2>3. \A u \in Request : Keeps(u)
    BY <1>1, <1>2 DEF Keeps, Answered, TypeOK
  <2>4. QED
    BY <1>1, <2>2, <2>3, RenewableKept
<1>10. ASSUME NEW t \in Request
       PROVE  ActivationInv(t)'
  <2>1. ActivationInv(t)
    BY DEF AccountsInv
  <2>2. \A u \in Request : (pc'[u] = "ok" => pc[u] = "ok") /\ (pc'[u] \in {"new", "hash"} => pc[u] \in {"new", "hash"})
    BY <1>3 DEF Answered
  <2>3. QED
    BY <1>1, <1>7, <2>1, <2>2 DEF ActivationInv, At
<1>11. QED
  BY <1>4, <1>5, <1>6, <1>8, <1>9, <1>10 DEF AccountsInv

\* Where the requests that mail others stand when their accounts' part moves them.
LEMMA AccountsStep ==
    ASSUME AccountsInv, NEW t \in Request, Register(t) \/ Authenticate(t) \/ Recover(t)
    PROVE  AccountsInv'
<1>1. CASE Register(t)
  BY <1>1, ReCaptchaStep, OpenLinkStep, FindByEmailStep, SendAccountActivationEmailStep,
     CreateUserStep, SendWelcomingEmailStep, ActivateAccountStep DEF Register
<1>2. CASE Authenticate(t)
  BY <1>2, VerifyPasswordStep, VerifyRefreshTokenStep, VerifyAccessTokenStep, UnsetTokensStep,
     ServeStep, RefreshStep, UpdateUserRefreshTokenStep, SigninStep, UpdateUserAccessTokenStep
     DEF Authenticate
<1>3. CASE Recover(t)
  BY <1>3, FindForgetfulStep, SendPasswordResetEmailStep, GetUserOfLinkStep, ResetUserPasswordStep,
     SendSuccessfulPasswordResetEmailStep DEF Recover
<1>4. QED
  BY <1>1, <1>2, <1>3

LEMMA AccountsMove ==
    ASSUME AccountsInv, NEW t \in Request, Register(t) \/ Authenticate(t) \/ Recover(t)
    PROVE  /\ ask' = ask
           /\ \E p : pc' = [pc EXCEPT ![t] = p] /\
                (Asks(t, ToOthers) => pc[t] \in {"new", "reset"} /\ p \in {"handler", "refused", "reset"})
<1> DEFINE Moves == \E p : pc' = [pc EXCEPT ![t] = p] /\
              (Asks(t, ToOthers) => pc[t] \in {"new", "reset"} /\ p \in {"handler", "refused", "reset"})
<1>1. OnItsWay(t)
  BY DEF AccountsInv, RequestInv
<1>2. CASE Register(t)
  <2>1. CASE ReCaptcha(t)
    <3>1. PICK p \in {"refused", "find", "handler"} : GoOn(t, p) /\ (p = "find" => Asks(t, {"signup"}))
      BY <2>1 DEF ReCaptcha
    <3>2. pc[t] = "new" /\ (p = "find" => ~ Asks(t, ToOthers))
      BY <2>1, <3>1 DEF ReCaptcha, At, Asks, ToOthers
    <3>3. QED
      BY <3>1, <3>2 DEF GoOn, GoTo
  <2>2. CASE ~ ReCaptcha(t)
    <3>1. ~ Asks(t, ToOthers)
      BY <1>1, <1>2, <2>2 DEF Register, OpenLink, FindByEmail, SendAccountActivationEmail, CreateUser,
                              SendWelcomingEmail, ActivateAccount, OnItsWay, At, Asks, ToOthers
    <3>2. ask' = ask /\ \E p : pc' = [pc EXCEPT ![t] = p]
      BY <1>2, <2>2 DEF Register, OpenLink, FindByEmail, SendAccountActivationEmail, CreateUser,
                        SendWelcomingEmail, ActivateAccount, SendLink, Fail, RunAgain, GoOn, GoTo
    <3>3. QED
      BY <3>1, <3>2
  <2>3. QED
    BY <2>1, <2>2
<1>3. CASE Authenticate(t)
  <2>1. CASE VerifyAccessToken(t)
    <3>1. PICK p \in {RoleGuard(t), "reset"} : GoTo(t, p) /\ ask' = ask
      BY <2>1 DEF VerifyAccessToken, Verify
    <3>2. pc[t] = "new" /\ RoleGuard(t) \in {"handler", "refused"}
      BY <2>1 DEF VerifyAccessToken, At, RoleGuard
    <3>3. QED
      BY <3>1, <3>2 DEF GoTo
  <2>2. CASE UnsetTokens(t)
    BY <2>2 DEF UnsetTokens, SaveAccount, GoTo
  <2>3. CASE ~ VerifyAccessToken(t) /\ ~ UnsetTokens(t)
    <3>1. ~ Asks(t, ToOthers)
      BY <1>1, <1>3, <2>3 DEF Authenticate, VerifyPassword, VerifyRefreshToken, Serve, Refresh, Signin, Stamp,
                              UpdateUserRefreshToken, UpdateUserAccessToken, OnItsWay, At, Asks, ToOthers
    <3>2. ask' = ask /\ \E p : pc' = [pc EXCEPT ![t] = p]
      BY <1>3, <2>3 DEF Authenticate, VerifyPassword, VerifyRefreshToken, Verify, Serve, Refresh, Signin, Stamp,
                        UpdateUserRefreshToken, UpdateUserAccessToken, SaveAccount, GoOn, GoTo
    <3>3. QED
      BY <3>1, <3>2
  <2>4. QED
    BY <2>1, <2>2, <2>3
<1>4. CASE Recover(t)
  <2>1. ~ Asks(t, ToOthers)
    BY <1>1, <1>4 DEF Recover, FindForgetful, SendPasswordResetEmail, GetUserOfLink, ResetUserPassword,
                      SendSuccessfulPasswordResetEmail, OnItsWay, At, Asks, ToOthers
  <2>2. ask' = ask /\ \E p : pc' = [pc EXCEPT ![t] = p]
    BY <1>4 DEF Recover, FindForgetful, SendPasswordResetEmail, GetUserOfLink, ResetUserPassword,
                SendSuccessfulPasswordResetEmail, SendLink, Fail, SaveAccount, GoOn, GoTo
  <2>3. QED
    BY <2>1, <2>2
<1>5. QED
  BY <1>2, <1>3, <1>4

(***************************************************************************)
(* The mails.                                                              *)
(***************************************************************************)

\* A step of request t leaves the mails of the others alone.
LEMMA MailFrame ==
    ASSUME IInv, AccountsInv', NEW t \in Request, ask' = ask,
           \A u \in Request \ {t} :
              /\ pc'[u] = pc[u] /\ recipients'[u] = recipients[u] /\ mails'[u] = mails[u]
              /\ underWay'[u] = underWay[u] /\ sent'[u] = sent[u],
           recipients' \in [Request -> RecipientLists \cup {<<>>}],
           mails' \in [Request -> Seq(SUBSET (Email \cup {Team}))],
           underWay' \in [Request -> SUBSET Nat], sent' \in [Request -> SUBSET Nat],
           underWay'[t] \subseteq DOMAIN mails'[t], sent'[t] \subseteq DOMAIN mails'[t],
           MailInv(t)'
    PROVE  IInv'
<1>1. MailingTypeOK'
  <2>1. \A u \in Request : underWay'[u] \cup sent'[u] \subseteq DOMAIN mails'[u]
    BY DEF IInv, MailingTypeOK
  <2>2. {underWay', sent'} \subseteq [Request -> SUBSET Nat]
    OBVIOUS
  <2>3. QED
    BY <2>1, <2>2 DEF MailingTypeOK, AccountsInv
<1>2. ASSUME NEW u \in Request \ {t}
      PROVE  MailInv(u)'
  <2>1. MailInv(u)
    BY DEF IInv
  <2>2. QED
    BY <2>1 DEF MailInv, NoMail, Asks
<1>3. QED
  BY <1>1, <1>2 DEF IInv

\* A request whose accounts' part is under way has no mails to others yet.
LEMMA AnswerStep ==
    ASSUME IInv, NEW t \in Request, Register(t) \/ Authenticate(t) \/ Recover(t), UNCHANGED mailVars
    PROVE  IInv'
<1>1. AccountsInv'
  BY AccountsStep DEF IInv
<1>2. ask' = ask
  BY AccountsMove DEF IInv
<1>3. PICK p : pc' = [pc EXCEPT ![t] = p] /\
         (Asks(t, ToOthers) => pc[t] \in {"new", "reset"} /\ p \in {"handler", "refused", "reset"})
  BY AccountsMove DEF IInv
<1>4. pc \in [Request -> PC] /\ MailInv(t) /\ UNCHANGED <<recipients, mails, underWay, sent>>
  BY DEF IInv, AccountsInv, TypeOK, mailVars
<1>5. MailInv(t)'
  <2>1. NoMail(t)
    BY <1>3, <1>4 DEF MailInv
  <2>2. NoMail(t)' /\ DOMAIN mails'[t] = {}
    BY <1>4, <2>1 DEF NoMail
  <2>3. Asks(t, {"announce"}) => Asks(t, ToOthers)
    BY DEF Asks, ToOthers
  <2>4. Asks(t, {"announce"})' => pc'[t] \notin {"mail", "ok"}
    BY <1>2, <1>3, <1>4, <2>3 DEF Asks
  <2>5. QED
    BY <2>2, <2>4 DEF MailInv
<1>6. \A u \in Request \ {t} : pc'[u] = pc[u]
  BY <1>3, <1>4
<1>7. QED
  BY <1>1, <1>2, <1>4, <1>5, <1>6, MailFrame DEF IInv, MailingTypeOK

\* From the handler a request that mails others is answered, or waits for its mails.
LEMMA MailGoOn ==
    ASSUME AccountsInv, NEW t \in Request, NEW p \in {"ok", "mail", "failed"}, GoOn(t, p),
           Asks(t, ToOthers)
    PROVE  AccountsInv'
<1>1. OnItsWay(t) /\ pc \in [Request -> PC]
  BY DEF AccountsInv, RequestInv, TypeOK
<1>2. ~ InTransaction(t) /\ ~ Asks(t, {"signin", "refresh", "activate"}) /\ ~ Asks(t, {"signup"})
      /\ ~ Asks(t, {"forgot"}) /\ ~ Asks(t, {"signin", "refresh"})
  BY <1>1 DEF InTransaction, OnItsWay, At, Asks, ToOthers
<1>3. OnItsWay(t)' /\ p \in PC
  BY <1>1 DEF GoOn, GoTo, OnItsWay, Asks, ToOthers, PC, Answered
<1>4. QED
  BY <1>2, <1>3, GoOnStep

LEMMA PostStep ==
    ASSUME IInv, NEW t \in Request, NEW m \in Seq(SUBSET (Email \cup {Team})), Post(t, m),
           pc[t] = "handler", Asks(t, ToOthers),
           recipients' \in [Request -> RecipientLists \cup {<<>>}],
           \A u \in Request \ {t} : recipients'[u] = recipients[u],
           Asks(t, {"announce"}) =>
              /\ \A i \in DOMAIN m : Cardinality(m[i]) <= MaximumRecipientsPerMail
              /\ \A i, j \in DOMAIN m : i # j => m[i] \cap m[j] = {}
              /\ \A k \in DOMAIN recipients'[t] : \E i \in DOMAIN m : recipients'[t][k] \in m[i]
    PROVE  IInv'
<1>1. /\ mails' = [mails EXCEPT ![t] = m] /\ underWay' = [underWay EXCEPT ![t] = DOMAIN m]
      /\ sent' = sent
  BY DEF Post
<1>2. PICK p \in {"ok", "mail"} : GoOn(t, p) /\ (p = "ok" => m = <<>>)
  BY DEF Post
<1>3. pc' = [pc EXCEPT ![t] = p] /\ ask' = ask
  BY <1>2 DEF GoOn, GoTo
<1>4. AccountsInv'
  BY <1>2, MailGoOn DEF IInv
<1>5. /\ pc \in [Request -> PC] /\ mails \in [Request -> Seq(SUBSET (Email \cup {Team}))]
      /\ MailInv(t)
  BY DEF IInv, AccountsInv, MailingTypeOK, TypeOK
<1>6. mails'[t] = m /\ pc'[t] = p
  BY <1>1, <1>3, <1>5
<1>7. sent[t] = {}
  BY <1>5 DEF MailInv, NoMail
<1>8. /\ underWay'[t] = DOMAIN m /\ \A u \in Request \ {t} : underWay'[u] = underWay[u]
      /\ underWay' \in [Request -> SUBSET Nat] /\ sent' \in [Request -> SUBSET Nat]
  <2>1. DOMAIN m \subseteq Nat
    BY LenProperties
  <2>2. QED
    BY <1>1, <2>1 DEF IInv, MailingTypeOK
<1>9. MailInv(t)'
  <2>1. Asks(t, ToOthers)' /\ (Asks(t, {"announce"})' <=> Asks(t, {"announce"}))
    BY <1>3 DEF Asks
  <2>2. pc'[t] = "ok" => underWay'[t] = {}
    BY <1>2, <1>6, <1>8
  <2>3. DOMAIN mails'[t] \subseteq sent'[t] \cup underWay'[t]
    BY <1>6, <1>8
  <2>4. pc'[t] \notin {"new", "handler", "reset", "refused"}
    BY <1>2, <1>6
  <2>5. QED
    BY <1>6, <2>1, <2>2, <2>3, <2>4 DEF MailInv
<1>10. mails' \in [Request -> Seq(SUBSET (Email \cup {Team}))]
  BY <1>1, <1>5
<1>11. underWay'[t] \subseteq DOMAIN mails'[t] /\ sent'[t] \subseteq DOMAIN mails'[t]
  BY <1>1, <1>6, <1>7, <1>8
<1>12. \A u \in Request \ {t} :
          /\ pc'[u] = pc[u] /\ recipients'[u] = recipients[u] /\ mails'[u] = mails[u]
          /\ underWay'[u] = underWay[u] /\ sent'[u] = sent[u]
  BY <1>1, <1>3, <1>5, <1>8
<1>13. QED
  BY <1>3, <1>4, <1>8, <1>9, <1>10, <1>11, <1>12, MailFrame

\* The batches of an announcement are apart and hold every recipient of the body.
LEMMA AnnounceStep ==
    ASSUME IInv, NEW t \in Request, Announce(t)
    PROVE  IInv'
<1>1. PICK list \in RecipientLists :
         LET users == {e \in ToSet(list) : Known(e)} IN
         /\ recipients' = [recipients EXCEPT ![t] = list]
         /\ \/ Fail(t) /\ UNCHANGED <<mails, underWay, sent>>
            \/ /\ Cardinality(users) = Len(list)
               /\ \E found \in SetToSeqs(users) : Post(t, Chunks(found, MaximumRecipientsPerMail))
  BY DEF Announce
<1>2. pc[t] = "handler" /\ Asks(t, {"announce"}) /\ Asks(t, ToOthers)
  BY DEF Announce, At, Asks, ToOthers
<1>3. /\ recipients \in [Request -> RecipientLists \cup {<<>>}] /\ MailInv(t)
      /\ pc \in [Request -> PC]
  BY DEF IInv, AccountsInv, MailingTypeOK, TypeOK
<1>4. /\ recipients' \in [Request -> RecipientLists \cup {<<>>}] /\ recipients'[t] = list
      /\ \A u \in Request \ {t} : recipients'[u] = recipients[u]
  BY <1>1, <1>3
<1>5. CASE Fail(t) /\ UNCHANGED <<mails, underWay, sent>>
  <2>1. AccountsInv'
    BY <1>2, <1>5, FailStep DEF IInv
  <2>2. pc' = [pc EXCEPT ![t] = "failed"] /\ ask' = ask
    BY <1>5 DEF Fail, GoTo
  <2>3. NoMail(t)
    BY <1>2, <1>3 DEF MailInv
  <2>4. MailInv(t)'
    <3>1. NoMail(t)' /\ DOMAIN mails'[t] = {}
      BY <1>5, <2>3 DEF NoMail
    <3>2. pc'[t] = "failed"
      BY <1>3, <2>2
    <3>3. QED
      BY <3>1, <3>2 DEF MailInv
  <2>5. \A u \in Request \ {t} : pc'[u] = pc[u]
    BY <1>3, <2>2
  <2>6. QED
    BY <1>4, <1>5, <2>1, <2>2, <2>4, <2>5, MailFrame DEF IInv, MailingTypeOK
<1>6. CASE ~ (Fail(t) /\ UNCHANGED <<mails, underWay, sent>>)
  <2> DEFINE users == {e \in ToSet(list) : Known(e)}
  <2>1. PICK found \in SetToSeqs(users) : Post(t, Chunks(found, MaximumRecipientsPerMail))
    BY <1>1, <1>6
  <2>2. Cardinality(users) = Len(list)
    BY <1>1, <1>6
  <2> DEFINE m == Chunks(found, MaximumRecipientsPerMail)
  <2>3. list \in Seq(Email) /\ MaximumRecipientsPerMail \in Nat \ {0} /\ users \in SUBSET ToSet(list)
    BY MailingAssumption
  <2> HIDE DEF users
  <2>4. /\ found \in Seq(Email)
        /\ \A k, l \in 1..Len(found) : k # l => found[k] # found[l]
        /\ \A k \in DOMAIN list : \E l \in 1..Len(found) : found[l] = list[k]
    BY <2>1, <2>2, <2>3, FoundFacts
  <2>5. m \in Seq(SUBSET (Email \cup {Team}))
    <3>1. m \in Seq(SUBSET Email)
      BY <2>3, <2>4, ChunkFacts
    <3>2. QED
      BY <3>1, SeqMonotonic
  <2>6. \A i \in DOMAIN m : Cardinality(m[i]) <= MaximumRecipientsPerMail
    BY <2>3, <2>4, ChunksBounded
  <2>7. \A i, j \in DOMAIN m : i # j => m[i] \cap m[j] = {}
    BY <2>3, <2>4, ChunksDisjoint
  <2>8. \A k \in DOMAIN list : \E i \in DOMAIN m : list[k] \in m[i]
    <3>1. \A l \in 1..Len(found) : \E i \in DOMAIN m : found[l] \in m[i]
      BY <2>3, <2>4, ChunksCover
    <3> HIDE DEF m
    <3>2. QED
      BY <2>4, <3>1
  <2> HIDE DEF m
  <2>9. Post(t, m)
    BY <2>1 DEF m
  <2>10. QED
    BY <1>2, <1>4, <2>5, <2>6, <2>7, <2>8, <2>9, PostStep
<1>7. QED
  BY <1>5, <1>6

\* A preview and a contact begin with one mail to who asked.
LEMMA OwnMailStep ==
    ASSUME IInv, NEW t \in Request, PreviewAnnouncement(t) \/ ContactTeam(t)
    PROVE  IInv'
<1>1. /\ pc[t] = "handler" /\ Asks(t, ToOthers) /\ ~ Asks(t, {"announce"})
      /\ Post(t, <<{Of(t)}>>) /\ recipients' = recipients
  BY DEF PreviewAnnouncement, ContactTeam, At, Asks, ToOthers
<1>2. <<{Of(t)}>> \in Seq(SUBSET (Email \cup {Team}))
  BY AskFacts DEF IInv, AccountsInv
<1>3. recipients' \in [Request -> RecipientLists \cup {<<>>}]
  BY <1>1 DEF IInv, MailingTypeOK
<1>4. QED
  BY <1>1, <1>2, <1>3, PostStep

\* Who has mails under way mails others, and is past its handler.
LEMMA UnderWayFacts ==
    ASSUME IInv, NEW t \in Request, underWay[t] # {}
    PROVE  /\ Asks(t, ToOthers) /\ pc[t] \notin {"new", "handler", "reset", "refused"}
           /\ Asks(t, {"announce"}) => pc[t] # "ok"
           /\ pc[t] \in PC
  BY DEF IInv, MailInv, NoMail, AccountsInv, TypeOK

LEMMA DeliverStep ==
    ASSUME IInv, NEW t \in Request, Deliver(t)
    PROVE  IInv'
<1>1. PICK i \in underWay[t] :
         /\ sent' = [sent EXCEPT ![t] = @ \cup {i}]
         /\ mails' = [mails EXCEPT ![t] = @ \o Following(t, i)]
         /\ underWay' = [underWay EXCEPT ![t] = (@ \ {i}) \cup (DOMAIN mails'[t] \ DOMAIN mails[t])]
  BY DEF Deliver
<1> DEFINE p == IF pc[t] = "mail" /\ underWay'[t] = {} THEN "ok" ELSE pc[t]
           add == Following(t, i)
<1>2. GoOn(t, p) /\ recipients' = recipients
  BY DEF Deliver
<1>3. /\ pc \in [Request -> PC] /\ mails \in [Request -> Seq(SUBSET (Email \cup {Team}))]
      /\ underWay \in [Request -> SUBSET Nat] /\ sent \in [Request -> SUBSET Nat]
      /\ underWay[t] \cup sent[t] \subseteq DOMAIN mails[t]
      /\ MailInv(t) /\ Asks(t, ToOthers) /\ pc[t] \notin {"new", "handler", "reset", "refused"}
      /\ Asks(t, {"announce"}) => pc[t] # "ok"
  BY <1>1, UnderWayFacts DEF IInv, AccountsInv, MailingTypeOK, TypeOK
<1>4. pc' = [pc EXCEPT ![t] = p] /\ ask' = ask
  BY <1>2 DEF GoOn, GoTo
<1>5. pc'[t] = p /\ \A u \in Request \ {t} : pc'[u] = pc[u]
  BY <1>3, <1>4
<1>6. AccountsInv'
  <2>1. CASE p = "ok"
    BY <1>2, <1>3, <2>1, MailGoOn DEF IInv
  <2>2. CASE p # "ok"
    <3>1. p = pc[t]
      BY <2>2
    <3>2. pc' = pc
      BY <1>3, <1>4, <3>1
    <3>3. UNCHANGED vars
      BY <1>2, <3>2 DEF GoOn, vars, requestVars
    <3>4. QED
      BY <3>3, AccountsStutter DEF IInv
  <2>3. QED
    BY <2>1, <2>2
<1>7. add \in Seq(SUBSET (Email \cup {Team})) /\ (Asks(t, {"announce"}) => add = <<>>)
  <2>1. add \in {<<>>, <<{Team}>>}
    BY DEF Following
  <2>2. <<>> \in Seq(SUBSET (Email \cup {Team})) /\ <<{Team}>> \in Seq(SUBSET (Email \cup {Team}))
    OBVIOUS
  <2>3. Asks(t, {"announce"}) => add = <<>>
    BY DEF Following, Asks
  <2> HIDE DEF add
  <2>4. QED
    BY <2>1, <2>2, <2>3
<1>8. /\ mails'[t] = mails[t] \o add /\ mails'[t] \in Seq(SUBSET (Email \cup {Team}))
      /\ DOMAIN mails[t] \subseteq DOMAIN mails'[t] /\ DOMAIN mails'[t] \subseteq Nat
      /\ Asks(t, {"announce"}) => mails'[t] = mails[t]
  <2> DEFINE s == mails[t]
  <2>1. s \in Seq(SUBSET (Email \cup {Team})) /\ mails'[t] = s \o add
    BY <1>1, <1>3
  <2> HIDE DEF s, add
  <2>2. s \o add \in Seq(SUBSET (Email \cup {Team})) /\ Len(s \o add) = Len(s) + Len(add)
    BY <1>7, <2>1, ConcatProperties
  <2>3. Len(s) \in Nat /\ Len(add) \in Nat /\ DOMAIN s = 1..Len(s) /\ DOMAIN (s \o add) = 1..Len(s \o add)
    BY <1>7, <2>1, <2>2, LenProperties
  <2>4. DOMAIN s \subseteq DOMAIN (s \o add) /\ DOMAIN (s \o add) \subseteq Nat
    BY <2>2, <2>3
  <2>5. Asks(t, {"announce"}) => s \o add = s
    BY <1>7, <2>1, ConcatEmptySeq
  <2>6. QED
    BY <2>1, <2>2, <2>4, <2>5 DEF s
<1> HIDE DEF add, p
<1>9. /\ sent'[t] = sent[t] \cup {i}
      /\ underWay'[t] = (underWay[t] \ {i}) \cup (DOMAIN mails'[t] \ DOMAIN mails[t])
  BY <1>1, <1>3
<1>10. \A u \in Request \ {t} : mails'[u] = mails[u] /\ sent'[u] = sent[u] /\ underWay'[u] = underWay[u]
  BY <1>1, <1>3
<1>11. mails' \in [Request -> Seq(SUBSET (Email \cup {Team}))]
  BY <1>1, <1>3, <1>8 DEF add
<1>12. underWay' \in [Request -> SUBSET Nat] /\ sent' \in [Request -> SUBSET Nat]
  BY <1>1, <1>3, <1>8
<1>13. underWay'[t] \subseteq DOMAIN mails'[t] /\ sent'[t] \subseteq DOMAIN mails'[t]
  BY <1>3, <1>8, <1>9
<1>14. MailInv(t)'
  <2>1. Asks(t, ToOthers)' /\ (Asks(t, {"announce"})' <=> Asks(t, {"announce"}))
    BY <1>3, <1>4 DEF Asks
  <2>2. pc'[t] \notin {"new", "handler", "reset", "refused"}
    BY <1>3, <1>5 DEF p
  <2>3. SUFFICES ASSUME Asks(t, {"announce"})
                 PROVE  /\ \A j \in DOMAIN mails'[t] : Cardinality(mails'[t][j]) <= MaximumRecipientsPerMail
                        /\ \A j, k \in DOMAIN mails'[t] : j # k => mails'[t][j] \cap mails'[t][k] = {}
                        /\ pc'[t] \in {"mail", "ok"} =>
                              /\ DOMAIN mails'[t] \subseteq sent'[t] \cup underWay'[t]
                              /\ \A k \in DOMAIN recipients'[t] :
                                    \E j \in DOMAIN mails'[t] : recipients'[t][k] \in mails'[t][j]
                        /\ pc'[t] = "ok" => underWay'[t] = {}
    BY <2>1, <2>2 DEF MailInv
  <2>4. pc'[t] \in {"mail", "ok"} => pc[t] = "mail"
    BY <1>3, <1>5, <2>3 DEF p
  <2>5. pc'[t] = "ok" => underWay'[t] = {}
    BY <1>3, <1>5, <2>3 DEF p
  <2>6. mails'[t] = mails[t] /\ sent'[t] \cup underWay'[t] = sent[t] \cup underWay[t]
    BY <1>8, <1>9, <2>3
  <2>7. QED
    BY <1>2, <1>3, <2>3, <2>4, <2>5, <2>6 DEF MailInv
<1>15. recipients' \in [Request -> RecipientLists \cup {<<>>}]
  BY <1>2 DEF IInv, MailingTypeOK
<1>16. QED
  BY <1>2, <1>4, <1>5, <1>6, <1>10, <1>11, <1>12, <1>13, <1>14, <1>15, MailFrame

\* The other mails go on, so that the request has no more to promise.
LEMMA BounceStep ==
    ASSUME IInv, NEW t \in Request, Bounce(t)
    PROVE  IInv'
<1>1. PICK i \in underWay[t] : underWay' = [underWay EXCEPT ![t] = @ \ {i}]
  BY DEF Bounce
<1>2. GoOn(t, "failed") /\ UNCHANGED <<recipients, mails, sent>>
  BY DEF Bounce
<1>3. /\ pc \in [Request -> PC] /\ underWay \in [Request -> SUBSET Nat]
      /\ underWay[t] \cup sent[t] \subseteq DOMAIN mails[t] /\ MailInv(t) /\ Asks(t, ToOthers)
  BY <1>1, UnderWayFacts DEF IInv, AccountsInv, MailingTypeOK, TypeOK
<1>4. AccountsInv'
  BY <1>2, <1>3, MailGoOn DEF IInv
<1>5. ask' = ask /\ pc'[t] = "failed" /\ \A u \in Request \ {t} : pc'[u] = pc[u]
  BY <1>2, <1>3 DEF GoOn, GoTo
<1>6. MailInv(t)'
  <2>1. Asks(t, ToOthers)' /\ (Asks(t, {"announce"})' <=> Asks(t, {"announce"}))
    BY <1>3, <1>5 DEF Asks
  <2>2. QED
    BY <1>2, <1>3, <1>5, <2>1 DEF MailInv
<1>7. /\ underWay' \in [Request -> SUBSET Nat] /\ underWay'[t] \subseteq DOMAIN mails'[t]
      /\ sent'[t] \subseteq DOMAIN mails'[t]
      /\ \A u \in Request \ {t} : underWay'[u] = underWay[u]
  BY <1>1, <1>2, <1>3
<1>8. QED
  BY <1>2, <1>4, <1>5, <1>6, <1>7, MailFrame DEF IInv, MailingTypeOK

LEMMA StopStep ==
    ASSUME IInv, Stop
    PROVE  IInv'
<1>1. Crash /\ underWay' = [t \in Request |-> {}] /\ UNCHANGED <<recipients, mails, sent>>
  BY DEF Stop
<1>2. AccountsInv'
  BY <1>1, CrashStep DEF IInv
<1>3. /\ ask' = ask
      /\ pc' = [t \in Request |-> IF pc[t] \in {"new"} \cup Answered THEN pc[t] ELSE "lost"]
  BY <1>1 DEF Crash
<1>4. MailingTypeOK'
  BY <1>1, <1>2 DEF IInv, MailingTypeOK, AccountsInv
<1>5. ASSUME NEW t \in Request
      PROVE  MailInv(t)'
  <2>1. /\ MailInv(t)
        /\ pc'[t] = "lost" \/ (pc'[t] = pc[t] /\ pc[t] \in {"new"} \cup Answered)
    <3>1. MailInv(t)
      BY DEF IInv
    <3>2. QED
      BY <1>3, <3>1
  <2>2. (Asks(t, ToOthers)' <=> Asks(t, ToOthers)) /\ (Asks(t, {"announce"})' <=> Asks(t, {"announce"}))
    BY <1>3 DEF Asks
  <2>3. underWay'[t] = {} /\ mails' = mails /\ sent' = sent /\ recipients' = recipients
    BY <1>1
  <2>4. CASE pc'[t] = "lost"
    BY <2>1, <2>2, <2>3, <2>4 DEF MailInv, NoMail
  <2>5. CASE pc'[t] = pc[t] /\ pc[t] \in {"new"} \cup Answered
    <3>1. Asks(t, {"announce"}) /\ pc[t] \in {"mail", "ok"} => underWay[t] = {}
      BY <2>1, <2>5 DEF MailInv, Answered
    <3>2. QED
      BY <2>1, <2>2, <2>3, <2>5, <3>1 DEF MailInv, NoMail
  <2>6. QED
    BY <2>1, <2>4, <2>5
<1>6. QED
  BY <1>2, <1>4, <1>5 DEF IInv

LEMMA MailingStutter ==
    ASSUME IInv, UNCHANGED allVars
    PROVE  IInv'
<1>1. UNCHANGED vars /\ UNCHANGED <<recipients, mails, underWay, sent>>
  BY DEF allVars, mailVars
<1>2. AccountsInv'
  BY <1>1, AccountsStutter DEF IInv
<1>3. pc' = pc /\ ask' = ask
  BY <1>1 DEF vars, requestVars
<1>4. QED
  BY <1>1, <1>2, <1>3 DEF IInv, MailingTypeOK, AccountsInv, MailInv, NoMail, Asks

LEMMA InitInv == MailingInit => IInv
<1> SUFFICES ASSUME MailingInit PROVE IInv
  OBVIOUS
<1>1. Init /\ recipients = [t \in Request |-> <<>>] /\ mails = [t \in Request |-> <<>>]
      /\ underWay = [t \in Request |-> {}] /\ sent = [t \in Request |-> {}]
  BY DEF MailingInit
<1>2. TxnTypeOK /\ OneWriter /\ open = {} /\ held = [t \in Txn |-> {}] /\ Request \subseteq Txn
  BY <1>1, TxnInitInv, AccountsAssumption DEF Init, TxnInv, TxnInit
<1>3. 0 \in Time /\ 1 \in Time /\ MaxRetries \in Nat
  BY AccountsAssumption DEF Time
<1>4. account \in [Email -> Account \cup {None}]
  <2>1. [NewAccount(OldPassword) EXCEPT !.refresh = 1, !.access = 1] \in Account
    BY <1>3, AccountsAssumption DEF NewAccount, Account
  <2>2. QED
    BY <1>1, <2>1 DEF Init
<1>5. \A e \in Member : Known(e)
  <2>1. [NewAccount(OldPassword) EXCEPT !.refresh = 1, !.access = 1] \in Account
    BY <1>3, AccountsAssumption DEF NewAccount, Account
  <2>2. \A e \in Member : account[e] \in Account
    BY <1>1, <2>1, AccountsAssumption DEF Init
  <2>3. QED
    BY <2>2, AccountsAssumption DEF Known
<1>6. issued \subseteq Token /\ \A token \in issued : token.email \in Member
  BY <1>1, <1>3, AccountsAssumption DEF Init, Token
<1>7. TypeOK
  <2>1. pc \in [Request -> PC] /\ retries \in [Request -> 0..MaxRetries]
        /\ stamp \in [Request -> [Kind -> Time]] /\ stale \in [Request -> SUBSET Kind]
    BY <1>1, <1>3 DEF Init, PC
  <2>2. mailed \subseteq Link /\ clock \in Time /\ ask \in [Request -> Ask]
    BY <1>1, <1>3, AccountsAssumption DEF Init
  <2>3. QED
    BY <1>2, <1>4, <1>6, <2>1, <2>2 DEF TypeOK
<1>8. ForAccounts
  BY <1>1, <1>5, <1>6, AccountsAssumption DEF ForAccounts, Init
<1>9. ASSUME NEW t \in Request
      PROVE  RequestInv(t) /\ RenewalInv(t) /\ ActivationInv(t)
  <2>1. pc[t] = "new" /\ t \notin open /\ held[t] = {} /\ stale[t] = {}
    BY <1>1, <1>2 DEF Init
  <2>2. QED
    BY <2>1 DEF RequestInv, RenewalInv, ActivationInv, OnItsWay, InTransaction, HasAccount, At
<1>10. AccountsInv
  BY <1>2, <1>7, <1>8, <1>9 DEF AccountsInv
<1>11. MailingTypeOK
  <2>1. <<>> \in Seq(SUBSET (Email \cup {Team})) /\ DOMAIN <<>> = {}
    OBVIOUS
  <2>2. mails \in [Request -> Seq(SUBSET (Email \cup {Team}))]
    BY <1>1, <2>1
  <2>3. QED
    BY <1>1, <1>7, <2>2 DEF MailingTypeOK
<1>12. ASSUME NEW t \in Request
       PROVE  MailInv(t)
  <2>1. NoMail(t) /\ DOMAIN mails[t] = {} /\ pc[t] = "new"
    BY <1>1 DEF NoMail, Init
  <2>2. QED
    BY <2>1 DEF MailInv
<1>13. QED
  BY <1>10, <1>11, <1>12 DEF IInv

LEMMA NextInv == IInv /\ [Next]_allVars => IInv'
<1> SUFFICES ASSUME IInv, [Next]_allVars PROVE IInv'
  OBVIOUS
<1>1. ASSUME NEW t \in Request, Answer(t)
      PROVE  IInv'
  BY <1>1, AnswerStep, AnnounceStep, OwnMailStep, DeliverStep, BounceStep DEF Answer
<1>2. CASE Stop
  BY <1>2, StopStep
<1>3. CASE AllAnswered \/ UNCHANGED allVars
  BY <1>3, MailingStutter DEF AllAnswered
<1>4. QED
  BY <1>1, <1>2, <1>3 DEF Next

(***************************************************************************)
(* The theorems.                                                           *)
(***************************************************************************)

\* The inductive invariant: what tokens and links are for, what a request that resumes may
\* rely on, and where the mails of an announcement are.
THEOREM InductiveInvariant == Spec => []IInv
<1>1. MailingInit => IInv
  BY InitInv
<1>2. IInv /\ [Next]_allVars => IInv'
  BY NextInv
<1>3. QED
  BY <1>1, <1>2, PTL DEF Spec

\* Every state of accounts, tokens and mails is well typed: a token or a reset never meets
\* an account that is not there.
THEOREM TypeCorrect == Spec => []MailingTypeOK
<1>1. IInv => MailingTypeOK
  BY DEF IInv
<1>2. QED
  BY <1>1, InductiveInvariant, PTL

\* Whatever renewals, refused refreshes and stops overlap, the refresh token stored for an
\* account that was answered is one that a renewal made and stored, to be given out unless
\* a stop cuts it off; or a refused refresh has unset it.
THEOREM FreshTokenStored == Spec => []SessionRenewable
<1>1. IInv => SessionRenewable
  <2> SUFFICES ASSUME IInv, NEW t \in Request, At(t, {"signin", "refresh"}, "ok")
               PROVE  Renewable(t)
    BY DEF SessionRenewable
  <2>1. RenewalInv(t)
    BY DEF IInv, AccountsInv
  <2>2. QED
    BY <2>1 DEF RenewalInv, At
<1>2. QED
  BY <1>1, InductiveInvariant, PTL

\* However many links to one address are opened, one makes the account.
THEOREM AccountMadeOnce == Spec => []ActivatedOnce
<1>1. IInv => ActivatedOnce
  <2> SUFFICES ASSUME IInv, NEW t \in Request, At(t, {"activate"}, "ok")
               PROVE  /\ \A u \in Request \ {t} : ~ (At(u, {"activate"}, "ok") /\ Of(u) = Of(t))
                      /\ Known(Of(t))
                      /\ (\A u \in Request : Asks(u, {"reset"}) /\ Of(u) = Of(t) => pc[u] \in {"new", "hash"})
                            => account[Of(t)].pwd = ask[t].pwd
    BY DEF ActivatedOnce
  <2>1. ActivationInv(t) /\ RequestInv(t)
    BY DEF IInv, AccountsInv
  <2>2. Known(Of(t))
    BY <2>1 DEF RequestInv, HasAccount, At, Asks
  <2>3. QED
    BY <2>1, <2>2 DEF ActivationInv
<1>2. QED
  BY <1>1, InductiveInvariant, PTL

\* Nobody gets an announcement twice, no mail is too large, and a success has reached every
\* recipient, for every list and size of the batches.
THEOREM AnnouncementsReach == Spec => []AnnouncedOnce
<1>1. IInv => AnnouncedOnce
  <2> SUFFICES ASSUME IInv, NEW t \in Request, Asks(t, {"announce"})
               PROVE  /\ \A i \in DOMAIN mails[t] : Cardinality(mails[t][i]) <= MaximumRecipientsPerMail
                      /\ \A e \in Email : Cardinality(Reaching(t, e)) <= 1
                      /\ pc[t] = "ok" =>
                            \A k \in DOMAIN recipients[t] : Reaching(t, recipients[t][k]) # {}
    BY DEF AnnouncedOnce
  <2>1. MailInv(t) /\ sent[t] \subseteq DOMAIN mails[t]
    BY DEF IInv, MailingTypeOK
  <2>2. ASSUME NEW e \in Email
        PROVE  Cardinality(Reaching(t, e)) <= 1
    <3>1. \A i, j \in Reaching(t, e) : i = j
      BY <2>1 DEF MailInv, Reaching
    <3>2. CASE Reaching(t, e) = {}
      BY <3>2, FS_EmptySet
    <3>3. CASE Reaching(t, e) # {}
      <4>1. PICK i : Reaching(t, e) = {i}
        BY <3>1, <3>3
      <4>2. QED
        BY <4>1, FS_Singleton
    <3>4. QED
      BY <3>2, <3>3
  <2>3. ASSUME pc[t] = "ok", NEW k \in DOMAIN recipients[t]
        PROVE  Reaching(t, recipients[t][k]) # {}
    BY <2>1, <2>3 DEF MailInv, Reaching
  <2>4. QED
    BY <2>1, <2>2, <2>3 DEF MailInv
<1>2. QED
  BY <1>1, InductiveInvariant, PTL
=============================================================================
