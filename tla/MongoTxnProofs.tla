--------------------------- MODULE MongoTxnProofs ---------------------------
(***************************************************************************)
(* What every operation of MongoTxn keeps, whatever the transactions and   *)
(* the documents are: the shape of the bookkeeping, and that a document    *)
(* has one writer, whose snapshot is not older than it.  The proofs about  *)
(* the services cite these lemmas for the steps of their handlers.         *)
(***************************************************************************)
EXTENDS MongoTxn, TLAPS

TxnInv == TxnTypeOK /\ OneWriter

LEMMA TxnInitInv == TxnInit => TxnInv
  BY DEF TxnInit, TxnInv, TxnTypeOK, OneWriter

LEMMA TakeSnapshotInv ==
    ASSUME TxnInv, NEW t \in Txn, TakeSnapshot(t)
    PROVE  TxnInv'
  BY DEF TxnInv, TxnTypeOK, OneWriter, TakeSnapshot

\* The document that t writes has no other writer and has not been changed since t's
\* snapshot.
LEMMA HoldDocInv ==
    ASSUME TxnInv, NEW t \in open, NEW d \in Doc, HoldDoc(t, d)
    PROVE  TxnInv'
<1>1. \A u \in Txn : held'[u] = IF u = t THEN held[u] \cup {d} ELSE held[u]
  BY DEF HoldDoc, TxnInv, TxnTypeOK
<1>2. d \notin missed[t] /\ \A u \in Txn \ {t} : d \notin held[u]
  BY DEF HoldDoc, Conflicts
<1>3. TxnTypeOK'
  BY DEF HoldDoc, TxnInv, TxnTypeOK
<1>4. QED
  BY <1>1, <1>2, <1>3 DEF TxnInv, OneWriter, HoldDoc

LEMMA HoldFirstInv ==
    ASSUME TxnInv, NEW t \in Txn, NEW d \in Doc, HoldFirst(t, d)
    PROVE  TxnInv'
<1>1. \A u \in Txn : held'[u] = IF u = t THEN held[u] \cup {d} ELSE held[u]
  BY DEF HoldFirst, TxnInv, TxnTypeOK
<1>2. d \notin missed[t] /\ \A u \in Txn \ {t} : d \notin held[u]
  BY DEF HoldFirst, Conflicts
<1>3. TxnTypeOK'
  BY DEF HoldFirst, TxnInv, TxnTypeOK
<1>4. QED
  BY <1>1, <1>2, <1>3 DEF TxnInv, OneWriter, HoldFirst, TxnTypeOK

\* What t has written is missed by the transactions still open, none of which has
\* written any of it.
LEMMA CommitTxnInv ==
    ASSUME TxnInv, NEW t \in Txn, CommitTxn(t)
    PROVE  TxnInv'
<1>1. \A u \in Txn : held'[u] = IF u = t THEN {} ELSE held[u]
  BY DEF CommitTxn, TxnInv, TxnTypeOK
<1>2. \A u \in Txn : missed'[u] = IF u \in open \ {t} THEN missed[u] \cup held[t] ELSE {}
  BY DEF CommitTxn
<1>3. TxnTypeOK'
  BY DEF CommitTxn, TxnInv, TxnTypeOK
<1>4. QED
  BY <1>1, <1>2, <1>3 DEF TxnInv, OneWriter, CommitTxn

LEMMA AbortTxnsInv ==
    ASSUME TxnInv, NEW T, AbortTxns(T)
    PROVE  TxnInv'
  BY DEF TxnInv, TxnTypeOK, OneWriter, AbortTxns

LEMMA WriteNowInv ==
    ASSUME TxnInv, NEW d \in Doc, WriteNow(d)
    PROVE  TxnInv'
<1>1. TxnTypeOK'
  BY DEF WriteNow, TxnInv, TxnTypeOK
<1>2. QED
  BY <1>1 DEF TxnInv, OneWriter, WriteNow

LEMMA TxnStutterInv ==
    ASSUME TxnInv, UNCHANGED txnVars
    PROVE  TxnInv'
  BY DEF TxnInv, TxnTypeOK, OneWriter, txnVars
=============================================================================
