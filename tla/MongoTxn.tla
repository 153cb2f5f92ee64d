------------------------------ MODULE MongoTxn ------------------------------
(***************************************************************************)
(* What the services rely on of MongoDB's multi-document transactions and  *)
(* of the driver's withTransaction().  This is not code of the repository: *)
(* it is the contract every "session.withTransaction(async ...)" of the    *)
(* controllers is written against.                                         *)
(*                                                                         *)
(*  - The snapshot of a transaction is taken by its first operation that   *)
(*    carries the session; later operations read that snapshot plus the    *)
(*    transaction's own writes.                                            *)
(*  - A write to a document fails at once with a WriteConflict when        *)
(*    another open transaction has written it, or when a commit after the  *)
(*    snapshot has changed it.  Two concurrent transactions never both     *)
(*    commit a write of one document.                                      *)
(*  - Reads are not tracked: two transactions that read what the other     *)
(*    writes both commit (snapshot isolation, not serializability).        *)
(*  - An operation without the session reads the last committed state.     *)
(*                                                                         *)
(* Only the bookkeeping of conflicts is here; the values of the documents  *)
(* are the variables of the module that extends this one.                  *)
(***************************************************************************)
CONSTANTS
    Txn,    \* the callbacks that may run inside withTransaction()
    Doc     \* the documents they write

VARIABLES
    open,   \* the transactions that have taken their snapshot
    held,   \* held[t]: the documents t has written and not yet committed
    missed  \* missed[t]: the documents committed by others since t's snapshot

txnVars == <<open, held, missed>>

TxnTypeOK ==
    /\ open \subseteq Txn
    /\ held \in [Txn -> SUBSET Doc]
    /\ missed \in [Txn -> SUBSET Doc]

TxnInit ==
    /\ open = {}
    /\ held = [t \in Txn |-> {}]
    /\ missed = [t \in Txn |-> {}]

\* A write of d by t would raise WriteConflict, a TransientTransactionError.
Conflicts(t, d) ==
    \/ d \in missed[t]
    \/ \E u \in Txn \ {t} : d \in held[u]

\* The first operation of t that carries its session.
TakeSnapshot(t) ==
    /\ open' = open \cup {t}
    /\ UNCHANGED <<held, missed>>

\* A write by t that does not conflict.
HoldDoc(t, d) ==
    /\ ~ Conflicts(t, d)
    /\ held' = [held EXCEPT ![t] = @ \cup {d}]
    /\ UNCHANGED <<open, missed>>

\* A first operation that is a write: the snapshot is taken with it, so only the
\* uncommitted write of another transaction conflicts.
HoldFirst(t, d) ==
    /\ ~ Conflicts(t, d)
    /\ open' = open \cup {t}
    /\ held' = [held EXCEPT ![t] = @ \cup {d}]
    /\ UNCHANGED missed

\* commitTransaction: the writes become the committed state, which every other
\* open transaction has now missed.
CommitTxn(t) ==
    /\ open' = open \ {t}
    /\ held' = [held EXCEPT ![t] = {}]
    /\ missed' = [u \in Txn |-> IF u \in open \ {t} THEN missed[u] \cup held[t] ELSE {}]

\* abortTransaction of every transaction of T: their writes are dropped.
AbortTxns(T) ==
    /\ open' = open \ T
    /\ held' = [u \in Txn |-> IF u \in T THEN {} ELSE held[u]]
    /\ missed' = [u \in Txn |-> IF u \in T THEN {} ELSE missed[u]]

\* A write of d outside any transaction, which the server lets through only when
\* no open transaction has written d.
WriteNow(d) ==
    /\ \A u \in Txn : d \notin held[u]
    /\ missed' = [u \in Txn |-> IF u \in open THEN missed[u] \cup {d} ELSE {}]
    /\ UNCHANGED <<open, held>>

\* What the server guarantees: one writer of a document at a time, and never a
\* writer whose snapshot is older than the document.
OneWriter ==
    /\ \A t, u \in Txn : t # u => held[t] \cap held[u] = {}
    /\ \A t \in Txn : held[t] \cap missed[t] = {}
    /\ \A t \in Txn \ open : held[t] = {} /\ missed[t] = {}
=============================================================================
