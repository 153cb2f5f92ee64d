------------------------------ MODULE Sessions ------------------------------
(***************************************************************************)
(* What the services of the programme and of the rooms do with the         *)
(* database.  A call is a request of an administrator, which writes one    *)
(* document outside any transaction, or a caller inside the backend that   *)
(* uses methods of the services in a transaction of its own.               *)
(*                                                                         *)
(* A transaction reads and saves in one step and commits in another: a     *)
(* document it has saved is not written by others in between, and a write  *)
(* conflict makes it start again.  What a method starts and does not await *)
(* is "late": it happens in steps of its own, or its exception, which      *)
(* nobody catches, stops the server.                                       *)
(***************************************************************************)
EXTENDS Naturals, Sequences, FiniteSets

CONSTANTS
    Call,
    Start,      \* the documents there may be at the start
    None,       \* no document, null
    Gone        \* a document that was deleted and that others still refer to

VARIABLES
    doc,    \* the committed documents
    pc,     \* where a call stands
    writes, \* the documents its transaction has saved
    late    \* what is under way without being awaited

vars == <<doc, pc, writes, late>>

SessionsTypeOK ==
    /\ pc \in [Call -> {"new", "saved", "done", "failed", "lost"}]
    /\ DOMAIN writes = Call
    /\ \A t \in Call : DOMAIN writes[t] \subseteq DOMAIN doc

Init ==
    /\ doc \in Start
    /\ pc = [t \in Call |-> "new"]
    /\ writes = [t \in Call |-> <<>>]
    /\ late = {}

-----------------------------------------------------------------------------
\* The save of v as the content of the document d; and the documents of V together with
\* those of W that V does not have.
Saved(d, v) == [e \in {d} |-> v]
V ++ W == [d \in DOMAIN V \cup DOMAIN W |-> IF d \in DOMAIN V THEN V[d] ELSE W[d]]

Stored(d) == doc[d] \notin {None, Gone}

\* No transaction has saved d without being over.
Free(d) == \A t \in Call : d \notin DOMAIN writes[t]

\* A method whose checks have passed saves the documents W; one whose checks fail throws.
Attempt(t, checks, W) ==
    /\ pc[t] = "new"
    /\ IF checks
       THEN /\ \A d \in DOMAIN W : Free(d)
            /\ pc' = [pc EXCEPT ![t] = "saved"]
            /\ writes' = [writes EXCEPT ![t] = W]
       ELSE /\ pc' = [pc EXCEPT ![t] = "failed"]
            /\ UNCHANGED writes

\* It awaits everything it starts.
Awaited(t, checks, W) == Attempt(t, checks, W) /\ UNCHANGED <<doc, late>>

Commit(t) ==
    /\ pc[t] = "saved"
    /\ doc' = writes[t] ++ doc
    /\ pc' = [pc EXCEPT ![t] = "done"]
    /\ writes' = [writes EXCEPT ![t] = <<>>]
    /\ UNCHANGED late

\* The caller throws after the method has returned.
Abort(t) ==
    /\ pc[t] = "saved"
    /\ pc' = [pc EXCEPT ![t] = "failed"]
    /\ writes' = [writes EXCEPT ![t] = <<>>]
    /\ UNCHANGED <<doc, late>>

\* A request that writes the documents W outside any transaction: it waits for the
\* transactions that have saved them.
WriteAll(t, W) ==
    /\ pc[t] = "new"
    /\ \A d \in DOMAIN W : Free(d)
    /\ doc' = W ++ doc
    /\ pc' = [pc EXCEPT ![t] = "done"]
    /\ UNCHANGED <<writes, late>>

Write(t, d, v) == WriteAll(t, Saved(d, v))

-----------------------------------------------------------------------------
\* What the session of the late save i sees of document d.
Seen(i, d) == IF d \in DOMAIN writes[i.call] THEN writes[i.call][d] ELSE doc[d]

\* A late save of d with the session of i.call: part of its transaction while that is
\* under way, and a write like any other when it is over.
Joins(i, d, v) ==
    /\ Stored(d)
    /\ \A t \in Call \ {i.call} : d \notin DOMAIN writes[t]
    /\ IF pc[i.call] = "saved"
       THEN writes' = [writes EXCEPT ![i.call] = Saved(d, v) ++ @] /\ UNCHANGED doc
       ELSE doc' = [doc EXCEPT ![d] = v] /\ UNCHANGED writes
    /\ late' = late \ {i}
    /\ UNCHANGED pc

\* It was sent in a transaction that has been aborted.
LoseLate(i) ==
    /\ pc[i.call] = "failed"
    /\ late' = late \ {i}
    /\ UNCHANGED <<doc, pc, writes>>

\* An exception of what nobody awaits stops Node, and with it everything under way.
Stop ==
    /\ late # {}
    /\ late' = {}
    /\ pc' = [t \in Call |-> IF pc[t] = "saved" THEN "lost" ELSE pc[t]]
    /\ writes' = [t \in Call |-> <<>>]
    /\ UNCHANGED doc

-----------------------------------------------------------------------------
\* What the calls keep to: only a transaction under way has saved documents, no document
\* has two of them, and what is late comes of a call that was made.
SessionsInv ==
    /\ \A t \in Call : pc[t] # "saved" => DOMAIN writes[t] = {}
    /\ \A t, u \in Call : t # u => DOMAIN writes[t] \cap DOMAIN writes[u] = {}
    /\ \A i \in late : pc[i.call] # "new"
=============================================================================
