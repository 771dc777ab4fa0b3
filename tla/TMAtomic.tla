------------------------------ MODULE TMAtomic ------------------------------
(***************************************************************************)
(* What a transactional coherence manager promises, whatever its policy:  *)
(* transactions that commit are conflict-serializable.                    *)
(*                                                                         *)
(* Each thread's transaction is idle, live, doomed (it will abort, but    *)
(* has not noticed yet) or rolling back.  An abort is seen in two steps:  *)
(* the transaction stops (its footprint is dropped), then its rollback    *)
(* completes.  A live transaction accumulates the lines it has read and  *)
(* written.  Any step may doom live transactions of other threads          *)
(* (an HTM may abort a transaction for a conflict, a capacity limit or no  *)
(* reason at all); what it may not do is:                                  *)
(*   - commit a transaction that conflicts with another live one, or a     *)
(*     doomed one;                                                         *)
(*   - let a non-transactional access go through while a live transaction  *)
(*     it conflicts with survives (strong isolation);                      *)
(*   - bring a doomed transaction back to life.                            *)
(* Since every pair of live transactions that conflict must lose one       *)
(* member before either commits, the committed transactions can be         *)
(* ordered by their commit points.                                         *)
(***************************************************************************)
EXTENDS FiniteSets

CONSTANTS Pids, Lines

VARIABLES
    txStatus,      \* pid -> "idle" | "live" | "doomed" | "rollback"
    footRead,      \* pid -> lines the live transaction has read
    footWritten    \* pid -> lines the live transaction has written

avars == <<txStatus, footRead, footWritten>>

Live == {p \in Pids: txStatus[p] = "live"}

\* p and q conflict when one of them wrote a line the other accessed.
Conflict(p, q) ==
    \/ footWritten[p] \cap (footRead[q] \cup footWritten[q]) # {}
    \/ footWritten[q] \cap footRead[p] # {}

\* p's own status becomes s and the transactions in D are doomed.
setStatus(p, s, D) ==
    txStatus' = [q \in Pids |-> CASE q = p  -> s
                                  [] q \in D -> "doomed"
                                  [] OTHER   -> txStatus[q]]

forget(p) ==
    /\ footRead' = [footRead EXCEPT ![p] = {}]
    /\ footWritten' = [footWritten EXCEPT ![p] = {}]

Begin(p) ==
    /\ txStatus[p] = "idle"
    /\ setStatus(p, "live", {})
    /\ forget(p)

Access(p, l, isWrite) ==
    /\ txStatus[p] = "live"
    /\ \E D \in SUBSET (Live \ {p}): setStatus(p, "live", D)
    /\ IF isWrite
       THEN /\ footWritten' = [footWritten EXCEPT ![p] = @ \cup {l}]
            /\ UNCHANGED footRead
       ELSE /\ footRead' = [footRead EXCEPT ![p] = @ \cup {l}]
            /\ UNCHANGED footWritten

Abort(p) ==
    /\ txStatus[p] \in {"live", "doomed"}
    /\ setStatus(p, "rollback", {})
    /\ forget(p)

RollbackDone(p) ==
    /\ txStatus[p] = "rollback"
    /\ setStatus(p, "idle", {})
    /\ UNCHANGED <<footRead, footWritten>>

Commit(p) ==
    /\ txStatus[p] = "live"
    /\ \A q \in Live \ {p}: ~Conflict(p, q)
    /\ setStatus(p, "idle", {})
    /\ forget(p)

\* A non-transactional access of line l: every live transaction it
\* conflicts with is doomed in the same step.
NonTMAccess(l, isWrite) ==
    /\ \E D \in SUBSET Live:
         /\ \A q \in Live \ D: l \notin footWritten[q] /\ (isWrite => l \notin footRead[q])
         /\ txStatus' = [q \in Pids |-> IF q \in D THEN "doomed" ELSE txStatus[q]]
    /\ UNCHANGED <<footRead, footWritten>>

Init ==
    /\ txStatus = [p \in Pids |-> "idle"]
    /\ footRead = [p \in Pids |-> {}]
    /\ footWritten = [p \in Pids |-> {}]

Next ==
    \/ \E p \in Pids: Begin(p) \/ Abort(p) \/ RollbackDone(p) \/ Commit(p)
    \/ \E p \in Pids, l \in Lines, isWrite \in BOOLEAN: Access(p, l, isWrite)
    \/ \E l \in Lines, isWrite \in BOOLEAN: NonTMAccess(l, isWrite)

Spec == Init /\ [][Next]_avars
=============================================================================
