---------------------------- MODULE TMCoherence ----------------------------
(***************************************************************************)
(* The transactional coherence manager with two eager conflict policies:  *)
(* requester-wins (TMLECoherence, "LE") and older-wins with NACKs and      *)
(* exponential backoff ("EE", TMEECoherence); per-pid transaction state   *)
(* (TransState, *)
(* src/src/libTM/TMCoherence.h), the line ownership tracker (the readers / *)
(* writers maps and the per-pid linesRead / linesWritten sets of           *)
(* src/src/libTM/HTMManager.h, pruned with CacheLineState::abortExcept),  *)
(* and the capacity check cacheOverflowed.                                 *)
(*                                                                         *)
(* The bodies of the public entry points (TMCoherence.cpp) are not under   *)
(* src/; they are modelled from the design: an access by a transaction     *)
(* that was marked for abort, or that overflows its buffer, aborts it; any *)
(* other access marks every conflicting transaction MARKABORT, removes it  *)
(* from the line, and records the requester as reader or writer.          *)
(*                                                                         *)
(* Under "EE" a requester that conflicts with an older transaction (an    *)
(* earlier begin timestamp) is NACKed instead: TransState::startNacking  *)
(* and startStalling(globalClock + BaseStall * 2^attempts), with at most  *)
(* MAX_EXP_BACKOFF doublings.  It retries the same access once            *)
(* checkStall is false; any younger conflicting transaction is marked.    *)
(* The policy is chosen once, when the simulator creates tmCohManager.    *)
(*                                                                         *)
(* The simulator runs one thread's instruction at a time, and the caller   *)
(* (ThreadContext) acts on an ABORT verdict within the same instruction,   *)
(* so each entry point together with that reaction is one atomic step.    *)
(* Addresses are cache-line addresses.                                     *)
(***************************************************************************)
EXTENDS Integers, FiniteSets

CONSTANTS
    Pids,         \* hardware threads
    Lines,        \* cache-line addresses
    numLines,     \* lines a transaction may buffer before it overflows
    MaxTxns,      \* bound on utids handed out (on begin)
    NoPid,        \* aborterPid = -1
    NoAddr,       \* abortByAddr = 0
    INVALID_UTID,
    Policies,     \* the policies tmCohManager may be created with
    BaseStall,    \* stall cycles of a first NACK
    MAX_EXP_BACKOFF, \* doublings of the stall (10 in the source)
    NoAccess      \* no access waiting to be retried

ASSUME numLines \in Nat \ {0}
ASSUME MaxTxns \in Nat
ASSUME Policies \subseteq {"LE", "EE"}

\* The longest stall a NACK sets.
MaxStall == BaseStall * 2^MAX_EXP_BACKOFF

TMState == {"TM_INVALID", "TM_RUNNING", "TM_NACKED", "TM_ABORTING", "TM_MARKABORT"}
AbortTypes == {"TM_ATYPE_DEFAULT", "TM_ATYPE_NONTM", "TM_ATYPE_USER", "TM_ATYPE_SYSCALL"}
AbortState == [aborterPid: Pids \cup {NoPid}, aborterUtid: (0..MaxTxns) \cup {INVALID_UTID},
               abortByAddr: Lines \cup {NoAddr}, abortType: AbortTypes]

VARIABLES
    state, utid, depth, abortState, restartPending,   \* TransState, per pid
    nextUtid,                                         \* global utid counter
    readers, writers,                                 \* line -> pids
    linesRead, linesWritten,                          \* pid -> lines
    policy,                                           \* "LE" | "EE"
    older,          \* pairs <<p, q>>: p's timestamp is below q's
    begunThisTick,  \* pids whose timestamp is the current globalClock
    stallLeft,      \* pid -> stallUntil - globalClock (below 0: not stalled)
    nackCount,      \* pid -> doublings of the stall so far
    pending         \* pid -> the NACKed access <<line, isWrite>>, or NoAccess

eeVars == <<older, begunThisTick, stallLeft, nackCount, pending>>

vars == <<state, utid, depth, abortState, restartPending, nextUtid,
          readers, writers, linesRead, linesWritten, policy, eeVars>>

-----------------------------------------------------------------------------
(* TransState                                                              *)

\* Mutant: the cleared aborter pid is 0 instead of -1.
clearedAbortZeroPid == [aborterPid |-> 0, aborterUtid |-> INVALID_UTID,
                        abortByAddr |-> NoAddr, abortType |-> "TM_ATYPE_DEFAULT"]

\* AbortState::clear
clearedAbort == [aborterPid |-> NoPid, aborterUtid |-> INVALID_UTID,
                 abortByAddr |-> NoAddr, abortType |-> "TM_ATYPE_DEFAULT"]

\* TransState::begin(newUtid) (timestamp is not observed by this policy)
tsBegin(p, newUtid) ==
    /\ state' = [state EXCEPT ![p] = "TM_RUNNING"]
    /\ utid' = [utid EXCEPT ![p] = newUtid]
    /\ depth' = [depth EXCEPT ![p] = 1]
    /\ abortState' = [abortState EXCEPT ![p] = clearedAbort]
    /\ restartPending' = [restartPending EXCEPT ![p] = FALSE]

\* TransState::commit: I(depth == 1)
tsCommit(p) ==
    /\ depth[p] = 1
    /\ state' = [state EXCEPT ![p] = "TM_INVALID"]
    /\ utid' = [utid EXCEPT ![p] = INVALID_UTID]
    /\ depth' = [depth EXCEPT ![p] = 0]
    /\ abortState' = [abortState EXCEPT ![p] = clearedAbort]
    /\ UNCHANGED restartPending

\* TransState::startAborting: depth is kept until completeAbort.
tsStartAborting(p) ==
    /\ state' = [state EXCEPT ![p] = "TM_ABORTING"]
    /\ UNCHANGED <<utid, depth, restartPending>>

\* Mutant: completeAbort does not set restartPending.
tsCompleteAbortNoRestart(p) ==
    /\ state[p] = "TM_ABORTING"
    /\ state' = [state EXCEPT ![p] = "TM_INVALID"]
    /\ utid' = [utid EXCEPT ![p] = INVALID_UTID]
    /\ depth' = [depth EXCEPT ![p] = 0]
    /\ UNCHANGED <<restartPending, abortState>>

\* TransState::completeAbort: I(state == TM_ABORTING)
tsCompleteAbort(p) ==
    /\ state[p] = "TM_ABORTING"
    /\ state' = [state EXCEPT ![p] = "TM_INVALID"]
    /\ utid' = [utid EXCEPT ![p] = INVALID_UTID]
    /\ depth' = [depth EXCEPT ![p] = 0]
    /\ restartPending' = [restartPending EXCEPT ![p] = TRUE]
    /\ UNCHANGED abortState

\* TransState::checkStall(globalClock): stallUntil >= clock.
checkStall(p) == stallLeft[p] >= 0

\* TransState::startNacking
startNacking(p) == state' = [state EXCEPT ![p] = "TM_NACKED"]

\* TransState::startStalling(globalClock + cycles)
startStalling(p, cycles) == stallLeft' = [stallLeft EXCEPT ![p] = cycles]

\* nackTrans: the requester is NACKed and stalls, the stall doubling with
\* each NACK up to MAX_EXP_BACKOFF times; the access is kept to be retried.
nackTrans(p, caddr, isWrite) ==
    /\ startNacking(p)
    /\ startStalling(p, BaseStall * 2^nackCount[p])
    /\ nackCount' = [nackCount EXCEPT ![p] =
                       IF @ < MAX_EXP_BACKOFF THEN @ + 1 ELSE @]
    /\ pending' = [pending EXCEPT ![p] = <<caddr, isWrite>>]
    /\ UNCHANGED <<older, begunThisTick>>

\* TransState::resumeAfterNack, called when a NACKed requester's retry
\* succeeds (a running requester is left as it is).
resumeAfterNack(q) == IF state[q] = "TM_NACKED" THEN "TM_RUNNING" ELSE state[q]

\* Mutant: the victim is recorded as its own aborter.
markAbortAllSelfBlame(victims, byPid, byUtid, caddr, type) ==
    /\ state' = [q \in Pids |-> IF q \in victims THEN "TM_MARKABORT"
                               ELSE IF q = byPid THEN resumeAfterNack(q)
                                    ELSE state[q]]
    /\ abortState' = [q \in Pids |->
                        IF q \in victims
                        THEN [aborterPid |-> q, aborterUtid |-> byUtid,
                              abortByAddr |-> caddr, abortType |-> type]
                        ELSE abortState[q]]

\* TransState::markAbort on every victim of one access, all with the same
\* cause; a NACKed requester whose retry succeeds resumes
\* (TransState::resumeAfterNack); the other pids are left alone.
markAbortAll(victims, byPid, byUtid, caddr, type) ==
    /\ state' = [q \in Pids |-> IF q \in victims THEN "TM_MARKABORT"
                               ELSE IF q = byPid THEN resumeAfterNack(q)
                                    ELSE state[q]]
    /\ abortState' = [q \in Pids |->
                        IF q \in victims
                        THEN [aborterPid |-> byPid, aborterUtid |-> byUtid,
                              abortByAddr |-> caddr, abortType |-> type]
                        ELSE abortState[q]]

-----------------------------------------------------------------------------
(* Line ownership                                                          *)

\* CacheLineState::abortExcept: the members other than `except`.
abortExcept(except, members) == members \ {except}

\* cacheOverflowed: the transaction already buffers numLines lines and
\* caddr is not one of them (equality, not >=).
cacheOverflowed(p, caddr) ==
    LET linesAccessed == linesRead[p] \cup linesWritten[p]
    IN Cardinality(linesAccessed) = numLines /\ caddr \notin linesAccessed

\* Mutant: the readers map is not cleaned.
clearFromRWListsKeepReaders(p) ==
    /\ UNCHANGED readers
    /\ writers' = [l \in Lines |-> writers[l] \ {p}]
    /\ linesRead' = [linesRead EXCEPT ![p] = {}]
    /\ linesWritten' = [linesWritten EXCEPT ![p] = {}]

\* clearFromRWLists: p leaves every line it read or wrote, and its sets
\* are emptied.
clearFromRWLists(p) ==
    /\ readers' = [l \in Lines |-> readers[l] \ {p}]
    /\ writers' = [l \in Lines |-> writers[l] \ {p}]
    /\ linesRead' = [linesRead EXCEPT ![p] = {}]
    /\ linesWritten' = [linesWritten EXCEPT ![p] = {}]

\* A transaction that ends drops its timestamp and any NACKed access (an
\* aborting one keeps its timestamp until completeAbort, but holds no line
\* and is never compared again).
releaseTrans(p) ==
    /\ older' = {e \in older : p \notin {e[1], e[2]}}
    /\ pending' = [pending EXCEPT ![p] = NoAccess]
    /\ nackCount' = [nackCount EXCEPT ![p] = 0]
    /\ UNCHANGED <<begunThisTick, stallLeft>>

\* abortTrans: the transaction starts aborting and releases its lines.
abortTrans(p) ==
    /\ tsStartAborting(p)
    /\ clearFromRWLists(p)
    /\ releaseTrans(p)

\* The live transactions, which carry a begin timestamp.
Timed == {q \in Pids : state[q] \in {"TM_RUNNING", "TM_NACKED", "TM_MARKABORT"}}

\* Mutant: equal timestamps make the requester yield too.
yieldsOnTie(p, holders) == policy = "EE" /\ \E q \in holders : <<p, q>> \notin older

\* TMEECoherence: the requester yields when a conflicting holder began at
\* an earlier globalClock; equal timestamps do not make it yield.
yields(p, holders) == policy = "EE" /\ \E q \in holders : <<q, p>> \in older

\* A running transaction accesses a line, or a NACKed one retries the
\* access it was refused.
mayAccess(p, caddr, isWrite) ==
    \/ state[p] = "TM_RUNNING"
    \/ state[p] = "TM_NACKED" /\ pending[p] = <<caddr, isWrite>>

\* An access that succeeds ends the NACK/retry sequence.
accessDone(p) ==
    /\ pending' = [pending EXCEPT ![p] = NoAccess]
    /\ nackCount' = [nackCount EXCEPT ![p] = 0]
    /\ UNCHANGED <<older, begunThisTick, stallLeft>>

-----------------------------------------------------------------------------
(* Entry points                                                            *)

begin(p) ==
    /\ state[p] = "TM_INVALID"
    /\ depth[p] = 0
    /\ nextUtid < MaxTxns
    /\ tsBegin(p, nextUtid)
    /\ nextUtid' = nextUtid + 1
    /\ older' = IF policy = "EE"
                THEN older \cup {<<q, p>> : q \in Timed \ begunThisTick}
                ELSE older
    /\ begunThisTick' = IF policy = "EE" THEN begunThisTick \cup {p} ELSE begunThisTick
    /\ UNCHANGED <<readers, writers, linesRead, linesWritten, stallLeft, nackCount, pending>>

\* An access by a transaction marked for abort returns ABORT and the
\* caller aborts it.
accessWhileMarked(p) ==
    /\ state[p] = "TM_MARKABORT"
    /\ abortTrans(p)
    /\ UNCHANGED <<abortState, nextUtid>>

\* An access to a new line by a transaction whose buffer is full aborts it,
\* with itself recorded as the cause.
accessOverflow(p, caddr) ==
    /\ state[p] = "TM_RUNNING"
    /\ cacheOverflowed(p, caddr)
    /\ abortTrans(p)
    /\ abortState' = [abortState EXCEPT ![p] =
                        [aborterPid |-> p, aborterUtid |-> utid[p],
                         abortByAddr |-> caddr, abortType |-> "TM_ATYPE_DEFAULT"]]
    /\ UNCHANGED nextUtid

\* myRead: abort the other writers of the line, then readTrans.
readSuccess(p, caddr) ==
    /\ mayAccess(p, caddr, FALSE)
    /\ ~cacheOverflowed(p, caddr)
    /\ LET victims == abortExcept(p, writers[caddr]) IN
         /\ ~yields(p, victims)
         /\ markAbortAll(victims, p, utid[p], caddr, "TM_ATYPE_DEFAULT")
         /\ writers' = [writers EXCEPT ![caddr] = @ \ victims]
         /\ readers' = [readers EXCEPT ![caddr] = @ \cup {p}]
         /\ linesRead' = [linesRead EXCEPT ![p] = @ \cup {caddr}]
    /\ accessDone(p)
    /\ UNCHANGED <<utid, depth, restartPending, nextUtid, linesWritten>>

\* Mutant: a write aborts the other writers but not the readers.
writeSuccessWritersOnly(p, caddr) ==
    /\ mayAccess(p, caddr, TRUE)
    /\ ~cacheOverflowed(p, caddr)
    /\ LET victims == abortExcept(p, writers[caddr]) IN
         /\ ~yields(p, victims)
         /\ markAbortAll(victims, p, utid[p], caddr, "TM_ATYPE_DEFAULT")
         /\ readers' = [readers EXCEPT ![caddr] = @ \ victims]
         /\ writers' = [writers EXCEPT ![caddr] = (@ \ victims) \cup {p}]
         /\ linesWritten' = [linesWritten EXCEPT ![p] = @ \cup {caddr}]
    /\ accessDone(p)
    /\ UNCHANGED <<utid, depth, restartPending, nextUtid, linesRead>>

\* myWrite: abort the other readers and writers of the line, then writeTrans.
writeSuccess(p, caddr) ==
    /\ mayAccess(p, caddr, TRUE)
    /\ ~cacheOverflowed(p, caddr)
    /\ LET victims == abortExcept(p, readers[caddr]) \cup abortExcept(p, writers[caddr]) IN
         /\ ~yields(p, victims)
         /\ markAbortAll(victims, p, utid[p], caddr, "TM_ATYPE_DEFAULT")
         /\ readers' = [readers EXCEPT ![caddr] = @ \ victims]
         /\ writers' = [writers EXCEPT ![caddr] = (@ \ victims) \cup {p}]
         /\ linesWritten' = [linesWritten EXCEPT ![p] = @ \cup {caddr}]
    /\ accessDone(p)
    /\ UNCHANGED <<utid, depth, restartPending, nextUtid, linesRead>>

\* The access conflicts with an older transaction: NACK the requester.
accessNack(p, caddr, isWrite) ==
    LET holders == IF isWrite THEN readers[caddr] \cup writers[caddr]
                              ELSE writers[caddr]
    IN /\ mayAccess(p, caddr, isWrite)
       /\ ~cacheOverflowed(p, caddr)
       /\ yields(p, abortExcept(p, holders))
       /\ nackTrans(p, caddr, isWrite)
       /\ UNCHANGED <<utid, depth, abortState, restartPending, nextUtid,
                      readers, writers, linesRead, linesWritten>>

read(p, caddr) ==
    \/ accessWhileMarked(p)
    \/ accessOverflow(p, caddr)
    \/ accessNack(p, caddr, FALSE)
    \/ readSuccess(p, caddr)

write(p, caddr) ==
    \/ accessWhileMarked(p)
    \/ accessOverflow(p, caddr)
    \/ accessNack(p, caddr, TRUE)
    \/ writeSuccess(p, caddr)

\* Mutant: commit does not look at the abort mark.
commitIgnoresMark(p) ==
    /\ state[p] \in {"TM_RUNNING", "TM_MARKABORT"}
    /\ tsCommit(p)
    /\ clearFromRWLists(p)
    /\ releaseTrans(p)
    /\ UNCHANGED nextUtid

\* commit: a running transaction commits and releases its lines; one
\* marked for abort gets ABORT and is aborted by the caller.
commit(p) ==
    \/ accessWhileMarked(p)
    \/ /\ state[p] = "TM_RUNNING"
       /\ tsCommit(p)
       /\ clearFromRWLists(p)
       /\ releaseTrans(p)
       /\ UNCHANGED nextUtid

\* abort: the user (or a system call) aborts the running transaction.
abort(p) ==
    /\ state[p] \in {"TM_RUNNING", "TM_MARKABORT"}
    /\ abortTrans(p)
    /\ UNCHANGED <<abortState, nextUtid>>

completeAbort(p) ==
    /\ tsCompleteAbort(p)
    /\ UNCHANGED <<nextUtid, readers, writers, linesRead, linesWritten, eeVars>>

\* Accesses outside a transaction abort the conflicting transactions but
\* are never refused themselves and are not recorded.
nonTMaccess(p, caddr, victims) ==
    /\ state[p] = "TM_INVALID"
    /\ markAbortAll(victims, p, utid[p], caddr, "TM_ATYPE_NONTM")
    /\ readers' = [readers EXCEPT ![caddr] = @ \ victims]
    /\ writers' = [writers EXCEPT ![caddr] = @ \ victims]
    /\ UNCHANGED <<utid, depth, restartPending, nextUtid, linesRead, linesWritten, eeVars>>

nonTMread(p, caddr) == nonTMaccess(p, caddr, abortExcept(p, writers[caddr]))

nonTMwrite(p, caddr) ==
    nonTMaccess(p, caddr, abortExcept(p, readers[caddr]) \cup abortExcept(p, writers[caddr]))

-----------------------------------------------------------------------------

Init ==
    /\ state = [p \in Pids |-> "TM_INVALID"]
    /\ utid = [p \in Pids |-> INVALID_UTID]
    /\ depth = [p \in Pids |-> 0]
    /\ abortState = [p \in Pids |-> clearedAbort]
    /\ restartPending = [p \in Pids |-> FALSE]
    /\ nextUtid = 0
    /\ readers = [l \in Lines |-> {}]
    /\ writers = [l \in Lines |-> {}]
    /\ linesRead = [p \in Pids |-> {}]
    /\ linesWritten = [p \in Pids |-> {}]
    /\ policy \in Policies
    /\ older = {}
    /\ begunThisTick = {}
    /\ stallLeft = [p \in Pids |-> -1]
    /\ nackCount = [p \in Pids |-> 0]
    /\ pending = [p \in Pids |-> NoAccess]

\* Every operation thread p can issue; a thread that checkStall reports
\* stalled issues none.
threadStep(p) ==
    /\ ~checkStall(p)
    /\ \/ begin(p)
       \/ commit(p)
       \/ abort(p)
       \/ completeAbort(p)
       \/ \E l \in Lines: read(p, l) \/ write(p, l) \/ nonTMread(p, l) \/ nonTMwrite(p, l)
    /\ UNCHANGED policy

\* globalClock advances: the transactions begun so far now have an older
\* timestamp than any begun later, and every stall shortens by a cycle.
\* Only the EE policy reads the clock.
clockTick ==
    /\ policy = "EE"
    /\ begunThisTick # {} \/ \E p \in Pids : checkStall(p)
    /\ begunThisTick' = {}
    /\ stallLeft' = [p \in Pids |-> IF checkStall(p) THEN stallLeft[p] - 1 ELSE -1]
    /\ UNCHANGED <<state, utid, depth, abortState, restartPending, nextUtid, readers,
                   writers, linesRead, linesWritten, policy, older, nackCount, pending>>

Next == clockTick \/ \E p \in Pids: threadStep(p)

\* The scheduler (ThreadContext::nextReady) visits every ready thread in
\* turn, so a thread that can issue an operation eventually does; the
\* simulator's clock never stops.
Fairness == WF_vars(clockTick) /\ \A p \in Pids: WF_vars(threadStep(p))

Spec == Init /\ [][Next]_vars /\ Fairness

\* A thread ends its transaction: it commits, or the user aborts it.
endTrans(p) == ~checkStall(p) /\ (commit(p) \/ abort(p)) /\ UNCHANGED policy

\* Every transaction of the simulated program is a finite instruction
\* sequence that reaches tm.commit or tm.abort whenever it runs
\* unNACKed often enough: a thread does not loop inside a transaction.
TxnsFinite == \A p \in Pids: SF_vars(endTrans(p))

LiveSpec == Spec /\ TxnsFinite

-----------------------------------------------------------------------------
(* Properties                                                              *)

Active == {"TM_RUNNING", "TM_NACKED", "TM_MARKABORT"}

\* Transactions that may still commit.
Live == {"TM_RUNNING", "TM_NACKED"}

TypeOK ==
    /\ state \in [Pids -> TMState]
    /\ utid \in [Pids -> (0..MaxTxns) \cup {INVALID_UTID}]
    /\ depth \in [Pids -> 0..1]
    /\ abortState \in [Pids -> AbortState]
    /\ restartPending \in [Pids -> BOOLEAN]
    /\ nextUtid \in 0..MaxTxns
    /\ readers \in [Lines -> SUBSET Pids]
    /\ writers \in [Lines -> SUBSET Pids]
    /\ linesRead \in [Pids -> SUBSET Lines]
    /\ linesWritten \in [Pids -> SUBSET Lines]
    /\ policy \in Policies
    /\ older \subseteq Pids \X Pids
    /\ begunThisTick \subseteq Pids
    /\ stallLeft \in [Pids -> -1..MaxStall]
    /\ nackCount \in [Pids -> 0..MAX_EXP_BACKOFF]
    /\ pending \in [Pids -> (Lines \X BOOLEAN) \cup {NoAccess}]

\* Eager conflict detection: whatever the interleaving of transactional
\* and non-transactional reads and writes, NACKs and retries, no line is
\* written by one live (running or NACKed) transaction while another
\* live transaction reads or writes it; the loser has always been marked
\* for abort.
NoLiveConflict ==
    \A l \in Lines: \A p, q \in Pids:
        (p # q /\ p \in writers[l] /\ q \in readers[l] \cup writers[l])
            => ~(state[p] \in Live /\ state[q] \in Live)

\* The ownership tracker only names live transactions, and agrees with
\* their own read/write sets; a committed or aborting transaction has
\* released every line (clearFromRWLists), even lines it was pruned from
\* by abortExcept earlier.
OwnershipConsistent ==
    /\ \A l \in Lines: \A p \in readers[l]: state[p] \in Active /\ l \in linesRead[p]
    /\ \A l \in Lines: \A p \in writers[l]: state[p] \in Active /\ l \in linesWritten[p]
    /\ \A p \in Pids: state[p] \notin Active => linesRead[p] \cup linesWritten[p] = {}

\* The abort cause a marked transaction will report names another thread
\* and a line the victim really accessed; a transactional aborter carries
\* a utid already handed out and, while that transaction is still live,
\* holds the line itself; a non-transactional
\* aborter carries INVALID_UTID.
AbortAttribution ==
    \A v \in Pids: state[v] = "TM_MARKABORT" =>
        LET a == abortState[v] IN
        /\ a.aborterPid \notin {v, NoPid}
        /\ a.abortByAddr \in linesRead[v] \cup linesWritten[v]
        /\ (a.abortType = "TM_ATYPE_NONTM") <=> (a.aborterUtid = INVALID_UTID)
        /\ a.abortType = "TM_ATYPE_DEFAULT" =>
             /\ a.aborterUtid < nextUtid
             /\ (utid[a.aborterPid] = a.aborterUtid /\ state[a.aborterPid] \in Active) =>
                  a.abortByAddr \in linesRead[a.aborterPid] \cup linesWritten[a.aborterPid]

\* A NACKed access is eventually performed, or its transaction aborted:
\* the stall runs out, and each retry either succeeds or meets an older
\* holder, and the older ones end.
PendingAccessCompletes ==
    \A p \in Pids: pending[p] # NoAccess ~> pending[p] = NoAccess

\* A transaction marked for abort by another thread is eventually rolled
\* back: its next operation aborts it and completeAbort returns it to
\* TM_INVALID with a restart pending.
MarkedAbortCompletes ==
    \A p \in Pids: state[p] = "TM_MARKABORT" ~> (state[p] = "TM_INVALID" /\ restartPending[p])

-----------------------------------------------------------------------------
(* Refinement: the manager implements atomic transactions (TMAtomic).      *)
(* A RUNNING or NACKED transaction is live, a MARKABORT one doomed, an ABORTING one *)
(* rolling back, any other idle;                                          *)
(* its footprint is its linesRead / linesWritten.                          *)

atomicStatus ==
    [p \in Pids |-> CASE state[p] \in Live        -> "live"
                      [] state[p] = "TM_MARKABORT" -> "doomed"
                      [] state[p] = "TM_ABORTING"  -> "rollback"
                      [] OTHER                     -> "idle"]

Atomic == INSTANCE TMAtomic WITH
    txStatus <- atomicStatus, footRead <- linesRead, footWritten <- linesWritten

\* Every behaviour of the eager requester-wins manager is one of TMAtomic:
\* conflict detection in myRead / myWrite / nonTM accesses never lets a
\* transaction commit while a live transaction it conflicts with
\* survives, a marked transaction never commits or runs again, and the
\* read and write sets grow only by the accesses made.
ImplementsAtomic == Atomic!Spec
=============================================================================
