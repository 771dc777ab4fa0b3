------------------------------ MODULE TMThread ------------------------------
(***************************************************************************)
(* The per-thread transactional layer of ThreadContext                     *)
(* (src/src/libll/ThreadContext.cpp: beginTransaction, commitTransaction,  *)
(* userAbortTM, abortTransaction, completeAbort) driving the coherence     *)
(* manager of TMCoherence.                                                  *)
(*                                                                         *)
(* The thread's position in its program is abstracted to `pc`:             *)
(*   "outside"  - not in a transaction (non-transactional accesses),      *)
(*   "inTx"     - between a successful begin and its commit,              *)
(*   "atBegin"  - abortTransaction moved the instruction pointer back to   *)
(*                the tm.begin instruction.                                *)
(* The tm.begin instruction itself (not under src/) calls completeAbort    *)
(* when the thread's transaction is aborting and beginTransaction          *)
(* otherwise; the program then decides again whether to start one.        *)
(* Memory instructions call read / write inside a transaction and unwind   *)
(* with abortTransaction on an ABORT verdict.                              *)
(***************************************************************************)
EXTENDS TMCoherence

CONSTANTS
    AbortArgs      \* arguments the program passes to userAbortTM

VARIABLES
    pc,            \* program position (see above)
    tmDepth,       \* ThreadContext::tmDepth
    tmContext,     \* ThreadContext::tmContext != NULL
    tmAbortArg,    \* ThreadContext::tmAbortArg
    tcFailure      \* "none", or the message of the fail() reached

threadVars == <<pc, tmDepth, tmContext, tmAbortArg, tcFailure>>
allVars == <<vars, threadVars>>

-----------------------------------------------------------------------------

\* Mutant: tmDepth is not reset on abort.
unwindToBeginKeepDepth(p) ==
    /\ pc' = [pc EXCEPT ![p] = "atBegin"]
    /\ tmContext' = [tmContext EXCEPT ![p] = FALSE]
    /\ UNCHANGED tmDepth

\* The unwinding of abortTransaction after htmManager->startAborting: the
\* saved contexts are dropped, tmDepth is reset and the instruction
\* pointer returns to the outermost tm.begin.
unwindToBegin(p) ==
    /\ pc' = [pc EXCEPT ![p] = "atBegin"]
    /\ tmContext' = [tmContext EXCEPT ![p] = FALSE]
    /\ tmDepth' = [tmDepth EXCEPT ![p] = 0]

\* abortTransaction, after its htmManager->startAborting (which the caller
\* performs: abortTrans, or nothing for a transaction the coherence
\* manager has already aborted): fails without a saved context, otherwise
\* unwinds to tm.begin.
abortTransaction(p) ==
    /\ tcFailure' = IF tmContext[p] THEN "none" ELSE "Abort fail: tmContext is NULL"
    /\ unwindToBegin(p)

\* Mutant: the nesting check is off by one.
nestingOpenOffByOne(p) == tmDepth[p] >= 0

\* The "Transaction nesting not complete" check of beginTransaction.
nestingOpen(p) == tmDepth[p] > 0

\* beginTransaction: a begin with a transaction still open is fatal, and
\* so is any status other than SUCCESS (with the requester-wins policy
\* begin always succeeds).  The program issues tm.begin outside a
\* transaction.
beginTransaction(p) ==
    /\ tcFailure = "none"
    /\ pc[p] = "outside"
    /\ IF nestingOpen(p)
       THEN /\ tcFailure' = "Transaction nesting not complete"
            /\ UNCHANGED <<vars, pc, tmDepth, tmContext, tmAbortArg>>
       ELSE /\ begin(p)
            /\ tcFailure' = "none"
            /\ tmAbortArg' = [tmAbortArg EXCEPT ![p] = 0]
            /\ tmContext' = [tmContext EXCEPT ![p] = TRUE]
            /\ tmDepth' = [tmDepth EXCEPT ![p] = @ + 1]
            /\ pc' = [pc EXCEPT ![p] = "inTx"]

\* The tm.begin instruction reached again after an abort: the transaction
\* is aborting, so it calls ThreadContext::completeAbort and the program
\* sees the abort.
completeAbortInstr(p) ==
    /\ tcFailure = "none"
    /\ pc[p] = "atBegin"
    /\ completeAbort(p)
    /\ pc' = [pc EXCEPT ![p] = "outside"]
    /\ UNCHANGED <<tmDepth, tmContext, tmAbortArg, tcFailure>>

\* A transactional load or store (readMemTM / writeMemTM, which need the
\* saved context); an ABORT verdict unwinds the thread.
accessTM(p, l, isWrite) ==
    /\ tcFailure = "none"
    /\ pc[p] = "inTx"
    /\ IF ~tmContext[p]
       THEN /\ tcFailure' = "tmContext is NULL"
            /\ UNCHANGED <<vars, pc, tmDepth, tmContext>>
       ELSE /\ IF isWrite THEN write(p, l) ELSE read(p, l)
            /\ IF state'[p] = "TM_ABORTING"
               THEN abortTransaction(p)
               ELSE UNCHANGED <<pc, tmDepth, tmContext, tcFailure>>
    /\ UNCHANGED tmAbortArg

\* The SUCCESS branch of commitTransaction: the context is popped (the
\* coherence depth is now 0, so tmContext becomes NULL) and tmDepth drops.
popContext(p) ==
    /\ tmContext' = [tmContext EXCEPT ![p] = depth'[p] > 0]
    /\ tmDepth' = [tmDepth EXCEPT ![p] = @ - 1]

\* commitTransaction: fails without an open transaction or saved context;
\* an ABORT verdict (the transaction was marked) unwinds with
\* abortTransaction; SUCCESS pops the context.
commitTransaction(p) ==
    /\ tcFailure = "none"
    /\ pc[p] = "inTx"
    /\ IF tmDepth[p] = 0 \/ ~tmContext[p]
       THEN /\ tcFailure' = "Commit fail"
            /\ UNCHANGED <<vars, pc, tmDepth, tmContext>>
       ELSE /\ commit(p)
            /\ IF state'[p] = "TM_ABORTING"
               THEN abortTransaction(p)
               ELSE /\ popContext(p)
                    /\ pc' = [pc EXCEPT ![p] = "outside"]
                    /\ UNCHANGED tcFailure
    /\ UNCHANGED tmAbortArg

\* markUserAbort / markSyscallAbort (HTMManager, not under src/): the
\* thread's own transaction is recorded as aborted by itself, with the type.
markSelfAbort(p, type) ==
    abortState' = [abortState EXCEPT ![p] =
                    [aborterPid |-> p, aborterUtid |-> utid[p],
                     abortByAddr |-> NoAddr, abortType |-> type]]

\* userAbortTM: the argument is recorded, the user abort is marked and
\* abortTransaction starts aborting the transaction.
userAbortTM(p, arg) ==
    /\ tcFailure = "none"
    /\ pc[p] = "inTx"
    /\ tmAbortArg' = [tmAbortArg EXCEPT ![p] = arg]
    /\ markSelfAbort(p, "TM_ATYPE_USER")
    /\ abortTrans(p)
    /\ abortTransaction(p)
    /\ UNCHANGED nextUtid

\* syscallAbortTM: a system call inside a transaction aborts it.
syscallAbortTM(p) ==
    /\ tcFailure = "none"
    /\ pc[p] = "inTx"
    /\ markSelfAbort(p, "TM_ATYPE_SYSCALL")
    /\ abortTrans(p)
    /\ abortTransaction(p)
    /\ UNCHANGED <<nextUtid, tmAbortArg>>

\* Loads and stores outside a transaction.
accessNonTM(p, l, isWrite) ==
    /\ tcFailure = "none"
    /\ pc[p] = "outside"
    /\ IF isWrite THEN nonTMwrite(p, l) ELSE nonTMread(p, l)
    /\ UNCHANGED threadVars

-----------------------------------------------------------------------------

TInit ==
    /\ Init
    /\ pc = [p \in Pids |-> "outside"]
    /\ tmDepth = [p \in Pids |-> 0]
    /\ tmContext = [p \in Pids |-> FALSE]
    /\ tmAbortArg = [p \in Pids |-> 0]
    /\ tcFailure = "none"

TNext ==
    /\ UNCHANGED policy
    /\ \E p \in Pids:
        \/ beginTransaction(p)
        \/ completeAbortInstr(p)
        \/ commitTransaction(p)
        \/ \E arg \in AbortArgs: userAbortTM(p, arg)
        \/ syscallAbortTM(p)
        \/ \E l \in Lines, isWrite \in BOOLEAN:
              accessTM(p, l, isWrite) \/ accessNonTM(p, l, isWrite)

TSpec == TInit /\ [][TNext]_allVars

-----------------------------------------------------------------------------
(* Properties                                                              *)

\* None of the fail() calls on ThreadContext's transactional paths is
\* reached: begin is never issued with a transaction still open, and
\* commit and abort always find the saved context they unwind.
NoThreadFatal == tcFailure = "none"

\* The thread layer and the coherence manager agree on every thread:
\* it is inside a transaction (tmDepth 1, a saved context) exactly while
\* its TransState is running or marked; after abortTransaction it sits at
\* tm.begin while the coherence manager is still aborting it (its
\* coherence depth stays 1 until completeAbort).
LayersAgree ==
    \A p \in Pids:
        /\ (pc[p] = "inTx") <=> (state[p] \in Active)
        /\ (pc[p] = "atBegin") <=> (state[p] = "TM_ABORTING")
        /\ tmDepth[p] = (IF pc[p] = "inTx" THEN 1 ELSE 0)
        /\ tmContext[p] = (pc[p] = "inTx")
        /\ depth[p] = (IF pc[p] = "outside" THEN 0 ELSE 1)
=============================================================================
