----------------------------- MODULE NextReady ------------------------------
(***************************************************************************)
(* The scheduler's choice of the next thread to run:                       *)
(* ThreadContext::nextReady(startPid) (src/src/libll/ThreadContext.h),    *)
(* the loop that makes one thread's operation follow another's.  Each     *)
(* step of the model is one iteration of its do-while loop; the contexts  *)
(* of the pid2context table do not change while it runs.                  *)
(***************************************************************************)
EXTENDS Integers

CONSTANTS
    Size,        \* pid2context.size()
    StartPids    \* the values of startPid the callers pass

ASSUME Size \in Nat \ {0}
ASSUME StartPids \subseteq 0..Size

Slots == 0..(Size - 1)

\* pid2context[pid]: no context (NULL), or one that is suspended, exited
\* or ready to run.
ContextStates == {"null", "suspended", "exited", "ready"}

VARIABLES
    ctx,        \* pid2context
    startPid,   \* the argument
    foundPid,   \* the loop variable
    done,       \* the function has returned
    result      \* its return value: a pid or -1

vars == <<ctx, startPid, foundPid, done, result>>

\* Mutant: an exited context counts as ready.
isReadyIgnoringExit(c) == c \in {"exited", "ready"}

\* context && !context->isSuspended() && !context->isExited()
isReady(c) == c = "ready"

\* Mutant: the loop compares with startPid wrapped into the table, so a
\* scan that starts at Size never ends.
loopContinuesWrapped(f) == f # startPid % Size

\* The do-while condition foundPid != startPid.
loopContinues(f) == f # startPid

Init ==
    /\ ctx \in [Slots -> ContextStates]
    /\ startPid \in StartPids
    /\ foundPid = startPid
    /\ done = FALSE
    /\ result = -1

\* One iteration: wrap at the end of the table, return a ready pid, or
\* move on and return -1 once the loop is back at startPid.
iterate ==
    /\ ~done
    /\ LET f == IF foundPid = Size THEN 0 ELSE foundPid IN
         IF isReady(ctx[f])
         THEN /\ done' = TRUE
              /\ result' = f
              /\ UNCHANGED foundPid
         ELSE /\ foundPid' = f + 1
              /\ done' = ~loopContinues(f + 1)
              /\ result' = -1
    /\ UNCHANGED <<ctx, startPid>>

\* After the call returns the caller is done with it.
finished ==
    /\ done
    /\ UNCHANGED vars

Next == iterate \/ finished

Spec == Init /\ [][Next]_vars /\ WF_vars(iterate)

-----------------------------------------------------------------------------
(* Reference: the first ready pid in the round-robin order starting at    *)
(* startPid (startPid = Size stands for 0), or -1 if there is none.       *)

RECURSIVE firstReadyFrom(_, _)
firstReadyFrom(p, k) ==
    IF k = 0 THEN -1
    ELSE IF ctx[p % Size] = "ready" THEN p % Size
    ELSE firstReadyFrom((p + 1) % Size, k - 1)
=============================================================================
