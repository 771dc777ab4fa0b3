----------------------------- MODULE SkipInsts ------------------------------
(***************************************************************************)
(* The fast-forward driver ThreadContext::skipInsts(skipCount) and the    *)
(* thread life cycle it runs (src/src/libll/ThreadContext.cpp): each call *)
(* asks nextReady for a runnable thread, starting at pid 0, lets it       *)
(* execute up to a chunk of instructions (skipInst), and moves on to the  *)
(* next pid until skipCount instructions have run or no thread is         *)
(* runnable.  An instruction may be an ordinary one, or clone a new      *)
(* thread, suspend its thread, signal another thread, reap a zombie      *)
(* child, or exit.                                                         *)
(*                                                                         *)
(* nextReady's loop is the `iterate` step of NextReady, over the same     *)
(* pid2context table `ctx`; a slot becomes "null" when its thread is      *)
(* reaped and is taken again by the next thread created.  The table has   *)
(* Size slots: the slots past the end of pid2context are the "null"      *)
(* ones at its tail, so push_back is the first null slot.  The count     *)
(* branch of skipInsts (skipCount >= 0) is modelled; the fast-forward    *)
(* branch runs the same loop until a flag is cleared.                    *)
(***************************************************************************)
EXTENDS NextReady, FiniteSets

CONSTANTS
    SkipCount,    \* the argument of each call
    Chunk,        \* the per-thread slice (500 in the code)
    MaxCalls      \* calls the driver makes before the run ends

NoParent == -1

ASSUME SkipCount \in Nat /\ Chunk \in Nat \ {0} /\ MaxCalls \in Nat

VARIABLES
    parent,     \* parentID
    childIDs,   \* childIDs of each context
    tgid,       \* tgid: the thread-group leader's pid, -1 once exited
    tgtids,     \* tgtids: the other threads of the group of a leader
    phase,      \* "idle" (no call running), "next" (in nextReady), "run"
    nowPid,     \* skipInsts' nowPid
    skipped,    \* skipInsts' skipped
    nowSkip,    \* skipInsts' nowSkip
    calls       \* calls made so far

threadVars == <<parent, childIDs, tgid, tgtids>>
skipVars == <<threadVars, phase, nowPid, skipped, nowSkip, calls>>
allVars == <<vars, skipVars>>

-----------------------------------------------------------------------------
(* Thread life cycle                                                       *)

\* The lowest null slot: the constructors' search of pid2context.
freeSlot == CHOOSE s \in Slots: ctx[s] = "null" /\ \A r \in Slots: ctx[r] = "null" => s <= r

\* The clone constructor ThreadContext(parent, cloneParent, ..., cloneThread,
\* ...): a new ready context in the first free slot, the child of the
\* parent's parent (cloneParent) or of the parent, in the parent's thread
\* group (cloneThread, I(pid2context[tgid])) or leading a new one.
clone(p, cloneParent, cloneThread) ==
    /\ \E s \in Slots: ctx[s] = "null"
    /\ cloneThread => ctx[tgid[p]] # "null"
    /\ LET t == freeSlot
           par == IF cloneParent THEN parent[p] ELSE p
       IN /\ ctx' = [ctx EXCEPT ![t] = "ready"]
          /\ parent' = [parent EXCEPT ![t] = par]
          /\ tgid' = [tgid EXCEPT ![t] = IF cloneThread THEN tgid[p] ELSE t]
          /\ tgtids' = [s \in Slots |->
                          CASE s = t -> {}
                            [] cloneThread /\ s = tgid[p] -> tgtids[s] \cup {t}
                            [] OTHER -> tgtids[s]]
          /\ childIDs' = [s \in Slots |->
                            CASE s = t -> {}
                              [] s = par -> childIDs[s] \cup {t}
                              [] OTHER -> childIDs[s]]

\* Mutant: reap() leaves the pid in its parent's childIDs.
reapKeepChildID(c) ==
    /\ ctx' = [ctx EXCEPT ![c] = "null"]
    /\ UNCHANGED childIDs

\* reap(): the parent, if any, forgets the child and the slot is cleared.
reap(c) ==
    /\ ctx' = [ctx EXCEPT ![c] = "null"]
    /\ childIDs' = IF parent[c] # NoParent
                   THEN [childIDs EXCEPT ![parent[c]] = @ \ {c}]
                   ELSE childIDs

\* exit's thread-group branch: a thread that is not its group's leader
\* leaves the leader's tgtids and its tgid becomes -1.
leaveGroup(p) ==
    IF tgid[p] # p
    THEN /\ tgtids' = [tgtids EXCEPT ![tgid[p]] = @ \ {p}]
         /\ tgid' = [tgid EXCEPT ![p] = -1]
    ELSE UNCHANGED <<tgid, tgtids>>

\* Mutant: exit does not reap the children that already exited.
exitKeepZombies(p) ==
    /\ leaveGroup(p)
    /\ childIDs' = [childIDs EXCEPT ![p] = {}]
    /\ parent' = [c \in Slots |-> IF c \in childIDs[p] THEN NoParent ELSE parent[c]]
    /\ ctx' = [c \in Slots |->
                 IF c = p THEN (IF parent[p] = NoParent THEN "null" ELSE "exited")
                 ELSE ctx[c]]

\* exit(code): the thread is marked exited and leaves its group; every
\* child loses its parent and the children that already exited are
\* reaped; a thread without a parent is reaped at once, otherwise it
\* stays a zombie, still in its parent's childIDs.
exit(p) ==
    /\ leaveGroup(p)
    /\ childIDs' = [childIDs EXCEPT ![p] = {}]
    /\ parent' = [c \in Slots |-> IF c \in childIDs[p] THEN NoParent ELSE parent[c]]
    /\ ctx' = [c \in Slots |->
                 CASE c = p -> IF parent[p] = NoParent THEN "null" ELSE "exited"
                   [] c \in childIDs[p] /\ ctx[c] = "exited" -> "null"
                   [] OTHER -> ctx[c]]

\* suspend(): the thread waits for a signal.
suspend(p) ==
    /\ ctx' = [ctx EXCEPT ![p] = "suspended"]
    /\ UNCHANGED threadVars

\* signal(sigInfo) to a thread that has not exited: a masked signal is
\* queued; an unmasked one is made ready and resumes a suspended thread.
signal(q, masked) ==
    /\ ctx[q] \in {"ready", "suspended"}
    /\ ctx' = IF ~masked /\ ctx[q] = "suspended" THEN [ctx EXCEPT ![q] = "ready"] ELSE ctx
    /\ UNCHANGED threadVars

\* A wait in the parent: findZombieChild, the first exited pid of
\* childIDs (a std::set, so the lowest), and reap() of that child.
reapZombieChild(p) ==
    LET zombies == {c \in childIDs[p]: ctx[c] = "exited"} IN
    /\ zombies # {}
    /\ reap(CHOOSE c \in zombies: \A d \in zombies: c <= d)
    /\ UNCHANGED <<parent, tgid, tgtids>>

\* One instruction executed by thread p ((*iDesc)(this) in skipInst).
instruction(p) ==
    \/ UNCHANGED <<ctx, threadVars>>
    \/ \E cloneParent, cloneThread \in BOOLEAN: clone(p, cloneParent, cloneThread)
    \/ suspend(p)
    \/ \E q \in Slots \ {p}, masked \in BOOLEAN: signal(q, masked)
    \/ reapZombieChild(p)
    \/ exit(p)

-----------------------------------------------------------------------------
(* skipInsts                                                               *)

\* The head of while(skipped < skipCount): call nextReady(nowPid), or return.
loopHead(pid, count) ==
    IF count < SkipCount
    THEN /\ phase' = "next"
         /\ startPid' = pid
         /\ foundPid' = pid
         /\ done' = FALSE
    ELSE /\ phase' = "idle"
         /\ UNCHANGED <<startPid, foundPid, done>>

callSkipInsts ==
    /\ phase = "idle"
    /\ calls < MaxCalls
    /\ calls' = calls + 1
    /\ skipped' = 0
    /\ nowPid' = 0
    /\ loopHead(0, 0)
    /\ UNCHANGED <<ctx, threadVars, result, nowSkip>>

\* One iteration of nextReady's loop.
nextReadyStep ==
    /\ phase = "next"
    /\ iterate
    /\ UNCHANGED skipVars

\* Mutant: the last slice is not cut to the instructions still owed.
sliceNoClip == Chunk

\* The slice of a thread: at most Chunk, and no more than still owed.
slice == IF SkipCount - skipped < Chunk THEN SkipCount - skipped ELSE Chunk

\* nextReady returned: -1 ends the call; otherwise the thread gets a slice.
pickThread ==
    /\ phase = "next"
    /\ done
    /\ IF result = -1
       THEN /\ phase' = "idle"
            /\ UNCHANGED <<nowPid, nowSkip>>
       ELSE /\ phase' = "run"
            /\ nowPid' = result
            /\ nowSkip' = slice
    /\ UNCHANGED <<ctx, threadVars, startPid, foundPid, done, result, skipped, calls>>

\* while(nowSkip && context->skipInst()): one instruction of the thread.
runInstruction ==
    /\ phase = "run"
    /\ nowSkip > 0
    /\ ctx[nowPid] = "ready"
    /\ instruction(nowPid)
    /\ nowSkip' = nowSkip - 1
    /\ skipped' = skipped + 1
    /\ UNCHANGED <<startPid, foundPid, done, result, phase, nowPid, calls>>

\* The slice ends (used up, or the thread suspended or exited): nowPid++.
endSlice ==
    /\ phase = "run"
    /\ nowSkip = 0 \/ ctx[nowPid] # "ready"
    /\ nowPid' = nowPid + 1
    /\ loopHead(nowPid + 1, skipped)
    /\ UNCHANGED <<ctx, threadVars, result, skipped, nowSkip, calls>>

\* The driver has made its last call.
runOver ==
    /\ phase = "idle"
    /\ calls = MaxCalls
    /\ UNCHANGED allVars

SInit ==
    /\ ctx = [p \in Slots |-> IF p = 0 THEN "ready" ELSE "null"]
    /\ parent = [p \in Slots |-> NoParent]
    /\ childIDs = [p \in Slots |-> {}]
    /\ tgid = [p \in Slots |-> IF p = 0 THEN 0 ELSE -1]
    /\ tgtids = [p \in Slots |-> {}]
    /\ phase = "idle"
    /\ nowPid = 0
    /\ skipped = 0
    /\ nowSkip = 0
    /\ calls = 0
    /\ startPid = 0
    /\ foundPid = 0
    /\ done = FALSE
    /\ result = -1

SNext ==
    \/ callSkipInsts
    \/ nextReadyStep
    \/ pickThread
    \/ runInstruction
    \/ endSlice
    \/ runOver

\* The simulator is a single host thread: a running call always takes its
\* next step.
SSpec == SInit /\ [][SNext]_allVars
            /\ WF_allVars(nextReadyStep \/ pickThread \/ runInstruction \/ endSlice)

-----------------------------------------------------------------------------
(* Properties                                                              *)

\* skipInsts never runs more than skipCount instructions, and a call
\* returns with fewer only when nextReady found no runnable thread.
SkipsExactly ==
    /\ skipped + nowSkip <= SkipCount
    /\ (phase = "idle" /\ calls > 0 /\ skipped < SkipCount) =>
           \A p \in Slots: ctx[p] # "ready"

\* exit() and reap() leave no unreachable zombie: a thread that exited
\* and was not reaped still has a parent that has not exited, which can
\* reap it.
ZombiesHaveParent ==
    \A c \in Slots: ctx[c] = "exited" =>
        /\ parent[c] # NoParent
        /\ ctx[parent[c]] \in {"ready", "suspended"}

\* The two halves of the parent relation agree, as exit() and reap()
\* assert (I(childContext->parentID==pid), I(parent->childIDs.count(pid))):
\* the parentID of a context names a context that lists it in childIDs,
\* and every pid in a context's childIDs is a context whose parentID is
\* that context, across clones, exits, reaps and slot reuse.
ParentChildAgree ==
    /\ \A c \in Slots: (ctx[c] # "null" /\ parent[c] # NoParent) =>
           /\ ctx[parent[c]] # "null"
           /\ c \in childIDs[parent[c]]
    /\ \A p \in Slots: ctx[p] # "null" =>
           \A c \in childIDs[p]: ctx[c] # "null" /\ parent[c] = p

\* A thread that has not exited and is not its group's leader names, in
\* tgid, a leader that still exists and lists it in tgtids: what the
\* clone constructor and exit() assert (I(pid2context[tgid])) before
\* they update pid2context[tgid]->tgtids.
GroupLeaderPresent ==
    \A t \in Slots: (ctx[t] \in {"ready", "suspended"} /\ tgid[t] # t) =>
        /\ tgid[t] \in Slots
        /\ ctx[tgid[t]] # "null"
        /\ t \in tgtids[tgid[t]]

\* When nextReady returns to skipInsts, it returns the first runnable
\* thread in round-robin order from the pid it was given, or -1 when
\* there is none.
NextReadyChoosesFirst ==
    (phase = "next" /\ done) => result = firstReadyFrom(startPid % Size, Size)

\* nextReady returns whenever skipInsts calls it with the pid after the
\* thread that just ran (any pid but 0): its loop visits each slot once.
NextReadyReturns == (phase = "next" /\ startPid # 0) ~> done

\* Every call of skipInsts returns.
SkipReturns == (phase # "idle") ~> (phase = "idle")
=============================================================================
