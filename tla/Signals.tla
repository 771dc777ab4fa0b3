------------------------------ MODULE Signals -------------------------------
(***************************************************************************)
(* The signal state of one thread (src/src/libll/ThreadContext.h and      *)
(* ThreadContext.cpp): the signal mask sigMask, the queues maskedSig (held *)
(* back by the mask) and readySig (deliverable), and suspSig, set while    *)
(* the thread is suspended waiting for a signal.                           *)
(*                                                                         *)
(* Other threads send signals (signal), the thread changes its mask        *)
(* (setSignalMask, e.g. sigprocmask or a handler's return), suspends       *)
(* itself (suspend, e.g. sigsuspend) and takes the next ready signal for   *)
(* its handler (nextReadySignal).  A SigInfo is a record with the signal   *)
(* number and a serial number that tells apart two sends of one signal.  *)
(* SignalQueue is a vector: the model keeps its order, since              *)
(* setSignalMask's loops index into it.                                   *)
(***************************************************************************)
EXTENDS Naturals, Sequences, SequencesExt

CONSTANTS
    SignalIDs,    \* signal numbers
    MaxSends      \* bound on signals sent

ASSUME MaxSends \in Nat

VARIABLES
    sigMask,      \* SignalSet
    maskedSig,    \* SignalQueue
    readySig,     \* SignalQueue
    suspSig,
    sent,         \* history: signals sent so far (the serial of the last)
    delivered     \* history: serials taken by nextReadySignal

sigVars == <<sigMask, maskedSig, readySig, suspSig, sent, delivered>>

SigInfo == [serial: 1..MaxSends, signo: SignalIDs]

-----------------------------------------------------------------------------

\* resume(): I(suspSig); the thread runs again.
resume == suspSig' = FALSE

\* suspend(): I(!isSuspended()).
suspend ==
    /\ ~suspSig
    /\ suspSig' = TRUE
    /\ UNCHANGED <<sigMask, maskedSig, readySig, sent, delivered>>

\* signal(sigInfo): a masked signal is queued in maskedSig; any other goes
\* to readySig and resumes a suspended thread.
signal(signo) ==
    /\ sent < MaxSends
    /\ LET info == [serial |-> sent + 1, signo |-> signo] IN
         IF signo \in sigMask
         THEN /\ maskedSig' = Append(maskedSig, info)
              /\ UNCHANGED <<readySig, suspSig>>
         ELSE /\ readySig' = Append(readySig, info)
              /\ IF suspSig THEN resume ELSE UNCHANGED suspSig
              /\ UNCHANGED maskedSig
    /\ sent' = sent + 1
    /\ UNCHANGED <<sigMask, delivered>>

\* Mutant: the element is dropped with pop_back without first being
\* overwritten by the back one.
swapRemoveNoCopy(q, i) == SubSeq(q, 1, Len(q) - 1)

\* q[i]=q.back(); q.pop_back();
swapRemove(q, i) == SubSeq([q EXCEPT ![i] = q[Len(q)]], 1, Len(q) - 1)

\* One of setSignalMask's loops:
\*   for(i=0; i<from.size(); i++)
\*     if(the signal must leave `from`) { to.push_back(from[i]); remove i }
\* A signal stays in `from` when its number is in `stay`.  After a removal
\* the loop still moves on to i+1, past the element swapped into slot i.
RECURSIVE moveOut(_, _, _, _)
moveOut(from, to, i, stay) ==
    IF i > Len(from) THEN <<from, to>>
    ELSE IF from[i].signo \in stay
         THEN moveOut(from, to, i + 1, stay)
         ELSE moveOut(swapRemove(from, i), Append(to, from[i]), i + 1, stay)

\* Mutant: the resume test looks at readySig as it was before the loops.
setSignalMaskStaleCheck(newMask) ==
    LET unmask == moveOut(maskedSig, readySig, 1, newMask)
        remask == moveOut(unmask[2], unmask[1], 1, SignalIDs \ newMask)
    IN /\ sigMask' = newMask
       /\ readySig' = remask[1]
       /\ maskedSig' = remask[2]
       /\ IF readySig # <<>> /\ suspSig THEN resume ELSE UNCHANGED suspSig
       /\ UNCHANGED <<sent, delivered>>

\* setSignalMask(newMask): signals no longer masked move to readySig, then
\* signals now masked move back to maskedSig; a suspended thread with a
\* ready signal is resumed.
setSignalMask(newMask) ==
    LET unmask == moveOut(maskedSig, readySig, 1, newMask)
        remask == moveOut(unmask[2], unmask[1], 1, SignalIDs \ newMask)
    IN /\ sigMask' = newMask
       /\ readySig' = remask[1]
       /\ maskedSig' = remask[2]
       /\ IF readySig' # <<>> /\ suspSig THEN resume ELSE UNCHANGED suspSig
       /\ UNCHANGED <<sent, delivered>>

\* hasReadySignal()
hasReadySignal == readySig # <<>>

\* nextReadySignal(): the thread, while it runs, takes the signal at the
\* back of readySig for its handler.
nextReadySignal ==
    /\ ~suspSig
    /\ hasReadySignal
    /\ readySig' = SubSeq(readySig, 1, Len(readySig) - 1)
    /\ delivered' = delivered \cup {readySig[Len(readySig)].serial}
    /\ UNCHANGED <<sigMask, maskedSig, suspSig, sent>>

-----------------------------------------------------------------------------

\* The constructors: no mask, no queued signal, not suspended.
Init ==
    /\ sigMask = {}
    /\ maskedSig = <<>>
    /\ readySig = <<>>
    /\ suspSig = FALSE
    /\ sent = 0
    /\ delivered = {}

Next ==
    \/ \E s \in SignalIDs: signal(s)
    \/ \E m \in SUBSET SignalIDs: setSignalMask(m)
    \/ suspend
    \/ nextReadySignal

Spec == Init /\ [][Next]_sigVars

-----------------------------------------------------------------------------
(* Properties                                                              *)

\* No signal is lost or duplicated by the queue shuffling of signal and
\* setSignalMask: every signal sent and not yet handled sits exactly once
\* in exactly one of the two queues.
SignalsConserved ==
    LET queued == maskedSig \o readySig IN
    /\ IsInjective(queued)
    /\ {i.serial: i \in ToSet(queued)} = (1..sent) \ delivered

\* A step that makes a signal deliverable leaves the thread running: no
\* wakeup is lost when signal() or setSignalMask() fills readySig.
WakesOnReady ==
    [][ToSet(readySig') \ ToSet(readySig) # {} => ~suspSig']_sigVars

\* The queues agree with the mask after every step: readySig holds only
\* signals the mask lets through and maskedSig only signals it blocks.
MaskRespected ==
    /\ \A i \in 1..Len(readySig): readySig[i].signo \notin sigMask
    /\ \A i \in 1..Len(maskedSig): maskedSig[i].signo \in sigMask
=============================================================================
