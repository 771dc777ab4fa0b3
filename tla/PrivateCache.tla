---------------------------- MODULE PrivateCache ----------------------------
(***************************************************************************)
(* One set of the private, transaction-aware cache of one core:           *)
(* CacheAssocTM::findLine / findLine2Replace / count* and the            *)
(* PrivateCache::doFillLine / doLoad / doStore / doInvalidate handlers    *)
(* (src/src/libTM/PrivateCache.cpp).                                      *)
(*                                                                         *)
(* The array content[] of Line pointers of a set is modelled by the       *)
(* sequence of the lines themselves in slot order: slot 1 is the most    *)
(* recently used, slot Assoc the least.  Moving a pointer moves the line. *)
(* Sets are independent of each other, so one set is enough; an address  *)
(* is its tag (calcTag / calcIndex4Tag are not under src/).               *)
(*                                                                         *)
(* fail() ends the simulation: a handler that reaches it records the      *)
(* message in `failure` and no step is taken after it.                    *)
(***************************************************************************)
EXTENDS Naturals, FiniteSets, Sequences, SequencesExt

CONSTANTS
    Addrs,      \* line addresses (model values); more than Assoc of them
    Assoc,      \* associativity of the set
    NoTag       \* tag of an invalid line (model value)

ASSUME Assoc \in Nat \ {0}
ASSUME Cardinality(Addrs) > Assoc
ASSUME NoTag \notin Addrs

VARIABLES
    content,          \* the ways of the set, most recently used first
    isTransactional,  \* PrivateCache::isTransactional (and the cache's copy)
    failure,          \* "none", or the message of the fail() reached
    txWrites,         \* history: lines stored to in the running transaction
    signalled         \* history: the core was told of a conflict in it
                      \* (setConflict or tmInvalidateAborted)

vars == <<content, isTransactional, failure, txWrites, signalled>>

Line == [tag: Addrs \cup {NoTag}, dirty: BOOLEAN, trans: BOOLEAN]

\* Line::invalidate: the slot persists, its state is reset.
InvalidLine == [tag |-> NoTag, dirty |-> FALSE, trans |-> FALSE]

isValid(l) == l.tag # NoTag

-----------------------------------------------------------------------------
(* Set queries of CacheAssocTM                                             *)

countDirty == Quantify(1..Assoc, LAMBDA i: isValid(content[i]) /\ content[i].dirty)

countTransactional == Quantify(1..Assoc, LAMBDA i: isValid(content[i]) /\ content[i].trans)

countTransactionalDirty ==
    Quantify(1..Assoc, LAMBDA i: isValid(content[i]) /\ content[i].trans /\ content[i].dirty)

\* Mutant: the scan for a hit skips way 1 (the "most typical case" check
\* is lost).
findLineIdxSkipFirst(a) == SelectInSubSeq(content, 2, Assoc, LAMBDA l: l.tag = a)

\* Index of the way holding `a`, or 0 on a miss.
findLineIdx(a) == SelectInSeq(content, LAMBDA l: l.tag = a)

\* Mutant: the line is copied to the front but its old way is not closed up.
moveToFrontNoShift(i) == <<content[i]>> \o content

\* The line at way i is moved to way 1, the ways before it shift down by one.
moveToFront(i) == <<content[i]>> \o RemoveAt(content, i)

\* The least recently used of the given ways, or 0 if there is none.
oldest(ways) == IF ways = {} THEN 0 ELSE Max(ways)

chosen(i, msg) == [idx |-> i, err |-> IF i = 0 THEN msg ELSE "none"]

\* Mutant: findLine2Replace without the "every line is transactional and
\* dirty" fallback to the least recently used line.
findLine2ReplaceNoFallback ==
    LET free     == oldest({i \in 1..Assoc: ~isValid(content[i])})
        nonTrans == oldest({i \in 1..Assoc: ~content[i].trans})
        clean    == oldest({i \in 1..Assoc: ~content[i].dirty})
        T        == countTransactional
        D        == countDirty
    IN CASE free # 0 -> chosen(free, "none")
         [] ~isTransactional -> chosen(Assoc, "none")
         [] T = Assoc /\ D < Assoc -> chosen(clean, "Clean replacement policy failed")
         [] T < Assoc /\ D = Assoc -> chosen(nonTrans, "non-transactional replacement policy failed")
         [] T < Assoc /\ D < Assoc ->
                chosen(IF nonTrans # 0 THEN nonTrans ELSE clean, "Common replacement policy failed")
         [] OTHER -> chosen(0, "Non-accounted for case")

\* The way findLine2Replace picks, and the fail() message if it finds none.
findLine2Replace ==
    LET free     == oldest({i \in 1..Assoc: ~isValid(content[i])})
        nonTrans == oldest({i \in 1..Assoc: ~content[i].trans})
        clean    == oldest({i \in 1..Assoc: ~content[i].dirty})
        T        == countTransactional
        D        == countDirty
    IN CASE free # 0 -> chosen(free, "none")
         [] ~isTransactional \/ countTransactionalDirty = Assoc -> chosen(Assoc, "none")
         [] T = Assoc /\ D < Assoc -> chosen(clean, "Clean replacement policy failed")
         [] T < Assoc /\ D = Assoc -> chosen(nonTrans, "non-transactional replacement policy failed")
         [] T < Assoc /\ D < Assoc ->
                chosen(IF nonTrans # 0 THEN nonTrans ELSE clean, "Common replacement policy failed")
         [] OTHER -> chosen(0, "Non-accounted for case")

-----------------------------------------------------------------------------
(* PrivateCache handlers                                                   *)

\* The sanity checks doFillLine makes on the line it is about to evict.
fillChecks(v, a) ==
    CASE ~isValid(v) -> "none"
      [] isTransactional /\ v.trans /\ countTransactional < Assoc ->
            "evicted transactional line too early"
      [] isTransactional /\ v.trans /\ v.dirty /\ countDirty < Assoc ->
            "evicted transactional dirty line too early"
      [] v.tag = a -> "Replaced line matches tag"
      [] OTHER -> "none"

\* doFillLine reports a set conflict when it evicts a transactional dirty line.
setConflictOf(v) == isValid(v) /\ isTransactional /\ v.trans /\ v.dirty

\* Mutant: the line is made dirty but not marked transactional.
touchNoMark(l, store) == [l EXCEPT !.dirty = @ \/ store]

\* The update doLoad (store = FALSE) and doStore (store = TRUE) apply to
\* the line they found or filled.
touch(l, store) == [l EXCEPT !.trans = @ \/ isTransactional, !.dirty = @ \/ store]

noteAccess(a, store) ==
    txWrites' = IF isTransactional /\ store THEN txWrites \cup {a} ELSE txWrites

\* doLoad / doStore when findLine hits: the line moves to the front.
accessHit(a, store) ==
    /\ findLineIdx(a) # 0
    /\ content' = LET c == moveToFront(findLineIdx(a)) IN [c EXCEPT ![1] = touch(@, store)]
    /\ noteAccess(a, store)
    /\ UNCHANGED <<isTransactional, failure, signalled>>

\* doLoad / doStore on a miss: doFillLine picks a way with findLine2Replace
\* (which moves it to the front), checks it, invalidates and retags it.
doFillLine(a, store) ==
    LET r   == findLine2Replace
        c   == IF r.idx = 0 THEN content ELSE moveToFront(r.idx)
        err == IF r.err # "none" THEN r.err ELSE fillChecks(c[1], a)
    IN /\ findLineIdx(a) = 0
       /\ failure' = err
       /\ content' = IF err = "none"
                     THEN [c EXCEPT ![1] = touch([InvalidLine EXCEPT !.tag = a], store)]
                     ELSE content
       /\ signalled' = (signalled \/ (err = "none" /\ setConflictOf(c[1])))
       /\ noteAccess(a, store)
       /\ UNCHANGED isTransactional

doLoad(a) ==
    /\ failure = "none"
    /\ accessHit(a, FALSE) \/ doFillLine(a, FALSE)

doStore(a) ==
    /\ failure = "none"
    /\ accessHit(a, TRUE) \/ doFillLine(a, TRUE)

\* An invalidation from another core's write.  findLine moves the line to
\* the front before it is invalidated; a transactional line aborts this
\* core's transaction.  On a miss doInvalidate changes nothing.
doInvalidate(a) ==
    /\ failure = "none"
    /\ findLineIdx(a) # 0
    /\ LET c == moveToFront(findLineIdx(a)) IN
         /\ content' = [c EXCEPT ![1] = InvalidLine]
         /\ signalled' = (signalled \/ (isTransactional /\ c[1].trans))
    /\ UNCHANGED <<isTransactional, failure, txWrites>>

\* Entering and leaving transactional mode (PrivateCache.h, not under
\* src/): begin sets isTransactional; commit and abort clear it and the
\* transactional mark of every line.
startTransaction ==
    /\ failure = "none"
    /\ ~isTransactional
    /\ isTransactional' = TRUE
    /\ txWrites' = {}
    /\ signalled' = FALSE
    /\ UNCHANGED <<content, failure>>

endTransaction ==
    /\ failure = "none"
    /\ isTransactional
    /\ isTransactional' = FALSE
    /\ content' = [i \in 1..Assoc |-> [content[i] EXCEPT !.trans = FALSE]]
    /\ UNCHANGED <<failure, txWrites, signalled>>

-----------------------------------------------------------------------------

Init ==
    /\ content = [i \in 1..Assoc |-> InvalidLine]
    /\ isTransactional = FALSE
    /\ failure = "none"
    /\ txWrites = {}
    /\ signalled = FALSE

Next ==
    \/ \E a \in Addrs: doLoad(a) \/ doStore(a) \/ doInvalidate(a)
    \/ startTransaction
    \/ endTransaction

Spec == Init /\ [][Next]_vars

-----------------------------------------------------------------------------
(* Properties                                                              *)

TypeOK ==
    /\ content \in [1..Assoc -> Line]
    /\ isTransactional \in BOOLEAN
    /\ failure \in STRING
    /\ txWrites \in SUBSET Addrs
    /\ signalled \in BOOLEAN

\* No sequence of loads, stores, invalidations and transaction boundaries
\* drives findLine2Replace or doFillLine into one of their fail() calls:
\* the (transactional, dirty) case analysis of the replacement policy is
\* exhaustive for every reachable set, and the policy never picks a line
\* doFillLine's own checks reject.
NoFatal == failure = "none"

\* A tag is held by at most one valid way of the set: findLine's scan and
\* move-to-front, and doFillLine's retagging, never duplicate a line.
UniqueTags ==
    \A i, j \in 1..Assoc:
        (i # j /\ isValid(content[i])) => content[i].tag # content[j].tag

\* Atomicity of the cache's write buffering: while the core is inside a
\* transaction that has not been told of a conflict (no setConflict from
\* doFillLine, no tmInvalidateAborted from doInvalidate), every line it
\* stored to is still in the set, dirty and marked transactional.
WriteSetResident ==
    (isTransactional /\ ~signalled) =>
        \A a \in txWrites: \E i \in 1..Assoc:
            /\ content[i].tag = a
            /\ content[i].dirty
            /\ content[i].trans
=============================================================================
