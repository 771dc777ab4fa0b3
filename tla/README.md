# TLA+ models of the sesc HTM core

These modules model the hardware-transactional-memory (HTM) core of the
simulator, as found in `src/`. The core has three parts:

- the per-core **private cache** (`src/src/libTM/PrivateCache.cpp`);
- the **transactional coherence manager** (`src/src/libTM/TMCoherence.h`,
  `HTMManager.h`);
- the thread layer that drives them (`src/src/libll/ThreadContext.{h,cpp}`).

Next to the core, the thread layer's scheduler, signal queues and guest
memory routines are modelled as well, since the HTM runs on top of them.

Every definition that models code is listed in `PROJECT.json` ("map") with
the source lines it translates. Runs, mutants, findings and hazards are
listed there as well.

## 1. The system

### Parts

| Part | Source | State | Operations |
|---|---|---|---|
| CacheAssocTM set | PrivateCache.cpp 14-281 | the ways of a set (`Line*` array, MRU first), each line's tag / dirty / transactional bits | `findLine` (scan, move to front), `findLine2Replace` (free, LRU, clean, non-transactional tiers, five `fail()`s), `countDirty/Transactional/TransactionalDirty` |
| PrivateCache | PrivateCache.cpp 283-398 | the set, `isTransactional` | `doFillLine` (eviction checks, `setConflict`), `doLoad`, `doStore`, `doInvalidate` (`tmInvalidateAborted`) |
| TransState / AbortState | TMCoherence.h 71-178 | per pid: state (INVALID, RUNNING, NACKED, ABORTING, MARKABORT), utid, depth, restartPending, stall deadline, abort cause | `begin`, `commit`, `startAborting`, `completeAbort`, `markAbort`, `clear`, nesting and NACK helpers |
| Line ownership | TMCoherence.h 27-70, HTMManager.h 127-130 | readers/writers per line, linesRead/linesWritten per pid | `abortExcept`, `clearFromRWLists`, `cacheOverflowed` |
| Coherence policies | TMCoherence.h 245-510 | policy-specific queues, gates, counters | `myRead/myWrite/myBegin/myCommit/myAbort`, declarations only |
| ThreadContext TM layer | ThreadContext.cpp 60-230, ThreadContext.h 248-255, 468-500 | tmDepth, tmContext (saved-context chain), tmAbortArg, the instruction pointer | `beginTransaction`, `commitTransaction`, `userAbortTM`, `syscallAbortTM`, `abortTransaction`, `completeAbort`, `readMemTM/writeMemTM`, `getAbortRV` |
| Scheduler | ThreadContext.h 434-446 | pid2context | `nextReady(startPid)` |
| Thread life cycle and fast-forward | ThreadContext.cpp 255-351, 388-527 | per thread: suspended / exited flags, parentID, childIDs, tgid, tgtids; the driver's `skipped`, `nowPid`, `nowSkip` | the root and clone constructors, `suspend`, `signal`/`resume`, `exit`, `reap`, `findZombieChild`, `skipInsts` |
| Signal queues | ThreadContext.h 568-597, ThreadContext.cpp 397-421 | per thread: `sigMask`, `maskedSig`, `readySig` (vectors), `suspSig` | `signal`, `setSignalMask`, `suspend`, `resume`, `nextReadySignal` |
| Guest memory routines | ThreadContext.cpp 529-664 | the loop locals `addr`, `len`, `byteBuf`, `wrSiz`, `i` | `writeMemFromBuf`, `readMemToBuf`, `writeMemWithByte`, `readMemString` |

### How the parts interact

The emulator executes one instruction of one thread at a time. The
scheduler picks the thread with `nextReady`, round-robin over the threads
that are neither suspended nor exited.

- A `tm.begin` instruction calls `ThreadContext::beginTransaction`, which
  calls the manager's `begin` and saves a context.
- A transactional load or store goes through the manager's `read`/`write`,
  which reports `SUCCESS`, `NACK` or `ABORT`.
- The requester-wins policy marks every conflicting transaction
  `MARKABORT`, recording the requester as the cause. It removes the victims
  from the line and records the requester.
- Under the older-wins policy (EE) a requester that conflicts with an
  older transaction (an earlier begin `globalClock`) is NACKed instead:
  `startNacking`, a stall until `globalClock + base*2^n` (n capped at
  `MAX_EXP_BACKOFF`), and a retry of the same access once `checkStall`
  is false. Conflicting younger transactions are marked as under LE.
- A victim learns of its abort on its next operation. The manager answers
  `ABORT`, and the thread calls `abortTransaction`, which runs
  `startAborting`, drops the context and jumps back to `tm.begin`.
- There, `completeAbort` returns the record to INVALID with a restart
  pending.
- `getAbortRV` encodes the cause for the simulated program.
- The private cache of each core keeps transactional lines. A forced
  eviction of one is reported as a set conflict, and an invalidation by
  another core is reported through `tmInvalidateAborted`. Both are
  reasons for the manager to abort the transaction.

### Hard behaviours

- Interleaved accesses of several threads to shared lines.
- Victims marked by several requesters in turn.
- NACK, stall and retry racing the older holder's commit or abort, ties
  between transactions begun in the same cycle, and a NACKed transaction
  marked for abort while it stalls.
- The window between `startAborting` and `completeAbort`, during which
  the manager's depth is still 1 but the thread has no context.
- Capacity: a transaction's buffer is full, or a cache set is full of
  transactional dirty lines.
- Bit-level encoding of the abort value.
- Termination of the scheduler's search.
- Signals moved between the masked and ready queues while the vector is
  being iterated, and a wakeup that must not be lost.
- Alignment and page boundaries in the memory copy loops.

## 2. Modules

| Module | Models | State (VARIABLES) | Actions |
|---|---|---|---|
| `PrivateCache` | one set of one core's private cache | `content` (sequence of lines, MRU first), `isTransactional`, `failure` (message of the `fail()` reached), history `txWrites`, `signalled` | `doLoad`, `doStore` (each a hit or a `doFillLine`), `doInvalidate`, `startTransaction`, `endTransaction` |
| `TMCoherence` | the coherence manager with the eager requester-wins (LE) and older-wins NACKing (EE) policies, chosen at start | `state`, `utid`, `depth`, `abortState`, `restartPending`, `nextUtid`, `readers`, `writers`, `linesRead`, `linesWritten`, `policy`; for EE `older` (timestamp order of live transactions), `begunThisTick`, `stallLeft` (stallUntil − globalClock), `nackCount`, `pending` (the NACKed access) | per thread, when not stalled: `begin`, `read`, `write` (each `accessWhileMarked`, `accessOverflow`, `accessNack` or a success, which may be a retry), `commit`, `abort`, `completeAbort`, `nonTMread`, `nonTMwrite`; and `clockTick` |
| `TMThread` | ThreadContext's transactional layer composed with `TMCoherence` (EXTENDS it) | the coherence variables plus `pc` (outside / inTx / atBegin), `tmDepth`, `tmContext`, `tmAbortArg`, `tcFailure` | `beginTransaction`, `completeAbortInstr`, `accessTM`, `commitTransaction`, `userAbortTM`, `syscallAbortTM`, `accessNonTM` |
| `AbortRV` | `getAbortRV` as a 32-bit vector, and a decoder of the layout its comments describe | the inputs `tmAbortArg`, `aborterPid`, `abortType` | none (the inputs are enumerated in Init) |
| `NextReady` | `nextReady`, one step per loop iteration, and a RECURSIVE reference definition `firstReadyFrom` | `ctx`, `startPid`, `foundPid`, `done`, `result` | `iterate`, `finished` |
| `TMAtomic` | the abstract promise of any TM policy: committed transactions are conflict-serializable | `txStatus` (idle / live / doomed / rollback), `footRead`, `footWritten` | `Begin`, `Access`, `Abort`, `RollbackDone`, `Commit`, `NonTMAccess` |
| `Signals` | one thread's signal state | `sigMask`, `maskedSig`, `readySig` (sequences of records with signal number and serial), `suspSig`, histories `sent`, `delivered` | `signal`, `setSignalMask` (two RECURSIVE swap-and-pop loops `moveOut`), `suspend`, `nextReadySignal` |
| `MemAccess` | the guest memory copy routines, one call at a time, one step per loop iteration | `pc`, `routine`, the call's `start`/`total`, the loop locals, history `accesses` (address, size, buffer offset of each raw access); for strings `mem`, `readable`, `maxSize`, `i`, `dst`, `ret` | `writeMemFromBuf`, `readMemToBuf`, `writeMemWithByte`, `readMemString`, `copyStep`, `copyReturn`, `fillStep`, `fillReturn`, `stringStep`, `callReturn` |
| `SkipInsts` | the count branch of `skipInsts` and the life cycle of the threads it runs (EXTENDS `NextReady`) | the `NextReady` variables plus `parent`, `childIDs`, `tgid`, `tgtids`, `phase` (idle / next / run), `nowPid`, `skipped`, `nowSkip`, `calls` | `callSkipInsts`, `nextReadyStep`, `pickThread`, `runInstruction` (an ordinary instruction, `clone` into the first free slot, `suspend`, `signal`, `reapZombieChild` or `exit`), `endSlice`, `runOver` |

Each `MC_*` module instantiates one of these for TLC. It supplies model
values for pids, lines and addresses, the symmetry sets, and the input
sets that a cfg cannot write, such as negative pids.

### Modelling choices

- **`fail()`.** A `fail()` ends the simulation. The handler that reaches
  it records the message in a failure variable, and every action is
  disabled afterwards. Each "no fatal error" invariant is checked on that
  variable. The failing branches are therefore `IF` branches inside the
  actions, never separate disjuncts of Next.
- **An operation and the caller's reaction are one step.** An entry point
  of the manager and the reaction of its caller to the verdict are one
  atomic step. For example, `commit` returning ABORT is followed at once by
  `abortTransaction`. This matches the source: the simulator completes one
  thread's instruction before the next one starts (spec §5).
- **Ownership lists are sets.** The `std::list` readers/writers of
  `CacheLineState` are modelled as sets, as in `HTMManager.h`. Arrival
  order matters only to the FIFO policies, which are not modelled.
- **Time is relative.** `globalClock` is not a variable. EE only
  compares begin timestamps and tests `stallUntil >= globalClock`, so
  the model keeps the order of the live timestamps (`older`, with ties
  for begins in the same cycle) and each stall's remaining cycles;
  `clockTick` advances the clock by one cycle. A thread whose stall has
  not run out issues nothing. `BaseStall` and `MAX_EXP_BACKOFF` are
  constants (1 and 1 in the runs; 10 doublings in the source).
- **Code not under `src/`.** Only declarations of the manager's
  entry-point bodies (`TMCoherence.cpp`) and of the cache line type are
  under `src/`. These are modelled from the design and marked
  `spec_modelled` in the map. The `TransState`, `AbortState`,
  `CacheLineState::abortExcept` and `cacheOverflowed` code they call *is*
  under `src/` and is translated from it.
- **Refinement.** `TMCoherence` ends with a refinement mapping to
  `TMAtomic`: RUNNING and NACKED are live, MARKABORT is doomed, ABORTING is rollback
  and every other state is idle; the footprints are `linesRead` and
  `linesWritten`. `ImplementsAtomic == Atomic!Spec` is checked as a
  PROPERTY. The abstract spec lets any step doom live transactions, but a
  commit must not conflict with another live one, a non-transactional
  access must doom every live transaction it conflicts with (strong
  isolation), and a doomed transaction can only roll back.
- **Signal vectors keep their order.** `setSignalMask` indexes into the
  `std::vector`s and removes by swapping the back element in, so the
  queues are sequences and each signal carries a serial number that tells
  two sends of one signal apart.
- **Memory routines record their raw accesses.** The data bytes are left
  out; each `readMemRaw`/`writeMemRaw` is recorded with its address, size
  and offset in the host buffer. `AddressSpace` is not under `src/`: the
  page size is a constant and `canRead` is "below a readable limit".
- **Integer width in `getAbortRV`.** `getAbortRV` computes a `uint32_t`,
  so it is modelled bit by bit. A shift keeps its width, and pid −1
  sign-extends over the whole upper field.

## 3. Runs

| Run | Cfg | Checks | Result |
|---|---|---|---|
| `pc_safety` | `MC_PrivateCache.cfg` | `TypeOK`, `NoFatal`, `UniqueTags`, `WriteSetResident` | pass, 1,240 states |
| `coh_safety` | `MC_TMCoherence.cfg` | `TypeOK`, `NoLiveConflict`, `OwnershipConsistent`, `AbortAttribution`, `ImplementsAtomic` | pass, ~253k states |
| `coh_live` | `MC_TMCoherence_live.cfg` | `NoLiveConflict`, `ImplementsAtomic`, `MarkedAbortCompletes`, `PendingAccessCompletes`, both policies | pass, ~150k states |
| `thread_safety` | `MC_TMThread.cfg` | `NoThreadFatal`, `LayersAgree` | pass, ~2.8k states |
| `abortrv` | `MC_AbortRV.cfg` | `AbortRVDecodes` | pass, 118 states |
| `abortrv_wide` | `MC_AbortRV_wideArg.cfg` | `AbortRVDecodes` | **violation** |
| `skip_safety` | `MC_SkipInsts.cfg` | `SkipsExactly`, `ZombiesHaveParent`, `ParentChildAgree`, `NextReadyChoosesFirst`, `NextReadyReturns` | pass, ~64k states |
| `skip_returns` | `MC_SkipInsts_returns.cfg` | `SkipReturns` | **violation** |
| `skip_group` | `MC_SkipInsts_group.cfg` | `GroupLeaderPresent` | **violation** |
| `signals` | `Signals.cfg` | `SignalsConserved`, `WakesOnReady` | pass, 1,256 states |
| `signals_mask` | `Signals_mask.cfg` | `MaskRespected` | **violation** |
| `mem_access` | `MC_MemAccess.cfg` | `RawAccessSafe`, `TypeOK`, `CopiesExactly`, `StringReadCorrect`, `CallsReturn` | pass, ~7.7k states |

### What the properties say

- **`NoFatal`.** No sequence of loads, stores, invalidations and
  transaction boundaries drives `findLine2Replace` or `doFillLine` into a
  `fail()`. In other words, the replacement tiers are exhaustive and agree
  with the eviction checks.
- **`UniqueTags`.** The move-to-front shifting of `findLine` and
  `findLine2Replace` never duplicates a line.
- **`WriteSetResident`.** While a transaction has not been signalled a
  conflict, every line it stored to is resident, dirty and transactional.
  This is the atomicity guarantee the replacement policy exists for.
- **`NoLiveConflict`.** No line is written by one live (RUNNING or
  NACKED) transaction while another live transaction reads or writes it.
- **`PendingAccessCompletes`** (liveness). A NACKed access is eventually
  performed or its transaction aborted: backoff with retries neither
  starves nor livelocks, given that transactions end.
- **`OwnershipConsistent`.** The tracker names only live transactions, and
  agrees with their read and write sets. A finished transaction has
  released every line, including lines `abortExcept` pruned it from
  earlier.
- **`AbortAttribution`.** A MARKABORT victim's recorded cause names
  another thread and a line the victim holds. A transactional aborter has
  a utid already issued and, while it is live, holds the line. A
  non-transactional aborter has `INVALID_UTID`.
- **`MarkedAbortCompletes`.** A marked transaction is eventually back at
  INVALID with `restartPending` (liveness).
- **`NoThreadFatal`.** None of ThreadContext's transactional `fail()`s is
  reached.
- **`LayersAgree`.** The thread layer and the manager agree about every
  thread:
  - `tmDepth` and `tmContext` are set exactly while the TransState is
    RUNNING or MARKABORT;
  - after an abort the thread sits at `tm.begin` while the manager is
    ABORTING with depth still 1.
- **`AbortRVDecodes`.** The abort value reads back as its comments lay
  it out:
  - bit 0 is set, and the reserved byte holds only the type bits;
  - the type and the signed aborter pid (bits 12-31) are recovered;
  - an argument below 16 is recovered from bits 8-11.

  The inputs are those the code can pair: a non-zero argument exists only
  after `userAbortTM`, so it comes with a user abort and a real pid.
- **`ImplementsAtomic`.** Every behaviour of the manager with the
  requester-wins policy, seen through the refinement mapping, is a
  behaviour of `TMAtomic`: no commit while a conflicting transaction is
  live, strong isolation for non-transactional accesses, and no marked
  transaction that commits.
- **`NextReadyChoosesFirst`** and **`NextReadyReturns`.** Inside
  `skipInsts`, `nextReady` returns what the round-robin reference
  `firstReadyFrom` says, and a call with a start pid other than 0 always
  returns.
- **`SkipsExactly`.** A call of `skipInsts` never runs more than
  `skipCount` instructions, and returns with fewer only when no thread is
  runnable.
- **`ZombiesHaveParent`.** After any sequence of exits, reaps, suspends
  and signals, every exited thread not yet reaped has a parent that has
  not exited and can still reap it.
- **`ParentChildAgree`.** `parentID` and the parent's `childIDs` agree
  after any sequence of clones (as a child or as a sibling), exits,
  reaps and reuse of a freed slot. This is what `exit` and `reap` assert
  before they use either side.
- **`GroupLeaderPresent`.** A running thread that is not its group's
  leader has a `tgid` naming a context that exists and lists it in
  `tgtids`. `exit` and the clone constructor assert this
  (`I(pid2context[tgid])`).
- **`SkipReturns`.** Every call of `skipInsts` returns (liveness).
- **`SignalsConserved`.** Every signal sent and not yet handled is in
  exactly one of `maskedSig` and `readySig`, exactly once.
- **`WakesOnReady`** (action property). A step that adds a signal to
  `readySig` leaves the thread not suspended: no wakeup is lost.
- **`MaskRespected`.** `readySig` holds only signals the mask lets
  through, and `maskedSig` only signals it blocks.
- **`RawAccessSafe`.** Every raw access of the copy loops is aligned to
  its size, lies in one page (the raw accessors check only the first
  byte's page) and stays inside the host buffer.
- **`CopiesExactly`.** When a copy routine returns, its accesses covered
  `[addr, addr+len)` in order with no byte twice, and a buffer copy moved
  buffer byte k to or from `addr+k`.
- **`StringReadCorrect`.** `readMemString` returns -1 exactly when an
  unreadable cell comes before the first NUL, and otherwise the length
  with the NUL. `dstStr` holds the bytes read, never past `maxSize`.
- **`CallsReturn`.** Every memory routine returns (liveness).

### Findings

1. **`abortrv_wide`.** `getAbortRV` shifts the user's abort argument to
   bit 8 and the aborter pid to bit 12, and `userAbortTM` accepts any
   32-bit argument. An argument of 16 or more reaches the pid field. TLC
   shows a user abort of pid 0 with argument 16, which reads back as
   aborter pid 1. The code's comments say the aborter pid is set in the
   upper bits.
2. **`skip_returns`, at `ThreadContext.h:443`.** `nextReady(0)` never
   returns when no thread is runnable. `foundPid` wraps to 0 only at the
   top of the loop and is incremented before the `foundPid != startPid`
   test, so it never equals 0 there. Every `startPid` in 1..Size returns
   (`NextReadyReturns`).
3. **`skip_returns`, at `ThreadContext.cpp:511`.** `skipInsts` starts
   each call with `nowPid = 0` (`ThreadContext.cpp:491`) and calls
   `nextReady(nowPid)` at line 511. Once every thread has exited or
   suspended, the next call hangs in `nextReady(0)` instead of returning
   the instructions skipped, which the `nowPid == -1` branch at line 512
   is there for. TLC shows all threads exiting and the second call never
   returning.
4. **`signals_mask`.** `setSignalMask` (`ThreadContext.h:574`) removes
   element i by copying the back element into slot i and popping the
   back, then continues with i+1. The element moved into slot i is never
   examined. TLC shows two ready signals s1 and then `setSignalMask({s1})`:
   one s1 stays in `readySig` although it is masked, and is delivered.
5. **`skip_group`, at `ThreadContext.cpp:436`.** The exit of a
   thread-group leader does not wait for the other threads of its group.
   A leader without a parent is reaped at once; one with a parent is
   reaped when the parent waits. The other threads keep `tgid` naming the
   freed slot. TLC shows the root thread cloning a thread into its group
   and exiting: slot 0 becomes NULL while thread 1, with `tgid` 0, still
   runs. Thread 1's own `exit` then fails `I(pid2context[tgid])` at line
   436, or in a build without checks writes through a NULL pointer. A
   CLONE_THREAD clone by thread 1 hits the same assertion at line 339. If
   the slot has been reused, either call updates the `tgtids` of an
   unrelated thread.

### Mutants

Each property of a passing run is paired with a mutant of a mapped
definition, a plausible bug in that code, and TLC finds the property
violated with the mutant in place:

| Property | Mutant |
|---|---|
| `TypeOK` | no gap-closing in move-to-front |
| `NoFatal` | the "all transactional and dirty" fallback is dropped |
| `UniqueTags` | the first way is skipped when searching for a hit |
| `WriteSetResident` | the transactional mark is not set on a store |
| `NoLiveConflict` | a write aborts only the other writers |
| `OwnershipConsistent` | readers are not cleared on abort or commit |
| `AbortAttribution` | a victim is recorded as its own aborter |
| `MarkedAbortCompletes` | `completeAbort` without `restartPending` |
| `PendingAccessCompletes` | equal timestamps make the requester yield (two same-cycle transactions NACK each other for ever) |
| `NoLiveConflict`, `ImplementsAtomic` (`coh_live`) | the same mutants as in `coh_safety` |
| `AbortRVDecodes` | the pid is shifted to bit 8 |
| `NoThreadFatal` | the nesting check is off by one |
| `LayersAgree` | `tmDepth` is not reset on abort |
| `ImplementsAtomic` | `commit` ignores the MARKABORT mark |
| `NextReadyChoosesFirst` | exited threads count as ready |
| `NextReadyReturns` | the loop compares with `startPid % Size` |
| `SkipsExactly` | the last slice is not cut to the instructions still owed |
| `ZombiesHaveParent` | `exit` does not reap the children that already exited |
| `ParentChildAgree` | `reap` leaves the pid in its parent's `childIDs` |
| `SignalsConserved` | the swap-remove pops without copying the back element |
| `WakesOnReady` | `setSignalMask` tests `readySig` as it was before its loops |
| `RawAccessSafe` | the 2-byte branch tests `len < 2` |
| `TypeOK` (`MemAccess`) | `wrSiz` is not clipped to `len` (`len` wraps) |
| `CopiesExactly` | `byteBuf` is not advanced |
| `StringReadCorrect` | the `dstStr` bound is `i <= maxSize` |
| `CallsReturn` | the page offset uses the mask `PageSize` |

## 4. Bounds, and why they are enough

- **`PrivateCache`: one 3-way set and 4 addresses, with symmetry over the
  addresses.** One more address than ways forces evictions. Three ways
  reach every combination of the tier counts:
  - T = A and D < A;
  - T < A and D = A;
  - T < A and D < A;
  - TD = A.

  Sets are independent in the code, so one set is enough.
- **`TMCoherence` safety and refinement: 3 pids, 2 lines, a buffer of 2
  lines, 3 utids; symmetry over pids and over lines.** Three threads give
  a victim marked twice and three-way read/write conflicts. With two
  buffered lines a transaction can read one line and write the other,
  which the refinement's conflict check needs. Three utids let
  transactions restart after aborts. Symmetry is sound here: every
  property, `ImplementsAtomic` included, is a safety property.
- **`TMCoherence` with both policies (`coh_live`): 2 pids, 2 lines, a
  buffer of 2 lines, 3 utids, no symmetry; a first stall of 1 cycle and
  one doubling.** Symmetry is not sound for liveness checking, and three
  pids without it do not finish in minutes. Two pids reach a NACK, a
  NACKed transaction marked by the older one, retries after one or two
  cycles, ties between begins in one cycle, and an older holder
  committing or aborting while the younger stalls. One doubling is enough
  to show the stall growing and capped; larger caps only lengthen stalls.
  The requester-wins policy keeps the larger instance in `coh_safety`.
- **`TMThread`: 2 pids, 2 lines, a buffer of 1 line, 4 utids, one user
  abort argument.** This reaches marks, overflows, user and system-call
  aborts, commit-time ABORT, and retries.
- **`AbortRV`.** Pids {−1, 0, 1, 2, 255, 256, 511}: sign extension,
  small pids, a pid either side of a byte boundary and a 9-bit pid. The
  pass run takes every argument 0..15 and the wide run {0, 1, 15, 16,
  255, 4096}: the largest argument that fits the field and the first
  ones that do not. Every abort type occurs with argument 0.
- **`NextReady`** is checked inside `SkipInsts`, on every table the
  thread life cycle reaches.
- **`SkipInsts`: a table of 3 slots, starting from the root thread in
  slot 0 (the root constructor), skipCount 3, a slice of 2, 3 calls.**
  The nine instructions let the root clone two threads, as children or
  siblings, into its group or new groups. A parent can then exit before
  or after its child, a zombie can be reaped, and a reaped slot can be
  taken by a later clone. The slice is smaller than skipCount, so a call
  runs several threads and its last slice is clipped. Three calls let
  every thread exit or suspend before a later call. A clone finds no
  free slot when the table is full; that bound stands for the end of
  `pid2context`.

- **`Signals`: 2 signal numbers, 3 sends, every mask.** Two ready signals
  of one number followed by a mask change reach the skipped element;
  three sends let the two queues both hold signals.
- **`MemAccess`: 16-byte pages, start addresses 0..17, lengths 0..20;
  strings over 4 cells with `maxSize` 0..3.** A page of 16 holds two
  8-byte chunks, so a copy reaches every chunk size, starts at every
  alignment in a page and crosses one or two page ends. Every memory
  content and readable limit of 4 cells covers a NUL before, at and after
  `maxSize`, and an unreadable cell before the NUL.

## 5. Fairness

`TMCoherence`'s specification assumes weak fairness of each thread's
step, `WF_vars(threadStep(p))`. The scheduler `ThreadContext::nextReady`
scans pid2context round-robin from the thread after the current one. It
therefore returns every thread that stays ready, and a thread that can
issue an operation eventually does. The clock step has weak fairness:
the simulator's clock never stops. `LiveSpec`, used by `coh_live`, adds
strong fairness of ending a transaction (`TxnsFinite`): a transaction of
the simulated program is a finite instruction sequence that reaches its
commit or abort if it gets to run. Without it a thread could loop inside
a transaction for ever and starve every NACKed waiter; that is a
property of the program, not of the manager.

`NextReady`'s loop runs inside `SkipInsts` with its fairness.

`MemAccess` assumes weak fairness of `Next`. While a call runs only its
loop step is enabled, so this says that a running loop takes its next
iteration: the routines are sequential code with no waits.

`Signals` checks only a safety and an action property, so it has no
fairness.

`SkipInsts` assumes weak fairness of the steps of a running call: the
simulator is one host thread, and once `skipInsts` is entered nothing
else runs until it returns. No fairness is assumed for starting a call.

The `TMThread` runs check only safety, so it has no fairness.

## 6. Not modelled, and why

- **The twelve other coherence policies** (LL, hourglass, SOK,
  SOKQueue, SOA0, SOA2, WAR, ATS, Lock, Lock0, Aset, Snoop). Only their
  declarations are under `src/`, and the design describes them by
  family only. Begin-time NACKs (`ThreadContext.cpp:88`) belong to
  the gate policies. `beginNested`/`commitNested` are never called by
  the modelled callers.
- **The thread-level stall (`ThreadContext::startRetryTimer`,
  `tmStallUntil`).** Its callers are not under `src/`; the
  manager's own stall (`TransState::checkStall`) is modelled.
- **`setTMlibUserTid`, `getBeginRV`, `beginFallback`/`completeFallback`.**
  These are statistics hooks and constant returns.
- **The data a clone shares or copies** (file system, open files,
  signal table, address space, registers, call stack, `pgid`). No
  property distinguishes them. `doKill` is called only from outside
  `src/`, so what follows a kill is unknown: the killed state, which
  `findZombieChild` also accepts, is left out. The fast-forward branch of
  `skipInsts` runs the same loop as the count branch.
- **Nested transactions in `ThreadContext`.** `beginTransaction` fails
  on a begin with `tmDepth > 0`, and its message says nesting is not
  complete. The program is modelled as issuing `tm.begin` only outside a
  transaction.
- **`execCall`/`execRet` and the call/return handler stack
  (`ThreadContext.h` 221-241).** The instructions that push and pop them
  are not under `src/`.
- **Address-space and file emulation in ThreadContext,
  call-stack tracking, statistics.** These are outside the HTM core
  (spec §1). `AddressSpace` itself is not under `src/`. The memory
  routines that use it are modelled (`MemAccess`). The wrap of `addr`
  at the top of the address space is not modelled: the width of `VAddr`
  is defined outside `src/`, and whether such a range is accepted is up
  to `AddressSpace::canWrite`.
- **The signal table and handlers.** These are data. `Signals` models the
  queues and the mask.
- **`LimeMark.h`.** It is an enum of constants.

## 7. Plan for later work

1. Compose `PrivateCache` (one per core) with `TMCoherence`. A
   `setConflict` from `doFillLine` and a `tmInvalidateAborted` from
   another core's write then abort the transaction through the manager,
   and `WriteSetResident` becomes a property of the whole system.
2. Compose `Signals` with `SkipInsts`, so that `suspend` and `signal`
   in the life cycle go through the queues and the mask.
3. Add the lazy policy (LL) with commit-time validation, checked against
   the same abstract specification.
4. Compose `TMThread` with the EE policy once the thread-level handling
   of a NACKed access (not under `src/`) can be pinned down.
