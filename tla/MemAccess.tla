------------------------------ MODULE MemAccess ------------------------------
(***************************************************************************)
(* The bulk memory routines of ThreadContext (src/src/libll/               *)
(* ThreadContext.cpp): writeMemFromBuf and readMemToBuf copy len bytes     *)
(* between a host buffer and simulated memory in naturally aligned chunks  *)
(* of 1, 2, 4 or 8 bytes; writeMemWithByte fills memory page by page       *)
(* through a one-page buffer; readMemString copies a NUL-terminated        *)
(* string byte by byte.                                                    *)
(*                                                                         *)
(* One call runs at a time, step by step: pc tells the loop the call is    *)
(* in.  Each raw access (readMemRaw/writeMemRaw) is recorded in accesses,  *)
(* with the buffer offset it uses, so that the properties can look at the  *)
(* whole copy once the call returns.  Data bytes are left out of the copy  *)
(* loops (only where a byte goes matters); for readMemString a byte is 0   *)
(* (the NUL) or 1 (any other character).                                   *)
(***************************************************************************)
EXTENDS Integers, Sequences, Bitwise

CONSTANTS
    PageSize,     \* AddressSpace::getPageSize(), a power of 2, at least 8
    MaxAddr,      \* start addresses of a copy are 0..MaxAddr
    MaxLen,       \* lengths of a copy are 0..MaxLen
    StrBytes,     \* memory cells 0..StrBytes-1 that may hold a string
    MaxStrSize    \* maxSize arguments of readMemString are 0..MaxStrSize

ASSUME PageSize \in {8, 16, 32, 64}

VARIABLES
    pc,           \* "idle" | "copy" | "fill" | "string" | "done"
    routine,      \* the routine called: "none" | "writeMemFromBuf" |
                  \* "readMemToBuf" | "writeMemWithByte" | "readMemString"
    start, total, \* the call's addr and len arguments
    addr, len,    \* the copy loop's addr and len
    bufOff,       \* byteBuf - buf
    bufSize,      \* size of the buffer the copy loop reads or fills
    fAddr, fLen,  \* writeMemWithByte's addr and len
    wrSiz,        \* writeMemWithByte's current chunk
    accesses,     \* history: the raw accesses of the call, in order
    mem, readable,\* readMemString: memory contents, first unreadable address
    maxSize, i, dst, ret

vars == <<pc, routine, start, total, addr, len, bufOff, bufSize, fAddr,
          fLen, wrSiz, accesses, mem, readable, maxSize, i, dst, ret>>

Unset == 2       \* a dstStr slot readMemString has not written

Access == [addr: Nat, size: {1, 2, 4, 8}, off: Nat, bufSize: Nat]

-----------------------------------------------------------------------------
(* Copy loops                                                              *)

\* Mutant: the 2-byte branch tests len<sizeof(uint16_t).
chunkSizeShortTest(a, n) ==
    CASE (a & 1) # 0 \/ n < 2 -> 1
      [] (a & 2) # 0 \/ n < 2 -> 2
      [] (a & 4) # 0 \/ n < 8 -> 4
      [] OTHER                -> 8

\* The chunk the loop takes at addr with len bytes left: the largest of
\* 1, 2, 4, 8 that addr is aligned to and that fits in len.
chunkSize(a, n) ==
    CASE (a & 1) # 0 \/ n < 2 -> 1
      [] (a & 2) # 0 \/ n < 4 -> 2
      [] (a & 4) # 0 \/ n < 8 -> 4
      [] OTHER                -> 8

\* Entry of the copy loop, shared by both copy routines.
enterCopy(a, n, bsz) ==
    /\ pc' = "copy"
    /\ addr' = a
    /\ len' = n
    /\ bufOff' = 0
    /\ bufSize' = bsz

\* Mutant: byteBuf is not advanced past the chunk.
copyStepNoBufAdvance ==
    /\ pc = "copy"
    /\ len # 0
    /\ LET s == chunkSize(addr, len) IN
         /\ accesses' = Append(accesses, [addr |-> addr, size |-> s,
                                          off |-> bufOff, bufSize |-> bufSize])
         /\ addr' = addr + s
         /\ len' = len - s
    /\ UNCHANGED <<pc, routine, start, total, bufOff, bufSize, fAddr, fLen,
                   wrSiz, mem, readable, maxSize, i, dst, ret>>

\* One iteration of while(len): one raw access of the chunk's size.
copyStep ==
    /\ pc = "copy"
    /\ len # 0
    /\ LET s == chunkSize(addr, len) IN
         /\ accesses' = Append(accesses, [addr |-> addr, size |-> s,
                                          off |-> bufOff, bufSize |-> bufSize])
         /\ addr' = addr + s
         /\ bufOff' = bufOff + s
         /\ len' = len - s
    /\ UNCHANGED <<pc, routine, start, total, bufSize, fAddr, fLen, wrSiz,
                   mem, readable, maxSize, i, dst, ret>>

\* The loop ends; writeMemWithByte's loop goes on with addr+=wrSiz,
\* len-=wrSiz.
copyReturn ==
    /\ pc = "copy"
    /\ len = 0
    /\ IF routine = "writeMemWithByte"
       THEN /\ pc' = "fill"
            /\ fAddr' = fAddr + wrSiz
            /\ fLen' = fLen - wrSiz
       ELSE /\ pc' = "done"
            /\ UNCHANGED <<fAddr, fLen>>
    /\ UNCHANGED <<routine, start, total, addr, len, bufOff, bufSize, wrSiz,
                   accesses, mem, readable, maxSize, i, dst, ret>>

\* Arguments every call starts from.
call(a, n, r) ==
    /\ pc = "idle"
    /\ routine' = r
    /\ start' = a
    /\ total' = n
    /\ accesses' = <<>>

writeMemFromBuf(a, n) ==
    /\ call(a, n, "writeMemFromBuf")
    /\ enterCopy(a, n, n)
    /\ UNCHANGED <<fAddr, fLen, wrSiz, mem, readable, maxSize, i, dst, ret>>

readMemToBuf(a, n) ==
    /\ call(a, n, "readMemToBuf")
    /\ enterCopy(a, n, n)
    /\ UNCHANGED <<fAddr, fLen, wrSiz, mem, readable, maxSize, i, dst, ret>>

writeMemWithByte(a, n) ==
    /\ call(a, n, "writeMemWithByte")
    /\ pc' = "fill"
    /\ fAddr' = a
    /\ fLen' = n
    /\ UNCHANGED <<addr, len, bufOff, bufSize, wrSiz, mem, readable,
                   maxSize, i, dst, ret>>

\* Mutant: wrSiz is not clipped to len.
fillStepNoClip ==
    /\ pc = "fill"
    /\ fLen # 0
    /\ wrSiz' = PageSize - (fAddr & (PageSize - 1))
    /\ enterCopy(fAddr, wrSiz', PageSize)
    /\ UNCHANGED <<routine, start, total, fAddr, fLen, accesses, mem, readable,
                   maxSize, i, dst, ret>>

\* Mutant: the page offset is taken with the mask PageSize, not PageSize-1.
fillStepWrongMask ==
    /\ pc = "fill"
    /\ fLen # 0
    /\ LET toPageEnd == PageSize - (fAddr & PageSize)
           w == IF toPageEnd > fLen THEN fLen ELSE toPageEnd
       IN /\ wrSiz' = w
          /\ enterCopy(fAddr, w, PageSize)
    /\ UNCHANGED <<routine, start, total, fAddr, fLen, accesses, mem, readable,
                   maxSize, i, dst, ret>>

\* One iteration of writeMemWithByte's loop: the rest of addr's page,
\* clipped to len, is written from the one-page buffer.
fillStep ==
    /\ pc = "fill"
    /\ fLen # 0
    /\ LET toPageEnd == PageSize - (fAddr & (PageSize - 1))
           w == IF toPageEnd > fLen THEN fLen ELSE toPageEnd
       IN /\ wrSiz' = w
          /\ enterCopy(fAddr, w, PageSize)
    /\ UNCHANGED <<routine, start, total, fAddr, fLen, accesses, mem, readable,
                   maxSize, i, dst, ret>>

fillReturn ==
    /\ pc = "fill"
    /\ fLen = 0
    /\ pc' = "done"
    /\ UNCHANGED <<routine, start, total, addr, len, bufOff, bufSize, fAddr,
                   fLen, wrSiz, accesses, mem, readable, maxSize, i, dst, ret>>

-----------------------------------------------------------------------------
(* readMemString, at stringVAddr 0                                         *)

\* canRead(stringVAddr+i, 1): the cells below readable are mapped.
canRead(a) == a < readable

\* The caller's dstStr buffer and the memory it reads are any contents;
\* dst has one slot past maxSize so that a write out of bounds shows.
readMemString(ms) ==
    /\ call(0, 0, "readMemString")
    /\ pc' = "string"
    /\ \E m \in [0..StrBytes - 1 -> {0, 1}], r \in 0..StrBytes:
         /\ mem' = m
         /\ readable' = r
    /\ maxSize' = ms
    /\ i' = 0
    /\ dst' = [j \in 0..MaxStrSize |-> Unset]
    /\ UNCHANGED <<addr, len, bufOff, bufSize, fAddr, fLen, wrSiz, ret>>

\* Mutant: the bound test on dstStr is i<=maxSize.
stringStepOffByOne ==
    /\ pc = "string"
    /\ IF ~canRead(i)
       THEN /\ ret' = -1
            /\ pc' = "done"
            /\ UNCHANGED <<i, dst>>
       ELSE /\ dst' = IF i <= maxSize THEN [dst EXCEPT ![i] = mem[i]] ELSE dst
            /\ i' = i + 1
            /\ IF mem[i] = 0 THEN ret' = i + 1 /\ pc' = "done"
                             ELSE UNCHANGED <<ret, pc>>
    /\ UNCHANGED <<routine, start, total, addr, len, bufOff, bufSize, fAddr,
                   fLen, wrSiz, accesses, mem, readable, maxSize>>

\* One iteration of while(true): fail with -1 on an unreadable cell, copy
\* the byte if dstStr has room, stop after the NUL and return the number
\* of bytes read, the NUL included.
stringStep ==
    /\ pc = "string"
    /\ IF ~canRead(i)
       THEN /\ ret' = -1
            /\ pc' = "done"
            /\ UNCHANGED <<i, dst>>
       ELSE /\ dst' = IF i < maxSize THEN [dst EXCEPT ![i] = mem[i]] ELSE dst
            /\ i' = i + 1
            /\ IF mem[i] = 0 THEN ret' = i + 1 /\ pc' = "done"
                             ELSE UNCHANGED <<ret, pc>>
    /\ UNCHANGED <<routine, start, total, addr, len, bufOff, bufSize, fAddr,
                   fLen, wrSiz, accesses, mem, readable, maxSize>>

-----------------------------------------------------------------------------

\* No call in progress: the locals of the last call are gone.
Init ==
    /\ pc = "idle"
    /\ routine = "none"
    /\ start = 0 /\ total = 0
    /\ addr = 0 /\ len = 0 /\ bufOff = 0 /\ bufSize = 0
    /\ fAddr = 0 /\ fLen = 0 /\ wrSiz = 0
    /\ accesses = <<>>
    /\ mem = [j \in 0..StrBytes - 1 |-> 0]
    /\ readable = 0 /\ maxSize = 0 /\ i = 0 /\ ret = 0
    /\ dst = [j \in 0..MaxStrSize |-> Unset]

\* The call returns to its caller, who may make the next one.
callReturn ==
    /\ pc = "done"
    /\ pc' = "idle"
    /\ routine' = "none"
    /\ start' = 0 /\ total' = 0
    /\ addr' = 0 /\ len' = 0 /\ bufOff' = 0 /\ bufSize' = 0
    /\ fAddr' = 0 /\ fLen' = 0 /\ wrSiz' = 0
    /\ accesses' = <<>>
    /\ mem' = [j \in 0..StrBytes - 1 |-> 0]
    /\ readable' = 0 /\ maxSize' = 0 /\ i' = 0 /\ ret' = 0
    /\ dst' = [j \in 0..MaxStrSize |-> Unset]

Next ==
    \/ \E a \in 0..MaxAddr, n \in 0..MaxLen:
         \/ writeMemFromBuf(a, n)
         \/ readMemToBuf(a, n)
         \/ writeMemWithByte(a, n)
    \/ \E ms \in 0..MaxStrSize: readMemString(ms)
    \/ copyStep \/ copyReturn \/ fillStep \/ fillReturn \/ stringStep
    \/ callReturn

\* A started loop keeps running: the routines are plain sequential code.
Spec == Init /\ [][Next]_vars /\ WF_vars(Next)

-----------------------------------------------------------------------------
(* Properties                                                              *)

TypeOK ==
    /\ pc \in {"idle", "copy", "fill", "string", "done"}
    /\ accesses \in Seq(Access)
    /\ addr \in Nat /\ len \in Nat /\ fAddr \in Nat /\ fLen \in Nat
    /\ dst \in [0..MaxStrSize -> {0, 1, Unset}]
    /\ ret \in -1..StrBytes

\* Every raw access the copy loops make is naturally aligned, so it stays
\* within one page (readMemRaw/writeMemRaw check only the page of its first
\* byte), and it stays within the host buffer: writeMemWithByte's
\* one-page buffer, or the caller's len bytes.
RawAccessSafe ==
    \A k \in 1..Len(accesses):
        LET e == accesses[k] IN
        /\ e.addr % e.size = 0
        /\ e.addr \div PageSize = (e.addr + e.size - 1) \div PageSize
        /\ e.off + e.size <= e.bufSize

\* When a copy routine returns, its raw accesses covered [addr, addr+len)
\* exactly, in order, with no byte twice; a buffer copy moved byte k of
\* the buffer to or from addr+k.
CopiesExactly ==
    (pc = "done" /\ routine # "readMemString") =>
        /\ \A k \in 1..Len(accesses):
              accesses[k].addr = IF k = 1 THEN start
                                 ELSE accesses[k-1].addr + accesses[k-1].size
        /\ start + total = IF accesses = <<>> THEN start
                           ELSE accesses[Len(accesses)].addr
                                + accesses[Len(accesses)].size
        /\ routine # "writeMemWithByte" =>
              \A k \in 1..Len(accesses): accesses[k].off = accesses[k].addr - start

\* readMemString returns -1 exactly when an unreadable cell comes before
\* the first NUL, and otherwise the string's length with its NUL; it
\* fills dstStr with the bytes it read, never past maxSize (so a string
\* longer than maxSize-1 is left without its NUL).
StringReadCorrect ==
    (pc = "done" /\ routine = "readMemString") =>
        LET nuls == {j \in 0..readable - 1: mem[j] = 0}
            firstNul == CHOOSE j \in nuls: \A k \in nuls: j <= k
            nread == IF nuls = {} THEN readable ELSE firstNul + 1
        IN /\ ret = IF nuls = {} THEN -1 ELSE firstNul + 1
           /\ \A j \in 0..MaxStrSize:
                 dst[j] = IF j < maxSize /\ j < nread THEN mem[j] ELSE Unset

\* Every call returns: the copy loops always make progress, even across a
\* page boundary.
CallsReturn == (pc # "idle") ~> (pc = "done")
=============================================================================
