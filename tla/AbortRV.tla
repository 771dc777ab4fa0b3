------------------------------ MODULE AbortRV ------------------------------
(***************************************************************************)
(* ThreadContext::getAbortRV (src/src/libll/ThreadContext.cpp): the 32-bit *)
(* value handed back to simulated software when its transaction aborts.   *)
(* Per the comments in the code: bit 0 is set to mark an abort, the        *)
(* bottom 8 bits are reserved (bits 1-3 carry the abort type), the user's  *)
(* abort argument is placed from bit 8, and the aborter's pid sits in the  *)
(* upper bits from bit 12.                                                  *)
(*                                                                         *)
(* The inputs are the state; a behaviour is one input, so the invariant    *)
(* checks the encoding over every input in the bounded sets.               *)
(***************************************************************************)
EXTENDS Integers

CONSTANTS
    ArgValues,    \* tmAbortArg values the user passes to userAbortTM
    PidValues     \* aborter pids, -1 when no thread is the aborter

\* Small enough that every shifted bit is computed exactly below.
ASSUME ArgValues \subseteq 0..2^15
ASSUME PidValues \subseteq -1..511      \* MAX_CPU_COUNT is 512

AbortTypes == {"TM_ATYPE_DEFAULT", "TM_ATYPE_SYSCALL", "TM_ATYPE_USER", "TM_ATYPE_SETCONFLICT"}

VARIABLES tmAbortArg, aborterPid, abortType

vars == <<tmAbortArg, aborterPid, abortType>>

\* A uint32_t as its 32 bits, bit 0 first.
Bits == 0..31

\* Bit i of the two's complement of x (floor division keeps the sign).
bitOf(x, i) == (x \div 2^i) % 2

\* x << n into a uint32_t: bits shifted past bit 31 are lost, and a
\* negative Pid_t is shifted as its two's complement, as the build does.
shiftL(x, n) == [i \in Bits |-> IF i >= n THEN bitOf(x, i - n) ELSE 0]

\* A constant below 256.
lowByte(v) == [i \in Bits |-> IF i < 8 THEN bitOf(v, i) ELSE 0]

bitOr(w1, w2) == [i \in Bits |-> IF w1[i] = 1 \/ w2[i] = 1 THEN 1 ELSE 0]

\* The type bits set by the switch on the abort type.
typeBits(t) ==
    CASE t = "TM_ATYPE_SYSCALL"     -> 2
      [] t = "TM_ATYPE_USER"        -> 4
      [] t = "TM_ATYPE_SETCONFLICT" -> 8
      [] OTHER                      -> 0

\* Mutant: the pid is shifted to bit 8 like the argument.
getAbortRVPidAt8(arg, pid, t) ==
    bitOr(bitOr(lowByte(1), shiftL(arg, 8)), bitOr(shiftL(pid, 8), lowByte(typeBits(t))))

getAbortRV(arg, pid, t) ==
    bitOr(bitOr(lowByte(1), shiftL(arg, 8)), bitOr(shiftL(pid, 12), lowByte(typeBits(t))))

-----------------------------------------------------------------------------
(* The layout the comments describe, read back                            *)

RECURSIVE fieldOf(_, _, _)
\* The unsigned value of bits lo .. lo+width-1 of rv.
fieldOf(rv, lo, width) ==
    IF width = 0 THEN 0 ELSE rv[lo] + 2 * fieldOf(rv, lo + 1, width - 1)

decodedArg(rv) == fieldOf(rv, 8, 4)

\* The upper 20 bits as a signed pid.
decodedPid(rv) ==
    LET f == fieldOf(rv, 12, 20) IN IF f >= 2^19 THEN f - 2^20 ELSE f

decodedType(rv) ==
    CASE rv[1] = 1 -> "TM_ATYPE_SYSCALL"
      [] rv[2] = 1 -> "TM_ATYPE_USER"
      [] rv[3] = 1 -> "TM_ATYPE_SETCONFLICT"
      [] OTHER     -> "TM_ATYPE_DEFAULT"

-----------------------------------------------------------------------------

\* The inputs getAbortRV can meet: tmAbortArg is reset to 0 by every
\* successful beginTransaction and set only by userAbortTM, which marks a
\* user abort of the thread itself, so a non-zero argument comes with
\* the type TM_ATYPE_USER and a real aborter pid.
Init ==
    /\ tmAbortArg \in ArgValues
    /\ aborterPid \in PidValues
    /\ abortType \in AbortTypes
    /\ tmAbortArg # 0 => abortType = "TM_ATYPE_USER" /\ aborterPid >= 0

Next == UNCHANGED vars

Spec == Init /\ [][Next]_vars

\* The value getAbortRV builds reads back as its comments lay it out: bit
\* 0 marks an abort, the reserved byte holds only the abort type, the
\* aborter's pid is recovered from the upper bits (including -1, whose
\* sign extension must not reach the low byte), and an argument that fits
\* between the reserved byte and the pid is recovered too.
AbortRVDecodes ==
    LET rv == getAbortRV(tmAbortArg, aborterPid, abortType) IN
    /\ rv[0] = 1
    /\ fieldOf(rv, 4, 4) = 0
    /\ decodedType(rv) = abortType
    /\ decodedPid(rv) = aborterPid
    /\ tmAbortArg < 16 => decodedArg(rv) = tmAbortArg
=============================================================================
