---------------------------- MODULE MC_TMThread -----------------------------
(* Two threads and two lines with a one-line transactional buffer: a     *)
(* thread can be marked by the other, overflow, abort itself and retry.  *)
EXTENDS TMThread, TLC

CONSTANTS p1, p2, l1, l2

MCPids == {p1, p2}
MCLines == {l1, l2}
MCAbortArgs == {1}

MCSymmetry == Permutations(MCPids) \cup Permutations(MCLines)
=============================================================================
