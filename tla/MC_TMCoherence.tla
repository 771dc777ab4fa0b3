-------------------------- MODULE MC_TMCoherence ---------------------------
(* Three threads, two lines and a two-line transactional buffer: enough *)
(* for three-way conflicts, a victim marked twice, and overflow aborts.  *)
EXTENDS TMCoherence, TLC

CONSTANTS p1, p2, p3, l1, l2

MCPids == {p1, p2, p3}
MCLines == {l1, l2}

\* Two threads: the liveness run, which cannot use symmetry.
MCPidsLive == {p1, p2}

MCSymmetry == Permutations(MCPids) \cup Permutations(MCLines)
=============================================================================
