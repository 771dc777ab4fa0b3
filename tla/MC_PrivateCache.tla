--------------------------- MODULE MC_PrivateCache ---------------------------
(* Model-checking instance of PrivateCache: a 3-way set and 4 lines that  *)
(* map to it, so that every (transactional, dirty) mix of a full set and *)
(* every branch of findLine2Replace can be reached.                       *)
EXTENDS PrivateCache, TLC

CONSTANTS a1, a2, a3, a4

MCAddrs == {a1, a2, a3, a4}

\* Lines are model values compared only for equality.
MCSymmetry == Permutations(MCAddrs)
=============================================================================
