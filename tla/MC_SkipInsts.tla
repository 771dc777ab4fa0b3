---------------------------- MODULE MC_SkipInsts ----------------------------
(* Three slots: the root thread in slot 0 clones the others, so parents, *)
(* zombies, orphans, thread groups and reuse of a reaped slot all occur. *)
EXTENDS SkipInsts, TLC
=============================================================================
