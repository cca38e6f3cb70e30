---------------------------- MODULE MC_PVEStore ------------------------------
(* Three tribe ids, as model values. *)
EXTENDS PVEStore, TLC

CONSTANTS t1, t2, t3

MCTribes == {t1, t2, t3}

MCSymmetry == Permutations(MCTribes)

=============================================================================
