---------------------------- MODULE MCDetailPages ----------------------------
(* DetailPages for TLC. *)
EXTENDS DetailPages, TLC

MCAskedHeights == {-5, 0, 2, 9}
MCSymmetry     == Permutations(Tx)
=============================================================================
