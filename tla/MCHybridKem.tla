---------------------------- MODULE MCHybridKem ----------------------------
(***************************************************************************)
(* HybridKem for TLC.                                                      *)
(***************************************************************************)
EXTENDS HybridKem, TLC

Symmetry == Permutations(User)
=============================================================================
