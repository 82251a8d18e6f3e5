----------------------------- MODULE MCMlsGroup -----------------------------
(* MlsGroup for TLC. *)
EXTENDS MlsGroup, TLC

Symmetry == Permutations(Client \ {Creator})
=============================================================================
