------------------------------- MODULE MCX3DH -------------------------------
(***************************************************************************)
(* X3DH for TLC, with a claim of api.rs that the code does not keep.       *)
(***************************************************************************)
EXTENDS X3DH, TLC

Symmetry == Permutations(Party)

(***************************************************************************)
(* "derive the same shared secret Alice computed" (api.rs:246, x3dh_respond*)
(* of the FFI): the owner of a bundle, told who the initiator is and using *)
(* the signed pre-key of the bundle, gets the initiator's secret.          *)
(***************************************************************************)
SameSecretAliceComputed ==
    \A r \in responses :
        r.by # r.to.by /\ BundleOf(r.by, r.to.bundle) /\ r.from = r.to.by
        /\ r.spk = r.to.bundle.spk => r.secret = r.to.secret
=============================================================================
