---------------------------- MODULE KeyAgreement ----------------------------
(***************************************************************************)
(* The keys of src/src/identity and the secrets of src/src/x3dh, without   *)
(* the state of those who use them.                                        *)
(*                                                                         *)
(* A key pair is named by its public half: its owner, its kind and a       *)
(* number.  A DH output is the set of the two key pairs, and a shared      *)
(* secret the sequence of DH outputs that derive receives.                 *)
(***************************************************************************)
EXTENDS RatchetSession

KeyPairOf(p, kind, n) == [owner |-> p, kind |-> kind, n |-> n]

\* verify: the signature is by that identity over that key.  Signatures and
\* keys are not mixed here, so spk.key is what the signature covers.
Verify(p, spk) == spk.signer = p

\* Mutant: the signature is not looked at.
AcceptsAny(bundle) == TRUE

Accepts(bundle) == Verify(bundle.verifying, bundle.spk)

-----------------------------------------------------------------------------
(* The secrets *)

OptionalDH(opk, dh) == IF opk = None THEN <<>> ELSE <<dh>>

\* Mutant: the identity key stands in for the ephemeral key.
InitiatorSecretStatic(identity, eph, bundle) ==
    << DH(identity, bundle.spk.key),
       DH(identity, bundle.identity) >>
    \o OptionalDH(bundle.opk, DH(identity, bundle.opk.key))

\* Mutant: the one-time pre-key is left out.
InitiatorSecretNoOpk(identity, eph, bundle) ==
    << DH(identity, bundle.spk.key),
       DH(eph, bundle.identity),
       DH(eph, bundle.spk.key) >>

InitiatorSecret(identity, eph, bundle) ==
    << DH(identity, bundle.spk.key),
       DH(eph, bundle.identity),
       DH(eph, bundle.spk.key) >>
    \o OptionalDH(bundle.opk, DH(eph, bundle.opk.key))

\* Mutant: the responder computes DH1 and DH2 in the other order.
ResponderSecretSwapped(identity, spk, opk, their_identity, their_eph) ==
    << DH(identity, their_eph),
       DH(spk.key, their_identity),
       DH(spk.key, their_eph) >>
    \o OptionalDH(opk, DH(opk.key, their_eph))

ResponderSecret(identity, spk, opk, their_identity, their_eph) ==
    << DH(spk.key, their_identity),
       DH(identity, their_eph),
       DH(spk.key, their_eph) >>
    \o OptionalDH(opk, DH(opk.key, their_eph))
=============================================================================
