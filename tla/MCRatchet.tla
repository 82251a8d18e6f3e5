------------------------------ MODULE MCRatchet ------------------------------
(***************************************************************************)
(* Ratchet for TLC, with the closed form of the skipping loop compared to  *)
(* the loop, and a claim of state.rs that the code does not keep.          *)
(***************************************************************************)
EXTENDS Ratchet, SkipLoop

\* A damaged message may arrive with the key of Bob's signed pre-key, which is
\* the one Alice knows before she has received anything.
SignedPreKeyHeaders == {[dh |-> <<Bob, 0>>, n |-> 0, pn |-> 0]}

(***************************************************************************)
(* "Handles DH ratchet steps when the sender's DH key changes"             *)
(* (state.rs:112): a message that starts a DH ratchet carries a key pair   *)
(* its sender generated after the one the receiver knows.                  *)
(***************************************************************************)
RatchetsForwardOnly ==
    \A m \in Sent :
        LET s == session[Peer(m.from)]
        IN  /\ MayDeliver(m, m.hdr, TRUE)
            /\ ~ HasSkippedKey(s, m.hdr)
            /\ NeedRatchet(s, m.hdr)
            /\ s.remote_dh_public # None
            => s.remote_dh_public[2] < m.hdr.dh[2]

(***************************************************************************)
(* From every session in reach, to every target and under every DH key in  *)
(* use (keys already stored under that name are overwritten): the skipping *)
(* loops of decrypt end with the session, and the verdict, of the closed   *)
(* form, keys stored before a refusal included.                            *)
(***************************************************************************)
ClosedFormIsRight ==
    \A p \in Party :
        session[p].receiving_chain # None =>
            \A dh \in {m.hdr.dh : m \in Sent}, until \in 0 .. MaxSend :
                Loop(session[p], dh, until) =
                    [session |-> Skip(session[p], dh, until),
                     refused |-> SkipRefused(session[p], dh, until)]
==============================================================================
