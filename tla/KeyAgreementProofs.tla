-------------------------- MODULE KeyAgreementProofs --------------------------
(***************************************************************************)
(* What the secrets of X3DH are made of, and how the first message of a    *)
(* session that starts with one is received: lemmas about KeyAgreement and *)
(* RatchetSession, for the proofs about the modules that use them.         *)
(***************************************************************************)
EXTENDS KeyAgreement, SequenceTheorems, TLAPS

-----------------------------------------------------------------------------
(* Secrets *)

(***************************************************************************)
(* derive is given three DH outputs, and one more with a one-time pre-key. *)
(***************************************************************************)
LEMMA SecretParts ==
    ASSUME NEW S, NEW s \in Seq(S), Len(s) = 3, NEW opk, NEW d, opk # None => d \in S
    PROVE  /\ s \o OptionalDH(opk, d) \in Seq(S)
           /\ \A i \in 1 .. 3 : (s \o OptionalDH(opk, d))[i] = s[i]
           /\ opk = None => Len(s \o OptionalDH(opk, d)) = 3
           /\ opk # None => /\ Len(s \o OptionalDH(opk, d)) = 4
                            /\ (s \o OptionalDH(opk, d))[4] = d
<1> DEFINE t == OptionalDH(opk, d)
<1>2. t \in Seq(S) /\ Len(t) = (IF opk = None THEN 0 ELSE 1) /\ (opk # None => t[1] = d)
  BY DEF OptionalDH
<1> HIDE DEF t
<1>3. /\ s \o t \in Seq(S) /\ Len(s \o t) = 3 + Len(t)
      /\ \A i \in 1 .. 3 + Len(t) : (s \o t)[i] = IF i <= 3 THEN s[i] ELSE t[i - 3]
  <2>1. /\ s \o t \in Seq(S) /\ Len(s \o t) = Len(s) + Len(t)
        /\ \A i \in 1 .. Len(s) + Len(t) :
              (s \o t)[i] = IF i <= Len(s) THEN s[i] ELSE t[i - Len(s)]
    BY <1>2, ConcatProperties
  <2> QED BY <2>1
<1>4. \A i \in 1 .. 3 : (s \o t)[i] = s[i]
  BY <1>2, <1>3
<1>5. ASSUME opk # None PROVE (s \o t)[4] = d
  BY <1>2, <1>3, <1>5
<1> QED BY <1>2, <1>3, <1>4, <1>5 DEF t

(***************************************************************************)
(* The initiator's side of it, ...                                         *)
(***************************************************************************)
LEMMA InitiatorSecretIs ==
    ASSUME NEW identity, NEW eph, NEW bundle,
           NEW secret, secret = InitiatorSecret(identity, eph, bundle)
    PROVE  /\ secret[1] = {identity, bundle.spk.key}
           /\ secret[2] = {eph, bundle.identity}
           /\ secret[3] = {eph, bundle.spk.key}
           /\ bundle.opk = None => Len(secret) = 3
           /\ bundle.opk # None => Len(secret) = 4 /\ secret[4] = {eph, bundle.opk.key}
<1> DEFINE s == << DH(identity, bundle.spk.key), DH(eph, bundle.identity),
                   DH(eph, bundle.spk.key) >>
           d == DH(eph, bundle.opk.key)
           S == {s[1], s[2], s[3], d}
<1>1. s \in Seq(S) /\ Len(s) = 3 /\ d \in S
  OBVIOUS
<1>2. secret = s \o OptionalDH(bundle.opk, d)
  BY DEF InitiatorSecret
<1>3. s[1] = {identity, bundle.spk.key} /\ s[2] = {eph, bundle.identity}
      /\ s[3] = {eph, bundle.spk.key} /\ d = {eph, bundle.opk.key}
  BY DEF DH
<1> HIDE DEF s, d, S
<1>4. /\ \A i \in 1 .. 3 : secret[i] = s[i]
      /\ bundle.opk = None => Len(secret) = 3
      /\ bundle.opk # None => Len(secret) = 4 /\ secret[4] = d
  BY <1>1, <1>2, SecretParts
<1> QED BY <1>3, <1>4

(***************************************************************************)
(* ... and the responder's.                                                *)
(***************************************************************************)
LEMMA ResponderSecretIs ==
    ASSUME NEW identity, NEW spk, NEW opk, NEW their_identity, NEW their_eph, NEW secret,
           secret = ResponderSecret(identity, spk, opk, their_identity, their_eph)
    PROVE  /\ secret[1] = {spk.key, their_identity}
           /\ secret[2] = {identity, their_eph}
           /\ secret[3] = {spk.key, their_eph}
           /\ opk = None => Len(secret) = 3
           /\ opk # None => Len(secret) = 4 /\ secret[4] = {opk.key, their_eph}
<1> DEFINE s == << DH(spk.key, their_identity), DH(identity, their_eph),
                   DH(spk.key, their_eph) >>
           d == DH(opk.key, their_eph)
           S == {s[1], s[2], s[3], d}
<1>1. s \in Seq(S) /\ Len(s) = 3 /\ d \in S
  OBVIOUS
<1>2. secret = s \o OptionalDH(opk, d)
  BY DEF ResponderSecret
<1>3. s[1] = {spk.key, their_identity} /\ s[2] = {identity, their_eph}
      /\ s[3] = {spk.key, their_eph} /\ d = {opk.key, their_eph}
  BY DEF DH
<1> HIDE DEF s, d, S
<1>4. /\ \A i \in 1 .. 3 : secret[i] = s[i]
      /\ opk = None => Len(secret) = 3
      /\ opk # None => Len(secret) = 4 /\ secret[4] = d
  BY <1>1, <1>2, SecretParts
<1> QED BY <1>3, <1>4

-----------------------------------------------------------------------------
(* Sessions that start with a secret *)

(***************************************************************************)
(* Different inputs of dh_ratchet_step give different root keys.           *)
(***************************************************************************)
LEMMA FirstRoots ==
    ASSUME NEW s, NEW d, NEW t, NEW e, RatchetStep(<<s>>, d) = RatchetStep(<<t>>, e)
    PROVE  s = t /\ d = e
<1>1. PICK S : S = {s, d, t, e}
  OBVIOUS
<1>2. <<s>> \in Seq(S) /\ Len(<<s>>) = 1 /\ <<t>> \in Seq(S) /\ Len(<<t>>) = 1
  BY <1>1
<1>3. /\ Append(<<s>>, d)[1] = s /\ Append(<<s>>, d)[2] = d
      /\ Append(<<t>>, e)[1] = t /\ Append(<<t>>, e)[2] = e
  BY <1>1, <1>2
<1> QED BY <1>3 DEF RatchetStep

\* A session that has received nothing yet
Unheard(root, ours, theirs, sending) ==
    [root_key          |-> root,
     dh_public         |-> ours,
     remote_dh_public  |-> theirs,
     sending_chain     |-> sending,
     receiving_chain   |-> None,
     previous_sending_chain_length |-> 0,
     skipped_keys      |-> [k \in {} |-> None]]

(***************************************************************************)
(* decrypt of a session that has received nothing, with the first message  *)
(* under a new DH key: one DH ratchet, and no message is skipped.          *)
(***************************************************************************)
LEMMA FirstReceipt ==
    ASSUME NEW root, NEW ours, NEW theirs, NEW sending, NEW hdr, NEW new,
           hdr.n = 0, hdr.dh # theirs, NEW s, s = Unheard(root, ours, theirs, sending),
           NEW t, t = Skip(AfterRatchet(s, hdr, new), hdr.dh, hdr.n)
    PROVE  /\ t.dh_public = new
           /\ t.receiving_chain = NewChain(RatchetStep(root, DH(ours, hdr.dh)))
           /\ t.sending_chain =
                 NewChain(RatchetStep(RatchetStep(root, DH(ours, hdr.dh)), DH(new, hdr.dh)))
           /\ DOMAIN t = DOMAIN s
<1> DEFINE recv == RatchetStep(root, DH(ours, hdr.dh))
           send == RatchetStep(recv, DH(new, hdr.dh))
           u == AfterRatchet(s, hdr, new)
<1>1. u = DhRatchet(s, hdr.dh, new)
  BY DEF AfterRatchet, NeedRatchet, AfterOldChain, HasOldChain, Unheard
<1>2. /\ u.receiving_chain = NewChain(recv) /\ u.sending_chain = NewChain(send)
      /\ u.dh_public = new /\ DOMAIN u = DOMAIN s
  <2> HIDE DEF u
  <2>1. s.root_key = root /\ s.dh_public = ours
    BY DEF Unheard
  <2>2. DOMAIN s = {"root_key", "dh_public", "remote_dh_public", "sending_chain",
                    "receiving_chain", "previous_sending_chain_length", "skipped_keys"}
    BY DEF Unheard
  <2> QED BY <1>1, <2>1, <2>2 DEF DhRatchet
<1> HIDE DEF u
<1>3. u.receiving_chain = [root |-> recv, index |-> 0]
  BY <1>2 DEF NewChain
<1> HIDE DEF recv, send
<1>4. SkipEnd(u, hdr.dh, 0) = 0
  <2>1. GivesUpAt(u, hdr.dh, 0) = {}
    BY <1>3 DEF GivesUpAt
  <2>2. Max({0, 0}) = 0
    BY DEF Max
  <2> QED BY <1>3, <2>1, <2>2 DEF SkipEnd, SkipRefused
<1>5. t = Skip(u, hdr.dh, 0)
  BY DEF u
<1>6. t.receiving_chain = [u.receiving_chain EXCEPT !.index = 0]
      /\ t.sending_chain = u.sending_chain /\ t.dh_public = u.dh_public
      /\ DOMAIN t = DOMAIN u
  <2>1. DOMAIN u = {"root_key", "dh_public", "remote_dh_public", "sending_chain",
                    "receiving_chain", "previous_sending_chain_length", "skipped_keys"}
    BY <1>2 DEF Unheard
  <2> QED BY <1>4, <1>5, <2>1 DEF Skip
<1>7. t.receiving_chain = NewChain(recv)
  BY <1>3, <1>6 DEF NewChain
<1> QED BY <1>2, <1>6, <1>7 DEF recv, send
===============================================================================
