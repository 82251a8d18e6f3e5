------------------------------ MODULE X3DHProofs ------------------------------
(***************************************************************************)
(* Proofs about the X3DH key agreement, for any parties and any number of  *)
(* pre-keys, initiations and responses, through the library or the FFI.    *)
(***************************************************************************)
EXTENDS X3DH, KeyAgreementProofs, FiniteSetTheorems

-----------------------------------------------------------------------------
(* The inductive invariant *)

\* Signed pre-keys are what their signer generated.
SpksInv == /\ IsFiniteSet(spks)
           /\ \A spk \in spks : spk.key.owner = spk.signer /\ spk.key.kind = "signed"

By(p) == {i \in initiations : i.by = p}

\* What initiate checked and computed
Initiated(i) ==
    /\ \E q \in Party : i.bundle.identity = IdentityKey(q)
    /\ i.bundle.spk \in spks /\ i.bundle.spk.signer = i.bundle.verifying
    /\ i.eph.owner = i.by /\ i.eph.kind = "ephemeral"
    /\ i.eph.n < Cardinality(By(i.by))
    /\ i.secret = InitiatorSecret(IdentityKey(i.by), i.eph, i.bundle)

(***************************************************************************)
(* Each initiation has an ephemeral key of its own.                        *)
(***************************************************************************)
InitiationsInv == /\ IsFiniteSet(initiations)
                  /\ \A i \in initiations : Initiated(i)
                  /\ \A i, j \in initiations : i.eph = j.eph => i = j

\* What respond was given and computed
Responded(r) ==
    /\ r.to \in initiations
    /\ r.spk.key.owner = r.by /\ r.spk.key.kind = "signed" /\ r.spk.signer = r.by
    /\ \/ r.opk = None
       \/ r.to.bundle.opk # None /\ r.opk.id = r.to.bundle.opk.id
    /\ r.secret = ResponderSecret(IdentityKey(r.by), r.spk, r.opk,
                                  IdentityKey(r.from), r.to.eph)

ResponsesInv == \A r \in responses : Responded(r)

IInv == TypeOK /\ SpksInv /\ InitiationsInv /\ ResponsesInv

-----------------------------------------------------------------------------
(* Keys and secrets *)

(***************************************************************************)
(* generate_batch makes one-time pre-keys of the party that calls it.      *)
(***************************************************************************)
LEMMA OneTimePreKeyType ==
    ASSUME TypeOK, NEW p \in Party, NEW opk \in OneTimePreKeys(p)
    PROVE  opk \in Opk
<1>1. PICK b \in 0 .. (batches[p] - 1) : opk \in Batch(p, b)
  BY DEF OneTimePreKeys
<1>2. PICK i \in 0 .. (BatchSize - 1) :
         opk = [key |-> KeyPairOf(p, "onetime", b * BatchSize + i), id |-> i]
  BY <1>1 DEF Batch
<1>3. BatchSize \in Nat /\ b \in Nat /\ i \in Nat
  BY X3DHAssumption DEF TypeOK
<1>4. PICK n : n = b * BatchSize + i
  OBVIOUS
<1>5. n \in Nat
  BY <1>3, <1>4
<1> QED BY <1>2, <1>3, <1>4, <1>5 DEF Opk, KeyPairs, KeyPairOf

(***************************************************************************)
(* Both sides' secrets are sequences of DH outputs.                        *)
(***************************************************************************)
LEMMA SecretTypes ==
    ASSUME NEW identity \in KeyPairs, NEW their_identity \in KeyPairs, NEW eph \in KeyPairs
    PROVE  /\ \A bundle \in Bundle : InitiatorSecret(identity, eph, bundle) \in Secret
           /\ \A spk \in Spk, opk \in Opk \cup {None} :
                 ResponderSecret(identity, spk, opk, their_identity, eph) \in Secret
<1>1. ASSUME NEW bundle \in Bundle PROVE InitiatorSecret(identity, eph, bundle) \in Secret
  <2> DEFINE s == << DH(identity, bundle.spk.key), DH(eph, bundle.identity),
                     DH(eph, bundle.spk.key) >>
             d == DH(eph, bundle.opk.key)
  <2>1. /\ bundle.identity \in KeyPairs /\ bundle.spk.key \in KeyPairs
        /\ bundle.opk # None => bundle.opk.key \in KeyPairs
    BY DEF Bundle, Spk, Opk
  <2>2. /\ s \in Seq(SUBSET KeyPairs) /\ Len(s) = 3
        /\ bundle.opk # None => d \in SUBSET KeyPairs
    BY <2>1 DEF DH
  <2>3. InitiatorSecret(identity, eph, bundle) = s \o OptionalDH(bundle.opk, d)
    BY DEF InitiatorSecret
  <2> HIDE DEF s, d
  <2> QED BY <2>2, <2>3, SecretParts DEF Secret
<1>2. ASSUME NEW spk \in Spk, NEW opk \in Opk \cup {None}
      PROVE  ResponderSecret(identity, spk, opk, their_identity, eph) \in Secret
  <2> DEFINE s == << DH(spk.key, their_identity), DH(identity, eph), DH(spk.key, eph) >>
             d == DH(opk.key, eph)
  <2>1. spk.key \in KeyPairs /\ (opk # None => opk.key \in KeyPairs)
    BY DEF Spk, Opk
  <2>2. s \in Seq(SUBSET KeyPairs) /\ Len(s) = 3 /\ (opk # None => d \in SUBSET KeyPairs)
    BY <2>1 DEF DH
  <2>3. ResponderSecret(identity, spk, opk, their_identity, eph) = s \o OptionalDH(opk, d)
    BY DEF ResponderSecret
  <2> HIDE DEF s, d
  <2> QED BY <2>2, <2>3, SecretParts DEF Secret
<1> QED BY <1>1, <1>2

-----------------------------------------------------------------------------
(* The steps *)

(***************************************************************************)
(* Nobody has published or initiated anything yet.                         *)
(***************************************************************************)
LEMMA IInvInit == Init => IInv
BY FS_EmptySet DEF Init, IInv, TypeOK, SpksInv, InitiationsInv, ResponsesInv

(***************************************************************************)
(* What was initiated and responded stays so as pre-keys are added.        *)
(***************************************************************************)
LEMMA MorePreKeys ==
    ASSUME IInv, UNCHANGED <<initiations, responses>>, spks \subseteq spks'
    PROVE  InitiationsInv' /\ ResponsesInv'
<1>1. ASSUME NEW i \in initiations PROVE Initiated(i)'
  BY DEF IInv, InitiationsInv, Initiated, By, IdentityKey, KeyPairOf
<1>2. InitiationsInv'
  BY <1>1 DEF IInv, InitiationsInv
<1>3. ResponsesInv'
  BY DEF IInv, ResponsesInv, Responded
<1> QED BY <1>2, <1>3

(***************************************************************************)
(* SignedPreKey::generate signs the new key with its owner's identity.     *)
(***************************************************************************)
LEMMA SignedPreKeyStep ==
    ASSUME IInv, NEW p \in Party, GenerateSignedPreKey(p)
    PROVE  IInv'
<1>1. PICK n : n = Cardinality({spk \in spks : spk.signer = p})
  OBVIOUS
<1>2. n \in Nat
  <2>1. {spk \in spks : spk.signer = p} \in SUBSET spks
    OBVIOUS
  <2>2. IsFiniteSet({spk \in spks : spk.signer = p})
    BY <2>1, FS_Subset DEF IInv, SpksInv
  <2> QED BY <1>1, <2>2, FS_CardinalityType
<1>3. PICK new : new = SignedPreKey(p, n)
  OBVIOUS
<1>4. spks' = spks \cup {new} /\ UNCHANGED <<batches, initiations, responses>>
  BY <1>1, <1>3 DEF GenerateSignedPreKey
<1>5. new \in Spk /\ new.key.owner = new.signer /\ new.key.kind = "signed"
  BY <1>2, <1>3 DEF SignedPreKey, KeyPairOf, Spk, KeyPairs
<1>6. TypeOK'
  BY <1>4, <1>5 DEF IInv, TypeOK
<1>7. SpksInv'
  BY <1>4, <1>5, FS_AddElement DEF IInv, SpksInv
<1>8. InitiationsInv' /\ ResponsesInv'
  BY <1>4, MorePreKeys DEF IInv, TypeOK
<1> QED BY <1>6, <1>7, <1>8 DEF IInv

(***************************************************************************)
(* generate_batch adds one-time pre-keys and touches no other key.         *)
(***************************************************************************)
LEMMA OneTimePreKeysStep ==
    ASSUME IInv, NEW p \in Party, GenerateOneTimePreKeys(p)
    PROVE  IInv'
<1>1. batches' = [batches EXCEPT ![p] = @ + 1] /\ UNCHANGED <<spks, initiations, responses>>
  BY DEF GenerateOneTimePreKeys
<1>2. TypeOK'
  BY <1>1 DEF IInv, TypeOK
<1>3. SpksInv'
  BY <1>1 DEF IInv, SpksInv
<1>4. InitiationsInv' /\ ResponsesInv'
  BY <1>1, <1>2, MorePreKeys DEF IInv, TypeOK
<1> QED BY <1>2, <1>3, <1>4 DEF IInv

(***************************************************************************)
(* initiate draws a new ephemeral key, and refuses a signed pre-key that   *)
(* is not the responder's.                                                 *)
(***************************************************************************)
LEMMA InitiateStep ==
    ASSUME IInv, NEW p \in Party, Initiate(p)
    PROVE  IInv'
<1>1. PICK n : n = Cardinality(By(p))
  OBVIOUS
<1>2. n \in Nat /\ IsFiniteSet(initiations)
  <2>1. By(p) \in SUBSET initiations /\ IsFiniteSet(initiations)
    BY DEF By, IInv, InitiationsInv
  <2>2. IsFiniteSet(By(p))
    BY <2>1, FS_Subset
  <2> QED BY <1>1, <2>1, <2>2, FS_CardinalityType
<1>3. PICK eph : eph = KeyPairOf(p, "ephemeral", n)
  OBVIOUS
<1>4. /\ eph \in KeyPairs /\ eph.owner = p /\ eph.kind = "ephemeral" /\ eph.n = n
      /\ EphemeralKey(p) = eph
  BY <1>1, <1>2, <1>3 DEF KeyPairOf, KeyPairs, EphemeralKey, By
<1>5. PICK bundle \in Bundles :
         /\ Accepts(bundle)
         /\ initiations' = initiations \cup
               {[by |-> p, bundle |-> bundle, eph |-> eph,
                 secret |-> InitiatorSecret(IdentityKey(p), eph, bundle)]}
  BY <1>4 DEF Initiate
<1>6. UNCHANGED <<spks, batches, responses>>
  BY DEF Initiate
<1>7. /\ bundle \in [identity : {IdentityKey(q) : q \in Party}, verifying : Party,
                     spk : spks, opk : PublishedOneTimePreKeys \cup {None}]
      /\ bundle.spk.signer = bundle.verifying
  BY <1>5 DEF Bundles, Accepts, Verify
<1>8. \A k \in Party : IdentityKey(k) \in KeyPairs
  BY DEF IdentityKey, KeyPairOf, KeyPairs
<1>9. bundle \in Bundle
  <2>1. \A q \in Party : OneTimePreKeys(q) \subseteq Opk
    BY OneTimePreKeyType DEF IInv
  <2>2. PublishedOneTimePreKeys \subseteq Opk
    BY <2>1 DEF PublishedOneTimePreKeys
  <2>3. spks \subseteq Spk
    BY DEF IInv, TypeOK
  <2> QED BY <1>7, <1>8, <2>2, <2>3 DEF Bundle
<1>10. PICK secret : secret = InitiatorSecret(IdentityKey(p), eph, bundle)
  OBVIOUS
<1>11. secret \in Secret
  BY <1>4, <1>8, <1>9, <1>10, SecretTypes
<1>12. PICK new : new = [by |-> p, bundle |-> bundle, eph |-> eph, secret |-> secret]
  OBVIOUS
<1>13. initiations' = initiations \cup {new} /\ new \in Initiation
  BY <1>4, <1>5, <1>9, <1>10, <1>11, <1>12 DEF Initiation
<1>14. TypeOK'
  BY <1>6, <1>13 DEF IInv, TypeOK
<1>15. SpksInv'
  BY <1>6 DEF IInv, SpksInv
<1>16. \A i \in By(p) : i.eph.n < n /\ i.eph.n \in Nat
  BY <1>1 DEF By, IInv, TypeOK, InitiationsInv, Initiated, Initiation, KeyPairs
<1>17. new \notin initiations
  BY <1>2, <1>4, <1>12, <1>16 DEF By
<1>18. ASSUME NEW k PROVE Cardinality(By(k)) <= Cardinality(By(k)')
                          /\ (k = p => Cardinality(By(k)') = n + 1)
                          /\ Cardinality(By(k)) \in Nat /\ Cardinality(By(k)') \in Nat
  <2>1. By(k)' = IF k = p THEN By(k) \cup {new} ELSE By(k)
    BY <1>12, <1>13 DEF By
  <2>2. IsFiniteSet(By(k))
    <3>1. By(k) \in SUBSET initiations
      BY DEF By
    <3> QED BY <1>2, <3>1, FS_Subset
  <2>3. Cardinality(By(k)) \in Nat /\ new \notin By(k)
    BY <1>17, <2>2, FS_CardinalityType DEF By
  <2>4. Cardinality(By(k) \cup {new}) = Cardinality(By(k)) + 1
    BY <2>2, <2>3, FS_AddElement
  <2> QED BY <1>1, <2>1, <2>3, <2>4
<1>19. Initiated(new)'
  <2>1. /\ new.by = p /\ new.bundle = bundle /\ new.eph = eph
        /\ new.secret = InitiatorSecret(IdentityKey(p), eph, bundle)
    BY <1>10, <1>12
  <2>2. eph.n < Cardinality(By(p)')
    BY <1>2, <1>4, <1>18
  <2>3. \E q \in Party : bundle.identity = IdentityKey(q)
    BY <1>7
  <2> QED BY <1>4, <1>6, <1>7, <2>1, <2>2, <2>3 DEF Initiated, By, IdentityKey
<1>20. ASSUME NEW i \in initiations PROVE Initiated(i)'
  <2>1. Initiated(i) /\ i.eph.n \in Nat
    BY DEF IInv, InitiationsInv, TypeOK, Initiation, KeyPairs
  <2>2. PICK k : k = i.by
    OBVIOUS
  <2>3. i.eph.n < Cardinality(By(k)')
    <3>1. i.eph.n < Cardinality(By(k)) /\ Cardinality(By(k)) <= Cardinality(By(k)')
      BY <1>18, <2>1, <2>2 DEF Initiated
    <3> QED BY <1>18, <2>1, <3>1
  <2> QED BY <1>6, <2>1, <2>2, <2>3 DEF Initiated, By, IdentityKey
<1>21. ASSUME NEW i \in initiations, i.eph = new.eph PROVE FALSE
  <2>1. i.eph.owner = p /\ i.eph.n = n
    BY <1>4, <1>12, <1>21
  <2>2. i.by = p
    BY <2>1 DEF IInv, InitiationsInv, Initiated
  <2> QED BY <1>2, <1>16, <2>1, <2>2 DEF By
<1>22. InitiationsInv'
  <2>1. IsFiniteSet(initiations')
    BY <1>2, <1>13, FS_AddElement
  <2>2. \A i, j \in initiations' : i.eph = j.eph => i = j
    BY <1>13, <1>21 DEF IInv, InitiationsInv
  <2> QED BY <1>13, <1>19, <1>20, <2>1, <2>2 DEF InitiationsInv
<1>23. ResponsesInv'
  BY <1>6, <1>13 DEF IInv, ResponsesInv, Responded
<1> QED BY <1>14, <1>15, <1>22, <1>23 DEF IInv

(***************************************************************************)
(* respond computes with pre-keys of the responder, and with no one-time   *)
(* pre-key at all when it is called through the FFI.                       *)
(***************************************************************************)
LEMMA RespondStep ==
    ASSUME IInv, NEW q \in Party, NEW from \in Party, NEW i \in initiations,
           Respond(q, i, from)
    PROVE  IInv'
<1>1. PICK spk \in {s \in spks : s.signer = q}, opk \in OpkArguments(q, i) :
         responses' = responses \cup
            {[by |-> q, to |-> i, from |-> from, spk |-> spk, opk |-> opk,
              secret |-> ResponderSecret(IdentityKey(q), spk, opk,
                                         IdentityKey(from), i.eph)]}
  BY DEF Respond
<1>2. UNCHANGED <<spks, batches, initiations>>
  BY DEF Respond
<1>3. i \in Initiation /\ i.eph \in KeyPairs
  BY DEF IInv, TypeOK, Initiation
<1>4. spk \in Spk /\ spk.signer = q /\ spk.key.owner = q /\ spk.key.kind = "signed"
  BY DEF IInv, TypeOK, SpksInv
<1>5. /\ opk \in Opk \cup {None}
      /\ opk = None \/ (i.bundle.opk # None /\ opk.id = i.bundle.opk.id)
  <2>1. OneTimePreKeys(q) \subseteq Opk
    BY OneTimePreKeyType DEF IInv
  <2> QED BY <2>1 DEF OpkArguments
<1>6. PICK secret : secret = ResponderSecret(IdentityKey(q), spk, opk,
                                             IdentityKey(from), i.eph)
  OBVIOUS
<1>7. secret \in Secret
  <2>1. IdentityKey(q) \in KeyPairs /\ IdentityKey(from) \in KeyPairs
    BY DEF IdentityKey, KeyPairOf, KeyPairs
  <2> QED BY <1>3, <1>4, <1>5, <1>6, <2>1, SecretTypes
<1>8. PICK new : new = [by |-> q, to |-> i, from |-> from, spk |-> spk, opk |-> opk,
                        secret |-> secret]
  OBVIOUS
<1>9. responses' = responses \cup {new} /\ new \in Response
  BY <1>1, <1>3, <1>4, <1>5, <1>6, <1>7, <1>8 DEF Response
<1>10. TypeOK' /\ SpksInv'
  BY <1>2, <1>9 DEF IInv, TypeOK, SpksInv
<1>11. InitiationsInv'
  BY <1>2 DEF IInv, InitiationsInv, Initiated, By, IdentityKey, KeyPairOf
<1>12. Responded(new)
  BY <1>4, <1>5, <1>6, <1>8 DEF Responded
<1>13. ResponsesInv'
  BY <1>2, <1>9, <1>12 DEF IInv, ResponsesInv, Responded
<1> QED BY <1>10, <1>11, <1>13 DEF IInv

(***************************************************************************)
(* The invariant is inductive.                                             *)
(***************************************************************************)
LEMMA IInvStep == IInv /\ [Next]_vars => IInv'
<1> SUFFICES ASSUME IInv, [Next]_vars PROVE IInv'
  OBVIOUS
<1>1. CASE UNCHANGED vars
  <2>1. UNCHANGED <<spks, batches, initiations, responses>>
    BY <1>1 DEF vars
  <2> QED BY <2>1, MorePreKeys DEF IInv, TypeOK, SpksInv
<1> QED BY <1>1, SignedPreKeyStep, OneTimePreKeysStep, InitiateStep, RespondStep DEF Next

(***************************************************************************)
(* The invariant holds in every reachable state.                           *)
(***************************************************************************)
LEMMA IInvAlways == Spec => []IInv
BY IInvInit, IInvStep, PTL DEF Spec

-----------------------------------------------------------------------------
(* Theorems *)

(***************************************************************************)
(* The calls of X3DH take and return what they should: keys of the right   *)
(* owners, bundles, and secrets that are sequences of DH outputs.          *)
(***************************************************************************)
THEOREM TypeCorrect == Spec => []TypeOK
<1>1. IInv => TypeOK
  BY DEF IInv
<1> QED BY <1>1, IInvAlways, PTL

(***************************************************************************)
(* What the secret of an initiation is made of, and who owns those keys.   *)
(***************************************************************************)
LEMMA SecretOfInitiation ==
    ASSUME IInv, NEW i \in initiations
    PROVE  /\ i.secret[1] = {IdentityKey(i.by), i.bundle.spk.key}
           /\ i.secret[2] = {i.eph, i.bundle.identity}
           /\ i.secret[3] = {i.eph, i.bundle.spk.key}
           /\ i.bundle.opk = None => Len(i.secret) = 3
           /\ i.bundle.opk # None => /\ Len(i.secret) = 4
                                     /\ i.secret[4] = {i.eph, i.bundle.opk.key}
           /\ i.eph.kind = "ephemeral" /\ i.eph.owner = i.by
           /\ i.bundle.spk \in Spk /\ i.bundle.spk.key.kind = "signed"
           /\ i.bundle.spk.signer = i.bundle.verifying
           /\ i.bundle.spk.key.owner = i.bundle.verifying
           /\ \E q \in Party : i.bundle.identity = IdentityKey(q)
           /\ i.bundle.opk # None => i.bundle.opk \in Opk
           /\ i.secret \in Seq(SUBSET KeyPairs)
<1>1. Initiated(i) /\ i \in Initiation
  BY DEF IInv, InitiationsInv, TypeOK
<1>2. PICK secret : secret = i.secret
  OBVIOUS
<1>3. secret = InitiatorSecret(IdentityKey(i.by), i.eph, i.bundle)
  BY <1>1, <1>2 DEF Initiated
<1>4. /\ secret[1] = {IdentityKey(i.by), i.bundle.spk.key}
      /\ secret[2] = {i.eph, i.bundle.identity}
      /\ secret[3] = {i.eph, i.bundle.spk.key}
      /\ i.bundle.opk = None => Len(secret) = 3
      /\ i.bundle.opk # None => /\ Len(secret) = 4
                                /\ secret[4] = {i.eph, i.bundle.opk.key}
  BY <1>3, InitiatorSecretIs
<1>5. /\ i.bundle.spk \in Spk /\ i.bundle.spk.key.kind = "signed"
      /\ i.bundle.spk.signer = i.bundle.verifying
      /\ i.bundle.spk.key.owner = i.bundle.verifying
  BY <1>1 DEF Initiated, IInv, TypeOK, SpksInv
<1>6. i.bundle.opk # None => i.bundle.opk \in Opk
  BY <1>1 DEF Initiation, Bundle
<1>7. i.secret \in Seq(SUBSET KeyPairs)
  BY <1>1 DEF Initiation, Secret
<1> QED BY <1>1, <1>2, <1>4, <1>5, <1>6, <1>7 DEF Initiated

(***************************************************************************)
(* No two calls of initiate give one secret, not even with the same        *)
(* bundle: each draws an ephemeral key of its own.                         *)
(***************************************************************************)
THEOREM SecretsDiffer == Spec => []SecretsFresh
<1>1. ASSUME IInv PROVE SecretsFresh
  <2> SUFFICES ASSUME NEW i \in initiations, NEW j \in initiations, i.secret = j.secret
               PROVE  i = j
    BY DEF SecretsFresh
  <2>1. /\ i.secret[3] = {i.eph, i.bundle.spk.key}
        /\ i.eph.kind = "ephemeral" /\ i.bundle.spk.key.kind = "signed"
    BY <1>1, SecretOfInitiation
  <2>2. /\ j.secret[3] = {j.eph, j.bundle.spk.key}
        /\ j.eph.kind = "ephemeral" /\ j.bundle.spk.key.kind = "signed"
    BY <1>1, SecretOfInitiation
  <2>3. i.eph = j.eph
    BY <2>1, <2>2
  <2> QED BY <1>1, <2>3 DEF IInv, InitiationsInv
<1> QED BY <1>1, IInvAlways, PTL

(***************************************************************************)
(* An initiator can compute the secret, and so can the party whose bundle  *)
(* it is; nobody else can, whoever's the keys in the bundle are: initiate  *)
(* refuses a signed pre-key that is signed by another identity than the    *)
(* one in the bundle.                                                      *)
(***************************************************************************)
THEOREM PeersOnly == Spec => []OnlyPeersCanCompute
<1>1. ASSUME IInv PROVE OnlyPeersCanCompute
  <2> SUFFICES ASSUME NEW i \in initiations, NEW p \in Party
               PROVE  CanCompute(p, i.secret) <=> p = i.by \/ BundleOf(p, i.bundle)
    <3>1. \A i \in initiations : i.by \in Party
      BY <1>1 DEF IInv, TypeOK, Initiation
    <3> QED BY <3>1 DEF OnlyPeersCanCompute
  <2>1. PICK q \in Party : i.bundle.identity = IdentityKey(q)
    BY <1>1, SecretOfInitiation
  <2>2. PICK bundle : bundle = i.bundle
    OBVIOUS
  <2>3. PICK n \in {3, 4} : n = Len(i.secret)
    BY <1>1, SecretOfInitiation
  <2>4. /\ i.secret[1] = {IdentityKey(i.by), bundle.spk.key}
        /\ i.secret[2] = {i.eph, IdentityKey(q)}
        /\ i.secret[3] = {i.eph, bundle.spk.key}
        /\ n = 4 <=> bundle.opk # None
        /\ n = 4 => i.secret[4] = {i.eph, bundle.opk.key}
        /\ i.eph.owner = i.by /\ bundle.spk.key.owner = bundle.verifying
    <3>1. /\ i.secret[1] = {IdentityKey(i.by), i.bundle.spk.key}
          /\ i.secret[2] = {i.eph, i.bundle.identity}
          /\ i.secret[3] = {i.eph, i.bundle.spk.key}
          /\ i.bundle.opk = None => Len(i.secret) = 3
          /\ i.bundle.opk # None => Len(i.secret) = 4 /\ i.secret[4] = {i.eph, i.bundle.opk.key}
          /\ i.eph.owner = i.by /\ i.bundle.spk.key.owner = i.bundle.verifying
      BY <1>1, SecretOfInitiation
    <3>2. n = 4 <=> bundle.opk # None
      <4>1. bundle.opk = None => n = 3
        BY <2>2, <2>3, <3>1
      <4>2. bundle.opk # None => n = 4
        BY <2>2, <2>3, <3>1
      <4> QED BY <4>1, <4>2
    <3>3. i.secret[2] = {i.eph, IdentityKey(q)}
      BY <2>1, <3>1
    <3>4. n = 4 => i.secret[4] = {i.eph, bundle.opk.key}
      BY <2>2, <3>1, <3>2
    <3>5. /\ i.secret[1] = {IdentityKey(i.by), bundle.spk.key}
          /\ i.secret[3] = {i.eph, bundle.spk.key}
          /\ i.eph.owner = i.by /\ bundle.spk.key.owner = bundle.verifying
      BY <2>2, <3>1
    <3> QED BY <3>2, <3>3, <3>4, <3>5
  <2>5. DOMAIN i.secret = 1 .. n
    BY <1>1, <2>3, SecretOfInitiation
  <2>6. IdentityKey(i.by).owner = i.by /\ IdentityKey(q).owner = q
    BY DEF IdentityKey, KeyPairOf
  <2>7. BundleOf(p, bundle) <=> p = q /\ bundle.verifying = p /\ (n = 4 => bundle.opk.key.owner = p)
    <3>1. IdentityKey(q) = IdentityKey(p) <=> q = p
      BY DEF IdentityKey, KeyPairOf
    <3> QED BY <2>1, <2>2, <2>4, <3>1 DEF BundleOf
  <2>8. CanCompute(p, i.secret) <=>
           p = i.by \/ (p = q /\ bundle.verifying = p /\ (n = 4 => bundle.opk.key.owner = p))
    <3>1. CanCompute(p, i.secret) <=>
             \A k \in 1 .. n : \E key \in i.secret[k] : key.owner = p
      BY <2>5 DEF CanCompute
    <3>2. \A k : k \in 1 .. n <=> (k = 1 \/ k = 2 \/ k = 3 \/ (k = 4 /\ n = 4))
      OBVIOUS
    <3>3. CanCompute(p, i.secret) <=>
             /\ \E key \in i.secret[1] : key.owner = p
             /\ \E key \in i.secret[2] : key.owner = p
             /\ \E key \in i.secret[3] : key.owner = p
             /\ n = 4 => \E key \in i.secret[4] : key.owner = p
      BY <3>1, <3>2
    <3> QED BY <2>4, <2>6, <3>3
  <2> QED BY <2>2, <2>7, <2>8
<1> QED BY <1>1, IInvAlways, PTL

(***************************************************************************)
(* The ephemeral key in a secret tells which initiation it is of, and the  *)
(* other DH outputs tell which pre-keys it was computed with.              *)
(***************************************************************************)
LEMMA AgreementHolds == IInv => Agreement
<1> SUFFICES ASSUME IInv, NEW i \in initiations, NEW r \in responses
             PROVE  r.secret = i.secret <=> Matches(r, i)
  BY DEF Agreement
<1>1. Responded(r) /\ r \in Response
  BY DEF IInv, ResponsesInv, TypeOK
<1>2. PICK j \in initiations : j = r.to
  BY <1>1 DEF Responded
<1>3. PICK secret : secret = r.secret
  OBVIOUS
<1>4. secret = ResponderSecret(IdentityKey(r.by), r.spk, r.opk, IdentityKey(r.from), j.eph)
  BY <1>1, <1>2, <1>3 DEF Responded
<1>5. /\ secret[1] = {r.spk.key, IdentityKey(r.from)}
      /\ secret[2] = {IdentityKey(r.by), j.eph}
      /\ secret[3] = {r.spk.key, j.eph}
      /\ r.opk = None => Len(secret) = 3
      /\ r.opk # None => Len(secret) = 4 /\ secret[4] = {r.opk.key, j.eph}
  BY <1>4, ResponderSecretIs
<1>6. ASSUME r.secret = i.secret PROVE Matches(r, i)
  <2>1. secret[3] = {i.eph, i.bundle.spk.key}
    BY <1>3, <1>6, SecretOfInitiation
  <2>2. /\ i.eph.kind = "ephemeral" /\ j.eph.kind = "ephemeral"
        /\ i.bundle.spk.key.kind = "signed" /\ r.spk.key.kind = "signed"
    BY <1>1, SecretOfInitiation DEF Responded
  <2>3. j.eph = i.eph /\ r.spk.key = i.bundle.spk.key
    BY <1>5, <2>1, <2>2
  <2>4. j = i
    BY <2>3 DEF IInv, InitiationsInv
  <2>5. r.spk = i.bundle.spk
    <3>1. r.spk \in Spk /\ i.bundle.spk \in Spk
      BY <1>1, SecretOfInitiation DEF Response
    <3>2. r.spk.signer = i.bundle.spk.signer
      BY <1>1, <2>3, SecretOfInitiation DEF Responded
    <3> QED BY <2>3, <3>1, <3>2 DEF Spk
  <2>6. r.opk = i.bundle.opk
    <3>1. r.opk = None <=> i.bundle.opk = None
      <4>1. /\ i.bundle.opk = None => Len(secret) = 3
            /\ i.bundle.opk # None => Len(secret) = 4
        BY <1>3, <1>6, SecretOfInitiation
      <4> QED BY <1>5, <4>1
    <3>2. ASSUME r.opk # None PROVE r.opk = i.bundle.opk
      <4>1. secret[4] = {i.eph, i.bundle.opk.key} /\ i.bundle.opk \in Opk
        BY <1>3, <1>6, <3>1, <3>2, SecretOfInitiation
      <4>2. r.opk.key = i.bundle.opk.key
        BY <1>5, <2>3, <3>2, <4>1
      <4>3. r.opk \in Opk /\ r.opk.id = i.bundle.opk.id
        BY <1>1, <1>2, <2>4, <3>2 DEF Responded, Response
      <4> QED BY <4>1, <4>2, <4>3 DEF Opk
    <3> QED BY <3>1, <3>2
  <2>7. r.from = i.by
    <3>1. secret[1] = {IdentityKey(i.by), i.bundle.spk.key}
      BY <1>3, <1>6, SecretOfInitiation
    <3>2. \A p : IdentityKey(p).kind = "identity" /\ IdentityKey(p).owner = p
      BY DEF IdentityKey, KeyPairOf
    <3>3. IdentityKey(r.from) = IdentityKey(i.by)
      BY <1>5, <2>2, <3>1, <3>2
    <3> QED BY <3>2, <3>3
  <2>8. IdentityKey(r.by) = i.bundle.identity
    <3>1. secret[2] = {i.eph, i.bundle.identity}
      BY <1>3, <1>6, SecretOfInitiation
    <3>2. IdentityKey(r.by).kind = "identity"
      BY DEF IdentityKey, KeyPairOf
    <3>3. i.bundle.identity.kind = "identity"
      <4>1. PICK p \in Party : i.bundle.identity = IdentityKey(p)
        BY SecretOfInitiation
      <4> QED BY <4>1 DEF IdentityKey, KeyPairOf
    <3> QED BY <1>5, <2>2, <2>3, <3>1, <3>2, <3>3
  <2> QED BY <1>2, <2>4, <2>5, <2>6, <2>7, <2>8 DEF Matches
<1>7. ASSUME Matches(r, i) PROVE r.secret = i.secret
  <2>1. Initiated(i)
    BY DEF IInv, InitiationsInv
  <2>2. \A a, b : DH(a, b) = DH(b, a)
    BY DEF DH
  <2>3. /\ i.secret = InitiatorSecret(IdentityKey(i.by), i.eph, i.bundle)
        /\ i.bundle.identity = IdentityKey(r.by)
        /\ r.spk = i.bundle.spk /\ r.opk = i.bundle.opk
        /\ r.secret = ResponderSecret(IdentityKey(r.by), r.spk, r.opk,
                                      IdentityKey(i.by), i.eph)
    BY <1>2, <1>3, <1>4, <1>7, <2>1 DEF Initiated, Matches
  <2> QED BY <2>2, <2>3 DEF InitiatorSecret, ResponderSecret
<1> QED BY <1>6, <1>7

(***************************************************************************)
(* A response has the secret of an initiation if and only if it answers    *)
(* that one, as coming from its initiator, and holds the identity, signed  *)
(* and one-time pre-key of its bundle.                                     *)
(***************************************************************************)
THEOREM SecretsAgree == Spec => []Agreement
BY AgreementHolds, IInvAlways, PTL

-----------------------------------------------------------------------------
(* The first message and its reply *)

(***************************************************************************)
(* The sessions understand each other if and only if the secrets they      *)
(* start from are the same, and then the reply opens as well.              *)
(***************************************************************************)
THEOREM SessionsMeet == Spec => []FirstExchange
<1>1. ASSUME IInv PROVE FirstExchange
  <2> SUFFICES ASSUME NEW i \in initiations, NEW r \in responses
               PROVE  LET alice == InitiatorSession(i)
                          ratchet_key == KeyPairOf(r.by, "ratchet", 0)
                          bob   == AfterReceive(Receives(ResponderSession(r), alice, ratchet_key))
                          heard == OpensFirst(ResponderSession(r), alice, ratchet_key)
                          reply == OpensFirst(alice, bob, KeyPairOf(i.by, "ratchet", 1))
                      IN  /\ heard <=> r.secret = i.secret
                          /\ heard => reply
    BY DEF FirstExchange
  <2>1. PICK ours : ours = KeyPairOf(i.by, "ratchet", 0)
    OBVIOUS
  <2>2. PICK theirs : theirs = KeyPairOf(r.by, "ratchet", 0)
    OBVIOUS
  <2>3. PICK next : next = KeyPairOf(i.by, "ratchet", 1)
    OBVIOUS
  <2>4. PICK spk : spk = i.bundle.spk.key
    OBVIOUS
  <2>5. PICK root : root = RatchetStep(<<i.secret>>, DH(ours, spk))
    OBVIOUS
  <2>6. PICK recv : recv = RatchetStep(<<r.secret>>, DH(r.spk.key, ours))
    OBVIOUS
  <2>7. PICK send : send = RatchetStep(recv, DH(theirs, ours))
    OBVIOUS
  <2>8. PICK alice : alice = InitiatorSession(i)
    OBVIOUS
  <2>9. PICK start : start = ResponderSession(r)
    OBVIOUS
  \* Bob receives.
  <2>10. /\ alice = Unheard(root, ours, spk, NewChain(root))
         /\ start = Unheard(<<r.secret>>, r.spk.key, None, None)
    BY <2>1, <2>4, <2>5, <2>8, <2>9
       DEF InitiatorSession, ResponderSession, InitAlice, InitBob, Unheard
  <2>11. PICK hdr : hdr = NextHeader(alice)
    OBVIOUS
  <2>12. /\ hdr.dh = ours /\ hdr.n = 0
         /\ NextMessageKey(alice.sending_chain) = MessageKeyAt(NewChain(root), 0)
    BY <2>10, <2>11 DEF NextHeader, Unheard, NewChain, NextMessageKey
  <2>13. ours # None
    <3>1. i.by \in Party
      BY <1>1 DEF IInv, TypeOK, Initiation
    <3> QED BY <2>1, <3>1, NoneAssumption DEF KeyPairOf, RatchetKeys
  <2>14. PICK heard : heard = Receives(start, alice, theirs)
    OBVIOUS
  <2>15. heard = Skip(AfterRatchet(start, hdr, theirs), hdr.dh, hdr.n)
    BY <2>11, <2>14 DEF Receives
  <2>16. /\ heard.dh_public = theirs
         /\ heard.receiving_chain = NewChain(recv)
         /\ heard.sending_chain = NewChain(send)
         /\ DOMAIN heard = DOMAIN start
    <3>1. hdr.n = 0 /\ hdr.dh # None
      BY <2>12, <2>13
    <3> QED BY <2>6, <2>7, <2>10, <2>12, <2>15, <3>1, FirstReceipt
  <2>17. OpensFirst(start, alice, theirs) <=> recv = root
    BY <2>12, <2>14, <2>16 DEF OpensFirst, NextMessageKey, MessageKeyAt, NewChain
  <2>18. recv = root <=> r.secret = i.secret
    <3>1. ASSUME recv = root PROVE r.secret = i.secret
      BY <2>5, <2>6, <3>1, FirstRoots
    <3>2. ASSUME r.secret = i.secret PROVE recv = root
      <4>1. r.spk.key = spk
        BY <1>1, <2>4, <3>2, AgreementHolds DEF Agreement, Matches
      <4> QED BY <2>5, <2>6, <3>2, <4>1 DEF DH
    <3> QED BY <3>1, <3>2
  \* Alice receives the reply.
  <2>19. PICK bob : bob = AfterReceive(heard)
    OBVIOUS
  <2>20. bob.dh_public = theirs /\ bob.sending_chain = NewChain(send)
    <3>1. DOMAIN heard = {"root_key", "dh_public", "remote_dh_public", "sending_chain",
                          "receiving_chain", "previous_sending_chain_length", "skipped_keys"}
      BY <2>10, <2>16 DEF Unheard
    <3> QED BY <2>16, <2>19, <3>1 DEF AfterReceive
  <2>21. PICK back : back = NextHeader(bob)
    OBVIOUS
  <2>22. /\ back.dh = theirs /\ back.n = 0
         /\ NextMessageKey(bob.sending_chain) = MessageKeyAt(NewChain(send), 0)
    BY <2>20, <2>21 DEF NextHeader, NewChain, NextMessageKey
  <2>23. back.dh # spk
    <3>1. spk.kind = "signed" /\ theirs.kind = "ratchet"
      BY <1>1, <2>2, <2>4, SecretOfInitiation DEF KeyPairOf
    <3> QED BY <2>22, <3>1
  <2>24. PICK got : got = Receives(alice, bob, next)
    OBVIOUS
  <2>25. got.receiving_chain = NewChain(RatchetStep(root, DH(ours, theirs)))
    <3>1. got = Skip(AfterRatchet(alice, back, next), back.dh, back.n)
      BY <2>21, <2>24 DEF Receives
    <3> QED BY <2>10, <2>22, <2>23, <3>1, FirstReceipt
  <2>26. ASSUME recv = root PROVE OpensFirst(alice, bob, next)
    <3>1. RatchetStep(root, DH(ours, theirs)) = send
      BY <2>7, <2>26 DEF DH
    <3> QED BY <2>22, <2>24, <2>25, <3>1 DEF OpensFirst, NextMessageKey, MessageKeyAt, NewChain
  <2> QED BY <2>2, <2>3, <2>8, <2>9, <2>14, <2>17, <2>18, <2>19, <2>26
<1> QED BY <1>1, IInvAlways, PTL
===============================================================================
