-------------------------------- MODULE X3DH --------------------------------
(***************************************************************************)
(* The X3DH key agreement (src/src/x3dh) over the identity, signed and     *)
(* one-time pre-keys of src/src/identity, the entry points of api.rs, and  *)
(* the Double Ratchet sessions the parties start with what it gives them.  *)
(*                                                                         *)
(* The directory server is outside the repository, and is trusted for      *)
(* nothing: a bundle is any identity key, any verifying key, any signed    *)
(* pre-key anyone ever published with its signature, and any one-time      *)
(* pre-key, given out before or not, or none.  The five fields need not    *)
(* belong together.                                                        *)
(***************************************************************************)
EXTENDS KeyAgreement

CONSTANTS Party,        \* the users
          MaxSpks,      \* bound: signed pre-keys in total
          MaxBatches,   \* bound: batches of one-time pre-keys in total
          BatchSize,    \* the count given to generate_batch
          MaxInitiations, \* bound: initiations in total
          MaxResponses, \* bound: responses in total
          ThroughApi    \* do responders call api.rs, not the library?

ASSUME X3DHAssumption == /\ MaxSpks \in Nat
                         /\ MaxBatches \in Nat
                         /\ BatchSize \in Nat
                         /\ MaxInitiations \in Nat
                         /\ MaxResponses \in Nat
                         /\ ThroughApi \in BOOLEAN

VARIABLES spks,        \* signed pre-keys published: [key, signer]
          batches,     \* batches of one-time pre-keys each party generated
          initiations, \* calls of initiate that succeeded
          responses    \* calls of respond

vars == <<spks, batches, initiations, responses>>

-----------------------------------------------------------------------------
(* Keys *)

IdentityKey(p) == KeyPairOf(p, "identity", 0)

\* Mutant: the signature is lost.
UnsignedPreKey(p, n) == [key |-> KeyPairOf(p, "signed", n), signer |-> None]

\* A signed pre-key carries the signature its owner made over its public key.
SignedPreKey(p, n) == [key |-> KeyPairOf(p, "signed", n), signer |-> p]

(***************************************************************************)
(* generate_batch: the ids of each batch start from 0, so the keys are     *)
(* told apart by their batch as well.                                      *)
(***************************************************************************)
Batch(p, b) == {[key |-> KeyPairOf(p, "onetime", b * BatchSize + i), id |-> i] :
                   i \in 0 .. (BatchSize - 1)}

OneTimePreKeys(p) == UNION {Batch(p, b) : b \in 0 .. (batches[p] - 1)}

PublishedOneTimePreKeys == UNION {OneTimePreKeys(q) : q \in Party}

EphemeralKey(p) ==
    KeyPairOf(p, "ephemeral", Cardinality({i \in initiations : i.by = p}))

-----------------------------------------------------------------------------
Init == /\ spks = {}
        /\ batches = [p \in Party |-> 0]
        /\ initiations = {}
        /\ responses = {}

\* SignedPreKey::generate.  The application keeps the old ones.
GenerateSignedPreKey(p) ==
    LET n == Cardinality({spk \in spks : spk.signer = p})
    IN  /\ Cardinality(spks) < MaxSpks                       \* bound
        /\ spks' = spks \cup {SignedPreKey(p, n)}
        /\ UNCHANGED <<batches, initiations, responses>>

\* OneTimePreKey::generate_batch
GenerateOneTimePreKeys(p) ==
    /\ Cardinality(PublishedOneTimePreKeys) < MaxBatches * BatchSize  \* bound
    /\ batches' = [batches EXCEPT ![p] = @ + 1]
    /\ UNCHANGED <<spks, initiations, responses>>

\* The server's answers: a signature comes with its signed pre-key, and
\* nothing else ties the fields to each other.
Bundles == [identity : {IdentityKey(q) : q \in Party}, verifying : Party,
            spk : spks, opk : PublishedOneTimePreKeys \cup {None}]

(***************************************************************************)
(* initiate; a bundle whose signature fails changes nothing.               *)
(***************************************************************************)
Initiate(p) ==
    /\ Cardinality(initiations) < MaxInitiations                \* bound
    /\ \E bundle \in Bundles :
          /\ Accepts(bundle)
          /\ initiations' = initiations \cup
                {[by |-> p, bundle |-> bundle, eph |-> EphemeralKey(p),
                  secret |-> InitiatorSecret(IdentityKey(p), EphemeralKey(p), bundle)]}
    /\ UNCHANGED <<spks, batches, responses>>

(***************************************************************************)
(* respond: q is told that the ephemeral key of i comes from a party, not  *)
(* always the one who drew it.  It passes any signed pre-key of its own,   *)
(* and the one-time pre-key of its own with the id the initiator was given *)
(* (the application conveys it), if any.  x3dh_respond of api.rs always    *)
(* passes None.                                                            *)
(***************************************************************************)
OpkArguments(q, i) ==
    IF ThroughApi \/ i.bundle.opk = None
    THEN {None}
    ELSE {None} \cup {opk \in OneTimePreKeys(q) : opk.id = i.bundle.opk.id}

Respond(q, i, from) ==
    /\ Cardinality(responses) < MaxResponses                 \* bound
    /\ \E spk \in {s \in spks : s.signer = q}, opk \in OpkArguments(q, i) :
          responses' = responses \cup
             {[by |-> q, to |-> i, from |-> from, spk |-> spk, opk |-> opk,
               secret |-> ResponderSecret(IdentityKey(q), spk, opk,
                                          IdentityKey(from), i.eph)]}
    /\ UNCHANGED <<spks, batches, initiations>>

Next == \/ \E p \in Party : GenerateSignedPreKey(p) \/ GenerateOneTimePreKeys(p)
        \/ \E p \in Party : Initiate(p)
        \/ \E q, from \in Party, i \in initiations : Respond(q, i, from)

Spec == Init /\ [][Next]_vars

-----------------------------------------------------------------------------
(* Types *)

KeyPairs   == [owner : Party, kind : {"identity", "signed", "onetime", "ephemeral"},
               n : Nat]
Spk        == [key : KeyPairs, signer : Party]
Opk        == [key : KeyPairs, id : Nat]
Secret     == Seq(SUBSET KeyPairs)
Bundle     == [identity : KeyPairs, verifying : Party, spk : Spk, opk : Opk \cup {None}]
Initiation == [by : Party, bundle : Bundle, eph : KeyPairs, secret : Secret]
Response   == [by : Party, to : Initiation, from : Party, spk : Spk,
               opk : Opk \cup {None}, secret : Secret]

\* The key pairs of the sessions that start with the secrets
RatchetKeys == [owner : Party, kind : {"ratchet"}, n : Nat]

\* A missing key is no key: a session of init_bob has no remote key.
ASSUME NoneAssumption == None \notin RatchetKeys

\* The types of what the calls take and return.
TypeOK == /\ spks \subseteq Spk
          /\ batches \in [Party -> Nat]
          /\ initiations \subseteq Initiation
          /\ responses \subseteq Response

-----------------------------------------------------------------------------
(* Safety *)

\* The response is by the owner of the bundle's identity key, to the initiator
\* it was told of, and with the pre-keys of the bundle.
Matches(r, i) == /\ r.to = i /\ r.from = i.by
                 /\ IdentityKey(r.by) = i.bundle.identity
                 /\ r.spk = i.bundle.spk /\ r.opk = i.bundle.opk

(***************************************************************************)
(* A response computes the secret of some initiation exactly when it is a  *)
(* response to that initiation, from its initiator, by the owner of the    *)
(* bundle's identity key, and with the very pre-keys of the bundle: the    *)
(* same secret, and never a secret shared with anything else.              *)
(***************************************************************************)
Agreement ==
    \A i \in initiations, r \in responses : r.secret = i.secret <=> Matches(r, i)

\* Who can compute a secret: whoever owns a key of each of its DH outputs.
CanCompute(p, secret) ==
    \A k \in DOMAIN secret : \E key \in secret[k] : key.owner = p

\* A bundle of p: identity and verifying key are p's, and nobody else has the
\* one-time pre-key.  Whose the signed pre-key is initiate has to find out.
BundleOf(p, bundle) ==
    /\ bundle.identity = IdentityKey(p) /\ bundle.verifying = p
    /\ bundle.opk # None => bundle.opk.key.owner = p

(***************************************************************************)
(* The secret of an initiation belongs to the initiator and to the party   *)
(* whose bundle it is, whatever signed pre-key the server put into it.     *)
(* With a bundle put together from keys of several parties it belongs to   *)
(* nobody but the initiator.                                               *)
(***************************************************************************)
OnlyPeersCanCompute ==
    \A i \in initiations :
        {p \in Party : CanCompute(p, i.secret)} = {i.by} \cup {p \in Party : BundleOf(p, i.bundle)}

(***************************************************************************)
(* No two initiations share a secret, not even with the same bundle.       *)
(***************************************************************************)
SecretsFresh == \A i, j \in initiations : i.secret = j.secret => i = j

-----------------------------------------------------------------------------
(* The sessions started with the secrets *)

InitiatorSession(i) ==
    InitAlice(i.secret, KeyPairOf(i.by, "ratchet", 0), i.bundle.spk.key)

ResponderSession(r) == InitBob(r.secret, r.spk.key)

\* decrypt of a message from sender, the receiving session's new key given
Receives(receiver, sender, new_dh_public) ==
    Skip(AfterRatchet(receiver, NextHeader(sender), new_dh_public),
         NextHeader(sender).dh, NextHeader(sender).n)

OpensFirst(receiver, sender, new_dh_public) ==
    NextMessageKey(Receives(receiver, sender, new_dh_public).receiving_chain)
        = NextMessageKey(sender.sending_chain)

(***************************************************************************)
(* The sessions of an initiator and of a responder understand each other,  *)
(* the first message and the reply to it, exactly when both have the same  *)
(* X3DH secret: agreement on the secret is also agreement on the signed    *)
(* pre-key init_alice and init_bob take beside it.                         *)
(***************************************************************************)
FirstExchange ==
    \A i \in initiations, r \in responses :
        LET alice == InitiatorSession(i)
            ratchet_key == KeyPairOf(r.by, "ratchet", 0)
            bob   == AfterReceive(Receives(ResponderSession(r), alice, ratchet_key))
            heard == OpensFirst(ResponderSession(r), alice, ratchet_key)
            reply == OpensFirst(alice, bob, KeyPairOf(i.by, "ratchet", 1))
        IN  /\ heard <=> r.secret = i.secret
            /\ heard => reply
=============================================================================
