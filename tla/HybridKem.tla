----------------------------- MODULE HybridKem -----------------------------
(***************************************************************************)
(* The hybrid key encapsulation of src/src/pqc/hybrid_kem.rs: X25519 and   *)
(* ML-KEM-768 side by side, their two secrets hashed into one.  The crate  *)
(* calls it nowhere; here users publish keys, encapsulate to any published *)
(* pair of keys, two users' halves included, and decapsulate with any keys *)
(* of their own and any ciphertext.                                        *)
(*                                                                         *)
(* ML-KEM rejects implicitly: with the wrong key, or a wrong ciphertext,   *)
(* decapsulation returns a secret that depends on both, and no error.  So  *)
(* its secret is named by the key pair and the ciphertext in either case.  *)
(* Arguments of a wrong length are errors that change nothing and have no  *)
(* action.                                                                 *)
(***************************************************************************)
EXTENDS KeyAgreement

CONSTANTS User,
          MaxKeyPairs,       \* bound: hybrid key pairs per user
          MaxEncapsulations, \* bound: encapsulations
          MaxDecapsulations  \* bound: decapsulations

ASSUME HybridAssumption ==
    {MaxKeyPairs, MaxEncapsulations, MaxDecapsulations} \subseteq Nat

VARIABLES pairs,          \* how many hybrid key pairs each user has generated
          encapsulations, \* what calls of hybrid_encapsulate returned
          decapsulations  \* what calls of hybrid_decapsulate returned

vars == <<pairs, encapsulations, decapsulations>>

-----------------------------------------------------------------------------
(* Keys and secrets *)

\* One half of every user's hybrid key pairs, by their public keys
Keys(kind) == UNION {{KeyPairOf(p, kind, n) : n \in 0 .. pairs[p] - 1} : p \in User}

X25519Keys == Keys("x25519")

MlKemKeys == Keys("mlkem")

Ciphertext(key, seed) == [key |-> key, seed |-> seed]

\* Mutant: the randomness is the recipient's key.
SeedFixed(key) == 0

\* Randomness nobody has used before
Seed(key) == Cardinality(encapsulations)

\* What encapsulate returns with ct, and decapsulate for any key and ct
KemSecret(key, ct) == [key |-> key, ct |-> ct]

\* Both parts are 32 bytes long, so their concatenation stands for the two,
\* in this order.
HybridSecret(x25519, mlkem) == <<x25519, mlkem>>

-----------------------------------------------------------------------------
Init == /\ pairs = [p \in User |-> 0]
        /\ encapsulations = {}
        /\ decapsulations = {}

GenerateHybridKeypair(p) ==
    /\ pairs[p] < MaxKeyPairs                                \* bound
    /\ pairs' = [pairs EXCEPT ![p] = @ + 1]
    /\ UNCHANGED <<encapsulations, decapsulations>>

\* The caller passes its X25519 secret, which may be one it has used before.
HybridEncapsulate(ours, their_x25519, their_mlkem) ==
    /\ Cardinality(encapsulations) < MaxEncapsulations       \* bound
    /\ LET ct == Ciphertext(their_mlkem, Seed(their_mlkem))
       IN  encapsulations' = encapsulations \cup
              {[ours |-> ours, x25519 |-> their_x25519, mlkem |-> their_mlkem, ct |-> ct,
                id |-> Cardinality(encapsulations),
                secret |-> HybridSecret(DH(ours, their_x25519),
                                        KemSecret(their_mlkem, ct))]}
    /\ UNCHANGED <<pairs, decapsulations>>

\* Any ciphertext: of an encapsulation, or one that none returned
Ciphertexts == {e.ct : e \in encapsulations} \cup
               {Ciphertext(key, None) : key \in MlKemKeys}

HybridDecapsulate(ours, their_x25519, our_mlkem, ct) ==
    /\ Cardinality(decapsulations) < MaxDecapsulations       \* bound
    /\ decapsulations' = decapsulations \cup
          {[ours |-> ours, x25519 |-> their_x25519, mlkem |-> our_mlkem, ct |-> ct,
            secret |-> HybridSecret(DH(ours, their_x25519), KemSecret(our_mlkem, ct))]}
    /\ UNCHANGED <<pairs, encapsulations>>

Next == \/ \E p \in User : GenerateHybridKeypair(p)
        \/ \E ours, theirs \in X25519Keys, mlkem \in MlKemKeys :
              \/ HybridEncapsulate(ours, theirs, mlkem)
              \/ \E ct \in Ciphertexts :
                    /\ ours.owner = mlkem.owner
                    /\ HybridDecapsulate(ours, theirs, mlkem, ct)

Spec == Init /\ [][Next]_vars

-----------------------------------------------------------------------------
(* Safety *)

(***************************************************************************)
(* No two encapsulations share a secret, although the caller may give the  *)
(* same X25519 secret each time.                                           *)
(***************************************************************************)
SecretsFresh ==
    \A e, f \in encapsulations : e.secret = f.secret => e = f
=============================================================================
