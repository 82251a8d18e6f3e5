--------------------------- MODULE HybridKemProofs ---------------------------
(***************************************************************************)
(* Proofs about the hybrid key encapsulation: the secrets that its calls   *)
(* return, for any users and bounds.                                       *)
(***************************************************************************)
EXTENDS HybridKem, FiniteSetTheorems, TLAPS

\* What hybrid_encapsulate returned, and with which arguments
Encapsulation(e) ==
    /\ e.ct = Ciphertext(e.mlkem, e.id)
    /\ e.secret = HybridSecret(DH(e.ours, e.x25519), KemSecret(e.mlkem, e.ct))

(***************************************************************************)
(* Each encapsulation draws randomness of its own, by which it is told     *)
(* from every other one.                                                   *)
(***************************************************************************)
IInv ==
    /\ IsFiniteSet(encapsulations)
    /\ \A e \in encapsulations : /\ Encapsulation(e)
                                 /\ e.id \in Nat
                                 /\ e.id < Cardinality(encapsulations)
    /\ \A e, f \in encapsulations : e.id = f.id => e = f

-----------------------------------------------------------------------------
(* The inductive invariant *)

(***************************************************************************)
(* Nobody has called anything yet.                                         *)
(***************************************************************************)
LEMMA IInvInit == Init => IInv
BY FS_EmptySet DEF Init, IInv

(***************************************************************************)
(* hybrid_encapsulate draws randomness that no call before it has drawn.   *)
(***************************************************************************)
LEMMA EncapsulateStep ==
    ASSUME IInv, NEW ours, NEW their_x25519, NEW their_mlkem,
           HybridEncapsulate(ours, their_x25519, their_mlkem)
    PROVE  IInv'
<1>1. PICK n : n = Cardinality(encapsulations)
  OBVIOUS
<1>2. n \in Nat
  BY <1>1, FS_CardinalityType DEF IInv
<1>3. PICK ct : ct = Ciphertext(their_mlkem, n)
  OBVIOUS
<1>4. PICK secret : secret = HybridSecret(DH(ours, their_x25519), KemSecret(their_mlkem, ct))
  OBVIOUS
<1>5. PICK new : new = [ours |-> ours, x25519 |-> their_x25519, mlkem |-> their_mlkem,
                        ct |-> ct, id |-> n, secret |-> secret]
  OBVIOUS
<1>6. encapsulations' = encapsulations \cup {new}
  BY <1>1, <1>3, <1>4, <1>5 DEF HybridEncapsulate, Seed
<1>7. new.id = n /\ Encapsulation(new)
  BY <1>3, <1>4, <1>5 DEF Encapsulation
<1>8. new \notin encapsulations
  BY <1>1, <1>2, <1>7 DEF IInv
<1>9. IsFiniteSet(encapsulations') /\ Cardinality(encapsulations') = n + 1
  BY <1>1, <1>6, <1>8, FS_AddElement DEF IInv
<1>10. \A e \in encapsulations : e.id \in Nat /\ e.id < n
  BY <1>1 DEF IInv
<1>11. \A e \in encapsulations' : /\ Encapsulation(e)
                                  /\ e.id \in Nat
                                  /\ e.id < Cardinality(encapsulations')
  BY <1>2, <1>6, <1>7, <1>9, <1>10 DEF IInv
<1>12. \A e, f \in encapsulations' : e.id = f.id => e = f
  BY <1>2, <1>6, <1>7, <1>10 DEF IInv
<1> QED BY <1>9, <1>11, <1>12 DEF IInv

(***************************************************************************)
(* The invariant is inductive.                                             *)
(***************************************************************************)
LEMMA IInvStep == IInv /\ [Next]_vars => IInv'
<1> SUFFICES ASSUME IInv, [Next]_vars PROVE IInv'
  OBVIOUS
<1>1. CASE UNCHANGED encapsulations
  BY <1>1 DEF IInv, Encapsulation
<1>2. ASSUME NEW ours, NEW theirs, NEW mlkem, HybridEncapsulate(ours, theirs, mlkem)
      PROVE  IInv'
  BY <1>2, EncapsulateStep
<1> QED BY <1>1, <1>2 DEF Next, vars, GenerateHybridKeypair, HybridDecapsulate

(***************************************************************************)
(* The invariant holds in every reachable state.                           *)
(***************************************************************************)
LEMMA IInvAlways == Spec => []IInv
BY IInvInit, IInvStep, PTL DEF Spec

-----------------------------------------------------------------------------
(* Theorems *)

(***************************************************************************)
(* No two calls of hybrid_encapsulate return one secret, even if a caller  *)
(* gives it one X25519 secret twice: ML-KEM draws new randomness.          *)
(***************************************************************************)
THEOREM SecretsDiffer == Spec => []SecretsFresh
<1>1. ASSUME IInv PROVE SecretsFresh
  <2> SUFFICES ASSUME NEW e \in encapsulations, NEW f \in encapsulations,
                      e.secret = f.secret
               PROVE  e = f
    BY DEF SecretsFresh
  <2>1. Encapsulation(e) /\ Encapsulation(f)
    BY <1>1 DEF IInv
  <2>2. KemSecret(e.mlkem, e.ct) = KemSecret(f.mlkem, f.ct)
    <3>1. HybridSecret(DH(e.ours, e.x25519), KemSecret(e.mlkem, e.ct))
             = HybridSecret(DH(f.ours, f.x25519), KemSecret(f.mlkem, f.ct))
      BY <2>1 DEF Encapsulation
    <3>2. \A x, k, y, l : HybridSecret(x, k) = HybridSecret(y, l) => k = l
      BY DEF HybridSecret
    <3> QED BY <3>1, <3>2
  <2>3. e.ct = f.ct
    BY <2>2 DEF KemSecret
  <2>4. e.id = f.id
    BY <2>1, <2>3 DEF Encapsulation, Ciphertext
  <2> QED BY <1>1, <2>4 DEF IInv
<1> QED BY <1>1, IInvAlways, PTL
==============================================================================
