------------------------ MODULE RatchetSessionProofs ------------------------
(***************************************************************************)
(* What is proved of one Double Ratchet session, whatever its keys are     *)
(* called: the loop that skips message keys.                               *)
(***************************************************************************)
EXTENDS RatchetSession, TLAPS, FiniteSetTheorems

-----------------------------------------------------------------------------
(***************************************************************************)
(* A nonempty set of naturals has a least element.  The initial segments   *)
(* are finite sets, and strict inclusion of finite sets is well-founded.   *)
(***************************************************************************)
LEMMA LeastNatural ==
    ASSUME NEW S \in SUBSET Nat, S # {}
    PROVE  \E x \in S : \A y \in S : x <= y
<1> DEFINE Segments == {0 .. n : n \in S}
<1>1. Segments \subseteq FiniteSubsetsOf(Nat)
  <2>1. \A n \in Nat : 0 .. n \subseteq Nat /\ IsFiniteSet(0 .. n)
    BY FS_Interval
  <2> QED BY <2>1 DEF FiniteSubsetsOf
<1>2. Segments # {}
  OBVIOUS
<1>3. PICK I \in Segments :
          \A J \in Segments : <<J, I>> \notin StrictSubsetOrdering(Nat)
  <2> HIDE DEF Segments
  <2> QED BY <1>1, <1>2, FS_StrictSubsetOrderingWellFounded, WFMin
<1>4. PICK x \in S : I = 0 .. x
  OBVIOUS
<1>5. ASSUME NEW y \in S PROVE x <= y
  <2>1. SUFFICES ASSUME y < x PROVE FALSE
    BY <1>5
  <2>2. 0 .. y \subseteq 0 .. x /\ 0 .. y # 0 .. x
    BY <2>1
  <2>3. 0 .. y \in SUBSET Nat /\ 0 .. x \in SUBSET Nat
    OBVIOUS
  <2>4. <<0 .. y, 0 .. x>> \in StrictSubsetOrdering(Nat)
    BY <2>2, <2>3 DEF StrictSubsetOrdering
  <2> QED BY <2>4, <1>3, <1>4
<1> QED BY <1>5

(***************************************************************************)
(* The skipping loop leaves the receiving chain's index where it was or    *)
(* further on, and when it gives up, at the first number that is too much. *)
(***************************************************************************)
LEMMA SkipEndType ==
    ASSUME NEW s, NEW dh, NEW until \in Nat,
           s.receiving_chain.index \in Nat
    PROVE  /\ SkipEnd(s, dh, until) \in Nat
           /\ SkipEnd(s, dh, until) >= s.receiving_chain.index
           /\ \A end \in GivesUpAt(s, dh, until) : SkipEnd(s, dh, until) <= end
           /\ SkipRefused(s, dh, until) =>
                 SkipEnd(s, dh, until) \in GivesUpAt(s, dh, until)
           /\ ~ SkipRefused(s, dh, until) =>
                 SkipEnd(s, dh, until) \in {s.receiving_chain.index, until}
<1>1. CASE SkipRefused(s, dh, until)
  <2>1. /\ GivesUpAt(s, dh, until) \subseteq Nat
        /\ \A end \in GivesUpAt(s, dh, until) : end > s.receiving_chain.index
    BY DEF GivesUpAt
  <2>2. PICK e \in GivesUpAt(s, dh, until) :
            \A x \in GivesUpAt(s, dh, until) : e <= x
    BY <1>1, <2>1, LeastNatural DEF SkipRefused
  <2>3. /\ SkipEnd(s, dh, until) \in GivesUpAt(s, dh, until)
        /\ \A end \in GivesUpAt(s, dh, until) : SkipEnd(s, dh, until) <= end
    BY <1>1, <2>2 DEF SkipEnd, Min
  <2> QED BY <1>1, <2>1, <2>3
<1>2. CASE ~ SkipRefused(s, dh, until)
  BY <1>2 DEF SkipEnd, Max, SkipRefused
<1> QED BY <1>1, <1>2
=============================================================================
