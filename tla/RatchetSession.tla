--------------------------- MODULE RatchetSession ---------------------------
(***************************************************************************)
(* One Double Ratchet session (src/src/ratchet/state.rs) as a value, and   *)
(* the effect of every operation on it.  Cryptography is symbolic:         *)
(*                                                                         *)
(*  - a DH key pair is named by its public half, a pair <<party, k>>: the  *)
(*    k-th key pair that party generated;                                  *)
(*  - a DH output is the set of the two key pairs it was computed from;    *)
(*  - a root key is the sequence of the inputs it was derived from, the    *)
(*    X3DH secret first.  One HKDF call yields the new root key and a      *)
(*    chain key, its two halves: both carry the name of that sequence;     *)
(*  - a chain is [root, index]: the chain key of that name, advanced index *)
(*    times.  A message key is [chain, n]: what the chain of that name     *)
(*    yields at index n.                                                   *)
(*                                                                         *)
(* Different names are different keys, and a name can be computed from     *)
(* another only in the direction the derivation goes.                      *)
(***************************************************************************)
EXTENDS Integers, Sequences, FiniteSets, FiniteSetsExt

CONSTANTS MaxSkip,   \* MAX_SKIP: how many skipped message keys a session stores
          None       \* the None of an Option field

ASSUME MaxSkipAssumption == MaxSkip \in Nat

-----------------------------------------------------------------------------
(* Key derivation *)

DH(ours, theirs) == {ours, theirs}

\* dh_ratchet_step: the name of the new root key and of the new chain key
RatchetStep(root_key, dh_output) == Append(root_key, dh_output)

NewChain(root) == [root |-> root, index |-> 0]

\* ChainKey::advance, without the key it returns
Advanced(chain) == [chain EXCEPT !.index = @ + 1]

MessageKeyAt(chain, n) == [chain |-> chain.root, n |-> n]

\* The key the next call of advance returns
NextMessageKey(chain) == MessageKeyAt(chain, chain.index)

-----------------------------------------------------------------------------
(* Session::init_alice and Session::init_bob *)

\* Mutant: the first sending chain starts from the X3DH secret itself.
InitAliceNoRatchet(secret, dh_public, bob_spk) ==
    [root_key          |-> <<secret>>,
     dh_public         |-> dh_public,
     remote_dh_public  |-> bob_spk,
     sending_chain     |-> NewChain(<<secret>>),
     receiving_chain   |-> None,
     previous_sending_chain_length |-> 0,
     skipped_keys      |-> [k \in {} |-> None]]

InitAlice(secret, dh_public, bob_spk) ==
    LET root == RatchetStep(<<secret>>, DH(dh_public, bob_spk))
    IN  [root_key          |-> root,
         dh_public         |-> dh_public,
         remote_dh_public  |-> bob_spk,
         sending_chain     |-> NewChain(root),
         receiving_chain   |-> None,
         previous_sending_chain_length |-> 0,
         skipped_keys      |-> [k \in {} |-> None]]

InitBob(secret, spk) ==
    [root_key          |-> <<secret>>,
     dh_public         |-> spk,
     remote_dh_public  |-> None,
     sending_chain     |-> None,
     receiving_chain   |-> None,
     previous_sending_chain_length |-> 0,
     skipped_keys      |-> [k \in {} |-> None]]

-----------------------------------------------------------------------------
(* Session::encrypt *)

CanEncrypt(s) == s.sending_chain # None

\* The header and the message key of the next message
NextHeader(s) == [dh |-> s.dh_public,
                  n  |-> s.sending_chain.index,
                  pn |-> s.previous_sending_chain_length]

\* Mutant: the key is used, to send or to receive, and the chain stays.
StayOnKey(s) == s

AfterEncrypt(s) == [s EXCEPT !.sending_chain = Advanced(@)]

-----------------------------------------------------------------------------
(* Session::decrypt, step by step *)

\* 1. A stored key is taken out of the map before it is used.
HasSkippedKey(s, hdr) == <<hdr.dh, hdr.n>> \in DOMAIN s.skipped_keys

SkippedKey(s, hdr) == s.skipped_keys[<<hdr.dh, hdr.n>>]

\* Mutant: the key is read out of the map and stays there.
KeepSkippedKey(s, hdr) == s

DropSkippedKey(s, hdr) ==
    LET kept == DOMAIN s.skipped_keys \ {<<hdr.dh, hdr.n>>}
    IN  [s EXCEPT !.skipped_keys = [k \in kept |-> s.skipped_keys[k]]]

\* 2. A header with another DH key than the one we know starts a DH ratchet.
NeedRatchet(s, hdr) == s.remote_dh_public # hdr.dh

(***************************************************************************)
(* The loop both skipping places run: derive and store the keys of the     *)
(* receiving chain from its index up to until, under the given DH key, and *)
(* give up as soon as the map holds more than MaxSkip keys.  The keys      *)
(* stored before giving up stay stored.  A key already stored under the    *)
(* same name is overwritten, and does not make the map larger.             *)
(***************************************************************************)
\* Mutants: keys stored under the index after advance, and one key too many.
KeyNamesShifted(s, dh, end) == {dh} \X ((s.receiving_chain.index + 1) .. end)
KeyNamesInclusive(s, dh, end) == {dh} \X (s.receiving_chain.index .. end)

KeyNames(s, dh, end) == {dh} \X (s.receiving_chain.index .. (end - 1))

\* Mutant: no limit
NeverOverLimit(s, dh, end) == FALSE

OverLimit(s, dh, end) ==
    Cardinality(DOMAIN s.skipped_keys \cup KeyNames(s, dh, end)) > MaxSkip

GivesUpAt(s, dh, until) ==
    {end \in (s.receiving_chain.index + 1) .. until : OverLimit(s, dh, end)}

SkipRefused(s, dh, until) == GivesUpAt(s, dh, until) # {}

\* Mutant: a refused call puts the receiving chain back.
SkipEndRollingBack(s, dh, until) ==
    IF SkipRefused(s, dh, until)
    THEN s.receiving_chain.index
    ELSE Max({s.receiving_chain.index, until})

SkipEnd(s, dh, until) ==
    IF SkipRefused(s, dh, until)
    THEN Min(GivesUpAt(s, dh, until))
    ELSE Max({s.receiving_chain.index, until})

Skip(s, dh, until) ==
    LET end   == SkipEnd(s, dh, until)
        fresh == KeyNames(s, dh, end)
    IN  [s EXCEPT !.receiving_chain.index = end,
                  !.skipped_keys =
                      [k \in DOMAIN s.skipped_keys \cup fresh |->
                          IF k \in fresh
                          THEN MessageKeyAt(s.receiving_chain, k[2])
                          ELSE s.skipped_keys[k]]]

\* skip_current_receiving_chain: only with a receiving chain and a remote key
HasOldChain(s) == s.receiving_chain # None /\ s.remote_dh_public # None

OldChainRefused(s, hdr) ==
    HasOldChain(s) /\ SkipRefused(s, s.remote_dh_public, hdr.pn)

AfterOldChain(s, hdr) ==
    IF HasOldChain(s) THEN Skip(s, s.remote_dh_public, hdr.pn) ELSE s

(***************************************************************************)
(* The two derivations of a DH ratchet: the receiving chain with the       *)
(* current key pair, then a new key pair and the sending chain with it.    *)
(***************************************************************************)
DhRatchet(s, dh, new_dh_public) ==
    LET recv == RatchetStep(s.root_key, DH(s.dh_public, dh))
        send == RatchetStep(recv, DH(new_dh_public, dh))
    IN  [s EXCEPT !.root_key         = send,
                  !.dh_public        = new_dh_public,
                  !.remote_dh_public = dh,
                  !.receiving_chain  = NewChain(recv),
                  !.sending_chain    = NewChain(send),
                  !.previous_sending_chain_length =
                      IF s.sending_chain = None THEN 0 ELSE s.sending_chain.index]

\* Mutants: the old chain is not skipped, the old key pair stays, the second
\* root key is not kept, the sending chain is the receiving chain, and a
\* missing sending chain has no length.
AfterRatchetNoSkip(s, hdr, new_dh_public) ==
    IF NeedRatchet(s, hdr) THEN DhRatchet(s, hdr.dh, new_dh_public) ELSE s

AfterRatchetOldKeyPair(s, hdr, new_dh_public) ==
    IF NeedRatchet(s, hdr)
    THEN [DhRatchet(AfterOldChain(s, hdr), hdr.dh, new_dh_public)
             EXCEPT !.dh_public = s.dh_public]
    ELSE s

AfterRatchetOneRoot(s, hdr, new_dh_public) ==
    IF NeedRatchet(s, hdr)
    THEN [DhRatchet(AfterOldChain(s, hdr), hdr.dh, new_dh_public)
             EXCEPT !.root_key = SubSeq(@, 1, Len(@) - 1)]
    ELSE s

AfterRatchetNoLength(s, hdr, new_dh_public) ==
    IF NeedRatchet(s, hdr)
    THEN [DhRatchet(AfterOldChain(s, hdr), hdr.dh, new_dh_public)
             EXCEPT !.previous_sending_chain_length =
                        IF s.sending_chain = None THEN None ELSE @]
    ELSE s

\* The session on which steps 3 and 4 work
AfterRatchet(s, hdr, new_dh_public) ==
    IF NeedRatchet(s, hdr)
    THEN DhRatchet(AfterOldChain(s, hdr), hdr.dh, new_dh_public)
    ELSE s

\* 4. The key the receiving chain yields next, whatever the header's number
AfterReceive(s) == [s EXCEPT !.receiving_chain = Advanced(@)]
=============================================================================
