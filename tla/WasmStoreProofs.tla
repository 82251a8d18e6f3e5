--------------------------- MODULE WasmStoreProofs ---------------------------
(***************************************************************************)
(* Proofs about the bindings for browsers, for any users, any number of    *)
(* calls, key pairs, messages and loads, and any limit on skipped keys.    *)
(*                                                                         *)
(* The parts: one session and what session_decrypt leaves of it; the maps  *)
(* of an instance and its handles; the refinement of HandleStore; keys,    *)
(* sessions and messages, each with the part of the invariant that is      *)
(* about it; and the theorems that follow from the invariant.              *)
(***************************************************************************)
EXTENDS WasmStore, RatchetSessionProofs, KeyAgreementProofs, SequenceTheorems

-----------------------------------------------------------------------------
(* One session *)

Key == [chain : RootKey, n : Nat]

Header == [dh : Keys, n : Nat, pn : Nat]

SessionWith(names) ==
    [root_key          : RootKey,
     dh_public         : Keys,
     remote_dh_public  : Keys \cup {None},
     sending_chain     : Chain \cup {None},
     receiving_chain   : Chain \cup {None},
     previous_sending_chain_length : Nat,
     skipped_keys      : [names -> Key]]

SessionOK(s) == /\ DOMAIN s.skipped_keys \subseteq Keys \X Nat
                /\ s \in SessionWith(DOMAIN s.skipped_keys)

\* Two root keys or chains of one session: one X3DH secret, one first DH output
SameStart(a, b) == /\ Len(a) >= 2 /\ Len(b) >= 2
                   /\ a[1] = b[1]
                   /\ a[2] = b[2]

\* Key is of a receiving chain that s has or has had, before the index.
ReceivingPast(s, key) ==
    /\ s.receiving_chain # None
    /\ SameStart(key.chain, s.root_key)
    /\ Len(key.chain) % 2 = Len(s.receiving_chain.root) % 2
    /\ Len(key.chain) <= Len(s.receiving_chain.root)
    /\ Len(key.chain) = Len(s.receiving_chain.root) => key.n < s.receiving_chain.index

\* decrypt has used key and does not keep it.
Consumed(s, key) ==
    /\ ReceivingPast(s, key)
    /\ \A k \in DOMAIN s.skipped_keys : s.skipped_keys[k] # key

(***************************************************************************)
(* The lengths of the names tell the chains of a session apart, and the    *)
(* keys it stores are those its receiving chains have passed, each once.   *)
(***************************************************************************)
SessionInv(s) ==
    /\ Len(s.root_key) >= 1
    /\ s.sending_chain # None => s.sending_chain.root = s.root_key
    /\ s.receiving_chain # None =>
          /\ Len(s.receiving_chain.root) + 1 = Len(s.root_key)
          /\ SameStart(s.receiving_chain.root, s.root_key)
    /\ \A k \in DOMAIN s.skipped_keys : ReceivingPast(s, s.skipped_keys[k])
    /\ \A j, k \in DOMAIN s.skipped_keys :
          s.skipped_keys[j] = s.skipped_keys[k] => j = k

\* t is what an operation leaves of s.
Keeps(s, t) ==
    /\ SessionOK(t)
    /\ SessionInv(t)
    /\ \A key \in Key : Consumed(s, key) => Consumed(t, key)

\* Nothing has happened to the sending side of s.
SameSender(s, t) ==
    /\ t.root_key = s.root_key
    /\ t.dh_public = s.dh_public
    /\ t.remote_dh_public = s.remote_dh_public
    /\ t.sending_chain = s.sending_chain

\* Root key b is derived from a, with the DH output dh.
Extends(a, b, dh) ==
    /\ b \in RootKey
    /\ Len(b) = Len(a) + 1
    /\ \A i \in 1 .. Len(a) : b[i] = a[i]
    /\ b[Len(b)] = dh

\* Root key b is two derivations on from a: with the key pairs own and dh,
\* then with new and dh.
Ratchets2(a, b, own, dh, new) ==
    /\ b \in RootKey
    /\ Len(b) = Len(a) + 2
    /\ Len(b) % 2 = Len(a) % 2
    /\ b[1] = a[1]
    /\ Len(a) >= 2 => SameStart(a, b)
    /\ Len(a) = 1 => b[2] = {own, dh}
    /\ b[Len(b)] = {new, dh}

\* A DH ratchet with the other side's key dh and the new key pair
NewSender(s, t, dh, new) ==
    /\ Ratchets2(s.root_key, t.root_key, s.dh_public, dh, new)
    /\ t.dh_public = new
    /\ t.remote_dh_public = dh
    /\ t.sending_chain = NewChain(t.root_key)

(***************************************************************************)
(* A root key is a sequence.                                               *)
(***************************************************************************)
LEMMA RootKeyLength == \A root \in RootKey : Len(root) \in Nat
BY DEF RootKey

\* What decrypt does to s, whether it gets to the AEAD or not
Decrypted(s, t, hdr, new) ==
    /\ Keeps(s, t)
    /\ Ratchets(s, hdr) => NewSender(s, t, hdr.dh, new)
    /\ ~ Ratchets(s, hdr) => SameSender(s, t)

(***************************************************************************)
(* The fields of a well-typed session.                                     *)
(***************************************************************************)
LEMMA SessionFields ==
    ASSUME NEW s, SessionOK(s)
    PROVE  /\ s.root_key \in RootKey /\ Len(s.root_key) \in Nat
           /\ s.dh_public \in Keys
           /\ s.remote_dh_public \in Keys \cup {None}
           /\ s.sending_chain # None =>
                 /\ s.sending_chain \in Chain
                 /\ Len(s.sending_chain.root) \in Nat
                 /\ s.sending_chain.index \in Nat
           /\ s.receiving_chain # None =>
                 /\ s.receiving_chain \in Chain
                 /\ Len(s.receiving_chain.root) \in Nat
                 /\ s.receiving_chain.index \in Nat
           /\ s.previous_sending_chain_length \in Nat
           /\ \A k \in DOMAIN s.skipped_keys :
                 /\ s.skipped_keys[k] \in Key
                 /\ Len(s.skipped_keys[k].chain) \in Nat
                 /\ s.skipped_keys[k].n \in Nat
BY RootKeyLength DEF SessionOK, SessionWith, Chain, Key

(***************************************************************************)
(* Skip stores keys of the receiving chain only, and moves its index past  *)
(* them; the type of the session and its sending side are kept.            *)
(***************************************************************************)
LEMMA SkipType ==
    ASSUME NEW s, SessionOK(s), s.receiving_chain # None,
           NEW dh \in Keys, NEW until \in Nat
    PROVE  /\ SessionOK(Skip(s, dh, until))
           /\ SameSender(s, Skip(s, dh, until))
           /\ Skip(s, dh, until).receiving_chain # None
           /\ Skip(s, dh, until).receiving_chain.root = s.receiving_chain.root
           /\ Skip(s, dh, until).receiving_chain.index = SkipEnd(s, dh, until)
<1> DEFINE end   == SkipEnd(s, dh, until)
           fresh == KeyNames(s, dh, end)
           names == [k \in DOMAIN s.skipped_keys \cup fresh |->
                        IF k \in fresh THEN MessageKeyAt(s.receiving_chain, k[2])
                                       ELSE s.skipped_keys[k]]
           chain == [s.receiving_chain EXCEPT !.index = end]
<1>1. end \in Nat
  BY SessionFields, SkipEndType
<1>2. fresh \subseteq Keys \X Nat
  BY <1>1, SessionFields DEF KeyNames
<1>3. \A k \in fresh : MessageKeyAt(s.receiving_chain, k[2]) \in Key
  BY <1>2, SessionFields DEF MessageKeyAt, Chain, Key
<1>4. /\ DOMAIN names \subseteq Keys \X Nat
      /\ names \in [DOMAIN names -> Key]
  BY <1>2, <1>3, SessionFields DEF SessionOK
<1>5. chain \in Chain /\ chain.root = s.receiving_chain.root /\ chain.index = end
  BY <1>1, SessionFields DEF Chain
<1>6. Skip(s, dh, until) = [s EXCEPT !.receiving_chain = chain, !.skipped_keys = names]
  BY SessionFields DEF Skip, SessionOK, SessionWith
<1>7. chain # None
  BY <1>5, NoneAssumption
<1> HIDE DEF end, fresh, names, chain
<1>8. LET t == Skip(s, dh, until)
      IN  t = [root_key          |-> s.root_key,
               dh_public         |-> s.dh_public,
               remote_dh_public  |-> s.remote_dh_public,
               sending_chain     |-> s.sending_chain,
               receiving_chain   |-> chain,
               previous_sending_chain_length |-> s.previous_sending_chain_length,
               skipped_keys      |-> names]
  BY <1>6 DEF SessionOK, SessionWith
<1>9. Skip(s, dh, until).receiving_chain.index = SkipEnd(s, dh, until)
  BY <1>5, <1>8 DEF end
<1>10. SameSender(s, Skip(s, dh, until))
  BY <1>8 DEF SameSender
<1> QED BY <1>4, <1>5, <1>7, <1>8, <1>9, <1>10, SessionFields DEF SessionOK, SessionWith

(***************************************************************************)
(* The names Skip stores are new ones, behind the receiving chain's index:  *)
(* no key is stored twice, and a consumed key is not stored again.         *)
(***************************************************************************)
LEMMA SkipKeeps ==
    ASSUME NEW s, SessionOK(s), SessionInv(s), s.receiving_chain # None,
           NEW dh \in Keys, NEW until \in Nat
    PROVE  Keeps(s, Skip(s, dh, until))
<1> DEFINE t     == Skip(s, dh, until)
           end   == SkipEnd(s, dh, until)
           fresh == KeyNames(s, dh, end)
<1>1. /\ SessionOK(t)
      /\ t.receiving_chain # None
      /\ t.receiving_chain.root = s.receiving_chain.root
      /\ t.receiving_chain.index = end
      /\ t.root_key = s.root_key
      /\ t.sending_chain = s.sending_chain
  BY SkipType DEF SameSender
<1>2. end \in Nat /\ end >= s.receiving_chain.index
  BY SkipEndType, SessionFields
<1>3. /\ DOMAIN t.skipped_keys = DOMAIN s.skipped_keys \cup fresh
      /\ \A k \in fresh : t.skipped_keys[k] = MessageKeyAt(s.receiving_chain, k[2])
      /\ \A k \in DOMAIN s.skipped_keys \ fresh :
            t.skipped_keys[k] = s.skipped_keys[k]
  BY DEF Skip, SessionOK, SessionWith
<1>4. /\ s.receiving_chain.index \in Nat
      /\ Len(s.receiving_chain.root) \in Nat
      /\ \A k \in DOMAIN s.skipped_keys : /\ s.skipped_keys[k] \in Key
                                          /\ Len(s.skipped_keys[k].chain) \in Nat
                                          /\ s.skipped_keys[k].n \in Nat
  BY SessionFields
<1>5. \A k \in fresh : /\ k[1] = dh /\ k = <<dh, k[2]>>
                       /\ k[2] \in Nat
                       /\ s.receiving_chain.index <= k[2] /\ k[2] < end
                       /\ t.skipped_keys[k].chain = s.receiving_chain.root
                       /\ t.skipped_keys[k].n = k[2]
  <2> HIDE DEF t, end
  <2>1. ASSUME NEW k \in fresh
        PROVE  k[1] = dh /\ k = <<dh, k[2]>>
               /\ k[2] \in s.receiving_chain.index .. (end - 1)
    BY DEF KeyNames
  <2> HIDE DEF fresh
  <2>2. \A k \in fresh : t.skipped_keys[k] = MessageKeyAt(s.receiving_chain, k[2])
    BY <1>3
  <2>3. ASSUME NEW k \in fresh
        PROVE  /\ k[2] \in Nat
               /\ s.receiving_chain.index <= k[2] /\ k[2] < end
    <3>1. k[2] \in s.receiving_chain.index .. (end - 1)
      BY <2>1
    <3> QED BY <1>2, <1>4, <3>1
  <2>4. ASSUME NEW k \in fresh
        PROVE  /\ t.skipped_keys[k].chain = s.receiving_chain.root
               /\ t.skipped_keys[k].n = k[2]
    <3>1. t.skipped_keys[k] = [chain |-> s.receiving_chain.root, n |-> k[2]]
      BY <2>2, Zenon DEF MessageKeyAt
    <3> QED BY <3>1
  <2> QED BY <2>1, <2>3, <2>4
<1> HIDE DEF t, end, fresh
\* A key behind s is behind t, and is none of the fresh ones.
<1>6. ASSUME NEW key \in Key, ReceivingPast(s, key)
      PROVE  /\ ReceivingPast(t, key)
             /\ \A k \in fresh : t.skipped_keys[k] # key
  <2>1. Len(key.chain) \in Nat /\ key.n \in Nat
    BY DEF Key, RootKey
  <2>2. ReceivingPast(t, key)
    <3>1. /\ Len(key.chain) % 2 = Len(t.receiving_chain.root) % 2
          /\ Len(key.chain) <= Len(t.receiving_chain.root)
          /\ SameStart(key.chain, t.root_key)
      BY <1>1, <1>6 DEF ReceivingPast
    <3>2. Len(key.chain) = Len(t.receiving_chain.root) => key.n < end
      <4>1. ASSUME Len(key.chain) = Len(s.receiving_chain.root) PROVE key.n < end
        <5>1. key.n < s.receiving_chain.index
          BY <1>6, <4>1 DEF ReceivingPast
        <5> QED BY <1>2, <1>4, <2>1, <5>1
      <4> QED BY <1>1, <4>1
    <3> QED BY <1>1, <3>1, <3>2 DEF ReceivingPast
  <2>3. ASSUME NEW k \in fresh, t.skipped_keys[k] = key
        PROVE  FALSE
    <3>1. key.chain = s.receiving_chain.root /\ key.n >= s.receiving_chain.index
      BY <1>5, <2>3
    <3> QED BY <1>4, <1>6, <2>1, <3>1 DEF ReceivingPast
  <2> QED BY <2>2, <2>3
<1>7. \A k \in DOMAIN t.skipped_keys : ReceivingPast(t, t.skipped_keys[k])
  <2>1. \A k \in fresh : ReceivingPast(t, t.skipped_keys[k])
    <3>1. ASSUME NEW k \in fresh PROVE ReceivingPast(t, t.skipped_keys[k])
      <4>1. /\ t.skipped_keys[k].chain = t.receiving_chain.root
            /\ t.skipped_keys[k].n < t.receiving_chain.index
            /\ Len(t.receiving_chain.root) \in Nat
        BY <1>1, <1>4, <1>5
      <4>2. SameStart(t.receiving_chain.root, t.root_key)
        BY <1>1 DEF SessionInv
      <4> QED BY <1>1, <4>1, <4>2 DEF ReceivingPast
    <3> QED BY <3>1
  <2>2. \A k \in DOMAIN s.skipped_keys \ fresh : ReceivingPast(t, t.skipped_keys[k])
    BY <1>3, <1>4, <1>6 DEF SessionInv
  <2> QED BY <2>1, <2>2, <1>3
<1>8. \A j, k \in DOMAIN t.skipped_keys :
          t.skipped_keys[j] = t.skipped_keys[k] => j = k
  <2>1. ASSUME NEW j \in fresh, NEW k \in fresh, t.skipped_keys[j] = t.skipped_keys[k]
        PROVE  j = k
    BY <1>5, <2>1
  <2>2. ASSUME NEW j \in fresh, NEW k \in DOMAIN s.skipped_keys \ fresh
        PROVE  t.skipped_keys[j] # t.skipped_keys[k]
    BY <1>3, <1>4, <1>6 DEF SessionInv
  <2>3. \A j, k \in DOMAIN s.skipped_keys \ fresh :
            t.skipped_keys[j] = t.skipped_keys[k] => j = k
    BY <1>3 DEF SessionInv
  <2> QED BY <1>3, <2>1, <2>2, <2>3
<1>9. SessionInv(t)
  BY <1>1, <1>7, <1>8 DEF SessionInv
<1>10. ASSUME NEW key \in Key, Consumed(s, key)
       PROVE  Consumed(t, key)
  BY <1>3, <1>6, <1>10 DEF Consumed
<1> QED BY <1>1, <1>9, <1>10 DEF t, Keeps

(***************************************************************************)
(* Taking a stored key out of the map consumes it, for good.               *)
(***************************************************************************)
LEMMA DropSkippedKeyKeeps ==
    ASSUME NEW s, SessionOK(s), SessionInv(s), NEW hdr, HasSkippedKey(s, hdr)
    PROVE  /\ Keeps(s, DropSkippedKey(s, hdr))
           /\ SameSender(s, DropSkippedKey(s, hdr))
           /\ SkippedKey(s, hdr) \in Key
           /\ Consumed(DropSkippedKey(s, hdr), SkippedKey(s, hdr))
           /\ ~ Consumed(s, SkippedKey(s, hdr))
<1> DEFINE t    == DropSkippedKey(s, hdr)
           name == <<hdr.dh, hdr.n>>
           kept == DOMAIN s.skipped_keys \ {name}
           names == [k \in kept |-> s.skipped_keys[k]]
<1>1. t = [root_key          |-> s.root_key,
           dh_public         |-> s.dh_public,
           remote_dh_public  |-> s.remote_dh_public,
           sending_chain     |-> s.sending_chain,
           receiving_chain   |-> s.receiving_chain,
           previous_sending_chain_length |-> s.previous_sending_chain_length,
           skipped_keys      |-> names]
  BY DEF DropSkippedKey, SessionOK, SessionWith
<1>2. /\ DOMAIN names = kept
      /\ kept \subseteq Keys \X Nat
      /\ names \in [kept -> Key]
  BY SessionFields DEF SessionOK
<1>3. name \in DOMAIN s.skipped_keys /\ SkippedKey(s, hdr) = s.skipped_keys[name]
  BY DEF HasSkippedKey, SkippedKey
<1>4. SkippedKey(s, hdr) \in Key
  BY <1>3, SessionFields
<1> HIDE DEF t, names
<1>5. SessionOK(t)
  BY <1>1, <1>2, SessionFields DEF SessionOK, SessionWith
<1>6. \A k \in kept : t.skipped_keys[k] = s.skipped_keys[k]
  BY <1>1 DEF names
<1>7. \A key : ReceivingPast(s, key) <=> ReceivingPast(t, key)
  BY <1>1 DEF ReceivingPast
<1>8. SessionInv(t)
  <2>1. \A k \in kept : ReceivingPast(t, t.skipped_keys[k])
    BY <1>6, <1>7 DEF SessionInv
  <2>2. \A j, k \in kept : t.skipped_keys[j] = t.skipped_keys[k] => j = k
    BY <1>6 DEF SessionInv
  <2>3. DOMAIN t.skipped_keys = kept
    BY <1>1, <1>2
  <2> HIDE DEF kept
  <2> QED BY <1>1, <2>1, <2>2, <2>3 DEF SessionInv
<1>9. \A key \in Key : Consumed(s, key) => Consumed(t, key)
  BY <1>1, <1>2, <1>6, <1>7 DEF Consumed
<1>10. Consumed(t, SkippedKey(s, hdr)) /\ ~ Consumed(s, SkippedKey(s, hdr))
  BY <1>1, <1>2, <1>3, <1>6, <1>7 DEF Consumed, SessionInv
<1>11. SameSender(s, t)
  BY <1>1 DEF SameSender
<1> QED BY <1>4, <1>5, <1>8, <1>9, <1>10, <1>11 DEF t, Keeps

(***************************************************************************)
(* Using the next key of the receiving chain consumes it, for good.        *)
(***************************************************************************)
LEMMA AfterReceiveKeeps ==
    ASSUME NEW s, SessionOK(s), SessionInv(s), s.receiving_chain # None
    PROVE  /\ Keeps(s, AfterReceive(s))
           /\ SameSender(s, AfterReceive(s))
           /\ NextMessageKey(s.receiving_chain) \in Key
           /\ Consumed(AfterReceive(s), NextMessageKey(s.receiving_chain))
           /\ ~ Consumed(s, NextMessageKey(s.receiving_chain))
<1> DEFINE t     == AfterReceive(s)
           chain == Advanced(s.receiving_chain)
           used  == NextMessageKey(s.receiving_chain)
<1>1. /\ chain \in Chain
      /\ chain # None
      /\ chain.root = s.receiving_chain.root
      /\ chain.index = s.receiving_chain.index + 1
      /\ s.receiving_chain.index \in Nat
      /\ Len(chain.root) \in Nat
  BY SessionFields, NoneAssumption DEF Advanced, Chain
<1>2. /\ used \in Key
      /\ used.chain = s.receiving_chain.root
      /\ used.n = s.receiving_chain.index
  BY SessionFields DEF NextMessageKey, MessageKeyAt, Chain, Key
<1> HIDE DEF chain, used
<1>3. t = [root_key          |-> s.root_key,
           dh_public         |-> s.dh_public,
           remote_dh_public  |-> s.remote_dh_public,
           sending_chain     |-> s.sending_chain,
           receiving_chain   |-> chain,
           previous_sending_chain_length |-> s.previous_sending_chain_length,
           skipped_keys      |-> s.skipped_keys]
  BY DEF AfterReceive, SessionOK, SessionWith, chain
<1> HIDE DEF t
<1>4. SessionOK(t)
  BY <1>1, <1>3, SessionFields DEF SessionOK, SessionWith
<1>5. ASSUME NEW key \in Key, ReceivingPast(s, key)
      PROVE  ReceivingPast(t, key) /\ key # used
  <2>1. key.n \in Nat
    BY DEF Key
  <2>2. /\ Len(key.chain) % 2 = Len(t.receiving_chain.root) % 2
        /\ Len(key.chain) <= Len(t.receiving_chain.root)
        /\ SameStart(key.chain, t.root_key)
    BY <1>1, <1>3, <1>5 DEF ReceivingPast
  <2>3. Len(key.chain) = Len(s.receiving_chain.root) => key.n < s.receiving_chain.index
    BY <1>5 DEF ReceivingPast
  <2>4. Len(key.chain) = Len(t.receiving_chain.root) => key.n < t.receiving_chain.index
    BY <1>1, <1>3, <2>1, <2>3
  <2>5. key # used
    BY <1>1, <1>2, <2>1, <2>3
  <2> QED BY <1>1, <1>3, <2>2, <2>4, <2>5 DEF ReceivingPast
<1>6. ReceivingPast(t, used)
  <2>1. /\ t.receiving_chain # None
        /\ used.chain = t.receiving_chain.root
        /\ Len(t.receiving_chain.root) \in Nat
        /\ used.n < t.receiving_chain.index
    BY <1>1, <1>2, <1>3
  <2>2. SameStart(used.chain, t.root_key)
    BY <1>2, <1>3 DEF SessionInv
  <2> QED BY <2>1, <2>2 DEF ReceivingPast
<1>7. \A k \in DOMAIN s.skipped_keys :
          /\ ReceivingPast(t, s.skipped_keys[k])
          /\ s.skipped_keys[k] # used
  BY <1>5, SessionFields DEF SessionInv
<1>8. SessionInv(t)
  BY <1>1, <1>3, <1>7 DEF SessionInv
<1>9. \A key \in Key : Consumed(s, key) => Consumed(t, key)
  BY <1>3, <1>5 DEF Consumed
<1>10. Consumed(t, used)
  BY <1>3, <1>6, <1>7 DEF Consumed
<1>11. ~ Consumed(s, used)
  BY <1>2, <1>5 DEF Consumed
<1>12. SameSender(s, t)
  BY <1>3 DEF SameSender
<1> QED BY <1>2, <1>4, <1>8, <1>9, <1>10, <1>11, <1>12 DEF t, used, Keeps

(***************************************************************************)
(* Parities of neighbouring lengths.                                       *)
(***************************************************************************)
LEMMA ParityOfNext ==
    \A n \in Nat : /\ (n + 2) % 2 = n % 2
                   /\ (n + 1) % 2 # n % 2
                   /\ n % 2 \in {0, 1}
OBVIOUS

(***************************************************************************)
(* A root key derivation makes the name one longer.                        *)
(***************************************************************************)
LEMMA RatchetStepType ==
    ASSUME NEW root \in RootKey, NEW j \in Keys, NEW k \in Keys
    PROVE  Extends(root, RatchetStep(root, DH(j, k)), {j, k})
<1> DEFINE Elements == Seq(SUBSET Keys) \cup SUBSET Keys
<1>1. DH(j, k) \in Elements /\ DH(j, k) = {j, k}
  BY DEF DH
<1>2. root \in Seq(Elements)
  BY DEF RootKey
<1> HIDE DEF Elements
<1> QED BY <1>1, <1>2 DEF RatchetStep, RootKey, Elements, Extends

(***************************************************************************)
(* A chain that has just been derived.                                     *)
(***************************************************************************)
LEMMA NewChainType ==
    ASSUME NEW root \in RootKey
    PROVE  /\ NewChain(root) \in Chain
           /\ NewChain(root) # None
           /\ NewChain(root).root = root
           /\ NewChain(root).index = 0
<1>1. NewChain(root) \in Chain
  BY DEF NewChain, Chain
<1> QED BY <1>1, NoneAssumption DEF NewChain

(***************************************************************************)
(* The two derivations of a DH ratchet.                                    *)
(***************************************************************************)
LEMMA TwoSteps ==
    ASSUME NEW root \in RootKey, Len(root) >= 1, NEW recv, NEW send,
           NEW own, NEW dh, NEW new,
           Extends(root, recv, {own, dh}), Extends(recv, send, {new, dh})
    PROVE  /\ recv \in RootKey /\ Len(recv) = Len(root) + 1
           /\ SameStart(recv, send)
           /\ Ratchets2(root, send, own, dh, new)
<1>1. /\ recv \in RootKey /\ Len(recv) = Len(root) + 1 /\ Len(root) \in Nat
      /\ recv[1] = root[1]
      /\ Len(root) >= 2 => recv[2] = root[2]
      /\ Len(root) = 1 => recv[2] = {own, dh}
  BY RootKeyLength DEF Extends
<1>2. /\ send \in RootKey /\ Len(send) = Len(recv) + 1
      /\ send[1] = recv[1] /\ send[2] = recv[2]
      /\ send[Len(send)] = {new, dh}
  BY <1>1 DEF Extends
<1>3. Len(send) = Len(root) + 2
  BY <1>1, <1>2
<1>4. Len(send) % 2 = Len(root) % 2
  BY <1>1, <1>3, ParityOfNext, Zenon
<1>5. SameStart(recv, send)
  BY <1>1, <1>2, <1>3 DEF SameStart
<1>6. Len(root) >= 2 => SameStart(root, send)
  BY <1>1, <1>2, <1>3 DEF SameStart
<1> QED BY <1>1, <1>2, <1>3, <1>4, <1>5, <1>6 DEF Ratchets2

(***************************************************************************)
(* A DH ratchet derives two longer root keys, and leaves every key that    *)
(* was behind the session behind it.                                       *)
(***************************************************************************)
LEMMA DhRatchetKeeps ==
    ASSUME NEW s, SessionOK(s), SessionInv(s), NEW dh \in Keys, NEW new \in Keys
    PROVE  /\ Keeps(s, DhRatchet(s, dh, new))
           /\ NewSender(s, DhRatchet(s, dh, new), dh, new)
           /\ DhRatchet(s, dh, new).receiving_chain # None
<1> DEFINE t    == DhRatchet(s, dh, new)
           recv == RatchetStep(s.root_key, DH(s.dh_public, dh))
           send == RatchetStep(recv, DH(new, dh))
           pn   == IF s.sending_chain = None THEN 0 ELSE s.sending_chain.index
<1>1. s.root_key \in RootKey /\ s.dh_public \in Keys /\ Len(s.root_key) \in Nat
  BY SessionFields
<1>2. /\ recv \in RootKey /\ Len(recv) = Len(s.root_key) + 1
      /\ SameStart(recv, send)
      /\ Ratchets2(s.root_key, send, s.dh_public, dh, new)
  <2>1. Len(s.root_key) >= 1
    BY DEF SessionInv
  <2>2. Extends(s.root_key, recv, {s.dh_public, dh})
    BY <1>1, RatchetStepType
  <2>3. recv \in RootKey
    BY <2>2 DEF Extends
  <2> HIDE DEF recv
  <2>4. Extends(recv, send, {new, dh})
    BY <2>3, RatchetStepType
  <2> HIDE DEF send
  <2> QED BY <1>1, <2>1, <2>2, <2>4, TwoSteps
<1>3. /\ send \in RootKey /\ Len(send) = Len(s.root_key) + 2
      /\ Len(s.root_key) >= 2 => SameStart(s.root_key, send)
  BY <1>2 DEF Ratchets2
<1>4. pn \in Nat
  BY SessionFields
<1>5. t = [root_key          |-> send,
           dh_public         |-> new,
           remote_dh_public  |-> dh,
           sending_chain     |-> NewChain(send),
           receiving_chain   |-> NewChain(recv),
           previous_sending_chain_length |-> pn,
           skipped_keys      |-> s.skipped_keys]
  <2>1. t = [s EXCEPT !.root_key         = send,
                      !.dh_public        = new,
                      !.remote_dh_public = dh,
                      !.receiving_chain  = NewChain(recv),
                      !.sending_chain    = NewChain(send),
                      !.previous_sending_chain_length = pn]
    BY Zenon DEF DhRatchet
  <2> HIDE DEF t, recv, send, pn
  <2> QED BY <2>1 DEF SessionOK, SessionWith
<1>6. NewSender(s, t, dh, new)
  <2>1. /\ t.root_key = send /\ t.dh_public = new /\ t.remote_dh_public = dh
        /\ t.sending_chain = NewChain(send)
    <3> HIDE DEF t, recv, send, pn
    <3> QED BY <1>5
  <2> HIDE DEF t, recv, send, pn
  <2> QED BY <1>2, <2>1 DEF NewSender
<1> HIDE DEF t, recv, send, pn
<1>7. /\ NewChain(recv) \in Chain /\ NewChain(recv) # None /\ NewChain(recv).root = recv
      /\ NewChain(send) \in Chain /\ NewChain(send) # None /\ NewChain(send).root = send
  BY <1>2, <1>3, NewChainType
<1>8. SessionOK(t)
  BY <1>2, <1>3, <1>4, <1>5, <1>7 DEF SessionOK, SessionWith
<1>9. ASSUME NEW key \in Key, ReceivingPast(s, key)
      PROVE  ReceivingPast(t, key)
  <2>1. /\ Len(key.chain) \in Nat
        /\ Len(s.receiving_chain.root) + 1 = Len(s.root_key)
        /\ Len(s.receiving_chain.root) \in Nat
        /\ Len(key.chain) % 2 = Len(s.receiving_chain.root) % 2
        /\ Len(key.chain) <= Len(s.receiving_chain.root)
        /\ SameStart(key.chain, s.root_key)
    <3>1. Len(key.chain) \in Nat
      BY RootKeyLength DEF Key
    <3> QED BY <1>9, <3>1, SessionFields DEF ReceivingPast, SessionInv
  <2>2. Len(recv) = Len(s.receiving_chain.root) + 2
    BY <1>2, <2>1
  <2>3. Len(recv) % 2 = Len(s.receiving_chain.root) % 2
    BY <2>1, <2>2, ParityOfNext, Zenon
  <2>4. Len(key.chain) % 2 = Len(recv) % 2
    BY <2>1, <2>3, Zenon
  <2>5. Len(key.chain) < Len(recv)
    BY <2>1, <2>2
  <2>6. t.receiving_chain # None /\ t.receiving_chain.root = recv /\ t.root_key = send
    BY <1>5, <1>7
  <2>7. Len(key.chain) % 2 = Len(t.receiving_chain.root) % 2
    BY <2>4, <2>6, Zenon
  <2>8. SameStart(key.chain, t.root_key)
    BY <1>3, <2>1, <2>6 DEF SameStart
  <2>9. /\ Len(key.chain) <= Len(t.receiving_chain.root)
        /\ Len(key.chain) # Len(t.receiving_chain.root)
    BY <1>1, <1>2, <2>1, <2>5, <2>6
  <2> QED BY <2>6, <2>7, <2>8, <2>9 DEF ReceivingPast
<1>10. \A k \in DOMAIN s.skipped_keys : ReceivingPast(t, s.skipped_keys[k])
  BY <1>9, SessionFields DEF SessionInv
<1>11. SessionInv(t)
  <2>1. /\ t.root_key = send /\ t.skipped_keys = s.skipped_keys
        /\ t.sending_chain # None /\ t.sending_chain.root = send
        /\ t.receiving_chain # None /\ t.receiving_chain.root = recv
        /\ Len(recv) + 1 = Len(send)
        /\ Len(send) >= 1
    BY <1>1, <1>2, <1>3, <1>5, <1>7
  <2> QED BY <1>2, <1>10, <2>1 DEF SessionInv
<1>12. \A key \in Key : Consumed(s, key) => Consumed(t, key)
  BY <1>5, <1>9 DEF Consumed
<1>13. t.receiving_chain # None
  BY <1>5, <1>7
<1> QED BY <1>6, <1>8, <1>11, <1>12, <1>13 DEF t, Keeps

(***************************************************************************)
(* Keeping is transitive: decrypt composes the operations that keep.       *)
(***************************************************************************)
LEMMA KeepsTransitive ==
    ASSUME NEW s, NEW t, NEW u, Keeps(s, t), Keeps(t, u)
    PROVE  Keeps(s, u)
BY DEF Keeps

(***************************************************************************)
(* skip_current_receiving_chain, with an old chain to skip or not.         *)
(***************************************************************************)
LEMMA OldChainKeeps ==
    ASSUME NEW s, SessionOK(s), SessionInv(s), NEW hdr \in Header
    PROVE  /\ Keeps(s, AfterOldChain(s, hdr))
           /\ SameSender(s, AfterOldChain(s, hdr))
<1>1. CASE HasOldChain(s)
  <2>1. /\ s.receiving_chain # None
        /\ s.remote_dh_public \in Keys
        /\ hdr.pn \in Nat
    BY <1>1, SessionFields DEF HasOldChain, Header
  <2> QED BY <1>1, <2>1, SkipKeeps, SkipType DEF AfterOldChain
<1>2. CASE ~ HasOldChain(s)
  BY <1>2 DEF AfterOldChain, Keeps, SameSender
<1> QED BY <1>1, <1>2

(***************************************************************************)
(* What decrypt does before its third step.                                *)
(***************************************************************************)
LEMMA AfterRatchetKeeps ==
    ASSUME NEW s, SessionOK(s), SessionInv(s), NEW hdr \in Header, NEW new \in Keys
    PROVE  /\ Keeps(s, AfterRatchet(s, hdr, new))
           /\ NeedRatchet(s, hdr) =>
                 /\ NewSender(s, AfterRatchet(s, hdr, new), hdr.dh, new)
                 /\ AfterRatchet(s, hdr, new).receiving_chain # None
           /\ ~ NeedRatchet(s, hdr) => AfterRatchet(s, hdr, new) = s
<1>1. hdr.dh \in Keys
  BY DEF Header
<1>2. CASE NeedRatchet(s, hdr)
  <2> DEFINE t == AfterOldChain(s, hdr)
             u == DhRatchet(t, hdr.dh, new)
  <2>1. Keeps(s, t) /\ SameSender(s, t)
    BY OldChainKeeps
  <2> HIDE DEF t
  <2>2. Keeps(t, u) /\ NewSender(t, u, hdr.dh, new) /\ u.receiving_chain # None
    BY <1>1, <2>1, DhRatchetKeeps DEF Keeps
  <2>3. AfterRatchet(s, hdr, new) = u
    BY <1>2 DEF AfterRatchet, t
  <2> HIDE DEF u
  <2>4. NewSender(s, u, hdr.dh, new)
    BY <2>1, <2>2, Zenon DEF NewSender, SameSender
  <2> QED BY <1>2, <2>1, <2>2, <2>3, <2>4, KeepsTransitive
<1>3. CASE ~ NeedRatchet(s, hdr)
  BY <1>3 DEF AfterRatchet, Keeps
<1> QED BY <1>2, <1>3

(***************************************************************************)
(* A step that does not touch the sending side leaves what one before it   *)
(* did to it.                                                              *)
(***************************************************************************)
LEMMA SenderKept ==
    ASSUME NEW s, NEW t, NEW u, NEW hdr, NEW new,
           Decrypted(s, t, hdr, new), Keeps(t, u), SameSender(t, u)
    PROVE  Decrypted(s, u, hdr, new)
<1>1. Keeps(s, u)
  BY KeepsTransitive DEF Decrypted
<1>2. NewSender(s, t, hdr.dh, new) => NewSender(s, u, hdr.dh, new)
  BY DEF NewSender, SameSender
<1>3. SameSender(s, t) => SameSender(s, u)
  BY DEF SameSender
<1> QED BY <1>1, <1>2, <1>3 DEF Decrypted

(***************************************************************************)
(* Every path through Session::decrypt.                                    *)
(***************************************************************************)
LEMMA DecryptRefused ==
    ASSUME NEW s, SessionOK(s), SessionInv(s), NEW hdr \in Header, NEW new \in Keys,
           ~ Reaches(s, hdr, new)
    PROVE  Decrypted(s, AfterRefusal(s, hdr, new), hdr, new)
<1> DEFINE r == AfterRatchet(s, hdr, new)
           t == AfterRefusal(s, hdr, new)
<1>1. /\ ~ HasSkippedKey(s, hdr)
      /\ hdr.dh \in Keys /\ hdr.n \in Nat
  BY DEF Reaches, Header
<1>2. CASE NeedRatchet(s, hdr) /\ OldChainRefused(s, hdr)
  <2>1. t = AfterOldChain(s, hdr)
    BY <1>2 DEF AfterRefusal
  <2> QED BY <1>2, <2>1, OldChainKeeps DEF Decrypted, Ratchets
<1>3. CASE ~ (NeedRatchet(s, hdr) /\ OldChainRefused(s, hdr))
  <2>1. Decrypted(s, r, hdr, new)
    BY <1>1, <1>3, AfterRatchetKeeps DEF Decrypted, Ratchets, SameSender
  <2>2. t = IF r.receiving_chain = None THEN r ELSE Skip(r, hdr.dh, hdr.n)
    BY <1>3 DEF AfterRefusal
  <2> HIDE DEF r, t
  <2>3. CASE r.receiving_chain = None
    BY <2>1, <2>2, <2>3 DEF t
  <2>4. CASE r.receiving_chain # None
    <3>1. Keeps(r, Skip(r, hdr.dh, hdr.n)) /\ SameSender(r, Skip(r, hdr.dh, hdr.n))
      BY <1>1, <2>1, <2>4, SkipKeeps, SkipType DEF Decrypted, Keeps
    <3> QED BY <2>1, <2>2, <2>4, <3>1, SenderKept DEF t
  <2> QED BY <2>1, <2>2, <2>3, <2>4 DEF t
<1> QED BY <1>2, <1>3

(***************************************************************************)
(* A call that gets to the AEAD has consumed the key it tries, which was   *)
(* not consumed before.                                                    *)
(***************************************************************************)
LEMMA DecryptReaches ==
    ASSUME NEW s, SessionOK(s), SessionInv(s), NEW hdr \in Header, NEW new \in Keys,
           Reaches(s, hdr, new)
    PROVE  /\ Decrypted(s, AfterDecrypt(s, hdr, new), hdr, new)
           /\ KeyTried(s, hdr, new) \in Key
           /\ Consumed(AfterDecrypt(s, hdr, new), KeyTried(s, hdr, new))
           /\ ~ Consumed(s, KeyTried(s, hdr, new))
<1>1. CASE HasSkippedKey(s, hdr)
  BY <1>1, DropSkippedKeyKeeps DEF AfterDecrypt, KeyTried, Decrypted, Ratchets
<1>2. CASE ~ HasSkippedKey(s, hdr)
  <2> DEFINE r == AfterRatchet(s, hdr, new)
             u == Skip(r, hdr.dh, hdr.n)
  <2>1. /\ hdr.dh \in Keys /\ hdr.n \in Nat
        /\ NeedRatchet(s, hdr) => ~ OldChainRefused(s, hdr)
        /\ r.receiving_chain # None
    BY <1>2 DEF Reaches, Header
  <2>2. Decrypted(s, r, hdr, new)
    BY <1>2, <2>1, AfterRatchetKeeps DEF Decrypted, Ratchets, SameSender
  <2>3. /\ AfterDecrypt(s, hdr, new) = AfterReceive(u)
        /\ KeyTried(s, hdr, new) = NextMessageKey(u.receiving_chain)
    BY <1>2 DEF AfterDecrypt, KeyTried, Skipped
  <2> HIDE DEF r
  <2>4. Keeps(r, u) /\ SameSender(r, u) /\ u.receiving_chain # None
    BY <2>1, <2>2, SkipKeeps, SkipType DEF Decrypted, Keeps
  <2> HIDE DEF u
  <2>5. Decrypted(s, u, hdr, new)
    BY <2>2, <2>4, SenderKept
  <2>6. /\ Keeps(u, AfterReceive(u))
        /\ SameSender(u, AfterReceive(u))
        /\ NextMessageKey(u.receiving_chain) \in Key
        /\ Consumed(AfterReceive(u), NextMessageKey(u.receiving_chain))
        /\ ~ Consumed(u, NextMessageKey(u.receiving_chain))
    BY <2>4, <2>5, AfterReceiveKeeps DEF Decrypted, Keeps
  <2>7. Decrypted(s, AfterReceive(u), hdr, new)
    BY <2>5, <2>6, SenderKept
  <2>8. ~ Consumed(s, NextMessageKey(u.receiving_chain))
    BY <2>5, <2>6 DEF Decrypted, Keeps
  <2> QED BY <2>3, <2>6, <2>7, <2>8
<1> QED BY <1>1, <1>2

-----------------------------------------------------------------------------
(* The maps of an instance *)

Page(x) == /\ x = [identity |-> x.identity, spk |-> x.spk, session |-> x.session,
                   mls |-> x.mls, next_id |-> x.next_id, borrowed |-> x.borrowed]
           /\ x.next_id \in Nat \ {0}
           /\ x.borrowed \in BOOLEAN

PagesInv == /\ instance = [p \in User |-> instance[p]]
            /\ \A p \in User : Page(instance[p])
            /\ given \in [User -> SUBSET Handle]
            /\ loads \in [User -> Nat]
            /\ generated \in [User -> Nat]

(***************************************************************************)
(* A handle that names something has been given to the page, was taken     *)
(* from the counter, and names one thing.                                  *)
(***************************************************************************)
HandlesInv ==
    \A p \in User :
        /\ given[p] \subseteq 1 .. instance[p].next_id - 1
        /\ instance[p].borrowed \/ given[p] = 1 .. instance[p].next_id - 1
        /\ \A k \in Kinds : DOMAIN instance[p][k] \subseteq given[p]
        /\ \A k, l \in Kinds : k # l =>
              DOMAIN instance[p][k] \cap DOMAIN instance[p][l] = {}

\* Every other page is as it was.
OnlyPage(p) == /\ \A q \in User \ {p} : instance'[q] = instance[q] /\ given'[q] = given[q]
               /\ instance' = [q \in User |-> instance'[q]]
               /\ given' = [q \in User |-> given'[q]]

\* Page p has filed x.
Filed(p, kind, x) ==
    LET id == instance[p].next_id
    IN  /\ OnlyPage(p)
        /\ Page(instance'[p])
        /\ id \in Handle
        /\ instance'[p].next_id = id + 1
        /\ instance'[p].borrowed = instance[p].borrowed
        /\ given'[p] = given[p] \cup {id}
        /\ DOMAIN instance'[p][kind] = DOMAIN instance[p][kind] \cup {id}
        /\ instance'[p][kind][id] = x
        /\ \A h \in DOMAIN instance[p][kind] \ {id} :
              instance'[p][kind][h] = instance[p][kind][h]
        /\ \A k \in Kinds \ {kind} : instance'[p][k] = instance[p][k]

\* Page p has lost a handle.
Wasted(p) ==
    /\ OnlyPage(p)
    /\ Page(instance'[p])
    /\ instance'[p].next_id = instance[p].next_id + 1
    /\ instance[p].borrowed /\ instance'[p].borrowed
    /\ given'[p] = given[p]
    /\ \A k \in Kinds : instance'[p][k] = instance[p][k]

\* Page p has changed session h to t, and perhaps panicked.
Changed(p, h, t) ==
    /\ OnlyPage(p)
    /\ Page(instance'[p])
    /\ instance'[p].next_id = instance[p].next_id
    /\ ~ instance[p].borrowed
    /\ given'[p] = given[p]
    /\ h \in DOMAIN instance[p].session
    /\ DOMAIN instance'[p].session = DOMAIN instance[p].session
    /\ instance'[p].session[h] = t
    /\ \A g \in DOMAIN instance[p].session \ {h} :
          instance'[p].session[g] = instance[p].session[g]
    /\ \A k \in Kinds \ {"session"} : instance'[p][k] = instance[p][k]

\* Page p has dropped the MLS state of handle h.
Dropped(p, h) ==
    /\ OnlyPage(p)
    /\ Page(instance'[p])
    /\ instance'[p].next_id = instance[p].next_id
    /\ instance'[p].borrowed = instance[p].borrowed
    /\ given'[p] = given[p]
    /\ h \in DOMAIN instance[p].mls
    /\ DOMAIN instance'[p].mls = DOMAIN instance[p].mls \ {h}
    /\ \A g \in DOMAIN instance'[p].mls : instance'[p].mls[g] = instance[p].mls[g]
    /\ \A k \in Kinds \ {"mls"} : instance'[p][k] = instance[p][k]

\* Page p has been loaded again.
Reloaded(p) == /\ OnlyPage(p)
               /\ instance'[p] = FreshInstance
               /\ given'[p] = {}

\* y is x with another next handle and one other map.
IsUpdated(x, y, kind, map, n) ==
    y = [identity |-> IF kind = "identity" THEN map ELSE x["identity"],
         spk      |-> IF kind = "spk" THEN map ELSE x["spk"],
         session  |-> IF kind = "session" THEN map ELSE x["session"],
         mls      |-> IF kind = "mls" THEN map ELSE x["mls"],
         next_id  |-> n,
         borrowed |-> x.borrowed]

(***************************************************************************)
(* A page with another next handle and one other map.                      *)
(***************************************************************************)
LEMMA PageUpdate ==
    ASSUME NEW x, Page(x), NEW kind \in Kinds, NEW map, NEW n, NEW y,
           y = [[x EXCEPT !.next_id = n] EXCEPT ![kind] = map]
    PROVE  IsUpdated(x, y, kind, map, n)
<1>1. x = [identity |-> x["identity"], spk |-> x["spk"], session |-> x["session"],
           mls |-> x["mls"], next_id |-> x.next_id, borrowed |-> x.borrowed]
  BY DEF Page
<1> QED BY <1>1 DEF Kinds, IsUpdated

(***************************************************************************)
(* Its maps.                                                               *)
(***************************************************************************)
LEMMA UpdatedPage ==
    ASSUME NEW x, Page(x), NEW kind \in Kinds, NEW map, NEW n \in Nat \ {0}, NEW y,
           IsUpdated(x, y, kind, map, n)
    PROVE  /\ Page(y)
           /\ y.next_id = n
           /\ y.borrowed = x.borrowed
           /\ y[kind] = map
           /\ \A k \in Kinds \ {kind} : y[k] = x[k]
<1>1. x.borrowed \in BOOLEAN
  BY DEF Page
<1>2. y.next_id = n /\ y.borrowed = x.borrowed
  BY DEF IsUpdated
<1>3. y = [identity |-> y.identity, spk |-> y.spk, session |-> y.session,
           mls |-> y.mls, next_id |-> y.next_id, borrowed |-> y.borrowed]
  BY DEF IsUpdated
<1>4. \A k \in Kinds : y[k] = IF k = kind THEN map ELSE x[k]
  BY DEF Kinds, IsUpdated
<1>5. Page(y)
  BY <1>1, <1>2, <1>3 DEF Page
<1> QED BY <1>2, <1>4, <1>5

(***************************************************************************)
(* File puts x under the handle that is next, in its map and no other.     *)
(***************************************************************************)
LEMMA FileEffect ==
    ASSUME PagesInv, NEW p \in User, NEW kind \in Kinds, NEW x, File(p, kind, x)
    PROVE  Filed(p, kind, x)
<1> DEFINE id    == instance[p].next_id
           map   == [h \in DOMAIN instance[p][kind] \cup {id} |->
                        IF h = id THEN x ELSE instance[p][kind][h]]
           page  == [[instance[p] EXCEPT !.next_id = id + 1] EXCEPT ![kind] = map]
<1>1. /\ id \in Handle
      /\ instance' = [instance EXCEPT ![p].next_id = @ + 1,
                         ![p][kind] = [h \in DOMAIN @ \cup {id} |-> IF h = id THEN x ELSE @[h]]]
      /\ given' = [given EXCEPT ![p] = @ \cup {id}]
  BY DEF File, NextId
<1>2. Page(instance[p]) /\ id \in Nat /\ DOMAIN instance = User /\ DOMAIN given = User
  BY DEF PagesInv, Page
<1>3. instance' = [instance EXCEPT ![p] = page]
  BY <1>1, <1>2 DEF Kinds, Page
<1>4. OnlyPage(p) /\ instance'[p] = page /\ given'[p] = given[p] \cup {id}
  BY <1>1, <1>2, <1>3 DEF OnlyPage
<1> HIDE DEF map
<1>5. /\ page.next_id = id + 1
      /\ page.borrowed = instance[p].borrowed
      /\ page[kind] = map
      /\ \A k \in Kinds \ {kind} : page[k] = instance[p][k]
      /\ Page(page)
  <2>1. id + 1 \in Nat \ {0} /\ Page(instance[p])
    BY <1>2
  <2>2. IsUpdated(instance[p], page, kind, map, id + 1)
    BY <2>1, PageUpdate
  <2> HIDE DEF page
  <2>3. PICK n \in Nat \ {0} : n = id + 1
    BY <2>1
  <2>4. IsUpdated(instance[p], page, kind, map, n)
    BY <2>2, <2>3
  <2>5. /\ Page(page)
        /\ page.next_id = n
        /\ page.borrowed = instance[p].borrowed
        /\ page[kind] = map
        /\ \A k \in Kinds \ {kind} : page[k] = instance[p][k]
    <3>1. ASSUME NEW u, NEW w, Page(u), IsUpdated(u, w, kind, map, n)
          PROVE  /\ Page(w) /\ w.next_id = n /\ w.borrowed = u.borrowed
                 /\ w[kind] = map
                 /\ \A k \in Kinds \ {kind} : w[k] = u[k]
      BY <3>1, UpdatedPage
    <3> QED BY <2>1, <2>4, <3>1, Zenon
  <2> QED BY <2>3, <2>5
<1>6. /\ DOMAIN map = DOMAIN instance[p][kind] \cup {id}
      /\ map[id] = x
      /\ \A h \in DOMAIN instance[p][kind] \ {id} : map[h] = instance[p][kind][h]
  BY DEF map
<1> HIDE DEF page
<1> QED BY <1>1, <1>4, <1>5, <1>6 DEF Filed

(***************************************************************************)
(* A page with another next handle, another map of sessions, or a borrow.  *)
(***************************************************************************)
LEMMA PageFields ==
    ASSUME NEW x, Page(x), NEW v, NEW y
    PROVE  /\ y = [x EXCEPT !.next_id = v] =>
                 y = [identity |-> x.identity, spk |-> x.spk, session |-> x.session,
                      mls |-> x.mls, next_id |-> v, borrowed |-> x.borrowed]
           /\ y = [x EXCEPT !.session = v] =>
                 y = [identity |-> x.identity, spk |-> x.spk, session |-> v,
                      mls |-> x.mls, next_id |-> x.next_id, borrowed |-> x.borrowed]
           /\ y = [x EXCEPT !.mls = v] =>
                 y = [identity |-> x.identity, spk |-> x.spk, session |-> x.session,
                      mls |-> v, next_id |-> x.next_id, borrowed |-> x.borrowed]
           /\ y = Trapped(x) =>
                 y = [identity |-> x.identity, spk |-> x.spk, session |-> x.session,
                      mls |-> x.mls, next_id |-> x.next_id, borrowed |-> TRUE]
<1>1. x = [identity |-> x.identity, spk |-> x.spk, session |-> x.session,
           mls |-> x.mls, next_id |-> x.next_id, borrowed |-> x.borrowed]
  BY DEF Page
<1>2. ASSUME y = [x EXCEPT !.next_id = v]
      PROVE  y = [identity |-> x.identity, spk |-> x.spk, session |-> x.session,
                  mls |-> x.mls, next_id |-> v, borrowed |-> x.borrowed]
  BY <1>1, <1>2
<1>3. ASSUME y = [x EXCEPT !.session = v]
      PROVE  y = [identity |-> x.identity, spk |-> x.spk, session |-> v,
                  mls |-> x.mls, next_id |-> x.next_id, borrowed |-> x.borrowed]
  BY <1>1, <1>3
<1>4. ASSUME y = [x EXCEPT !.mls = v]
      PROVE  y = [identity |-> x.identity, spk |-> x.spk, session |-> x.session,
                  mls |-> v, next_id |-> x.next_id, borrowed |-> x.borrowed]
  BY <1>1, <1>4
<1>5. ASSUME y = Trapped(x)
      PROVE  y = [identity |-> x.identity, spk |-> x.spk, session |-> x.session,
                  mls |-> x.mls, next_id |-> x.next_id, borrowed |-> TRUE]
  BY <1>1, <1>5 DEF Trapped
<1> QED BY <1>2, <1>3, <1>4, <1>5

(***************************************************************************)
(* A handle that is taken for nothing.                                     *)
(***************************************************************************)
LEMMA WasteEffect ==
    ASSUME PagesInv, NEW p \in User, instance[p].borrowed, Waste(p)
    PROVE  Wasted(p)
<1> DEFINE x == instance[p]
           y == [x EXCEPT !.next_id = x.next_id + 1]
<1>1. Page(x) /\ DOMAIN instance = User /\ given = [q \in User |-> given[q]]
  BY DEF PagesInv
<1>2. instance' = [instance EXCEPT ![p] = y] /\ given' = given
  BY DEF Waste
<1>3. y = [identity |-> x.identity, spk |-> x.spk, session |-> x.session,
           mls |-> x.mls, next_id |-> x.next_id + 1, borrowed |-> x.borrowed]
  <2>1. PICK v : v = x.next_id + 1
    OBVIOUS
  <2>2. y = [x EXCEPT !.next_id = v]
    BY <2>1
  <2> HIDE DEF y
  <2> QED BY <1>1, <2>1, <2>2, PageFields
<1> HIDE DEF y
<1>4. OnlyPage(p) /\ instance'[p] = y /\ given'[p] = given[p]
  BY <1>1, <1>2 DEF OnlyPage
<1>5. Page(y) /\ \A k \in Kinds : y[k] = x[k]
  BY <1>1, <1>3 DEF Page, Kinds
<1>6. y.next_id = x.next_id + 1 /\ y.borrowed = x.borrowed
  BY <1>3
<1> QED BY <1>4, <1>5, <1>6 DEF Wasted

\* y is x, but for session h, which is t, and the borrow, which is b.
IsPageWith(x, y, h, t, b) ==
    y = [identity |-> x.identity, spk |-> x.spk,
         session |-> [x.session EXCEPT ![h] = t],
         mls |-> x.mls, next_id |-> x.next_id, borrowed |-> b]

(***************************************************************************)
(* A call that works on one session.                                       *)
(***************************************************************************)
LEMMA ChangeEffect ==
    ASSUME PagesInv, NEW p \in User, NEW h, NEW t, NEW b \in BOOLEAN, Borrows(p, h),
           NEW y, IsPageWith(instance[p], y, h, t, b),
           instance' = [instance EXCEPT ![p] = y], given' = given
    PROVE  Changed(p, h, t)
<1>1. /\ Page(instance[p]) /\ DOMAIN instance = User
      /\ given = [q \in User |-> given[q]]
  BY DEF PagesInv
<1>2. ~ instance[p].borrowed /\ h \in DOMAIN instance[p].session
  BY DEF Borrows, Known
<1>3. OnlyPage(p) /\ instance'[p] = y /\ given'[p] = given[p]
  BY <1>1 DEF OnlyPage
<1>4. /\ y.identity = instance[p].identity /\ y.spk = instance[p].spk
      /\ y.session = [instance[p].session EXCEPT ![h] = t]
      /\ y.mls = instance[p].mls /\ y.next_id = instance[p].next_id
      /\ y.borrowed = b
      /\ y = [identity |-> y.identity, spk |-> y.spk, session |-> y.session,
              mls |-> y.mls, next_id |-> y.next_id, borrowed |-> y.borrowed]
  BY DEF IsPageWith
<1>5. \A k \in Kinds \ {"session"} : y[k] = instance[p][k]
  BY <1>4 DEF Kinds
<1>6. Page(y)
  BY <1>1, <1>4 DEF Page
<1> QED BY <1>2, <1>3, <1>4, <1>5, <1>6 DEF Changed

(***************************************************************************)
(* The pages these calls leave: after a call that returns, after one that  *)
(* has changed the session and panics, and after one that only panics.     *)
(***************************************************************************)
LEMMA ChangedPage ==
    ASSUME PagesInv, NEW p \in User, NEW h, Borrows(p, h), NEW t, given' = given
    PROVE  /\ instance' = [instance EXCEPT ![p].session[h] = t] => Changed(p, h, t)
           /\ instance' = [instance EXCEPT ![p] = Trapped([@ EXCEPT !.session[h] = t])] =>
                 Changed(p, h, t)
<1> DEFINE x == instance[p]
           map == [x.session EXCEPT ![h] = t]
           y == [x EXCEPT !.session = map]
           z == Trapped(y)
<1>1. Page(x) /\ x.borrowed \in BOOLEAN /\ DOMAIN instance = User
  BY DEF PagesInv, Page
<1>2. y = [identity |-> x.identity, spk |-> x.spk, session |-> map,
           mls |-> x.mls, next_id |-> x.next_id, borrowed |-> x.borrowed]
  <2>1. PICK v : v = map
    OBVIOUS
  <2>2. y = [x EXCEPT !.session = v]
    BY <2>1
  <2> HIDE DEF y
  <2> QED BY <1>1, <2>1, <2>2, PageFields
<1>3. IsPageWith(x, y, h, t, x.borrowed)
  <2> HIDE DEF y
  <2> QED BY <1>2 DEF IsPageWith
<1>4. Page(y)
  <2> HIDE DEF y, map
  <2> QED BY <1>1, <1>2 DEF Page
<1>5. IsPageWith(x, z, h, t, TRUE)
  <2> HIDE DEF y
  <2>1. z = [identity |-> y.identity, spk |-> y.spk, session |-> y.session,
             mls |-> y.mls, next_id |-> y.next_id, borrowed |-> TRUE]
    BY <1>4, PageFields
  <2> HIDE DEF z
  <2> QED BY <1>2, <2>1 DEF IsPageWith
<1>6. ASSUME instance' = [instance EXCEPT ![p].session[h] = t]
      PROVE  Changed(p, h, t)
  <2>1. instance' = [instance EXCEPT ![p] = y]
    BY <1>1, <1>6
  <2> HIDE DEF y
  <2> QED BY <1>1, <1>3, <2>1, ChangeEffect
<1>7. ASSUME instance' = [instance EXCEPT ![p] = Trapped([@ EXCEPT !.session[h] = t])]
      PROVE  Changed(p, h, t)
  <2>1. instance' = [instance EXCEPT ![p] = z]
    BY <1>1, <1>7
  <2> HIDE DEF z
  <2> QED BY <1>5, <2>1, ChangeEffect
<1> QED BY <1>6, <1>7

(***************************************************************************)
(* A call that panics on the DH key of the header.                         *)
(***************************************************************************)
LEMMA TrappedPage ==
    ASSUME PagesInv, NEW p \in User, NEW h, DecryptShortKey(p, h)
    PROVE  Changed(p, h, instance[p].session[h])
<1> DEFINE x == instance[p]
           y == Trapped(x)
<1>1. Page(x) /\ DOMAIN instance = User /\ given = [q \in User |-> given[q]]
  BY DEF PagesInv
<1>2. /\ instance' = [instance EXCEPT ![p] = y] /\ given' = given
      /\ ~ x.borrowed /\ h \in DOMAIN x.session
  BY DEF DecryptShortKey, Borrows, Known
<1>3. y = [identity |-> x.identity, spk |-> x.spk, session |-> x.session,
           mls |-> x.mls, next_id |-> x.next_id, borrowed |-> TRUE]
  BY <1>1, PageFields
<1> HIDE DEF y
<1>4. OnlyPage(p) /\ instance'[p] = y /\ given'[p] = given[p]
  BY <1>1, <1>2 DEF OnlyPage
<1>5. Page(y) /\ \A k \in Kinds : y[k] = x[k]
  BY <1>1, <1>3 DEF Page, Kinds
<1>6. y.next_id = x.next_id /\ y.session = x.session
  BY <1>3
<1> QED BY <1>2, <1>4, <1>5, <1>6 DEF Changed

(***************************************************************************)
(* mls_destroy_state takes one state out of one map.                       *)
(***************************************************************************)
LEMMA DropEffect ==
    ASSUME PagesInv, NEW p \in User, NEW h, MlsDestroyState(p, h)
    PROVE  Dropped(p, h)
<1> DEFINE x   == instance[p]
           map == [k \in DOMAIN x.mls \ {h} |-> x.mls[k]]
           y   == [x EXCEPT !.mls = map]
<1>1. Page(x) /\ DOMAIN instance = User /\ given = [q \in User |-> given[q]]
  BY DEF PagesInv
<1>2. /\ instance' = [instance EXCEPT ![p].mls = [k \in DOMAIN @ \ {h} |-> @[k]]]
      /\ given' = given /\ h \in DOMAIN x.mls
  BY DEF MlsDestroyState, Known
<1>3. instance' = [instance EXCEPT ![p] = y]
  BY <1>1, <1>2
<1>4. y = [identity |-> x.identity, spk |-> x.spk, session |-> x.session,
           mls |-> map, next_id |-> x.next_id, borrowed |-> x.borrowed]
  <2>1. PICK v : v = map
    OBVIOUS
  <2>2. y = [x EXCEPT !.mls = v]
    BY <2>1
  <2> HIDE DEF y
  <2> QED BY <1>1, <2>1, <2>2, PageFields
<1> HIDE DEF y
<1>5. OnlyPage(p) /\ instance'[p] = y /\ given'[p] = given[p]
  BY <1>1, <1>2, <1>3 DEF OnlyPage
<1>6. y.next_id = x.next_id /\ y.borrowed = x.borrowed /\ y.mls = map
  BY <1>4
<1>7. DOMAIN map = DOMAIN x.mls \ {h} /\ \A k \in DOMAIN map : map[k] = x.mls[k]
  OBVIOUS
<1> HIDE DEF map
<1>8. Page(y) /\ \A k \in Kinds \ {"mls"} : y[k] = x[k]
  BY <1>1, <1>4 DEF Page, Kinds
<1> QED BY <1>2, <1>5, <1>6, <1>7, <1>8 DEF Dropped

(***************************************************************************)
(* A new instance has nothing in its maps.                                 *)
(***************************************************************************)
LEMMA FreshPage ==
    /\ Page(FreshInstance)
    /\ FreshInstance.next_id = 1
    /\ FreshInstance.borrowed = FALSE
    /\ \A k \in Kinds : DOMAIN FreshInstance[k] = {}
<1>1. DOMAIN Empty = {}
  BY DEF Empty
<1>2. \A k \in Kinds : FreshInstance[k] = Empty
  BY DEF FreshInstance, Kinds
<1>3. Page(FreshInstance) /\ FreshInstance.next_id = 1 /\ FreshInstance.borrowed = FALSE
  BY DEF FreshInstance, Page
<1> QED BY <1>1, <1>2, <1>3

(***************************************************************************)
(* Loading the page again.                                                 *)
(***************************************************************************)
LEMMA ReloadEffect ==
    ASSUME PagesInv, NEW p \in User, Reload(p)
    PROVE  Reloaded(p)
<1>1. instance = [q \in User |-> instance[q]] /\ given = [q \in User |-> given[q]]
  BY DEF PagesInv
<1> QED BY <1>1 DEF Reload, OnlyPage, Reloaded

-----------------------------------------------------------------------------
(* Handles *)

\* What one call can do to the maps
StoreStep ==
    \/ UNCHANGED <<instance, given>>
    \/ \E p \in User :
          \/ \E kind \in Kinds : \E x : Filed(p, kind, x)
          \/ Wasted(p)
          \/ \E h, t : Changed(p, h, t)
          \/ \E h : Dropped(p, h)
          \/ Reloaded(p)

(***************************************************************************)
(* A FreshKeyPair is taken from a counter.                                 *)
(***************************************************************************)
LEMMA GeneratesEffect ==
    ASSUME PagesInv, NEW p \in User, Generates(p) \/ UNCHANGED generated
    PROVE  /\ generated' \in [User -> Nat]
           /\ \A q \in User : generated'[q] >= generated[q]
           /\ Generates(p) => generated'[p] = generated[p] + 1
BY DEF PagesInv, Generates

(***************************************************************************)
(* A call that starts a session files it or loses a handle.                *)
(***************************************************************************)
LEMMA FileSessionEffect ==
    ASSUME PagesInv, NEW p \in User, NEW s, FileSession(p, s)
    PROVE  Filed(p, "session", s) \/ Wasted(p)
<1>1. "session" \in Kinds
  BY DEF Kinds
<1> QED BY <1>1, FileEffect, WasteEffect DEF FileSession

(***************************************************************************)
(* What every call does to the maps and the counters.                      *)
(***************************************************************************)
LEMMA CallEffect ==
    ASSUME PagesInv, NEW p \in User, Call(p)
    PROVE  /\ StoreStep
           /\ UNCHANGED loads
           /\ Generates(p) \/ UNCHANGED generated
<1>1. {"identity", "spk", "session", "mls"} \subseteq Kinds
  BY DEF Kinds
<1>2. ASSUME GenerateIdentityKeypair(p)
      PROVE  /\ \E kind \in Kinds : \E x : Filed(p, kind, x)
             /\ UNCHANGED loads /\ Generates(p)
  <2>1. File(p, "identity", FreshKeyPair(p, "identity"))
    BY <1>2 DEF GenerateIdentityKeypair
  <2> QED BY <1>1, <1>2, <2>1, FileEffect DEF GenerateIdentityKeypair
<1>3. ASSUME NEW h, GenerateSignedPreKey(p, h)
      PROVE  /\ \E kind \in Kinds : \E x : Filed(p, kind, x)
             /\ UNCHANGED loads /\ Generates(p)
  <2>1. PICK x : File(p, "spk", x)
    BY <1>3 DEF GenerateSignedPreKey
  <2> QED BY <1>1, <1>3, <2>1, FileEffect DEF GenerateSignedPreKey
<1>4. ASSUME GenerateOneTimePreKey(p)
      PROVE  UNCHANGED <<instance, given, loads>> /\ Generates(p)
  BY <1>4 DEF GenerateOneTimePreKey
<1>5. ASSUME NEW h, NEW bundle, X3dhInitiate(p, h, bundle)
      PROVE  UNCHANGED <<instance, given, loads>> /\ Generates(p)
  BY <1>5 DEF X3dhInitiate
<1>6. ASSUME NEW h, NEW hs, NEW i, X3dhRespond(p, h, hs, i)
      PROVE  UNCHANGED <<instance, given, loads, generated>>
  BY <1>6 DEF X3dhRespond
<1>7. ASSUME NEW secret, NEW key, CreateSessionAlice(p, secret, key)
      PROVE  /\ (\E kind \in Kinds : \E x : Filed(p, kind, x)) \/ Wasted(p)
             /\ UNCHANGED loads /\ Generates(p)
  <2>1. PICK x : FileSession(p, x)
    BY <1>7 DEF CreateSessionAlice
  <2> QED BY <1>1, <1>7, <2>1, FileSessionEffect DEF CreateSessionAlice
<1>8. ASSUME NEW secret, NEW hs, CreateSessionBob(p, secret, hs)
      PROVE  /\ (\E kind \in Kinds : \E x : Filed(p, kind, x)) \/ Wasted(p)
             /\ UNCHANGED <<loads, generated>>
  <2>1. PICK x : FileSession(p, x)
    BY <1>8 DEF CreateSessionBob
  <2> QED BY <1>1, <1>8, <2>1, FileSessionEffect DEF CreateSessionBob, keys
<1>9. ASSUME NEW h, SessionEncrypt(p, h)
      PROVE  (\E t : Changed(p, h, t)) /\ UNCHANGED <<loads, generated>>
  <2> DEFINE t == AfterEncrypt(instance[p].session[h])
  <2>1. /\ instance' = [instance EXCEPT ![p].session[h] = t]
        /\ given' = given /\ Borrows(p, h)
    BY <1>9 DEF SessionEncrypt
  <2> HIDE DEF t
  <2> QED BY <1>9, <2>1, ChangedPage DEF SessionEncrypt, keys
<1>10. ASSUME NEW h, NEW m, NEW intact, SessionDecrypt(p, h, m, intact)
       PROVE  (\E t : Changed(p, h, t)) /\ UNCHANGED loads
              /\ (Generates(p) \/ UNCHANGED generated)
  <2>1. PICK t : /\ instance' = [instance EXCEPT ![p].session[h] = t]
                 /\ given' = given /\ Borrows(p, h)
    BY <1>10 DEF SessionDecrypt
  <2> QED BY <1>10, <2>1, ChangedPage DEF SessionDecrypt
<1>11. ASSUME NEW h, NEW m, DecryptShortNonce(p, h, m)
       PROVE  (\E t : Changed(p, h, t)) /\ UNCHANGED loads
              /\ (Generates(p) \/ UNCHANGED generated)
  <2>1. PICK t : /\ instance' = [instance EXCEPT ![p] = Trapped([@ EXCEPT !.session[h] = t])]
                 /\ given' = given /\ Borrows(p, h)
    BY <1>11 DEF DecryptShortNonce
  <2> QED BY <1>11, <2>1, ChangedPage DEF DecryptShortNonce
<1>12. ASSUME NEW h, DecryptShortKey(p, h)
       PROVE  (\E t : Changed(p, h, t)) /\ UNCHANGED <<loads, generated>>
  BY <1>12, TrappedPage DEF DecryptShortKey, keys
<1>13. ASSUME FileMls(p)
       PROVE  /\ \E kind \in Kinds : \E x : Filed(p, kind, x)
              /\ UNCHANGED <<loads, generated>>
  BY <1>1, <1>13, FileEffect DEF FileMls, keys
<1>14. ASSUME NEW h, MlsDestroyState(p, h)
       PROVE  Dropped(p, h) /\ UNCHANGED <<loads, generated>>
  BY <1>14, DropEffect DEF MlsDestroyState, keys
<1>15. \A h : MlsStep(p, h) => FileMls(p)
  BY DEF MlsStep
<1> QED BY <1>2, <1>3, <1>4, <1>5, <1>6, <1>7, <1>8, <1>9, <1>10, <1>11, <1>12, <1>13,
           <1>14, <1>15 DEF Call, StoreStep, MlsCreateGroup, MlsProcessWelcome

(***************************************************************************)
(* The next step relation, seen from the maps and the counters.            *)
(***************************************************************************)
LEMMA NextEffect ==
    ASSUME PagesInv, [Next]_vars
    PROVE  StoreStep /\ PagesInv'
<1>1. /\ StoreStep
      /\ loads' \in [User -> Nat]
      /\ generated' \in [User -> Nat]
  <2>1. CASE UNCHANGED vars
    BY <2>1 DEF vars, StoreStep, PagesInv
  <2>2. ASSUME NEW p \in User, Call(p)
        PROVE  /\ StoreStep
               /\ loads' \in [User -> Nat]
               /\ generated' \in [User -> Nat]
    <3>1. StoreStep /\ UNCHANGED loads /\ (Generates(p) \/ UNCHANGED generated)
      BY <2>2, CallEffect
    <3> QED BY <3>1, GeneratesEffect DEF PagesInv
  <2>3. ASSUME NEW p \in User, Reload(p)
        PROVE  /\ StoreStep
               /\ loads' \in [User -> Nat]
               /\ generated' \in [User -> Nat]
    <3>1. Reloaded(p)
      BY <2>3, ReloadEffect
    <3>2. loads' = [loads EXCEPT ![p] = @ + 1] /\ UNCHANGED generated
      BY <2>3 DEF Reload
    <3> QED BY <3>1, <3>2 DEF PagesInv, StoreStep
  <2> QED BY <2>1, <2>2, <2>3 DEF Next
<1>2. /\ instance' = [q \in User |-> instance'[q]]
      /\ \A q \in User : Page(instance'[q])
      /\ given' \in [User -> SUBSET Handle]
  <2>1. CASE UNCHANGED <<instance, given>>
    BY <2>1 DEF PagesInv
  <2>2. ASSUME NEW p \in User, OnlyPage(p), Page(instance'[p]), given'[p] \subseteq Handle
        PROVE  /\ instance' = [q \in User |-> instance'[q]]
               /\ \A q \in User : Page(instance'[q])
               /\ given' \in [User -> SUBSET Handle]
    BY <2>2 DEF OnlyPage, PagesInv
  <2>3. \A p \in User : given[p] \subseteq Handle
    BY DEF PagesInv
  <2>4. ASSUME NEW p \in User, NEW kind, NEW x, Filed(p, kind, x)
        PROVE  OnlyPage(p) /\ Page(instance'[p]) /\ given'[p] \subseteq Handle
    BY <2>3, <2>4 DEF Filed
  <2>5. ASSUME NEW p \in User, Wasted(p)
        PROVE  OnlyPage(p) /\ Page(instance'[p]) /\ given'[p] \subseteq Handle
    BY <2>3, <2>5 DEF Wasted
  <2>6. ASSUME NEW p \in User, NEW h, NEW t, Changed(p, h, t)
        PROVE  OnlyPage(p) /\ Page(instance'[p]) /\ given'[p] \subseteq Handle
    BY <2>3, <2>6 DEF Changed
  <2>7. ASSUME NEW p \in User, NEW h, Dropped(p, h)
        PROVE  OnlyPage(p) /\ Page(instance'[p]) /\ given'[p] \subseteq Handle
    BY <2>3, <2>7 DEF Dropped
  <2>8. ASSUME NEW p \in User, Reloaded(p)
        PROVE  OnlyPage(p) /\ Page(instance'[p]) /\ given'[p] \subseteq Handle
    BY <2>8, FreshPage DEF Reloaded
  <2> QED BY <1>1, <2>1, <2>2, <2>4, <2>5, <2>6, <2>7, <2>8 DEF StoreStep
<1> QED BY <1>1, <1>2 DEF PagesInv

\* HandlesInv of one page
PageHandles(p) ==
    /\ given[p] \subseteq 1 .. instance[p].next_id - 1
    /\ instance[p].borrowed \/ given[p] = 1 .. instance[p].next_id - 1
    /\ \A k \in Kinds : DOMAIN instance[p][k] \subseteq given[p]
    /\ \A k, l \in Kinds : k # l =>
          DOMAIN instance[p][k] \cap DOMAIN instance[p][l] = {}

(***************************************************************************)
(* A handle that is next names nothing yet.                                *)
(***************************************************************************)
LEMMA FreshHandle ==
    ASSUME PagesInv, HandlesInv, NEW p \in User
    PROVE  /\ instance[p].next_id \notin given[p]
           /\ \A k \in Kinds : instance[p].next_id \notin DOMAIN instance[p][k]
<1>1. instance[p].next_id \in Nat /\ given[p] \subseteq 1 .. instance[p].next_id - 1
  BY DEF PagesInv, Page, HandlesInv
<1>2. instance[p].next_id \notin given[p]
  BY <1>1
<1> QED BY <1>2 DEF HandlesInv

(***************************************************************************)
(* Every call preserves HandlesInv.                                        *)
(***************************************************************************)
LEMMA HandlesStep ==
    ASSUME PagesInv, HandlesInv, StoreStep
    PROVE  HandlesInv'
<1>1. \A p \in User : PageHandles(p) /\ instance[p].next_id \in Nat \ {0}
  BY DEF HandlesInv, PageHandles, PagesInv, Page
<1>2. ASSUME NEW p \in User, OnlyPage(p), PageHandles(p)'
      PROVE  HandlesInv'
  <2>1. \A q \in User \ {p} : PageHandles(q)'
    BY <1>1, <1>2 DEF OnlyPage, PageHandles
  <2> QED BY <1>2, <2>1 DEF HandlesInv, PageHandles
<1>3. CASE UNCHANGED <<instance, given>>
  BY <1>3 DEF HandlesInv
<1>4. ASSUME NEW p \in User, NEW kind \in Kinds, NEW x, Filed(p, kind, x)
      PROVE  PageHandles(p)'
  <2> DEFINE id == instance[p].next_id
  <2>1. id \in Nat \ {0} /\ id \notin given[p] /\ PageHandles(p)
        /\ \A k \in Kinds : id \notin DOMAIN instance[p][k]
    BY <1>1, FreshHandle
  <2>2. /\ instance'[p].next_id = id + 1
        /\ given'[p] = given[p] \cup {id}
        /\ instance'[p].borrowed = instance[p].borrowed
    BY <1>4 DEF Filed
  <2>3. \A k \in Kinds : DOMAIN instance'[p][k] =
             IF k = kind THEN DOMAIN instance[p][k] \cup {id} ELSE DOMAIN instance[p][k]
    BY <1>4 DEF Filed
  <2> HIDE DEF id
  <2>4. 1 .. ((id + 1) - 1) = (1 .. (id - 1)) \cup {id}
    BY <2>1
  <2>5. /\ given'[p] \subseteq 1 .. instance'[p].next_id - 1
        /\ instance'[p].borrowed \/ given'[p] = 1 .. instance'[p].next_id - 1
    BY <2>1, <2>2, <2>4 DEF PageHandles, id
  <2>6. \A k \in Kinds : DOMAIN instance'[p][k] \subseteq given'[p]
    BY <2>1, <2>2, <2>3 DEF PageHandles
  <2>7. ASSUME NEW k \in Kinds, NEW l \in Kinds, k # l
        PROVE  DOMAIN instance'[p][k] \cap DOMAIN instance'[p][l] = {}
    <3>1. DOMAIN instance[p][k] \cap DOMAIN instance[p][l] = {}
      BY <2>1, <2>7 DEF PageHandles
    <3>2. id \notin DOMAIN instance[p][k] /\ id \notin DOMAIN instance[p][l]
      BY <2>1
    <3>3. /\ DOMAIN instance'[p][k] =
                IF k = kind THEN DOMAIN instance[p][k] \cup {id} ELSE DOMAIN instance[p][k]
          /\ DOMAIN instance'[p][l] =
                IF l = kind THEN DOMAIN instance[p][l] \cup {id} ELSE DOMAIN instance[p][l]
      BY <2>3
    <3> QED BY <2>7, <3>1, <3>2, <3>3
  <2> QED BY <2>5, <2>6, <2>7 DEF PageHandles
<1>5. ASSUME NEW p \in User, Wasted(p)
      PROVE  PageHandles(p)'
  BY <1>1, <1>5 DEF Wasted, PageHandles
<1>6. ASSUME NEW p \in User, NEW h, NEW t, Changed(p, h, t)
      PROVE  PageHandles(p)'
  <2>1. \A k \in Kinds : DOMAIN instance'[p][k] = DOMAIN instance[p][k]
    BY <1>6 DEF Changed
  <2> QED BY <1>1, <1>6, <2>1 DEF Changed, PageHandles
<1>7. ASSUME NEW p \in User, NEW h, Dropped(p, h)
      PROVE  PageHandles(p)'
  <2>1. \A k \in Kinds : DOMAIN instance'[p][k] \subseteq DOMAIN instance[p][k]
    BY <1>7 DEF Dropped
  <2> QED BY <1>1, <1>7, <2>1 DEF Dropped, PageHandles
<1>8. ASSUME NEW p \in User, Reloaded(p)
      PROVE  PageHandles(p)'
  BY <1>8, FreshPage DEF Reloaded, PageHandles
<1> QED
  <2>1. ASSUME NEW p \in User,
               \/ \E kind \in Kinds : \E x : Filed(p, kind, x)
               \/ Wasted(p)
               \/ \E h, t : Changed(p, h, t)
               \/ \E h : Dropped(p, h)
               \/ Reloaded(p)
        PROVE  HandlesInv'
    <3>1. OnlyPage(p)
      BY <2>1 DEF Filed, Wasted, Changed, Dropped, Reloaded
    <3> QED BY <1>2, <1>4, <1>5, <1>6, <1>7, <1>8, <2>1, <3>1
  <2> QED BY <1>3, <2>1 DEF StoreStep

-----------------------------------------------------------------------------
(* The maps of each page are a HandleStore *)

Named == UNION {{p} \X Kept(p) : p \in User}

\* What handle h of page p is for
ThingOf(p, h) == [kind \in {k \in Kinds : Known(p, k, h)} |-> instance[p][kind][h]]

\* Handle h of page p is for what it was for.
SameThing(p, h) ==
    \A k \in Kinds :
        /\ (h \in DOMAIN instance'[p][k]) <=> (h \in DOMAIN instance[p][k])
        /\ h \in DOMAIN instance[p][k] => instance'[p][k][h] = instance[p][k][h]

\* Things by user and handle
ThingsByHandle ==
    /\ Things = [x \in Named |-> ThingOf(x[1], x[2])]
    /\ \A p \in User : \A h : <<p, h>> \in Named <=> h \in Kept(p)
    /\ \A x \in Named : x[1] \in User /\ x[2] \in Kept(x[1]) /\ x = <<x[1], x[2]>>
    /\ \A p \in User : \A h : h \in Kept(p) => Things[<<p, h>>] = ThingOf(p, h)
    /\ \A p \in User : \A h : <<p, h>> \in Issued <=> h \in given[p]
    /\ \A x \in Issued : x[1] \in User /\ x[2] \in given[x[1]] /\ x = <<x[1], x[2]>>

(***************************************************************************)
(* What Things and Issued say of a handle of a page.                       *)
(***************************************************************************)
LEMMA ThingsAre == ThingsByHandle
<1>1. Things = [x \in Named |-> ThingOf(x[1], x[2])]
  BY DEF Things, Named, ThingOf
<1>2. \A p \in User : \A h : <<p, h>> \in Named <=> h \in Kept(p)
  BY DEF Named
<1>3. \A x \in Named : x[1] \in User /\ x[2] \in Kept(x[1]) /\ x = <<x[1], x[2]>>
  BY DEF Named
<1>4. /\ \A p \in User : \A h : <<p, h>> \in Issued <=> h \in given[p]
      /\ \A x \in Issued : x[1] \in User /\ x[2] \in given[x[1]] /\ x = <<x[1], x[2]>>
  BY DEF Issued
<1>5. ASSUME NEW p \in User, NEW h \in Kept(p)
      PROVE  Things[<<p, h>>] = ThingOf(p, h)
  <2>1. <<p, h>> \in Named
    BY <1>2
  <2> HIDE DEF Named
  <2> QED BY <1>1, <2>1
<1> QED BY <1>1, <1>2, <1>3, <1>4, <1>5 DEF ThingsByHandle

(***************************************************************************)
(* A handle that is for what it was for is for the same thing.             *)
(***************************************************************************)
LEMMA ThingKept ==
    ASSUME NEW p \in User, NEW h, SameThing(p, h)
    PROVE  /\ h \in Kept(p)' <=> h \in Kept(p)
           /\ ThingOf(p, h)' = ThingOf(p, h)
<1>1. {k \in Kinds : Known(p, k, h)}' = {k \in Kinds : Known(p, k, h)}
  BY DEF SameThing, Known
<1>2. \A k \in {l \in Kinds : Known(p, l, h)} : instance'[p][k][h] = instance[p][k][h]
  BY DEF SameThing, Known
<1>3. ThingOf(p, h)' = ThingOf(p, h)
  BY <1>1, <1>2 DEF ThingOf
<1>4. h \in Kept(p)' <=> h \in Kept(p)
  BY DEF SameThing, Kept
<1> QED BY <1>3, <1>4

(***************************************************************************)
(* The handles of the other pages are for what they were for.              *)
(***************************************************************************)
LEMMA OthersKept ==
    ASSUME NEW p \in User, OnlyPage(p), NEW q \in User \ {p}, NEW h
    PROVE  SameThing(q, h)
BY DEF OnlyPage, SameThing

(***************************************************************************)
(* A call that files something is a Create.                                *)
(***************************************************************************)
LEMMA FiledCreates ==
    ASSUME PagesInv, HandlesInv, NEW p \in User, NEW kind \in Kinds, NEW x,
           Filed(p, kind, x)
    PROVE  Store!Next
<1> DEFINE id == instance[p].next_id
           c  == <<p, id>>
<1>1. ThingsByHandle /\ ThingsByHandle'
  BY ThingsAre, PTL
<1>2. OnlyPage(p) /\ id \in Handle /\ given'[p] = given[p] \cup {id}
  BY DEF Filed
<1>3. id \notin given[p] /\ id \notin Kept(p)
  BY FreshHandle DEF Kept
<1>4. \A h : h # id => SameThing(p, h)
  BY DEF Filed, SameThing
<1>5. id \in Kept(p)'
  BY DEF Filed, Kept
<1> HIDE DEF id
<1>6. ASSUME NEW q \in User, NEW h, <<q, h>> # c
      PROVE  /\ h \in Kept(q)' <=> h \in Kept(q)
             /\ ThingOf(q, h)' = ThingOf(q, h)
             /\ h \in given'[q] <=> h \in given[q]
  <2>1. SameThing(q, h)
    BY <1>2, <1>4, <1>6, OthersKept
  <2>2. h \in given'[q] <=> h \in given[q]
    BY <1>2, <1>6 DEF OnlyPage
  <2> QED BY <2>1, <2>2, ThingKept
<1>7. Named' = Named \cup {c}
  BY <1>1, <1>5, <1>6 DEF ThingsByHandle
<1>8. Issued' = Issued \cup {c}
  BY <1>1, <1>2, <1>6 DEF ThingsByHandle
<1>9. c \notin Named
  BY <1>1, <1>3 DEF ThingsByHandle
<1>10. \A y \in Named : Things'[y] = Things[y]
  BY <1>1, <1>6, <1>9 DEF ThingsByHandle
<1>11. DOMAIN Things = Named /\ DOMAIN Things' = Named'
  BY <1>1 DEF ThingsByHandle
<1>12. Store!Create(c)
  BY <1>7, <1>8, <1>10, <1>11 DEF Store!Create
<1>13. c \in Store!Handle \ Issued
  BY <1>1, <1>2, <1>3 DEF ThingsByHandle, Store!Handle
<1> QED BY <1>12, <1>13 DEF Store!Next

(***************************************************************************)
(* A call that works on a session is an Update of its handle.              *)
(***************************************************************************)
LEMMA ChangedUpdates ==
    ASSUME PagesInv, HandlesInv, NEW p \in User, NEW h, NEW t, Changed(p, h, t)
    PROVE  Store!Next
<1> DEFINE c == <<p, h>>
<1>1. ThingsByHandle /\ ThingsByHandle'
  BY ThingsAre, PTL
<1>2. OnlyPage(p) /\ given'[p] = given[p] /\ h \in DOMAIN instance[p]["session"]
  BY DEF Changed
<1>3. \A k \in Kinds : DOMAIN instance'[p][k] = DOMAIN instance[p][k]
  BY DEF Changed
<1>4. \A g : g # h => SameThing(p, g)
  BY <1>3 DEF Changed, SameThing
<1>5. h \in Kept(p) /\ h \in Kept(p)' /\ h \in given[p]
  BY <1>2, <1>3 DEF Kept, HandlesInv, Kinds
<1>6. ASSUME NEW q \in User, NEW g, <<q, g>> # c
      PROVE  /\ g \in Kept(q)' <=> g \in Kept(q)
             /\ ThingOf(q, g)' = ThingOf(q, g)
  <2>1. SameThing(q, g)
    BY <1>2, <1>4, <1>6, OthersKept
  <2> QED BY <2>1, ThingKept
<1>7. Named' = Named
  BY <1>1, <1>5, <1>6 DEF ThingsByHandle
<1>8. Issued' = Issued
  <2>1. \A q \in User : given'[q] = given[q]
    BY <1>2 DEF OnlyPage
  <2> QED BY <2>1 DEF Issued
<1>9. c \in Named /\ c \in Issued
  BY <1>1, <1>5 DEF ThingsByHandle
<1>10. \A y \in Named \ {c} : Things'[y] = Things[y]
  BY <1>1, <1>6 DEF ThingsByHandle
<1>11. /\ DOMAIN Things = Named /\ DOMAIN Things' = Named'
       /\ Things = [y \in Named |-> Things[y]] /\ Things' = [y \in Named' |-> Things'[y]]
  BY <1>1 DEF ThingsByHandle
<1>12. Things' = [Things EXCEPT ![c] = Things'[c]]
  BY <1>7, <1>9, <1>10, <1>11
<1>13. Store!Update(c)
  BY <1>7, <1>8, <1>9, <1>11, <1>12 DEF Store!Update
<1> QED BY <1>9, <1>13 DEF Store!Next

(***************************************************************************)
(* mls_destroy_state is a Destroy.                                         *)
(***************************************************************************)
LEMMA DroppedDestroys ==
    ASSUME PagesInv, HandlesInv, NEW p \in User, NEW h, Dropped(p, h)
    PROVE  Store!Next
<1> DEFINE c == <<p, h>>
<1>1. ThingsByHandle /\ ThingsByHandle'
  BY ThingsAre, PTL
<1>2. OnlyPage(p) /\ given'[p] = given[p] /\ h \in DOMAIN instance[p]["mls"]
  BY DEF Dropped
<1>3. \A g : g # h => SameThing(p, g)
  BY DEF Dropped, SameThing
<1>4. h \in Kept(p) /\ h \in given[p]
  BY <1>2 DEF Kept, HandlesInv, Kinds
<1>5. h \notin Kept(p)'
  <2>1. "mls" \in Kinds
    BY DEF Kinds
  <2>2. \A k \in Kinds \ {"mls"} : h \notin DOMAIN instance[p][k]
    BY <1>2, <2>1 DEF HandlesInv
  <2>3. \A k \in Kinds : h \notin DOMAIN instance'[p][k]
    BY <2>2 DEF Dropped
  <2> QED BY <2>3 DEF Kept
<1>6. ASSUME NEW q \in User, NEW g, <<q, g>> # c
      PROVE  /\ g \in Kept(q)' <=> g \in Kept(q)
             /\ ThingOf(q, g)' = ThingOf(q, g)
  <2>1. SameThing(q, g)
    BY <1>2, <1>3, <1>6, OthersKept
  <2> QED BY <2>1, ThingKept
<1>7. Named' = Named \ {c}
  BY <1>1, <1>5, <1>6 DEF ThingsByHandle
<1>8. Issued' = Issued
  <2>1. \A q \in User : given'[q] = given[q]
    BY <1>2 DEF OnlyPage
  <2> QED BY <2>1 DEF Issued
<1>9. c \in Named /\ c \in Issued
  BY <1>1, <1>4 DEF ThingsByHandle
<1>10. \A y \in Named \ {c} : Things'[y] = Things[y]
  BY <1>1, <1>6 DEF ThingsByHandle
<1>11. DOMAIN Things = Named /\ Things' = [y \in Named' |-> Things'[y]]
  BY <1>1 DEF ThingsByHandle
<1>12. Things' = [y \in DOMAIN Things \ {c} |-> Things[y]]
  BY <1>7, <1>10, <1>11
<1>13. Store!Destroy(c)
  BY <1>8, <1>9, <1>11, <1>12 DEF Store!Destroy
<1> QED BY <1>9, <1>13 DEF Store!Next

(***************************************************************************)
(* Loading the page again is a Restart.                                    *)
(***************************************************************************)
LEMMA ReloadedRestarts ==
    ASSUME PagesInv, HandlesInv, NEW p \in User, Reloaded(p)
    PROVE  Store!Next
<1> DEFINE own == {p} \X Handle
<1>1. ThingsByHandle /\ ThingsByHandle'
  BY ThingsAre, PTL
<1>2. OnlyPage(p) /\ given'[p] = {} /\ instance'[p] = FreshInstance
  BY DEF Reloaded
<1>3. Kept(p)' = {}
  BY <1>2, FreshPage DEF Kept
<1>4. ASSUME NEW q \in User, NEW g
      PROVE  g \in Kept(q) => g \in Handle
  <2>1. given[q] \subseteq Handle
    BY DEF PagesInv
  <2> QED BY <2>1 DEF Kept, HandlesInv
<1>5. ASSUME NEW q \in User \ {p}, NEW g
      PROVE  /\ g \in Kept(q)' <=> g \in Kept(q)
             /\ ThingOf(q, g)' = ThingOf(q, g)
             /\ g \in given'[q] <=> g \in given[q]
  <2>1. SameThing(q, g)
    BY <1>2, OthersKept
  <2>2. g \in given'[q] <=> g \in given[q]
    BY <1>2 DEF OnlyPage
  <2> QED BY <2>1, <2>2, ThingKept
<1>6. Named' = Named \ own
  <2>1. ASSUME NEW q \in User, NEW g
        PROVE  <<q, g>> \in Named' <=> <<q, g>> \in Named \ own
    BY <1>1, <1>3, <1>4, <1>5 DEF ThingsByHandle
  <2> QED BY <1>1, <2>1 DEF ThingsByHandle
<1>7. Issued' = Issued \ own
  <2>1. ASSUME NEW q \in User, NEW g
        PROVE  <<q, g>> \in Issued' <=> <<q, g>> \in Issued \ own
    <3>1. given[p] \subseteq Handle
      BY DEF PagesInv
    <3> QED BY <1>1, <1>2, <1>5, <3>1 DEF ThingsByHandle
  <2> QED BY <1>1, <2>1 DEF ThingsByHandle
<1>8. \A y \in Named \ own : Things'[y] = Things[y]
  <2>1. ASSUME NEW y \in Named \ own
        PROVE  Things'[y] = Things[y]
    <3>1. PICK q \in User, g \in Kept(y[1]) : y = <<q, g>>
      BY <1>1 DEF ThingsByHandle
    <3>2. g \in Kept(q) /\ q # p
      BY <1>4, <3>1
    <3>3. g \in Kept(q)'
      BY <1>5, <3>2
    <3> QED BY <1>1, <1>5, <3>1, <3>2, <3>3 DEF ThingsByHandle
  <2> QED BY <2>1
<1>9. DOMAIN Things = Named /\ Things' = [y \in Named' |-> Things'[y]]
  BY <1>1 DEF ThingsByHandle
<1>10. Things' = [y \in DOMAIN Things \ own |-> Things[y]]
  BY <1>6, <1>8, <1>9
<1>11. Store!Restart(p)
  BY <1>7, <1>10 DEF Store!Restart
<1> QED BY <1>11 DEF Store!Next

(***************************************************************************)
(* A call that leaves the maps alone is no step of the HandleStore.        *)
(***************************************************************************)
LEMMA OtherwiseStutters ==
    ASSUME PagesInv, UNCHANGED <<instance, given>> \/ \E p \in User : Wasted(p)
    PROVE  UNCHANGED <<Things, Issued>>
<1>1. ThingsByHandle /\ ThingsByHandle'
  BY ThingsAre, PTL
<1>2. ASSUME NEW q \in User, NEW g
      PROVE  SameThing(q, g) /\ given'[q] = given[q]
  <2>1. CASE UNCHANGED <<instance, given>>
    BY <2>1 DEF SameThing
  <2>2. ASSUME NEW p \in User, Wasted(p)
        PROVE  SameThing(q, g) /\ given'[q] = given[q]
    BY <2>2 DEF Wasted, OnlyPage, SameThing
  <2> QED BY <2>1, <2>2
<1>3. \A q \in User : \A g : /\ g \in Kept(q)' <=> g \in Kept(q)
                             /\ ThingOf(q, g)' = ThingOf(q, g)
  BY <1>2, ThingKept
<1>4. Named' = Named
  BY <1>1, <1>3 DEF ThingsByHandle
<1>5. \A y \in Named : Things'[y] = Things[y]
  BY <1>1, <1>3, <1>4 DEF ThingsByHandle
<1>6. /\ Things = [y \in Named |-> Things[y]]
      /\ Things' = [y \in Named' |-> Things'[y]]
  BY <1>1 DEF ThingsByHandle
<1>7. Things' = Things
  BY <1>4, <1>5, <1>6
<1>8. Issued' = Issued
  BY <1>2 DEF Issued
<1> QED BY <1>7, <1>8

(***************************************************************************)
(* The maps are empty at first.                                            *)
(***************************************************************************)
LEMMA InitStore ==
    ASSUME Init
    PROVE  PagesInv /\ HandlesInv /\ Store!Init
<1>1. \A p \in User : instance[p] = FreshInstance /\ given[p] = {}
  BY DEF Init
<1>2. PagesInv
  BY <1>1, FreshPage DEF Init, PagesInv
<1>3. HandlesInv
  <2>1. 1 .. 1 - 1 = {}
    OBVIOUS
  <2>2. \A p \in User : PageHandles(p)
    BY <1>1, <2>1, FreshPage DEF PageHandles
  <2> QED BY <2>2 DEF HandlesInv, PageHandles
<1>4. \A p \in User : Kept(p) = {}
  BY <1>1, FreshPage DEF Kept
<1>5. Named = {} /\ Issued = {}
  BY <1>1, <1>4 DEF Named, Issued
<1>6. Things = [x \in Named |-> ThingOf(x[1], x[2])]
  BY ThingsAre DEF ThingsByHandle
<1>7. Things = [h \in {} |-> h]
  BY <1>5, <1>6
<1> QED BY <1>2, <1>3, <1>5, <1>7 DEF Store!Init

(***************************************************************************)
(* Every step of the pages is a step of the HandleStore, or none.          *)
(***************************************************************************)
LEMMA StoreImplemented ==
    ASSUME PagesInv, HandlesInv, StoreStep
    PROVE  [Store!Next]_(Store!vars)
<1>1. ASSUME NEW p \in User,
             \/ \E kind \in Kinds : \E x : Filed(p, kind, x)
             \/ \E h, t : Changed(p, h, t)
             \/ \E h : Dropped(p, h)
             \/ Reloaded(p)
      PROVE  Store!Next
  BY <1>1, FiledCreates, ChangedUpdates, DroppedDestroys, ReloadedRestarts
<1>2. ASSUME UNCHANGED <<instance, given>> \/ \E p \in User : Wasted(p)
      PROVE  UNCHANGED Store!vars
  BY <1>2, OtherwiseStutters DEF Store!vars
<1> QED BY <1>1, <1>2 DEF StoreStep

-----------------------------------------------------------------------------
(* Keys, sessions and messages *)

\* The key pairs generated so far
Made == {k \in Keys : k.n < generated[k.owner]}

Sessions(p) == instance[p].session

SpkKeys(p) == {instance[p].spk[h].key : h \in DOMAIN instance[p].spk}

\* A key pair of p's
Own(p, k, kind) == k.owner = p /\ k.kind = kind

SpkPairs(p) == {k \in Made : Own(p, k, "spk")}

InitiationOK(i) ==
    /\ {i.identity, i.eph} \subseteq Keys
    /\ i.eph.owner = i.by
    /\ i.bundle.spk.key \in Made
    /\ i.bundle.identity.kind = "identity" /\ i.eph.kind = "ephemeral"
    /\ i.secret \in Seq(SUBSET Keys)
    /\ i.secret[2] = {i.eph, i.bundle.identity}
    /\ i.bundle.opk # None => Len(i.secret) = 4

ResponseOK(r) ==
    /\ r.identity.kind = "identity" /\ r.identity.owner = r.by
    /\ r.secret \in Seq(SUBSET Keys) /\ Len(r.secret) = 3
    /\ \E eph \in Keys : eph.kind = "ephemeral" /\ r.secret[2] = {r.identity, eph}

\* The first DH output is of a ratchet key of p, or of a signed pre-key.
FromRatchetKey(p, dh) == \E a, k : dh = {a, k} /\ Own(p, a, "ratchet")
FromPreKey(p, dh)     == \E k \in dh : Own(p, k, "spk")

\* The chain starts with a secret that p has been given; an even number of steps
\* from it began with create_session_alice, an odd one with create_session_bob.
Origin(p, chain) ==
    /\ chain[1] \in SecretsOf(p)
    /\ Len(chain) % 2 = 0 => FromRatchetKey(p, chain[2])
    /\ Len(chain) % 2 = 1 /\ Len(chain) >= 2 => FromPreKey(p, chain[2])

\* A responder's session leads back to a pre-key that its page still has.
SpkHeld(p, s) ==
    /\ p \in Responders
    /\ IF Len(s.root_key) = 1 THEN s.dh_public \in SpkKeys(p)
                              ELSE s.root_key[2] \cap SpkKeys(p) # {}

MadeChain(chain) == /\ Len(chain) >= 2
                    /\ chain[2] \subseteq Made
                    /\ chain[Len(chain)] \subseteq Made

SessionAt(p, s) ==
    /\ SessionOK(s)
    /\ SessionInv(s)
    /\ s.dh_public \in Made
    /\ s.remote_dh_public \in Made \cup {None}
    /\ Origin(p, s.root_key)
    /\ s.sending_chain # None <=> Len(s.root_key) >= 2
    /\ Len(s.root_key) >= 2 => MadeChain(s.root_key)
    /\ Len(s.root_key) % 2 = 1 => SpkHeld(p, s)
    /\ Len(s.root_key) = 1 => Own(p, s.dh_public, "spk")

MessageOK(m) == /\ m.hdr \in Header
                /\ m.hdr.dh \in Made
                /\ m.key \in Key
                /\ MadeChain(m.key.chain)
                /\ Origin(m.from, m.key.chain)

IdentityKeys(p) == {k \in Made : k.owner = p /\ k.kind = "identity"}

KeyPairsInv ==
    /\ \A p \in User : \A h \in DOMAIN instance[p].identity :
          instance[p].identity[h] \in IdentityKeys(p)
    /\ \A p \in User : \A h \in DOMAIN instance[p].spk :
          /\ instance[p].spk[h] \in [key : SpkPairs(p), signer : Keys]
          /\ p \in Responders
    /\ published = [identity |-> published.identity, spk |-> published.spk,
                    opk |-> published.opk]
    /\ \A k \in published.identity : k \in Made /\ k.kind = "identity"
    /\ \A x \in published.spk \cup published.opk : x.key \in Made
    /\ \A i \in initiations : InitiationOK(i)
    /\ \A r \in responses : ResponseOK(r)

SessionsInv == \A p \in User : \A h \in DOMAIN Sessions(p) : SessionAt(p, Sessions(p)[h])

MessagesInv == /\ messages \in Seq([from : User, hdr : Header, key : Key])
               /\ \A m \in DOMAIN messages : MessageOK(messages[m])

\* Sending chains have roots of their own, and are ahead of the messages.
SendersInv ==
    /\ \A p, q \in User : \A g \in DOMAIN Sessions(p) : \A h \in DOMAIN Sessions(q) :
          /\ Len(Sessions(p)[g].root_key) >= 2
          /\ Sessions(p)[g].root_key = Sessions(q)[h].root_key
          => p = q /\ g = h
    /\ \A p \in User : \A g \in DOMAIN Sessions(p) : \A m \in DOMAIN messages :
          messages[m].key.chain = Sessions(p)[g].root_key =>
              messages[m].key.n < Sessions(p)[g].sending_chain.index
    /\ KeysUnique

\* The sessions a page has initiated start with key pairs of their own.
StartsInv ==
    \A p \in User : \A g, h \in DOMAIN Sessions(p) :
        /\ Len(Sessions(p)[g].root_key) % 2 = 0
        /\ Len(Sessions(p)[h].root_key) % 2 = 0
        /\ Sessions(p)[g].root_key[2] = Sessions(p)[h].root_key[2]
        => g = h

OpenedOK(o) ==
    LET p   == o.at.by
        key == messages[o.message].key
    IN  /\ o = [at |-> [by |-> p, handle |-> o.at.handle, load |-> o.at.load],
                message |-> o.message, times |-> 1]
        /\ p \in User /\ o.message \in DOMAIN messages
        /\ o.at.load \in 0 .. loads[p]
        /\ o.at.load = loads[p] => /\ o.at.handle \in DOMAIN Sessions(p)
                                   /\ Consumed(Sessions(p)[o.at.handle], key)
        /\ o.at.load # loads[p] => key.chain[2] \cap SpkKeys(p) = {}
        /\ \A h \in DOMAIN Sessions(p) :
              /\ Len(key.chain) % 2 = 1
              /\ Len(Sessions(p)[h].root_key) % 2 = 0
              /\ key.chain[2] = Sessions(p)[h].root_key[2]
              => o.at = Where(p, h)

\* The message of p's that q has opened: what OpenedByPeer says of it
ByPeer(chain, p, q) == \/ Agreed(chain[1], p, q)
                       \/ p = q /\ \A k \in chain[2] : k.owner = p

OpenedInv == /\ \A o \in opened : OpenedOK(o)
             /\ OpenedByPeer
             /\ OpenedOnce

\* What a map held, it holds, and nothing else.
MapKept(p, kind) ==
    \A h \in DOMAIN instance'[p][kind] :
        /\ h \in DOMAIN instance[p][kind]
        /\ instance'[p][kind][h] = instance[p][kind][h]

\* The private keys a page has are those it had.
KeysKept == \A q \in User : MapKept(q, "identity") /\ MapKept(q, "spk")

(***************************************************************************)
(* A key pair that is generated is none of those generated before.         *)
(***************************************************************************)
LEMMA FreshKey ==
    ASSUME PagesInv, NEW p \in User, Generates(p),
           NEW kind \in {"identity", "spk", "onetime", "ephemeral", "ratchet"}
    PROVE  /\ FreshKeyPair(p, kind) \in Made' \ Made
           /\ FreshKeyPair(p, kind).owner = p
           /\ FreshKeyPair(p, kind).kind = kind
<1>1. generated[p] \in Nat /\ generated'[p] = generated[p] + 1
  BY GeneratesEffect DEF PagesInv
<1>2. FreshKeyPair(p, kind) = [owner |-> p, kind |-> kind, n |-> generated[p]]
  BY DEF FreshKeyPair, KeyPairOf
<1>3. FreshKeyPair(p, kind) \in Keys
  BY <1>1, <1>2 DEF Keys
<1> QED BY <1>1, <1>2, <1>3 DEF Made

(***************************************************************************)
(* Key pairs that have been generated stay generated.                      *)
(***************************************************************************)
LEMMA MadeGrows ==
    ASSUME PagesInv, NEW p \in User, Generates(p) \/ UNCHANGED generated
    PROVE  Made \subseteq Made'
<1>1. /\ \A q \in User : generated[q] \in Nat /\ generated'[q] \in Nat
      /\ \A q \in User : generated'[q] >= generated[q]
  BY GeneratesEffect DEF PagesInv
<1>2. \A k \in Keys : k.owner \in User /\ k.n \in Nat
  BY DEF Keys
<1> QED BY <1>1, <1>2 DEF Made

(***************************************************************************)
(* The maps of private keys, after each kind of step.                      *)
(***************************************************************************)
LEMMA FiledMaps ==
    ASSUME NEW p \in User, NEW kind \in Kinds, NEW x, Filed(p, kind, x)
    PROVE  /\ \A q \in User : \A k \in Kinds : q # p \/ k # kind => MapKept(q, k)
           /\ \A h \in DOMAIN instance'[p][kind] :
                 \/ instance'[p][kind][h] = x
                 \/ /\ h \in DOMAIN instance[p][kind]
                    /\ instance'[p][kind][h] = instance[p][kind][h]
<1>1. \A k \in Kinds : k # kind => MapKept(p, k)
  BY DEF Filed, MapKept
<1>2. \A q \in User : \A k \in Kinds : q # p => MapKept(q, k)
  BY DEF Filed, OnlyPage, MapKept
<1>3. \A h \in DOMAIN instance'[p][kind] :
          \/ instance'[p][kind][h] = x
          \/ /\ h \in DOMAIN instance[p][kind]
             /\ instance'[p][kind][h] = instance[p][kind][h]
  BY DEF Filed
<1> QED BY <1>1, <1>2, <1>3

(***************************************************************************)
(* Only the calls that generate identities and pre-keys file private keys. *)
(***************************************************************************)
LEMMA OtherMaps ==
    ASSUME NEW p \in User,
           \/ UNCHANGED <<instance, given>>
           \/ \E kind \in Kinds \ {"identity", "spk"} : \E x : Filed(p, kind, x)
           \/ Wasted(p)
           \/ \E h, t : Changed(p, h, t)
           \/ \E h : Dropped(p, h)
           \/ Reloaded(p)
    PROVE  KeysKept
<1>1. {"identity", "spk"} \subseteq Kinds
  BY DEF Kinds
<1>2. CASE UNCHANGED <<instance, given>>
  BY <1>2 DEF KeysKept, MapKept
<1>3. ASSUME NEW kind \in Kinds \ {"identity", "spk"}, NEW x, Filed(p, kind, x)
      PROVE  KeysKept
  BY <1>1, <1>3, FiledMaps DEF KeysKept
<1>4. ASSUME OnlyPage(p), MapKept(p, "identity"), MapKept(p, "spk")
      PROVE  KeysKept
  BY <1>4 DEF OnlyPage, KeysKept, MapKept
<1>5. CASE Wasted(p)
  BY <1>1, <1>4, <1>5 DEF Wasted, MapKept
<1>6. ASSUME NEW h, NEW t, Changed(p, h, t)
      PROVE  KeysKept
  BY <1>1, <1>4, <1>6 DEF Changed, MapKept
<1>7. ASSUME NEW h, Dropped(p, h)
      PROVE  KeysKept
  BY <1>1, <1>4, <1>7 DEF Dropped, MapKept
<1>8. CASE Reloaded(p)
  BY <1>1, <1>4, <1>8, FreshPage DEF Reloaded, MapKept
<1> QED BY <1>2, <1>3, <1>5, <1>6, <1>7, <1>8

(***************************************************************************)
(* What was right of the key pairs stays right when more are generated.    *)
(***************************************************************************)
LEMMA KeyPairsKept ==
    ASSUME KeyPairsInv, Made \subseteq Made'
    PROVE  /\ \A p \in User : IdentityKeys(p) \subseteq IdentityKeys(p)'
           /\ \A p \in User : SpkPairs(p) \subseteq SpkPairs(p)'
           /\ \A k \in published.identity : k \in Made' /\ k.kind = "identity"
           /\ \A x \in published.spk \cup published.opk : x.key \in Made'
           /\ \A i \in initiations : InitiationOK(i)'
           /\ \A r \in responses : ResponseOK(r)'
<1>1. \A i : InitiationOK(i) => InitiationOK(i)'
  BY DEF InitiationOK
<1>2. \A r : ResponseOK(r) => ResponseOK(r)'
  BY DEF ResponseOK
<1>3. \A p \in User : IdentityKeys(p) \subseteq IdentityKeys(p)'
  BY DEF IdentityKeys
<1>4. \A p \in User : SpkPairs(p) \subseteq SpkPairs(p)'
  BY DEF SpkPairs
<1> QED BY <1>1, <1>2, <1>3, <1>4 DEF KeyPairsInv

\* The private keys of the pages are as KeyPairsInv has them.
PrivateKeysOK ==
    /\ \A p \in User : \A h \in DOMAIN instance[p].identity :
          instance[p].identity[h] \in IdentityKeys(p)
    /\ \A p \in User : \A h \in DOMAIN instance[p].spk :
          /\ instance[p].spk[h] \in [key : SpkPairs(p), signer : Keys]
          /\ p \in Responders

\* Public keys, initiations and responses are as KeyPairsInv has them.
PublicKeysOK ==
    /\ published = [identity |-> published.identity, spk |-> published.spk,
                    opk |-> published.opk]
    /\ \A k \in published.identity : k \in Made /\ k.kind = "identity"
    /\ \A x \in published.spk \cup published.opk : x.key \in Made
    /\ \A i \in initiations : InitiationOK(i)
    /\ \A r \in responses : ResponseOK(r)

(***************************************************************************)
(* Keys that are kept stay right.                                          *)
(***************************************************************************)
LEMMA PrivateKeysKept ==
    ASSUME KeyPairsInv, Made \subseteq Made', KeysKept
    PROVE  PrivateKeysOK'
<1>1. \A p \in User : /\ IdentityKeys(p) \subseteq IdentityKeys(p)'
                      /\ SpkPairs(p) \subseteq SpkPairs(p)'
  BY KeyPairsKept
<1>2. ASSUME NEW p \in User, NEW h \in DOMAIN instance'[p].identity
      PROVE  instance'[p].identity[h] \in IdentityKeys(p)'
  <2>1. /\ h \in DOMAIN instance[p].identity
        /\ instance'[p].identity[h] = instance[p].identity[h]
    BY DEF KeysKept, MapKept
  <2>2. instance[p].identity[h] \in IdentityKeys(p)
    BY <2>1 DEF KeyPairsInv
  <2> QED BY <1>1, <2>1, <2>2
<1>3. ASSUME NEW p \in User, NEW h \in DOMAIN instance'[p].spk
      PROVE  instance'[p].spk[h] \in [key : SpkPairs(p)', signer : Keys] /\ p \in Responders
  <2>1. h \in DOMAIN instance[p].spk /\ instance'[p].spk[h] = instance[p].spk[h]
    BY DEF KeysKept, MapKept
  <2>2. instance[p].spk[h] \in [key : SpkPairs(p), signer : Keys] /\ p \in Responders
    BY <2>1 DEF KeyPairsInv
  <2> QED BY <1>1, <2>1, <2>2
<1> QED BY <1>2, <1>3 DEF PrivateKeysOK

(***************************************************************************)
(* So do public keys and secrets.                                          *)
(***************************************************************************)
LEMMA PublicKeysKept ==
    ASSUME KeyPairsInv, Made \subseteq Made',
           UNCHANGED <<published, initiations, responses>>
    PROVE  PublicKeysOK'
BY KeyPairsKept DEF KeyPairsInv, PublicKeysOK

(***************************************************************************)
(* generate_identity_keypair                                               *)
(***************************************************************************)
LEMMA IdentityStep ==
    ASSUME PagesInv, KeyPairsInv, NEW p \in User, GenerateIdentityKeypair(p)
    PROVE  KeyPairsInv'
<1> DEFINE k == FreshKeyPair(p, "identity")
<1>1. /\ Generates(p) /\ Publish("identity", k) /\ File(p, "identity", k)
      /\ UNCHANGED <<initiations, responses>>
  BY DEF GenerateIdentityKeypair
<1>2. k \in IdentityKeys(p)' /\ k \in Made' /\ k.kind = "identity"
  BY <1>1, FreshKey DEF IdentityKeys
<1> HIDE DEF k
<1>3. Made \subseteq Made'
  BY <1>1, MadeGrows
<1>4. Filed(p, "identity", k) /\ {"identity", "spk"} \subseteq Kinds
  BY <1>1, FileEffect DEF Kinds
<1>5. PrivateKeysOK'
  <2>1. ASSUME NEW q \in User, NEW h \in DOMAIN instance'[q].identity
        PROVE  instance'[q].identity[h] \in IdentityKeys(q)'
    <3>1. \/ q = p /\ instance'[q].identity[h] = k
          \/ h \in DOMAIN instance[q].identity
             /\ instance'[q].identity[h] = instance[q].identity[h]
      BY <1>4, FiledMaps DEF MapKept
    <3> QED BY <1>2, <1>3, <3>1, KeyPairsKept DEF KeyPairsInv
  <2>2. ASSUME NEW q \in User, NEW h \in DOMAIN instance'[q].spk
        PROVE  instance'[q].spk[h] \in [key : SpkPairs(q)', signer : Keys] /\ q \in Responders
    <3>1. /\ h \in DOMAIN instance[q].spk
          /\ instance'[q].spk[h] = instance[q].spk[h]
      BY <1>4, FiledMaps DEF MapKept
    <3> QED BY <1>3, <3>1, KeyPairsKept DEF KeyPairsInv
  <2> QED BY <2>1, <2>2 DEF PrivateKeysOK
<1>6. published' = [identity |-> published.identity \cup {k}, spk |-> published.spk,
                    opk |-> published.opk]
  BY <1>1 DEF Publish, KeyPairsInv
<1>7. PublicKeysOK'
  BY <1>1, <1>2, <1>3, <1>6, KeyPairsKept DEF PublicKeysOK
<1> QED BY <1>5, <1>7 DEF KeyPairsInv, PrivateKeysOK, PublicKeysOK

(***************************************************************************)
(* generate_signed_prekey                                                  *)
(***************************************************************************)
LEMMA SpkStep ==
    ASSUME PagesInv, KeyPairsInv, NEW p \in User, NEW g, GenerateSignedPreKey(p, g)
    PROVE  KeyPairsInv'
<1> DEFINE k == FreshKeyPair(p, "spk")
           x == [key |-> k, signer |-> instance[p].identity[g]]
<1>1. /\ Generates(p) /\ Publish("spk", x) /\ File(p, "spk", x)
      /\ UNCHANGED <<initiations, responses>>
      /\ p \in Responders /\ g \in DOMAIN instance[p].identity
  BY DEF GenerateSignedPreKey, Known
<1>2. k \in SpkPairs(p)' /\ k \in Made'
  BY <1>1, FreshKey DEF SpkPairs, Own
<1>3. x \in [key : SpkPairs(p)', signer : Keys] /\ x.key = k
  <2>1. instance[p].identity[g] \in Keys
    BY <1>1 DEF KeyPairsInv, IdentityKeys, Made
  <2> HIDE DEF k
  <2> QED BY <1>2, <2>1
<1> HIDE DEF x
<1>4. Made \subseteq Made'
  BY <1>1, MadeGrows
<1>5. Filed(p, "spk", x) /\ {"identity", "spk"} \subseteq Kinds
  BY <1>1, FileEffect DEF Kinds
<1>6. PrivateKeysOK'
  <2>1. ASSUME NEW q \in User, NEW h \in DOMAIN instance'[q].identity
        PROVE  instance'[q].identity[h] \in IdentityKeys(q)'
    <3>1. /\ h \in DOMAIN instance[q].identity
          /\ instance'[q].identity[h] = instance[q].identity[h]
      BY <1>5, FiledMaps DEF MapKept
    <3> QED BY <1>4, <3>1, KeyPairsKept DEF KeyPairsInv
  <2>2. ASSUME NEW q \in User, NEW h \in DOMAIN instance'[q].spk
        PROVE  instance'[q].spk[h] \in [key : SpkPairs(q)', signer : Keys] /\ q \in Responders
    <3>1. \/ q = p /\ instance'[q].spk[h] = x
          \/ h \in DOMAIN instance[q].spk /\ instance'[q].spk[h] = instance[q].spk[h]
      BY <1>5, FiledMaps DEF MapKept
    <3> QED BY <1>1, <1>3, <1>4, <3>1, KeyPairsKept DEF KeyPairsInv
  <2> QED BY <2>1, <2>2 DEF PrivateKeysOK
<1>7. published' = [identity |-> published.identity, spk |-> published.spk \cup {x},
                    opk |-> published.opk]
  BY <1>1 DEF Publish, KeyPairsInv
<1> HIDE DEF k
<1>8. PublicKeysOK'
  BY <1>1, <1>2, <1>3, <1>4, <1>7, KeyPairsKept DEF PublicKeysOK
<1> QED BY <1>6, <1>8 DEF KeyPairsInv, PrivateKeysOK, PublicKeysOK

(***************************************************************************)
(* generate_one_time_prekey                                                *)
(***************************************************************************)
LEMMA OpkStep ==
    ASSUME PagesInv, KeyPairsInv, NEW p \in User, GenerateOneTimePreKey(p)
    PROVE  KeyPairsInv'
<1> DEFINE k == FreshKeyPair(p, "onetime")
           x == [key |-> k, id |-> 0]
<1>1. /\ Generates(p) /\ Publish("opk", x)
      /\ UNCHANGED <<instance, given, initiations, responses>>
  BY DEF GenerateOneTimePreKey
<1>2. k \in Made' /\ Made \subseteq Made'
  BY <1>1, FreshKey, MadeGrows
<1>3. x.key = k
  OBVIOUS
<1> HIDE DEF x, k
<1>4. PrivateKeysOK'
  BY <1>1, <1>2, OtherMaps, PrivateKeysKept
<1>5. published' = [identity |-> published.identity, spk |-> published.spk,
                    opk |-> published.opk \cup {x}]
  BY <1>1 DEF Publish, KeyPairsInv
<1>6. PublicKeysOK'
  BY <1>1, <1>2, <1>3, <1>5, KeyPairsKept DEF PublicKeysOK
<1> QED BY <1>4, <1>6 DEF KeyPairsInv, PrivateKeysOK, PublicKeysOK

(***************************************************************************)
(* The types of the secrets.                                               *)
(***************************************************************************)
LEMMA SecretTypes ==
    ASSUME NEW identity \in Keys, NEW eph \in Keys, NEW spk \in Keys, NEW other \in Keys,
           NEW opk, NEW key, opk # None => key \in Keys
    PROVE  /\ << DH(identity, spk), DH(eph, other), DH(eph, spk) >>
                 \o OptionalDH(opk, DH(eph, key)) \in Seq(SUBSET Keys)
           /\ << DH(spk, identity), DH(other, eph), DH(spk, eph) >>
                 \o OptionalDH(opk, DH(key, eph)) \in Seq(SUBSET Keys)
<1> DEFINE s == << DH(identity, spk), DH(eph, other), DH(eph, spk) >>
           t == << DH(spk, identity), DH(other, eph), DH(spk, eph) >>
           d == DH(eph, key)
           e == DH(key, eph)
           S == SUBSET Keys
<1>1. s \in Seq(S) /\ Len(s) = 3 /\ t \in Seq(S) /\ Len(t) = 3
  BY DEF DH
<1>2. opk # None => d \in S /\ e \in S
  BY DEF DH
<1> HIDE DEF s, t, d, e, S
<1>3. s \o OptionalDH(opk, d) \in Seq(S) /\ t \o OptionalDH(opk, e) \in Seq(S)
  BY <1>1, <1>2, SecretParts
<1> QED BY <1>3 DEF s, t, d, e, S

(***************************************************************************)
(* x3dh_initiate                                                           *)
(***************************************************************************)
LEMMA InitiateStep ==
    ASSUME PagesInv, KeyPairsInv, NEW p \in User, NEW g, NEW bundle \in Bundles,
           X3dhInitiate(p, g, bundle)
    PROVE  KeyPairsInv'
<1> DEFINE k == FreshKeyPair(p, "ephemeral")
           identity == instance[p].identity[g]
           secret == InitiatorSecret(identity, k, bundle)
           i == [by |-> p, identity |-> identity, eph |-> k, bundle |-> bundle,
                 secret |-> secret]
<1>1. /\ Generates(p) /\ initiations' = initiations \cup {i}
      /\ UNCHANGED <<instance, given, published, responses>>
      /\ g \in DOMAIN instance[p].identity
  BY DEF X3dhInitiate, Known
<1>2. k \in Made' /\ k \in Keys /\ Own(p, k, "ephemeral") /\ Made \subseteq Made'
  BY <1>1, FreshKey, MadeGrows DEF Made, Own
<1>3. identity \in Keys
  BY <1>1 DEF KeyPairsInv, IdentityKeys, Made
<1>4. /\ bundle.identity \in published.identity
      /\ bundle.spk \in published.spk
      /\ bundle.opk \in published.opk \cup {None}
  BY DEF Bundles
<1>5. /\ bundle.identity \in Keys /\ bundle.identity.kind = "identity"
      /\ bundle.spk.key \in Made /\ bundle.spk.key \in Keys
      /\ bundle.opk # None => bundle.opk.key \in Keys
  BY <1>4 DEF KeyPairsInv, Made
<1> HIDE DEF k, identity
<1>6. secret \in Seq(SUBSET Keys)
  BY <1>2, <1>3, <1>5, SecretTypes DEF InitiatorSecret
<1>7. /\ secret[2] = {k, bundle.identity}
      /\ bundle.opk # None => Len(secret) = 4
  BY InitiatorSecretIs
<1> HIDE DEF secret
<1>8. PICK j : j = i
  OBVIOUS
<1>9. InitiationOK(j)' /\ initiations' = initiations \cup {j}
  <2>1. /\ {j.identity, j.eph} \subseteq Keys
        /\ j.bundle.spk.key \in Made'
        /\ j.bundle.identity.kind = "identity" /\ j.eph.kind = "ephemeral"
        /\ j.eph.owner = j.by
        /\ j.secret \in Seq(SUBSET Keys)
        /\ j.secret[2] = {j.eph, j.bundle.identity}
        /\ j.bundle.opk # None => Len(j.secret) = 4
    BY <1>2, <1>3, <1>5, <1>6, <1>7, <1>8 DEF Own
  <2> HIDE DEF i
  <2> QED BY <1>1, <1>8, <2>1 DEF InitiationOK
<1> HIDE DEF i
<1>10. PrivateKeysOK'
  BY <1>1, <1>2, OtherMaps, PrivateKeysKept
<1>11. PublicKeysOK'
  <2>1. \A l \in initiations' : InitiationOK(l)'
    BY <1>2, <1>9, KeyPairsKept
  <2> QED BY <1>1, <1>2, <2>1, KeyPairsKept DEF KeyPairsInv, PublicKeysOK
<1> QED BY <1>10, <1>11 DEF KeyPairsInv, PrivateKeysOK, PublicKeysOK

(***************************************************************************)
(* x3dh_respond                                                            *)
(***************************************************************************)
LEMMA RespondStep ==
    ASSUME PagesInv, KeyPairsInv, NEW p \in User, NEW g, NEW h, NEW i \in initiations,
           X3dhRespond(p, g, h, i)
    PROVE  KeyPairsInv'
<1> DEFINE identity == instance[p].identity[g]
           spk == instance[p].spk[h]
           secret == ResponderSecret(identity, spk, None, i.identity, i.eph)
           r == [by |-> p, identity |-> identity, secret |-> secret]
<1>1. /\ responses' = responses \cup {r}
      /\ UNCHANGED <<instance, given, generated, published, initiations>>
      /\ g \in DOMAIN instance[p].identity /\ h \in DOMAIN instance[p].spk
  BY DEF X3dhRespond, Known
<1>2. /\ identity \in Keys /\ identity.kind = "identity" /\ identity.owner = p
      /\ spk.key \in Keys
  BY <1>1 DEF KeyPairsInv, IdentityKeys, SpkPairs, Made
<1>3. i.identity \in Keys /\ i.eph \in Keys /\ i.eph.kind = "ephemeral"
  BY DEF KeyPairsInv, InitiationOK
<1> HIDE DEF identity, spk
<1>4. secret \in Seq(SUBSET Keys)
  <2>1. << DH(spk.key, i.identity), DH(identity, i.eph), DH(spk.key, i.eph) >>
           \o OptionalDH(None, DH(None.key, i.eph)) \in Seq(SUBSET Keys)
    BY <1>2, <1>3, SecretTypes
  <2> QED BY <2>1 DEF ResponderSecret
<1>5. secret[2] = {identity, i.eph} /\ Len(secret) = 3
  BY ResponderSecretIs
<1> HIDE DEF secret
<1>6. PICK j : j = r
  OBVIOUS
<1>7. ResponseOK(j)' /\ responses' = responses \cup {j}
  <2>1. /\ j.identity.kind = "identity" /\ j.identity.owner = j.by
        /\ j.secret \in Seq(SUBSET Keys) /\ Len(j.secret) = 3
        /\ j.secret[2] = {j.identity, i.eph}
    BY <1>2, <1>4, <1>5, <1>6
  <2> HIDE DEF r
  <2> QED BY <1>1, <1>3, <1>6, <2>1 DEF ResponseOK
<1> HIDE DEF r
<1>8. Made \subseteq Made'
  BY <1>1, MadeGrows
<1>9. PrivateKeysOK'
  BY <1>1, <1>8, OtherMaps, PrivateKeysKept
<1>10. PublicKeysOK'
  <2>1. \A l \in responses' : ResponseOK(l)'
    BY <1>7, <1>8, KeyPairsKept
  <2> QED BY <1>1, <1>8, <2>1, KeyPairsKept DEF KeyPairsInv, PublicKeysOK
<1> QED BY <1>9, <1>10 DEF KeyPairsInv, PrivateKeysOK, PublicKeysOK

\* The sessions are the ones there were, and as they were.
SessionsKept ==
    \A q \in User : /\ DOMAIN Sessions(q)' = DOMAIN Sessions(q)
                    /\ \A h \in DOMAIN Sessions(q) : Sessions(q)'[h] = Sessions(q)[h]

\* Session g of page p is t, and the other sessions are as they were.
Put(p, g, t) ==
    /\ DOMAIN Sessions(p)' = DOMAIN Sessions(p) \cup {g}
    /\ Sessions(p)'[g] = t
    /\ \A h \in DOMAIN Sessions(p) \ {g} : Sessions(p)'[h] = Sessions(p)[h]
    /\ \A q \in User \ {p} : Sessions(q)' = Sessions(q)

\* No key has been filed, published or agreed on.
SameKeys(p) ==
    /\ KeysKept
    /\ \A q \in User : SpkKeys(q)' = SpkKeys(q)
    /\ UNCHANGED <<loads, published, initiations, responses>>
    /\ Generates(p) \/ UNCHANGED generated

\* create_session_alice or create_session_bob has filed a session.
Starts(p, g, s) ==
    /\ g \notin DOMAIN Sessions(p)
    /\ Put(p, g, s)
    /\ UNCHANGED <<messages, opened>>
    /\ \/ /\ Generates(p)
          /\ \E secret \in SecretsOf(p), key \in Made :
                s = InitAlice(secret, FreshKeyPair(p, "ratchet"), key)
       \/ \E secret \in SecretsOf(p), spk \in SpkKeys(p) : s = InitBob(secret, spk)

\* session_decrypt has opened message m with session g.
Opens(p, g, m, s, t) ==
    /\ opened' = opened \cup {[at |-> Where(p, g), message |-> m,
                               times |-> TimesOpened(p, g, m) + 1]}
    /\ ~ Consumed(s, messages[m].key)
    /\ Consumed(t, messages[m].key)

\* session_decrypt has changed session g to t, with message m or its header.
Decrypts(p, g, m, t) ==
    LET s   == Sessions(p)[g]
        hdr == messages[m].hdr
    IN  /\ g \in DOMAIN Sessions(p) /\ m \in DOMAIN messages
        /\ Put(p, g, t)
        /\ UNCHANGED <<initiations, responses, messages>>
        /\ Ratchets(s, hdr) => Generates(p)
        /\ Decrypted(s, t, hdr, FreshKeyPair(p, "ratchet"))
        /\ UNCHANGED opened \/ Opens(p, g, m, s, t)

\* session_encrypt has sealed a message with session g.
Encrypts(p, g) ==
    LET s == Sessions(p)[g]
    IN  /\ g \in DOMAIN Sessions(p)
        /\ CanEncrypt(s)
        /\ Put(p, g, AfterEncrypt(s))
        /\ messages' = Append(messages,
              [from |-> p, hdr |-> NextHeader(s), key |-> NextMessageKey(s.sending_chain)])
        /\ UNCHANGED <<opened, generated>>

(***************************************************************************)
(* The sessions, after each kind of step.                                  *)
(***************************************************************************)
LEMMA SessionMaps ==
    ASSUME NEW p \in User
    PROVE  /\ \A kind \in Kinds \ {"session"} : \A x : Filed(p, kind, x) => SessionsKept
           /\ \A x : Filed(p, "session", x) => Put(p, instance[p].next_id, x)
           /\ Wasted(p) => SessionsKept
           /\ \A h, t : Changed(p, h, t) => Put(p, h, t)
           /\ \A h : Changed(p, h, Sessions(p)[h]) => SessionsKept
           /\ \A h : Dropped(p, h) => SessionsKept
           /\ UNCHANGED instance => SessionsKept
<1>1. "session" \in Kinds /\ "session" # "mls"
  BY DEF Kinds
<1>2. ASSUME OnlyPage(p)
      PROVE  \A q \in User \ {p} : Sessions(q)' = Sessions(q)
  BY <1>2 DEF OnlyPage, Sessions
<1>3. ASSUME OnlyPage(p), instance'[p]["session"] = instance[p]["session"]
      PROVE  SessionsKept
  BY <1>2, <1>3 DEF SessionsKept, Sessions
<1>4. ASSUME NEW kind \in Kinds \ {"session"}, NEW x, Filed(p, kind, x)
      PROVE  SessionsKept
  BY <1>1, <1>3, <1>4 DEF Filed
<1>5. ASSUME NEW x, Filed(p, "session", x)
      PROVE  Put(p, instance[p].next_id, x)
  BY <1>2, <1>5 DEF Filed, Put, Sessions
<1>6. ASSUME NEW h, NEW t, Changed(p, h, t)
      PROVE  Put(p, h, t)
  BY <1>2, <1>6 DEF Changed, Put, Sessions
<1>7. ASSUME NEW h, Changed(p, h, Sessions(p)[h])
      PROVE  SessionsKept
  BY <1>2, <1>7 DEF Changed, SessionsKept, Sessions
<1>8. Wasted(p) => SessionsKept
  BY <1>1, <1>3 DEF Wasted
<1>9. \A h : Dropped(p, h) => SessionsKept
  BY <1>1, <1>3 DEF Dropped
<1>10. UNCHANGED instance => SessionsKept
  BY DEF SessionsKept, Sessions
<1> QED BY <1>4, <1>5, <1>6, <1>7, <1>8, <1>9, <1>10

(***************************************************************************)
(* The signed pre-keys, after each kind of step that does not file one.    *)
(***************************************************************************)
LEMMA SpkMaps ==
    ASSUME NEW p \in User,
           \/ UNCHANGED <<instance, given>>
           \/ \E kind \in Kinds \ {"identity", "spk"} : \E x : Filed(p, kind, x)
           \/ Wasted(p)
           \/ \E h, t : Changed(p, h, t)
           \/ \E h : Dropped(p, h)
    PROVE  \A q \in User : SpkKeys(q)' = SpkKeys(q)
<1>1. "spk" \in Kinds /\ "spk" # "session" /\ "spk" # "mls"
  BY DEF Kinds
<1>2. instance'[p]["spk"] = instance[p]["spk"]
  BY <1>1 DEF Filed, Wasted, Changed, Dropped
<1>3. \A q \in User \ {p} : instance'[q] = instance[q]
  BY DEF Filed, Wasted, Changed, Dropped, OnlyPage
<1>4. \A q \in User : instance'[q].spk = instance[q].spk
  BY <1>2, <1>3
<1> QED BY <1>4 DEF SpkKeys

(***************************************************************************)
(* Together: a step that files no key and generates at most a key pair for *)
(* a session.                                                              *)
(***************************************************************************)
LEMMA SameKeysFor ==
    ASSUME NEW p \in User,
           UNCHANGED <<loads, published, initiations, responses>>,
           Generates(p) \/ UNCHANGED generated,
           \/ UNCHANGED <<instance, given>>
           \/ \E kind \in Kinds \ {"identity", "spk"} : \E x : Filed(p, kind, x)
           \/ Wasted(p)
           \/ \E h, t : Changed(p, h, t)
           \/ \E h : Dropped(p, h)
    PROVE  SameKeys(p)
BY OtherMaps, SpkMaps DEF SameKeys

(***************************************************************************)
(* create_session_alice and create_session_bob                             *)
(***************************************************************************)
LEMMA CreateEffect ==
    ASSUME PagesInv, HandlesInv, KeyPairsInv, NEW p \in User, NEW secret \in SecretsOf(p),
           \/ \E key \in PublicKeys : CreateSessionAlice(p, secret, key)
           \/ \E hs : CreateSessionBob(p, secret, hs)
    PROVE  /\ SameKeys(p)
           /\ \/ \E g, s : Starts(p, g, s)
              \/ SessionsKept /\ UNCHANGED <<messages, opened>>
<1>1. "session" \in Kinds \ {"identity", "spk"}
  BY DEF Kinds
<1>2. PICK s : /\ FileSession(p, s)
               /\ \/ /\ Generates(p)
                     /\ \E key \in Made :
                           s = InitAlice(secret, FreshKeyPair(p, "ratchet"), key)
                  \/ /\ UNCHANGED generated
                     /\ \E spk \in SpkKeys(p) : s = InitBob(secret, spk)
               /\ UNCHANGED <<loads, published, initiations, responses, messages, opened>>
  <2>1. ASSUME NEW key \in PublicKeys, CreateSessionAlice(p, secret, key)
        PROVE  /\ FileSession(p, InitAlice(secret, FreshKeyPair(p, "ratchet"), key))
               /\ Generates(p) /\ key \in Made
               /\ UNCHANGED <<loads, published, initiations, responses, messages, opened>>
    <3>1. key \in Made
      BY DEF PublicKeys, KeyPairsInv
    <3> QED BY <2>1, <3>1 DEF CreateSessionAlice, traffic
  <2>2. ASSUME NEW hs, CreateSessionBob(p, secret, hs)
        PROVE  /\ FileSession(p, InitBob(secret, instance[p].spk[hs].key))
               /\ instance[p].spk[hs].key \in SpkKeys(p)
               /\ UNCHANGED <<loads, generated, published, initiations, responses,
                              messages, opened>>
    BY <2>2 DEF CreateSessionBob, traffic, keys, Known, SpkKeys
  <2> QED BY <2>1, <2>2
<1>3. Filed(p, "session", s) \/ Wasted(p)
  BY <1>2, FileSessionEffect
<1>4. SameKeys(p)
  BY <1>1, <1>2, <1>3, SameKeysFor
<1>5. CASE Filed(p, "session", s)
  <2>1. instance[p].next_id \notin DOMAIN Sessions(p)
    BY <1>1, FreshHandle DEF Sessions
  <2>2. Starts(p, instance[p].next_id, s)
    BY <1>2, <1>5, <2>1, SessionMaps DEF Starts
  <2> QED BY <1>4, <2>2
<1>6. CASE Wasted(p)
  BY <1>2, <1>4, <1>6, SessionMaps
<1> QED BY <1>3, <1>5, <1>6

(***************************************************************************)
(* session_encrypt                                                         *)
(***************************************************************************)
LEMMA EncryptEffect ==
    ASSUME PagesInv, NEW p \in User, NEW g, SessionEncrypt(p, g)
    PROVE  SameKeys(p) /\ Encrypts(p, g)
<1> DEFINE t == AfterEncrypt(Sessions(p)[g])
<1>1. /\ Borrows(p, g) /\ given' = given
      /\ instance' = [instance EXCEPT ![p].session[g] = t]
      /\ CanEncrypt(Sessions(p)[g])
      /\ messages' = Append(messages,
            [from |-> p, hdr |-> NextHeader(Sessions(p)[g]),
             key |-> NextMessageKey(Sessions(p)[g].sending_chain)])
      /\ UNCHANGED <<loads, generated, published, initiations, responses, opened>>
  BY DEF SessionEncrypt, Sessions, keys
<1>2. g \in DOMAIN Sessions(p)
  BY <1>1 DEF Borrows, Known, Sessions
<1> HIDE DEF t
<1>3. Changed(p, g, t)
  BY <1>1, ChangedPage
<1>4. SameKeys(p)
  BY <1>1, <1>3, SameKeysFor
<1>5. Put(p, g, t)
  BY <1>3, SessionMaps
<1> QED BY <1>1, <1>2, <1>4, <1>5 DEF Encrypts, t

\* What session_decrypt leaves, and what it does if it gets to the AEAD
DecryptsTo(p, g, m) ==
    LET s   == Sessions(p)[g]
        hdr == messages[m].hdr
        new == FreshKeyPair(p, "ratchet")
        t   == IF Reaches(s, hdr, new) THEN AfterDecrypt(s, hdr, new)
                                       ELSE AfterRefusal(s, hdr, new)
    IN  /\ Borrows(p, g) /\ given' = given
        /\ IF Ratchets(s, hdr) THEN Generates(p) ELSE UNCHANGED generated
        /\ UNCHANGED <<loads, published, initiations, responses, messages>>
        /\ \/ instance' = [instance EXCEPT ![p].session[g] = t]
           \/ instance' = [instance EXCEPT ![p] = Trapped([@ EXCEPT !.session[g] = t])]
        /\ \/ UNCHANGED opened
           \/ /\ opened' = opened \cup {[at |-> Where(p, g), message |-> m,
                                         times |-> TimesOpened(p, g, m) + 1]}
              /\ Reaches(s, hdr, new) /\ KeyTried(s, hdr, new) = messages[m].key

(***************************************************************************)
(* The call of session_decrypt, and what it leaves if a nonce panics       *)
(***************************************************************************)
LEMMA DecryptEffect ==
    ASSUME PagesInv, SessionsInv, MessagesInv, NEW p \in User, NEW g, NEW m \in DOMAIN messages,
           \/ \E intact : SessionDecrypt(p, g, m, intact)
           \/ DecryptShortNonce(p, g, m)
    PROVE  /\ SameKeys(p)
           /\ \E t : Decrypts(p, g, m, t)
<1> DEFINE s   == Sessions(p)[g]
           hdr == messages[m].hdr
           new == FreshKeyPair(p, "ratchet")
           t   == IF Reaches(s, hdr, new) THEN AfterDecrypt(s, hdr, new)
                                          ELSE AfterRefusal(s, hdr, new)
<1>1. DecryptsTo(p, g, m)
  <2>1. ASSUME NEW intact, SessionDecrypt(p, g, m, intact)
        PROVE  DecryptsTo(p, g, m)
    BY <2>1 DEF SessionDecrypt, DecryptsTo, Sessions
  <2>2. ASSUME DecryptShortNonce(p, g, m)
        PROVE  DecryptsTo(p, g, m)
    <3>1. /\ Borrows(p, g) /\ given' = given
          /\ IF Ratchets(s, hdr) THEN Generates(p) ELSE UNCHANGED generated
          /\ UNCHANGED <<loads, published, initiations, responses, messages, opened>>
          /\ instance' = [instance EXCEPT
                ![p] = Trapped([@ EXCEPT !.session[g] = AfterDecrypt(s, hdr, new)])]
          /\ Reaches(s, hdr, new)
      BY <2>2 DEF DecryptShortNonce, Sessions, traffic
    <3>2. t = AfterDecrypt(s, hdr, new)
      BY <3>1
    <3>3. instance' = [instance EXCEPT ![p] = Trapped([@ EXCEPT !.session[g] = t])]
      <4> HIDE DEF s, hdr, new, t
      <4> QED BY <3>1, <3>2
    <3> QED BY <3>1, <3>3 DEF DecryptsTo
  <2> QED BY <2>1, <2>2
<1>2. Changed(p, g, t)
  <2>1. PICK u : u = t
    OBVIOUS
  <2>2. /\ Borrows(p, g) /\ given' = given
        /\ \/ instance' = [instance EXCEPT ![p].session[g] = u]
           \/ instance' = [instance EXCEPT ![p] = Trapped([@ EXCEPT !.session[g] = u])]
    BY <1>1, <2>1 DEF DecryptsTo
  <2> HIDE DEF t
  <2> QED BY <2>1, <2>2, ChangedPage
<1>3. SameKeys(p)
  BY <1>1, <1>2, SameKeysFor DEF DecryptsTo
<1>4. Put(p, g, t) /\ g \in DOMAIN Sessions(p)
  <2>1. Put(p, g, t)
    <3> HIDE DEF t
    <3> QED BY <1>2, SessionMaps
  <2>2. Known(p, "session", g)
    BY <1>1 DEF DecryptsTo, Borrows
  <2> QED BY <2>1, <2>2 DEF Known, Sessions
<1>5. SessionOK(s) /\ SessionInv(s) /\ hdr \in Header
  BY <1>4 DEF SessionsInv, SessionAt, MessagesInv, MessageOK
<1>6. new \in Keys
  BY DEF FreshKeyPair, KeyPairOf, Keys, PagesInv
<1>7. Decrypted(s, t, hdr, new)
  <2>1. CASE Reaches(s, hdr, new)
    <3> HIDE DEF s, hdr, new
    <3> QED BY <1>5, <1>6, <2>1, DecryptReaches
  <2>2. CASE ~ Reaches(s, hdr, new)
    <3> HIDE DEF s, hdr, new
    <3> QED BY <1>5, <1>6, <2>2, DecryptRefused
  <2> QED BY <2>1, <2>2
<1>8. UNCHANGED opened \/ Opens(p, g, m, s, t)
  <2>1. SUFFICES ASSUME ~ UNCHANGED opened
                 PROVE  Opens(p, g, m, s, t)
    OBVIOUS
  <2>2. /\ opened' = opened \cup {[at |-> Where(p, g), message |-> m,
                                    times |-> TimesOpened(p, g, m) + 1]}
        /\ Reaches(s, hdr, new) /\ KeyTried(s, hdr, new) = messages[m].key
    BY <1>1, <2>1 DEF DecryptsTo
  <2>3. /\ Consumed(AfterDecrypt(s, hdr, new), KeyTried(s, hdr, new))
        /\ ~ Consumed(s, KeyTried(s, hdr, new))
    <3> HIDE DEF s, hdr, new
    <3> QED BY <1>5, <1>6, <2>2, DecryptReaches
  <2>4. t = AfterDecrypt(s, hdr, new)
    BY <2>2
  <2> HIDE DEF s, hdr, new, t
  <2> QED BY <2>2, <2>3, <2>4 DEF Opens
<1>9. /\ UNCHANGED <<initiations, responses, messages>>
      /\ Ratchets(s, hdr) => Generates(p)
  BY <1>1 DEF DecryptsTo
<1>10. Decrypts(p, g, m, t)
  <2> HIDE DEF t
  <2> QED BY <1>4, <1>7, <1>8, <1>9 DEF Decrypts
<1> QED BY <1>3, <1>10

\* What has been generated, initiated and responded stays so.
Grown == /\ Made \subseteq Made'
         /\ initiations \subseteq initiations'
         /\ responses \subseteq responses'

\* Page q goes on, and the signed pre-keys it has more are new.
GoesOn(q) == /\ loads'[q] = loads[q]
             /\ SpkKeys(q) \subseteq SpkKeys(q)'
             /\ (SpkKeys(q)' \ SpkKeys(q)) \cap Made = {}

\* Page q has been loaded again.
Restarts(q) == /\ loads'[q] = loads[q] + 1
               /\ SpkKeys(q)' = {}
               /\ DOMAIN Sessions(q)' = {}
               /\ \A r \in User \ {q} : GoesOn(r) /\ Sessions(r)' = Sessions(r)
               /\ UNCHANGED <<messages, opened>>

\* What a step does to sessions and messages
TrafficStep ==
    /\ Grown
    /\ \/ \E q \in User : Restarts(q)
       \/ /\ \A q \in User : GoesOn(q)
          /\ \/ SessionsKept /\ UNCHANGED <<messages, opened>>
             \/ \E p \in User : \E g, s : Starts(p, g, s)
             \/ \E p \in User : \E g, m, t : Decrypts(p, g, m, t)
             \/ \E p \in User : \E g : Encrypts(p, g)

(***************************************************************************)
(* A call that files no key preserves what is right of the key pairs.      *)
(***************************************************************************)
LEMMA SameKeysEffect ==
    ASSUME PagesInv, KeyPairsInv, NEW p \in User, SameKeys(p)
    PROVE  /\ KeyPairsInv'
           /\ Grown
           /\ \A q \in User : GoesOn(q)
<1>1. Made \subseteq Made'
  BY MadeGrows DEF SameKeys
<1>2. PrivateKeysOK' /\ PublicKeysOK'
  BY <1>1, PrivateKeysKept, PublicKeysKept DEF SameKeys
<1>3. KeyPairsInv'
  BY <1>2 DEF KeyPairsInv, PrivateKeysOK, PublicKeysOK
<1> QED BY <1>1, <1>3 DEF SameKeys, Grown, GoesOn

(***************************************************************************)
(* The calls that generate keys and agree on secrets leave the sessions    *)
(* alone.                                                                  *)
(***************************************************************************)
LEMMA KeyCallEffect ==
    ASSUME PagesInv, HandlesInv, KeyPairsInv, NEW p \in User,
           \/ GenerateIdentityKeypair(p)
           \/ \E g : GenerateSignedPreKey(p, g)
           \/ GenerateOneTimePreKey(p)
           \/ \E g : \E bundle \in Bundles : X3dhInitiate(p, g, bundle)
           \/ \E g, h : \E i \in initiations : X3dhRespond(p, g, h, i)
    PROVE  /\ KeyPairsInv'
           /\ Grown
           /\ \A q \in User : GoesOn(q)
           /\ SessionsKept /\ UNCHANGED <<messages, opened>>
<1>1. {"identity", "spk"} \subseteq Kinds \ {"session"} /\ "identity" \in Kinds \ {"spk"}
  BY DEF Kinds
<1>2. CASE GenerateIdentityKeypair(p)
  <2>1. /\ Generates(p) /\ File(p, "identity", FreshKeyPair(p, "identity"))
        /\ UNCHANGED <<loads, initiations, responses, messages, opened>>
    BY <1>2 DEF GenerateIdentityKeypair, traffic
  <2>2. PICK x : Filed(p, "identity", x)
    BY <1>1, <2>1, FileEffect
  <2>3. \A q \in User : SpkKeys(q)' = SpkKeys(q)
    <3>1. /\ instance'[p]["spk"] = instance[p]["spk"]
          /\ \A q \in User \ {p} : instance'[q] = instance[q]
      BY <1>1, <2>2 DEF Filed, OnlyPage
    <3>2. \A q \in User : instance'[q].spk = instance[q].spk
      BY <3>1
    <3> QED BY <3>2 DEF SpkKeys
  <2>4. SessionsKept
    BY <1>1, <2>2, SessionMaps
  <2>5. Made \subseteq Made'
    BY <2>1, MadeGrows
  <2> QED BY <1>2, <2>1, <2>3, <2>4, <2>5, IdentityStep DEF Grown, GoesOn
<1>3. ASSUME NEW g, GenerateSignedPreKey(p, g)
      PROVE  /\ KeyPairsInv' /\ Grown
             /\ \A q \in User : GoesOn(q)
             /\ SessionsKept /\ UNCHANGED <<messages, opened>>
  <2> DEFINE k == FreshKeyPair(p, "spk")
             x == [key |-> k, signer |-> instance[p].identity[g]]
  <2>1. /\ Generates(p) /\ File(p, "spk", x)
        /\ UNCHANGED <<loads, initiations, responses, messages, opened>>
    BY <1>3 DEF GenerateSignedPreKey, traffic
  <2>2. x.key = k /\ k \notin Made /\ Made \subseteq Made'
    BY <2>1, FreshKey, MadeGrows
  <2> HIDE DEF x, k
  <2>3. Filed(p, "spk", x)
    BY <1>1, <2>1, FileEffect
  <2>4. /\ SpkKeys(p)' = SpkKeys(p) \cup {k}
        /\ \A q \in User \ {p} : SpkKeys(q)' = SpkKeys(q)
    <3> DEFINE id == instance[p].next_id
    <3>1. /\ DOMAIN instance'[p]["spk"] = DOMAIN instance[p]["spk"] \cup {id}
          /\ instance'[p]["spk"][id] = x
          /\ \A h \in DOMAIN instance[p]["spk"] \ {id} :
                instance'[p]["spk"][h] = instance[p]["spk"][h]
          /\ \A q \in User \ {p} : instance'[q] = instance[q]
      BY <2>3 DEF Filed, OnlyPage
    <3>2. id \notin DOMAIN instance[p]["spk"]
      BY <1>1, FreshHandle
    <3> QED BY <2>2, <3>1, <3>2 DEF SpkKeys
  <2>5. SessionsKept
    BY <1>1, <2>3, SessionMaps
  <2> QED BY <1>3, <2>1, <2>2, <2>4, <2>5, SpkStep DEF Grown, GoesOn
<1>4. CASE GenerateOneTimePreKey(p)
  <2>1. /\ Generates(p)
        /\ UNCHANGED <<instance, loads, initiations, responses, messages, opened>>
    BY <1>4 DEF GenerateOneTimePreKey, traffic
  <2>2. Made \subseteq Made'
    BY <2>1, MadeGrows
  <2> QED BY <1>4, <2>1, <2>2, SessionMaps, OpkStep DEF Grown, GoesOn, SpkKeys
<1>5. ASSUME NEW g, NEW bundle \in Bundles, X3dhInitiate(p, g, bundle)
      PROVE  /\ KeyPairsInv' /\ Grown
             /\ \A q \in User : GoesOn(q)
             /\ SessionsKept /\ UNCHANGED <<messages, opened>>
  <2>1. /\ Generates(p) /\ initiations \subseteq initiations'
        /\ UNCHANGED <<instance, loads, responses, messages, opened>>
    BY <1>5 DEF X3dhInitiate, traffic
  <2>2. Made \subseteq Made'
    BY <2>1, MadeGrows
  <2> QED BY <1>5, <2>1, <2>2, SessionMaps, InitiateStep DEF Grown, GoesOn, SpkKeys
<1>6. ASSUME NEW g, NEW h, NEW i \in initiations, X3dhRespond(p, g, h, i)
      PROVE  /\ KeyPairsInv' /\ Grown
             /\ \A q \in User : GoesOn(q)
             /\ SessionsKept /\ UNCHANGED <<messages, opened>>
  <2>1. /\ responses \subseteq responses'
        /\ UNCHANGED <<instance, loads, generated, initiations, messages, opened>>
    BY <1>6 DEF X3dhRespond, traffic
  <2>2. Made \subseteq Made'
    BY <2>1, MadeGrows
  <2> QED BY <1>6, <2>1, <2>2, SessionMaps, RespondStep DEF Grown, GoesOn, SpkKeys
<1> QED BY <1>2, <1>3, <1>4, <1>5, <1>6

(***************************************************************************)
(* Loading a page again leaves it without keys and sessions, and the other *)
(* pages alone.                                                            *)
(***************************************************************************)
LEMMA ReloadTraffic ==
    ASSUME PagesInv, KeyPairsInv, NEW p \in User, Reload(p)
    PROVE  KeyPairsInv' /\ Grown /\ Restarts(p)
<1>1. Reloaded(p)
  BY ReloadEffect
<1>2. /\ loads'[p] = loads[p] + 1 /\ \A q \in User \ {p} : loads'[q] = loads[q]
      /\ UNCHANGED <<generated, published, initiations, responses, messages, opened>>
  BY DEF Reload, traffic, PagesInv
<1>3. Made \subseteq Made'
  BY <1>2, MadeGrows
<1>4. KeysKept
  BY <1>1, OtherMaps
<1>5. PrivateKeysOK' /\ PublicKeysOK'
  BY <1>2, <1>3, <1>4, PrivateKeysKept, PublicKeysKept
<1>6. /\ DOMAIN instance'[p]["spk"] = {} /\ DOMAIN instance'[p]["session"] = {}
      /\ \A q \in User \ {p} : instance'[q] = instance[q]
  <2>1. {"spk", "session"} \subseteq Kinds
    BY DEF Kinds
  <2> QED BY <1>1, <2>1, FreshPage DEF Reloaded, OnlyPage
<1>7. SpkKeys(p)' = {} /\ DOMAIN Sessions(p)' = {}
  BY <1>6 DEF SpkKeys, Sessions
<1>8. \A q \in User \ {p} : SpkKeys(q)' = SpkKeys(q) /\ Sessions(q)' = Sessions(q)
  BY <1>6 DEF SpkKeys, Sessions
<1>9. Grown
  BY <1>2, <1>3 DEF Grown
<1>10. Restarts(p)
  BY <1>2, <1>7, <1>8 DEF Restarts, GoesOn
<1> QED BY <1>5, <1>9, <1>10 DEF KeyPairsInv, PrivateKeysOK, PublicKeysOK

(***************************************************************************)
(* The calls that neither generate keys nor use a session                  *)
(***************************************************************************)
LEMMA QuietEffect ==
    ASSUME PagesInv, NEW p \in User,
           FileMls(p) \/ \E g : MlsDestroyState(p, g) \/ DecryptShortKey(p, g)
    PROVE  SameKeys(p) /\ SessionsKept /\ UNCHANGED <<messages, opened>>
<1>1. "mls" \in Kinds \ {"identity", "spk", "session"}
  BY DEF Kinds
<1>2. CASE FileMls(p)
  <2>1. Filed(p, "mls", "state")
    BY <1>1, <1>2, FileEffect DEF FileMls
  <2>2. SameKeys(p)
    BY <1>1, <1>2, <2>1, SameKeysFor DEF FileMls, keys
  <2> QED BY <1>1, <1>2, <2>1, <2>2, SessionMaps DEF FileMls, traffic
<1>3. ASSUME NEW g, MlsDestroyState(p, g)
      PROVE  SameKeys(p) /\ SessionsKept /\ UNCHANGED <<messages, opened>>
  <2>1. Dropped(p, g)
    BY <1>3, DropEffect
  <2>2. SameKeys(p)
    BY <1>3, <2>1, SameKeysFor DEF MlsDestroyState, keys
  <2> QED BY <1>3, <2>1, <2>2, SessionMaps DEF MlsDestroyState, traffic
<1>4. ASSUME NEW g, DecryptShortKey(p, g)
      PROVE  SameKeys(p) /\ SessionsKept /\ UNCHANGED <<messages, opened>>
  <2>1. Changed(p, g, Sessions(p)[g])
    BY <1>4, TrappedPage DEF Sessions
  <2>2. SameKeys(p)
    BY <1>4, <2>1, SameKeysFor DEF DecryptShortKey, keys
  <2> QED BY <1>4, <2>1, <2>2, SessionMaps DEF DecryptShortKey, traffic
<1> QED BY <1>2, <1>3, <1>4

(***************************************************************************)
(* The next step relation, seen from the keys, the sessions and the        *)
(* messages.                                                               *)
(***************************************************************************)
LEMMA NextTraffic ==
    ASSUME PagesInv, HandlesInv, KeyPairsInv, SessionsInv, MessagesInv, [Next]_vars
    PROVE  KeyPairsInv' /\ TrafficStep
<1>1. CASE UNCHANGED vars
  <2>1. KeyPairsInv'
    BY <1>1 DEF vars, KeyPairsInv, IdentityKeys, SpkPairs, Made, InitiationOK, ResponseOK
  <2>2. Grown /\ \A q \in User : GoesOn(q)
    BY <1>1 DEF vars, Grown, Made, GoesOn, SpkKeys
  <2>3. SessionsKept
    BY <1>1 DEF vars, SessionsKept, Sessions
  <2> QED BY <1>1, <2>1, <2>2, <2>3 DEF vars, TrafficStep
<1>2. ASSUME NEW p \in User, Reload(p)
      PROVE  KeyPairsInv' /\ TrafficStep
  BY <1>2, ReloadTraffic DEF TrafficStep
<1>3. ASSUME NEW p \in User, Call(p)
      PROVE  KeyPairsInv' /\ TrafficStep
  <2>1. CASE \/ GenerateIdentityKeypair(p)
             \/ \E g : GenerateSignedPreKey(p, g)
             \/ GenerateOneTimePreKey(p)
             \/ \E g : \E bundle \in Bundles : X3dhInitiate(p, g, bundle)
             \/ \E g, h : \E i \in initiations : X3dhRespond(p, g, h, i)
    BY <2>1, KeyCallEffect DEF TrafficStep
  <2>2. ASSUME NEW secret \in SecretsOf(p),
               \/ \E key \in PublicKeys : CreateSessionAlice(p, secret, key)
               \/ \E hs : CreateSessionBob(p, secret, hs)
        PROVE  KeyPairsInv' /\ TrafficStep
    BY <2>2, CreateEffect, SameKeysEffect DEF TrafficStep
  <2>3. CASE \E g : SessionEncrypt(p, g)
    BY <2>3, EncryptEffect, SameKeysEffect DEF TrafficStep
  <2>4. ASSUME NEW g, NEW m \in DOMAIN messages,
               \/ \E intact : SessionDecrypt(p, g, m, intact)
               \/ DecryptShortNonce(p, g, m)
        PROVE  KeyPairsInv' /\ TrafficStep
    BY <2>4, DecryptEffect, SameKeysEffect DEF TrafficStep
  <2>5. CASE FileMls(p) \/ \E g : MlsDestroyState(p, g) \/ DecryptShortKey(p, g)
    BY <2>5, QuietEffect, SameKeysEffect DEF TrafficStep
  <2> QED BY <1>3, <2>1, <2>2, <2>3, <2>4, <2>5
          DEF Call, MlsCreateGroup, MlsProcessWelcome, MlsStep
<1> QED BY <1>1, <1>2, <1>3 DEF Next

-----------------------------------------------------------------------------
(* Sessions *)

(***************************************************************************)
(* The secrets a page has been given are secrets, and it has them for      *)
(* good.                                                                   *)
(***************************************************************************)
LEMMA SecretsTyped ==
    ASSUME KeyPairsInv, NEW p, NEW secret \in SecretsOf(p)
    PROVE  secret \in Seq(SUBSET Keys)
BY DEF SecretsOf, KeyPairsInv, InitiationOK, ResponseOK

LEMMA SecretsGrow ==
    ASSUME Grown, NEW p
    PROVE  SecretsOf(p) \subseteq SecretsOf(p)'
BY DEF SecretsOf, Grown

(***************************************************************************)
(* A session that nothing happens to stays right while its page goes on.   *)
(***************************************************************************)
LEMMA SessionAtKept ==
    ASSUME NEW p \in User, NEW s, SessionAt(p, s), Grown, GoesOn(p)
    PROVE  SessionAt(p, s)'
<1>1. Origin(p, s.root_key)'
  BY SecretsGrow DEF SessionAt, Origin
<1>2. MadeChain(s.root_key) => MadeChain(s.root_key)'
  BY DEF Grown, MadeChain
<1>3. SpkHeld(p, s) => SpkHeld(p, s)'
  BY DEF GoesOn, SpkHeld
<1> QED BY <1>1, <1>2, <1>3 DEF SessionAt, Grown

(***************************************************************************)
(* A message stays right.                                                  *)
(***************************************************************************)
LEMMA MessageKept ==
    ASSUME NEW m, MessageOK(m), Grown
    PROVE  MessageOK(m)'
<1>1. Origin(m.from, m.key.chain)'
  BY SecretsGrow DEF MessageOK, Origin
<1>2. MadeChain(m.key.chain)'
  BY DEF MessageOK, Grown, MadeChain
<1> QED BY <1>1, <1>2 DEF MessageOK, Grown

(***************************************************************************)
(* A secret on its own is a root key.                                      *)
(***************************************************************************)
LEMMA FirstRoot ==
    ASSUME NEW secret \in Seq(SUBSET Keys)
    PROVE  /\ <<secret>> \in RootKey
           /\ Len(<<secret>>) = 1
           /\ <<secret>>[1] = secret
<1> DEFINE Elements == Seq(SUBSET Keys) \cup SUBSET Keys
<1>1. secret \in Elements
  OBVIOUS
<1> HIDE DEF Elements
<1>2. <<secret>> \in Seq(Elements)
  BY <1>1
<1> QED BY <1>2 DEF RootKey, Elements

\* A session that has sent and received nothing, of the side that starts it
AliceStart(s, secret, new, spk) ==
    /\ SessionOK(s) /\ SessionInv(s)
    /\ s.dh_public = new
    /\ s.remote_dh_public = spk
    /\ Len(s.root_key) = 2
    /\ s.root_key[1] = secret
    /\ s.root_key[2] = {new, spk}
    /\ s.sending_chain = NewChain(s.root_key)
    /\ s.sending_chain # None

\* ... and of the other side
BobStart(s, secret, spk) ==
    /\ SessionOK(s) /\ SessionInv(s)
    /\ s.dh_public = spk
    /\ s.remote_dh_public = None
    /\ Len(s.root_key) = 1
    /\ s.root_key[1] = secret
    /\ s.sending_chain = None

(***************************************************************************)
(* Session::init_alice starts two derivations on from nothing but the      *)
(* secret, with a key pair of its own.                                     *)
(***************************************************************************)
LEMMA AliceStarts ==
    ASSUME NEW secret \in Seq(SUBSET Keys), NEW new \in Keys, NEW spk \in Keys
    PROVE  AliceStart(InitAlice(secret, new, spk), secret, new, spk)
<1> DEFINE s    == InitAlice(secret, new, spk)
           root == RatchetStep(<<secret>>, DH(new, spk))
           none == [k \in {} |-> None]
<1>1. /\ root \in RootKey /\ Len(root) = 2
      /\ root[1] = secret /\ root[2] = {new, spk}
  <2>1. Extends(<<secret>>, root, {new, spk})
    BY FirstRoot, RatchetStepType
  <2> HIDE DEF root
  <2> QED BY <2>1, FirstRoot DEF Extends
<1>2. s = [root_key          |-> root,
           dh_public         |-> new,
           remote_dh_public  |-> spk,
           sending_chain     |-> NewChain(root),
           receiving_chain   |-> None,
           previous_sending_chain_length |-> 0,
           skipped_keys      |-> none]
  BY DEF InitAlice
<1> HIDE DEF s
<1>3. DOMAIN none = {} /\ none \in [{} -> Key]
  OBVIOUS
<1> HIDE DEF root, none
<1>4. NewChain(root) \in Chain /\ NewChain(root) # None /\ NewChain(root).root = root
  BY <1>1, NewChainType
<1>5. SessionOK(s)
  <2>1. s.skipped_keys = none
    BY <1>2
  <2>2. s \in SessionWith({})
    BY <1>1, <1>2, <1>3, <1>4 DEF SessionWith
  <2> QED BY <1>3, <2>1, <2>2 DEF SessionOK
<1>6. SessionInv(s)
  <2>1. /\ Len(s.root_key) = 2 /\ s.sending_chain.root = s.root_key
        /\ s.receiving_chain = None /\ DOMAIN s.skipped_keys = {}
    BY <1>1, <1>2, <1>3, <1>4
  <2> QED BY <2>1 DEF SessionInv
<1>7. AliceStart(s, secret, new, spk)
  BY <1>1, <1>2, <1>4, <1>5, <1>6 DEF AliceStart
<1> QED BY <1>7 DEF s

(***************************************************************************)
(* Session::init_bob starts with the secret and the signed pre-key.        *)
(***************************************************************************)
LEMMA BobStarts ==
    ASSUME NEW secret \in Seq(SUBSET Keys), NEW spk \in Keys
    PROVE  BobStart(InitBob(secret, spk), secret, spk)
<1> DEFINE s    == InitBob(secret, spk)
           none == [k \in {} |-> None]
           root == <<secret>>
<1>1. root \in RootKey /\ Len(root) = 1 /\ root[1] = secret
  BY FirstRoot
<1>2. s = [root_key          |-> root,
           dh_public         |-> spk,
           remote_dh_public  |-> None,
           sending_chain     |-> None,
           receiving_chain   |-> None,
           previous_sending_chain_length |-> 0,
           skipped_keys      |-> none]
  BY DEF InitBob
<1> HIDE DEF s
<1>3. DOMAIN none = {} /\ none \in [{} -> Key]
  OBVIOUS
<1> HIDE DEF root, none
<1>4. SessionOK(s)
  <2>1. s.skipped_keys = none
    BY <1>2
  <2>2. s \in SessionWith({})
    BY <1>1, <1>2, <1>3 DEF SessionWith
  <2> QED BY <1>3, <2>1, <2>2 DEF SessionOK
<1>5. SessionInv(s)
  <2>1. /\ Len(s.root_key) = 1 /\ s.sending_chain = None /\ s.receiving_chain = None
        /\ DOMAIN s.skipped_keys = {}
    BY <1>1, <1>2, <1>3
  <2> QED BY <2>1 DEF SessionInv
<1>6. BobStart(s, secret, spk)
  BY <1>1, <1>2, <1>4, <1>5 DEF BobStart
<1> QED BY <1>6 DEF s

(***************************************************************************)
(* A session that has just been started is right.                          *)
(***************************************************************************)
LEMMA SessionStarted ==
    ASSUME PagesInv, KeyPairsInv, NEW p \in User, NEW g, NEW s, Starts(p, g, s), Grown,
           GoesOn(p)
    PROVE  SessionAt(p, s)'
<1>1. ASSUME NEW secret \in SecretsOf(p), NEW key \in Made, Generates(p),
             s = InitAlice(secret, FreshKeyPair(p, "ratchet"), key)
      PROVE  SessionAt(p, s)'
  <2>1. PICK new : new = FreshKeyPair(p, "ratchet")
    OBVIOUS
  <2>2. new \in Made' /\ new \in Keys /\ Own(p, new, "ratchet")
    BY <1>1, <2>1, FreshKey DEF Made, Own
  <2>3. key \in Made' /\ key \in Keys
    BY DEF Grown, Made
  <2>4. /\ SessionOK(s) /\ SessionInv(s)
        /\ s.dh_public = new
        /\ s.remote_dh_public = key
        /\ Len(s.root_key) = 2
        /\ s.root_key[1] = secret
        /\ s.root_key[2] = {new, key}
        /\ s.sending_chain # None
    <3>1. AliceStart(InitAlice(secret, new, key), secret, new, key)
      BY <2>2, <2>3, AliceStarts, SecretsTyped
    <3>2. AliceStart(s, secret, new, key)
      BY <1>1, <2>1, <3>1
    <3> QED BY <3>2 DEF AliceStart
  <2>5. Origin(p, s.root_key)'
    <3>1. Len(s.root_key) % 2 = 0 /\ Len(s.root_key) % 2 # 1
      BY <2>4
    <3>2. FromRatchetKey(p, s.root_key[2])
      BY <2>2, <2>4 DEF FromRatchetKey
    <3> QED BY <2>4, <3>1, <3>2, SecretsGrow DEF Origin
  <2>6. MadeChain(s.root_key)'
    BY <2>2, <2>3, <2>4 DEF MadeChain
  <2> QED BY <2>2, <2>3, <2>4, <2>5, <2>6 DEF SessionAt
<1>2. ASSUME NEW secret \in SecretsOf(p), NEW spk \in SpkKeys(p), s = InitBob(secret, spk)
      PROVE  SessionAt(p, s)'
  <2>1. spk \in Made' /\ spk \in Keys /\ p \in Responders /\ Own(p, spk, "spk")
    BY DEF KeyPairsInv, SpkKeys, SpkPairs, Grown, Made
  <2>2. /\ SessionOK(s) /\ SessionInv(s)
        /\ s.dh_public = spk
        /\ s.remote_dh_public = None
        /\ Len(s.root_key) = 1
        /\ s.root_key[1] = secret
        /\ s.sending_chain = None
    <3>1. BobStart(InitBob(secret, spk), secret, spk)
      BY <2>1, BobStarts, SecretsTyped
    <3>2. BobStart(s, secret, spk)
      BY <1>2, <3>1
    <3> QED BY <3>2 DEF BobStart
  <2>3. Origin(p, s.root_key)'
    <3>1. Len(s.root_key) % 2 # 0 /\ ~ Len(s.root_key) >= 2
      BY <2>2
    <3> QED BY <2>2, <3>1, SecretsGrow DEF Origin
  <2>4. SpkHeld(p, s)'
    BY <2>1, <2>2 DEF SpkHeld, GoesOn
  <2> QED BY <2>1, <2>2, <2>3, <2>4 DEF SessionAt
<1> QED BY <1>1, <1>2 DEF Starts

(***************************************************************************)
(* Session::decrypt leaves a right session right.                          *)
(***************************************************************************)
LEMMA SessionDecrypted ==
    ASSUME NEW p \in User, NEW s, SessionAt(p, s), NEW hdr \in Header, hdr.dh \in Made,
           NEW new, Ratchets(s, hdr) => new \in Made', NEW t, Decrypted(s, t, hdr, new),
           Grown, GoesOn(p)
    PROVE  SessionAt(p, t)'
<1>1. SessionAt(p, s)'
  BY SessionAtKept
<1>2. SessionOK(t) /\ SessionInv(t)
  BY DEF Decrypted, Keeps
<1>3. CASE ~ Ratchets(s, hdr)
  <2>1. /\ t.root_key = s.root_key
        /\ t.dh_public = s.dh_public
        /\ t.remote_dh_public = s.remote_dh_public
        /\ t.sending_chain = s.sending_chain
    BY <1>3 DEF Decrypted, SameSender
  <2>2. SpkHeld(p, s)' => SpkHeld(p, t)'
    BY <2>1 DEF SpkHeld
  <2> QED BY <1>1, <1>2, <2>1, <2>2 DEF SessionAt
<1>4. CASE Ratchets(s, hdr)
  <2> DEFINE a == s.root_key
             b == t.root_key
  <2>1. /\ b \in RootKey
        /\ Len(b) = Len(a) + 2
        /\ Len(b) % 2 = Len(a) % 2
        /\ b[1] = a[1]
        /\ Len(a) >= 2 => SameStart(a, b)
        /\ Len(a) = 1 => b[2] = {s.dh_public, hdr.dh}
        /\ b[Len(b)] = {new, hdr.dh}
        /\ t.dh_public = new
        /\ t.remote_dh_public = hdr.dh
        /\ t.sending_chain = NewChain(b)
    BY <1>4 DEF Decrypted, NewSender, Ratchets2
  <2>2. Len(a) \in Nat /\ Len(a) >= 1
    BY RootKeyLength DEF SessionAt, SessionOK, SessionWith, SessionInv
  <2>3. hdr.dh \in Made' /\ new \in Made' /\ s.dh_public \in Made'
    BY <1>4 DEF Grown, SessionAt
  <2>10. Len(a) # 1 => Len(a) >= 2 /\ b[2] = a[2]
    <3>1. \A n \in Nat : n >= 1 /\ n # 1 => n >= 2
      OBVIOUS
    <3>2. Len(a) # 1 => Len(a) >= 2
      BY <2>2, <3>1
    <3> QED BY <2>1, <3>2 DEF SameStart
  <2>4. t.sending_chain # None
    BY <2>1, NewChainType
  <2>5. Origin(p, b)'
    <3>1. /\ a[1] \in SecretsOf(p)'
          /\ Len(a) % 2 = 0 => FromRatchetKey(p, a[2])
          /\ Len(a) % 2 = 1 /\ Len(a) >= 2 => FromPreKey(p, a[2])
          /\ Len(a) = 1 => Own(p, s.dh_public, "spk")
      BY <1>1 DEF SessionAt, Origin
    <3>2. Len(a) = 1 => FromPreKey(p, b[2]) /\ Len(a) % 2 # 0
      BY <2>1, <3>1 DEF FromPreKey
    <3> QED BY <2>1, <2>10, <3>1, <3>2 DEF Origin
  <2>6. b[2] \subseteq Made'
    <3>1. CASE Len(a) = 1
      BY <2>1, <2>3, <3>1
    <3>2. CASE Len(a) # 1
      BY <1>1, <2>10, <3>2 DEF SessionAt, MadeChain
    <3> QED BY <3>1, <3>2
  <2>7. MadeChain(b)'
    BY <2>1, <2>2, <2>3, <2>6 DEF MadeChain
  <2>8. Len(b) % 2 = 1 => SpkHeld(p, t)'
    <3>1. SUFFICES ASSUME Len(b) % 2 = 1
                   PROVE  SpkHeld(p, t)'
      OBVIOUS
    <3>2. SpkHeld(p, s)'
      BY <1>1, <2>1, <3>1 DEF SessionAt
    <3>3. CASE Len(a) = 1
      BY <2>1, <3>2, <3>3 DEF SpkHeld
    <3>4. CASE Len(a) # 1
      <4>1. b[2] = a[2] /\ Len(b) # 1
        BY <2>1, <2>2, <2>10, <3>4
      <4> QED BY <3>2, <3>4, <4>1 DEF SpkHeld
    <3> QED BY <3>3, <3>4
  <2>9. Len(b) >= 2 /\ Len(b) # 1
    BY <2>1, <2>2
  <2> QED BY <1>2, <2>1, <2>3, <2>4, <2>5, <2>7, <2>8, <2>9 DEF SessionAt
<1> QED BY <1>3, <1>4

(***************************************************************************)
(* Session::encrypt advances the sending chain and changes nothing else.   *)
(***************************************************************************)
LEMMA SessionEncrypted ==
    ASSUME NEW s, SessionOK(s), SessionInv(s), CanEncrypt(s), NEW t, t = AfterEncrypt(s)
    PROVE  /\ SessionOK(t) /\ SessionInv(t)
           /\ \A key \in Key : Consumed(s, key) => Consumed(t, key)
           /\ t.root_key = s.root_key
           /\ t.dh_public = s.dh_public
           /\ t.remote_dh_public = s.remote_dh_public
           /\ t.sending_chain # None
           /\ t.sending_chain.index = s.sending_chain.index + 1
<1> DEFINE chain == Advanced(s.sending_chain)
<1>1. /\ s.sending_chain # None /\ s.sending_chain \in Chain
      /\ s.sending_chain.index \in Nat
  BY SessionFields DEF CanEncrypt
<1>2. /\ chain \in Chain /\ chain # None /\ chain.root = s.sending_chain.root
      /\ chain.index = s.sending_chain.index + 1
  BY <1>1, NoneAssumption DEF Advanced, Chain
<1>3. t = [s EXCEPT !.sending_chain = chain]
  BY DEF AfterEncrypt
<1> HIDE DEF chain
<1>4. t = [root_key          |-> s.root_key,
           dh_public         |-> s.dh_public,
           remote_dh_public  |-> s.remote_dh_public,
           sending_chain     |-> chain,
           receiving_chain   |-> s.receiving_chain,
           previous_sending_chain_length |-> s.previous_sending_chain_length,
           skipped_keys      |-> s.skipped_keys]
  BY <1>3 DEF SessionOK, SessionWith
<1>5. /\ t.root_key = s.root_key
      /\ t.dh_public = s.dh_public
      /\ t.remote_dh_public = s.remote_dh_public
      /\ t.sending_chain = chain
      /\ t.receiving_chain = s.receiving_chain
      /\ t.previous_sending_chain_length = s.previous_sending_chain_length
      /\ t.skipped_keys = s.skipped_keys
  BY <1>4
<1>6. SessionOK(t)
  BY <1>2, <1>4 DEF SessionOK, SessionWith
<1>7. \A key : ReceivingPast(s, key) <=> ReceivingPast(t, key)
  BY <1>5 DEF ReceivingPast
<1>8. SessionInv(t)
  BY <1>1, <1>2, <1>5, <1>7 DEF SessionInv
<1>9. \A key \in Key : Consumed(s, key) => Consumed(t, key)
  BY <1>5, <1>7 DEF Consumed
<1> QED BY <1>2, <1>5, <1>6, <1>8, <1>9

(***************************************************************************)
(* The sessions of a page that has started or changed one.                 *)
(***************************************************************************)
LEMMA PutKeeps ==
    ASSUME SessionsInv, Grown, \A q \in User : GoesOn(q), NEW p \in User, NEW g, NEW t,
           Put(p, g, t), SessionAt(p, t)'
    PROVE  SessionsInv'
<1>1. ASSUME NEW q \in User, NEW h \in DOMAIN Sessions(q)', <<q, h>> # <<p, g>>
      PROVE  h \in DOMAIN Sessions(q) /\ Sessions(q)'[h] = Sessions(q)[h]
  BY <1>1 DEF Put
<1>2. ASSUME NEW q \in User, NEW h \in DOMAIN Sessions(q)'
      PROVE  SessionAt(q, Sessions(q)[h])'
  <2>1. PICK s : s = Sessions(q)'[h]
    OBVIOUS
  <2>2. SessionAt(q, s)'
    <3>1. CASE q = p /\ h = g
      BY <2>1, <3>1 DEF Put
    <3>2. CASE <<q, h>> # <<p, g>>
      BY <1>1, <2>1, <3>2, SessionAtKept DEF SessionsInv
    <3> QED BY <3>1, <3>2
  <2> QED BY <2>1, <2>2 DEF SessionAt, SpkHeld
<1> QED BY <1>2 DEF SessionsInv

(***************************************************************************)
(* Sessions that are as they were.                                         *)
(***************************************************************************)
LEMMA OldSessions ==
    ASSUME SessionsInv, Grown,
           \A q \in User : \/ DOMAIN Sessions(q)' = {}
                           \/ /\ GoesOn(q)
                              /\ DOMAIN Sessions(q)' = DOMAIN Sessions(q)
                              /\ \A h \in DOMAIN Sessions(q) :
                                    Sessions(q)'[h] = Sessions(q)[h]
    PROVE  SessionsInv'
<1>1. ASSUME NEW q \in User, NEW h \in DOMAIN Sessions(q)'
      PROVE  SessionAt(q, Sessions(q)[h])'
  <2>1. PICK s : s = Sessions(q)'[h]
    OBVIOUS
  <2>2. SessionAt(q, s)'
    BY <2>1, SessionAtKept DEF SessionsInv
  <2> QED BY <2>1, <2>2 DEF SessionAt, SpkHeld
<1> QED BY <1>1 DEF SessionsInv

(***************************************************************************)
(* The message that session_encrypt returns.                               *)
(***************************************************************************)
LEMMA MessageSealed ==
    ASSUME NEW p \in User, NEW s, SessionAt(p, s), CanEncrypt(s), NEW m,
           m = [from |-> p, hdr |-> NextHeader(s), key |-> NextMessageKey(s.sending_chain)]
    PROVE  /\ m \in [from : User, hdr : Header, key : Key]
           /\ MessageOK(m)
           /\ m.key.chain = s.root_key
           /\ m.key.n = s.sending_chain.index
<1>1. /\ SessionOK(s) /\ SessionInv(s) /\ s.sending_chain # None
      /\ Len(s.root_key) >= 2 /\ MadeChain(s.root_key) /\ Origin(p, s.root_key)
      /\ s.dh_public \in Made
  BY DEF SessionAt, CanEncrypt
<1>2. /\ s.sending_chain.root = s.root_key /\ s.sending_chain.index \in Nat
      /\ s.root_key \in RootKey /\ s.dh_public \in Keys
      /\ s.previous_sending_chain_length \in Nat
  BY <1>1, SessionFields DEF SessionInv
<1>3. /\ m.from = p
      /\ m.hdr = [dh |-> s.dh_public, n |-> s.sending_chain.index,
                  pn |-> s.previous_sending_chain_length]
      /\ m.key = [chain |-> s.root_key, n |-> s.sending_chain.index]
  BY <1>2 DEF NextHeader, NextMessageKey, MessageKeyAt
<1>4. m.hdr \in Header /\ m.hdr.dh = s.dh_public
  BY <1>2, <1>3 DEF Header
<1>5. m.key \in Key /\ m.key.chain = s.root_key /\ m.key.n = s.sending_chain.index
  BY <1>2, <1>3 DEF Key
<1>6. m \in [from : User, hdr : Header, key : Key]
  BY <1>3, <1>4, <1>5
<1>7. MessageOK(m)
  BY <1>1, <1>3, <1>4, <1>5 DEF MessageOK
<1> QED BY <1>5, <1>6, <1>7

(***************************************************************************)
(* Every step leaves sessions and messages right.                          *)
(***************************************************************************)
LEMMA SessionsStep ==
    ASSUME PagesInv, KeyPairsInv, SessionsInv, MessagesInv, TrafficStep
    PROVE  SessionsInv' /\ MessagesInv'
<1>1. Grown
  BY DEF TrafficStep
<1>2. UNCHANGED messages => MessagesInv'
  <2>1. SUFFICES ASSUME UNCHANGED messages
                 PROVE  MessagesInv'
    OBVIOUS
  <2>2. ASSUME NEW i \in DOMAIN messages'
        PROVE  MessageOK(messages[i])'
    <3>1. PICK m : m = messages[i]
      OBVIOUS
    <3>2. MessageOK(m)'
      BY <1>1, <2>1, <3>1, MessageKept DEF MessagesInv
    <3> QED BY <2>1, <3>1, <3>2
  <2> QED BY <2>1, <2>2 DEF MessagesInv
<1>3. ASSUME NEW q \in User, Restarts(q)
      PROVE  SessionsInv' /\ MessagesInv'
  BY <1>1, <1>2, <1>3, OldSessions DEF Restarts
<1>4. ASSUME \A q \in User : GoesOn(q), SessionsKept, UNCHANGED <<messages, opened>>
      PROVE  SessionsInv' /\ MessagesInv'
  BY <1>1, <1>2, <1>4, OldSessions DEF SessionsKept
<1>5. ASSUME \A q \in User : GoesOn(q), NEW p \in User, NEW g, NEW s, Starts(p, g, s)
      PROVE  SessionsInv' /\ MessagesInv'
  <2>1. SessionAt(p, s)'
    BY <1>1, <1>5, SessionStarted
  <2> QED BY <1>1, <1>2, <1>5, <2>1, PutKeeps DEF Starts
<1>6. ASSUME \A q \in User : GoesOn(q), NEW p \in User, NEW g, NEW m, NEW t,
             Decrypts(p, g, m, t)
      PROVE  SessionsInv' /\ MessagesInv'
  <2>1. PICK s : s = Sessions(p)[g]
    OBVIOUS
  <2>2. PICK hdr : hdr = messages[m].hdr
    OBVIOUS
  <2>3. PICK new : new = FreshKeyPair(p, "ratchet")
    OBVIOUS
  <2>4. /\ Put(p, g, t) /\ UNCHANGED messages
        /\ Ratchets(s, hdr) => Generates(p)
        /\ Decrypted(s, t, hdr, new)
        /\ g \in DOMAIN Sessions(p) /\ m \in DOMAIN messages
    BY <1>6, <2>1, <2>2, <2>3 DEF Decrypts
  <2>5. /\ SessionAt(p, s)
        /\ hdr \in Header /\ hdr.dh \in Made
    BY <2>1, <2>2, <2>4 DEF SessionsInv, MessagesInv, MessageOK
  <2>6. Ratchets(s, hdr) => new \in Made'
    BY <2>3, <2>4, FreshKey
  <2>7. SessionAt(p, t)'
    BY <1>1, <1>6, <2>4, <2>5, <2>6, SessionDecrypted
  <2> QED BY <1>1, <1>2, <1>6, <2>4, <2>7, PutKeeps
<1>7. ASSUME \A q \in User : GoesOn(q), NEW p \in User, NEW g, Encrypts(p, g)
      PROVE  SessionsInv' /\ MessagesInv'
  <2>1. PICK s : s = Sessions(p)[g]
    OBVIOUS
  <2>2. PICK t : t = AfterEncrypt(s)
    OBVIOUS
  <2>3. PICK m : m = [from |-> p, hdr |-> NextHeader(s),
                      key |-> NextMessageKey(s.sending_chain)]
    OBVIOUS
  <2>4. /\ g \in DOMAIN Sessions(p) /\ CanEncrypt(s) /\ Put(p, g, t)
        /\ messages' = Append(messages, m)
    BY <1>7, <2>1, <2>2, <2>3 DEF Encrypts
  <2>5. SessionAt(p, s) /\ SessionAt(p, s)'
    BY <1>1, <1>7, <2>1, <2>4, SessionAtKept DEF SessionsInv
  <2>6. SessionAt(p, t)'
    <3>1. /\ SessionOK(t) /\ SessionInv(t)
          /\ t.root_key = s.root_key
          /\ t.dh_public = s.dh_public
          /\ t.remote_dh_public = s.remote_dh_public
          /\ t.sending_chain # None /\ s.sending_chain # None
      BY <2>2, <2>4, <2>5, SessionEncrypted DEF SessionAt, CanEncrypt
    <3>2. SpkHeld(p, s)' => SpkHeld(p, t)'
      BY <3>1 DEF SpkHeld
    <3> QED BY <2>5, <3>1, <3>2 DEF SessionAt
  <2>7. m \in [from : User, hdr : Header, key : Key] /\ MessageOK(m)
    BY <2>3, <2>4, <2>5, MessageSealed
  <2>8. MessagesInv'
    <3> DEFINE M == [from : User, hdr : Header, key : Key]
    <3>1. messages \in Seq(M) /\ \A i \in DOMAIN messages : MessageOK(messages[i])
      BY DEF MessagesInv
    <3>2. m \in M
      BY <2>7
    <3> HIDE DEF M
    <3>3. /\ messages' \in Seq(M)
          /\ \A i \in DOMAIN messages' :
                \/ messages'[i] = m
                \/ i \in DOMAIN messages /\ messages'[i] = messages[i]
      BY <2>4, <3>1, <3>2
    <3>4. ASSUME NEW i \in DOMAIN messages'
          PROVE  MessageOK(messages[i])'
      <4>1. PICK x : x = messages'[i]
        OBVIOUS
      <4>2. MessageOK(x)'
        BY <1>1, <2>7, <3>1, <3>3, <4>1, MessageKept
      <4> QED BY <4>1, <4>2 DEF MessageOK
    <3> QED BY <3>3, <3>4 DEF MessagesInv, M
  <2> QED BY <1>1, <1>7, <2>4, <2>6, <2>8, PutKeeps
<1> QED BY <1>1, <1>3, <1>4, <1>5, <1>6, <1>7 DEF TrafficStep

-----------------------------------------------------------------------------
(* Sending chains *)

\* Session h of page q has the root keys and the sending chain it had.
RootKept(q, h) ==
    /\ h \in DOMAIN Sessions(q)
    /\ Sessions(q)'[h].root_key = Sessions(q)[h].root_key
    /\ Sessions(q)'[h].sending_chain = Sessions(q)[h].sending_chain

\* Root ends with a DH output of a key pair that is new.
FreshRoot(root) == ~ root[Len(root)] \subseteq Made

\* If a page has initiated the session, it has the start it had.
StartKept(q, h) ==
    Len(Sessions(q)'[h].root_key) % 2 = 0 =>
        /\ h \in DOMAIN Sessions(q)
        /\ Len(Sessions(q)[h].root_key) % 2 = 0
        /\ Sessions(q)'[h].root_key[2] = Sessions(q)[h].root_key[2]

\* What a step does to the root keys of session h of page q, p and g being
\* the one that it may have started or ratcheted
RootStep(p, g, q, h) ==
    /\ \/ RootKept(q, h)
       \/ /\ q = p /\ h = g
          /\ Len(Sessions(q)'[h].root_key) = 1 \/ FreshRoot(Sessions(q)'[h].root_key)
    /\ \/ StartKept(q, h)
       \/ /\ q = p /\ h = g
          /\ ~ Sessions(q)'[h].root_key[2] \subseteq Made

(***************************************************************************)
(* A root key of even length is not the secret alone.                      *)
(***************************************************************************)
LEMMA EvenRoots ==
    ASSUME SessionsInv, NEW p \in User, NEW g \in DOMAIN Sessions(p),
           Len(Sessions(p)[g].root_key) % 2 = 0
    PROVE  Len(Sessions(p)[g].root_key) >= 2
<1>1. Len(Sessions(p)[g].root_key) \in Nat /\ Len(Sessions(p)[g].root_key) >= 1
  BY RootKeyLength DEF SessionsInv, SessionAt, SessionOK, SessionWith, SessionInv
<1>2. \A n \in Nat : n >= 1 /\ n % 2 = 0 => n >= 2
  <2>1. SUFFICES ASSUME NEW n \in Nat, n >= 1, n % 2 = 0
                 PROVE  n # 1
    OBVIOUS
  <2> QED BY <2>1
<1> QED BY <1>1, <1>2

(***************************************************************************)
(* Every root key that a step derives is new, save that of a session of    *)
(* the responder that has received nothing.                                *)
(***************************************************************************)
LEMMA RootsStep ==
    ASSUME PagesInv, KeyPairsInv, SessionsInv, MessagesInv, TrafficStep
    PROVE  \/ \E p \in User : \E g : Encrypts(p, g)
           \/ /\ UNCHANGED messages
              /\ \E p, g : \A q \in User : \A h \in DOMAIN Sessions(q)' : RootStep(p, g, q, h)
<1>1. \A q \in User : \A h \in DOMAIN Sessions(q)' :
          h \in DOMAIN Sessions(q) /\ Sessions(q)'[h] = Sessions(q)[h] =>
              \A p, g : RootStep(p, g, q, h)
  BY DEF RootStep, RootKept, StartKept
<1>2. ASSUME NEW r \in User, Restarts(r)
      PROVE  \A p, g : \A q \in User : \A h \in DOMAIN Sessions(q)' : RootStep(p, g, q, h)
  BY <1>1, <1>2 DEF Restarts
<1>3. ASSUME SessionsKept
      PROVE  \A p, g : \A q \in User : \A h \in DOMAIN Sessions(q)' : RootStep(p, g, q, h)
  BY <1>1, <1>3 DEF SessionsKept
<1>4. ASSUME NEW p \in User, NEW g, NEW t, Put(p, g, t), RootStep(p, g, p, g)
      PROVE  \A q \in User : \A h \in DOMAIN Sessions(q)' : RootStep(p, g, q, h)
  <2>1. ASSUME NEW q \in User, NEW h \in DOMAIN Sessions(q)', ~ (q = p /\ h = g)
        PROVE  h \in DOMAIN Sessions(q) /\ Sessions(q)'[h] = Sessions(q)[h]
    BY <1>4, <2>1 DEF Put
  <2> QED BY <1>1, <1>4, <2>1
<1>5. ASSUME NEW p \in User, NEW g, NEW s, Starts(p, g, s)
      PROVE  RootStep(p, g, p, g)
  <2>1. Sessions(p)'[g] = s
    BY <1>5 DEF Starts, Put
  <2>2. ASSUME NEW secret \in SecretsOf(p), NEW key \in Made, Generates(p),
               s = InitAlice(secret, FreshKeyPair(p, "ratchet"), key)
        PROVE  RootStep(p, g, p, g)
    <3>1. PICK new : new = FreshKeyPair(p, "ratchet")
      OBVIOUS
    <3>2. new \notin Made /\ new \in Keys
      BY <2>2, <3>1, FreshKey DEF Made
    <3>3. AliceStart(InitAlice(secret, new, key), secret, new, key)
      BY <3>2, AliceStarts, SecretsTyped DEF Made
    <3>4. AliceStart(s, secret, new, key)
      BY <2>2, <3>1, <3>3
    <3>5. Len(s.root_key) = 2 /\ s.root_key[2] = {new, key}
      BY <3>4 DEF AliceStart
    <3> QED BY <2>1, <3>2, <3>5 DEF RootStep, FreshRoot
  <2>3. ASSUME NEW secret \in SecretsOf(p), NEW spk \in SpkKeys(p), s = InitBob(secret, spk)
        PROVE  RootStep(p, g, p, g)
    <3>1. spk \in Keys
      BY DEF KeyPairsInv, SpkKeys, SpkPairs, Made
    <3>2. BobStart(InitBob(secret, spk), secret, spk)
      BY <3>1, BobStarts, SecretsTyped
    <3>3. BobStart(s, secret, spk)
      BY <2>3, <3>2
    <3>4. Len(s.root_key) = 1 /\ Len(s.root_key) % 2 # 0
      BY <3>3 DEF BobStart
    <3> QED BY <2>1, <3>4 DEF RootStep, StartKept
  <2> QED BY <1>5, <2>2, <2>3 DEF Starts
<1>6. ASSUME NEW p \in User, NEW g, NEW m, NEW t, Decrypts(p, g, m, t)
      PROVE  RootStep(p, g, p, g)
  <2>1. PICK s : s = Sessions(p)[g]
    OBVIOUS
  <2>2. PICK hdr : hdr = messages[m].hdr
    OBVIOUS
  <2>3. PICK new : new = FreshKeyPair(p, "ratchet")
    OBVIOUS
  <2>4. /\ Sessions(p)'[g] = t
        /\ Ratchets(s, hdr) => Generates(p)
        /\ Decrypted(s, t, hdr, new)
        /\ g \in DOMAIN Sessions(p)
    BY <1>6, <2>1, <2>2, <2>3 DEF Decrypts, Put
  <2>5. CASE ~ Ratchets(s, hdr)
    BY <2>1, <2>4, <2>5 DEF Decrypted, SameSender, RootStep, RootKept, StartKept
  <2>6. CASE Ratchets(s, hdr)
    <3>1. new \notin Made
      BY <2>3, <2>4, <2>6, FreshKey
    <3>2. /\ t.root_key[Len(t.root_key)] = {new, hdr.dh}
          /\ Len(t.root_key) % 2 = Len(s.root_key) % 2
          /\ Len(s.root_key) >= 2 => t.root_key[2] = s.root_key[2]
      BY <2>4, <2>6 DEF Decrypted, NewSender, Ratchets2, SameStart
    <3>3. FreshRoot(t.root_key)
      BY <3>1, <3>2 DEF FreshRoot
    <3>4. Len(s.root_key) % 2 = 0 => Len(s.root_key) >= 2
      BY <2>1, <2>4, EvenRoots
    <3>5. StartKept(p, g)
      BY <2>1, <2>4, <3>2, <3>4 DEF StartKept
    <3> QED BY <2>4, <3>3, <3>5 DEF RootStep
  <2> QED BY <2>5, <2>6
<1> QED
  <2>1. ASSUME NEW q \in User, Restarts(q)
        PROVE  UNCHANGED messages
    BY <2>1 DEF Restarts
  <2> QED BY <1>2, <1>3, <1>4, <1>5, <1>6, <2>1 DEF TrafficStep, Starts, Decrypts

(***************************************************************************)
(* A root key or a chain in use is not fresh.                              *)
(***************************************************************************)
LEMMA UsedRoots ==
    ASSUME SessionsInv, MessagesInv
    PROVE  /\ \A p \in User : \A g \in DOMAIN Sessions(p) :
                 Len(Sessions(p)[g].root_key) >= 2 =>
                    /\ ~ FreshRoot(Sessions(p)[g].root_key)
                    /\ Sessions(p)[g].root_key[2] \subseteq Made
           /\ \A m \in DOMAIN messages :
                 /\ Len(messages[m].key.chain) >= 2
                 /\ ~ FreshRoot(messages[m].key.chain)
                 /\ messages[m].key.chain[2] \subseteq Made
                 /\ messages[m].key \in Key
BY DEF SessionsInv, SessionAt, MessagesInv, MessageOK, MadeChain, FreshRoot

(***************************************************************************)
(* A step that sends nothing keeps the sending chains apart.               *)
(***************************************************************************)
LEMMA SendersKept ==
    ASSUME SessionsInv, SessionsInv', MessagesInv, SendersInv, UNCHANGED messages,
           NEW p, NEW g,
           \A q \in User : \A h \in DOMAIN Sessions(q)' : RootStep(p, g, q, h)
    PROVE  SendersInv'
<1>1. \A q \in User : \A h \in DOMAIN Sessions(q)' :
          \/ RootKept(q, h)
          \/ /\ q = p /\ h = g
             /\ Len(Sessions(q)'[h].root_key) = 1 \/ FreshRoot(Sessions(q)'[h].root_key)
  BY DEF RootStep
<1>2. ASSUME NEW q \in User, NEW h \in DOMAIN Sessions(q)',
             NEW r \in User, NEW f \in DOMAIN Sessions(r)',
             Len(Sessions(q)'[h].root_key) >= 2,
             Sessions(q)'[h].root_key = Sessions(r)'[f].root_key
      PROVE  q = r /\ h = f
  <2> DEFINE root == Sessions(q)'[h].root_key
  <2>5. Len(root) >= 2 /\ Sessions(r)'[f].root_key = root
    BY <1>2
  <2>6. Len(root) # 1
    <3>1. Len(root) \in Nat
      BY RootKeyLength DEF SessionsInv, SessionAt, SessionOK, SessionWith
    <3>2. \A n \in Nat : n >= 2 => n # 1
      OBVIOUS
    <3> HIDE DEF root
    <3> QED BY <2>5, <3>1, <3>2
  <2>7. RootKept(q, h) => h \in DOMAIN Sessions(q) /\ Sessions(q)[h].root_key = root
    BY DEF RootKept
  <2>8. RootKept(r, f) => f \in DOMAIN Sessions(r) /\ Sessions(r)[f].root_key = root
    BY <2>5 DEF RootKept
  <2>9. /\ RootKept(q, h) \/ (q = p /\ h = g /\ FreshRoot(root))
        /\ RootKept(r, f) \/ (r = p /\ f = g /\ FreshRoot(root))
    BY <1>1, <2>5, <2>6
  <2> HIDE DEF root
  <2>1. CASE RootKept(q, h) /\ RootKept(r, f)
    BY <2>1, <2>5, <2>7, <2>8 DEF SendersInv
  <2>2. CASE RootKept(q, h) /\ ~ RootKept(r, f)
    BY <2>2, <2>5, <2>7, <2>9, UsedRoots
  <2>3. CASE ~ RootKept(q, h) /\ RootKept(r, f)
    BY <2>3, <2>5, <2>8, <2>9, UsedRoots
  <2>4. CASE ~ RootKept(q, h) /\ ~ RootKept(r, f)
    BY <1>1, <2>4
  <2> QED BY <2>1, <2>2, <2>3, <2>4
<1>3. ASSUME NEW q \in User, NEW h \in DOMAIN Sessions(q)', NEW m \in DOMAIN messages,
             messages[m].key.chain = Sessions(q)'[h].root_key
      PROVE  messages[m].key.n < Sessions(q)'[h].sending_chain.index
  <2>1. CASE RootKept(q, h)
    BY <1>3, <2>1 DEF RootKept, SendersInv
  <2>2. CASE ~ RootKept(q, h)
    <3> DEFINE root == Sessions(q)'[h].root_key
    <3>1. Len(root) >= 2 /\ ~ FreshRoot(root) /\ Len(root) \in Nat
      BY <1>3, UsedRoots, RootKeyLength DEF Key
    <3>2. \A n \in Nat : n >= 2 => n # 1
      OBVIOUS
    <3>3. Len(root) = 1 \/ FreshRoot(root)
      BY <1>1, <2>2
    <3> HIDE DEF root
    <3> QED BY <3>1, <3>2, <3>3
  <2> QED BY <2>1, <2>2
<1>4. KeysUnique'
  BY DEF SendersInv, KeysUnique
<1> QED BY <1>2, <1>3, <1>4 DEF SendersInv

(***************************************************************************)
(* session_encrypt keeps them apart: no message was sealed under the key   *)
(* that it uses.                                                           *)
(***************************************************************************)
LEMMA SendersSent ==
    ASSUME SessionsInv, MessagesInv, SendersInv, NEW p \in User, NEW g, Encrypts(p, g)
    PROVE  SendersInv'
<1>1. PICK s : s = Sessions(p)[g]
  OBVIOUS
<1>2. PICK t : t = AfterEncrypt(s)
  OBVIOUS
<1>3. PICK x : x = [from |-> p, hdr |-> NextHeader(s),
                    key |-> NextMessageKey(s.sending_chain)]
  OBVIOUS
<1>4. /\ g \in DOMAIN Sessions(p) /\ CanEncrypt(s) /\ Put(p, g, t)
      /\ messages' = Append(messages, x)
  BY <1>1, <1>2, <1>3 DEF Encrypts
<1>5. SessionAt(p, s) /\ SessionOK(s) /\ SessionInv(s) /\ s.sending_chain # None
  BY <1>1, <1>4 DEF SessionsInv, SessionAt, CanEncrypt
<1>6. /\ t.root_key = s.root_key
      /\ t.sending_chain.index = s.sending_chain.index + 1
  BY <1>2, <1>4, <1>5, SessionEncrypted
<1>7. /\ x \in [from : User, hdr : Header, key : Key]
      /\ x.key.chain = s.root_key /\ x.key.n = s.sending_chain.index
      /\ Len(x.key.chain) >= 2
      /\ s.sending_chain.index \in Nat
  BY <1>3, <1>4, <1>5, MessageSealed, SessionFields DEF MessageOK, MadeChain
<1>8. /\ DOMAIN messages' = DOMAIN messages \cup {Len(messages) + 1}
      /\ messages'[Len(messages) + 1] = x
      /\ \A m \in DOMAIN messages : messages'[m] = messages[m]
  <2> DEFINE M == [from : User, hdr : Header, key : Key]
  <2>1. messages \in Seq(M) /\ x \in M
    BY <1>7 DEF MessagesInv
  <2> HIDE DEF M
  <2> QED BY <1>4, <2>1
<1>9. ASSUME NEW q \in User, NEW h \in DOMAIN Sessions(q)'
      PROVE  /\ h \in DOMAIN Sessions(q)
             /\ Sessions(q)'[h].root_key = Sessions(q)[h].root_key
             /\ q = p /\ h = g => Sessions(q)'[h] = t
             /\ ~ (q = p /\ h = g) => Sessions(q)'[h] = Sessions(q)[h]
  BY <1>1, <1>4, <1>6 DEF Put
<1>10. ASSUME NEW q \in User, NEW h \in DOMAIN Sessions(q)',
              NEW r \in User, NEW f \in DOMAIN Sessions(r)',
              Len(Sessions(q)'[h].root_key) >= 2,
              Sessions(q)'[h].root_key = Sessions(r)'[f].root_key
       PROVE  q = r /\ h = f
  BY <1>9, <1>10 DEF SendersInv
<1>11. ASSUME NEW m \in DOMAIN messages, messages[m].key.chain = s.root_key
       PROVE  messages[m].key.n < s.sending_chain.index
  BY <1>1, <1>4, <1>11 DEF SendersInv
<1>12. ASSUME NEW q \in User, NEW h \in DOMAIN Sessions(q)', NEW m \in DOMAIN messages',
              messages'[m].key.chain = Sessions(q)'[h].root_key
       PROVE  messages'[m].key.n < Sessions(q)'[h].sending_chain.index
  <2>1. CASE m \in DOMAIN messages /\ ~ (q = p /\ h = g)
    BY <1>8, <1>9, <1>12, <2>1 DEF SendersInv
  <2>2. CASE m \in DOMAIN messages /\ q = p /\ h = g
    <3>1. messages[m].key.n < s.sending_chain.index /\ messages[m].key.n \in Nat
      BY <1>6, <1>8, <1>9, <1>11, <1>12, <2>2, UsedRoots DEF Key
    <3> QED BY <1>6, <1>7, <1>8, <1>9, <2>2, <3>1
  <2>3. CASE m = Len(messages) + 1
    <3>1. Sessions(q)[h].root_key = Sessions(p)[g].root_key
      BY <1>1, <1>7, <1>8, <1>9, <1>12, <2>3
    <3>2. q = p /\ h = g
      BY <1>1, <1>4, <1>7, <1>9, <3>1 DEF SendersInv
    <3> QED BY <1>6, <1>7, <1>8, <1>9, <2>3, <3>2
  <2> QED BY <1>8, <2>1, <2>2, <2>3
<1>13. KeysUnique'
  <2>1. ASSUME NEW m \in DOMAIN messages
        PROVE  messages[m].key # x.key
    <3>1. ASSUME messages[m].key = x.key
          PROVE  FALSE
      <4>1. messages[m].key.n < s.sending_chain.index
        BY <1>7, <1>11, <3>1
      <4> QED BY <1>7, <3>1, <4>1
    <3> QED BY <3>1
  <2> QED BY <1>8, <2>1 DEF SendersInv, KeysUnique
<1> QED BY <1>10, <1>12, <1>13 DEF SendersInv

(***************************************************************************)
(* Every step keeps the starts of the sessions that a page has initiated   *)
(* apart.                                                                  *)
(***************************************************************************)
LEMMA StartsStep ==
    ASSUME SessionsInv, MessagesInv, StartsInv, NEW p, NEW g,
           \A q \in User : \A h \in DOMAIN Sessions(q)' :
               \/ StartKept(q, h)
               \/ q = p /\ h = g /\ ~ Sessions(q)'[h].root_key[2] \subseteq Made
    PROVE  StartsInv'
<1>1. ASSUME NEW q \in User, NEW h \in DOMAIN Sessions(q)', NEW f \in DOMAIN Sessions(q)',
             Len(Sessions(q)'[h].root_key) % 2 = 0,
             Len(Sessions(q)'[f].root_key) % 2 = 0,
             Sessions(q)'[h].root_key[2] = Sessions(q)'[f].root_key[2]
      PROVE  h = f
  <2>1. \A e \in DOMAIN Sessions(q) :
            Len(Sessions(q)[e].root_key) % 2 = 0 => Sessions(q)[e].root_key[2] \subseteq Made
    BY UsedRoots, EvenRoots
  <2>2. CASE StartKept(q, h) /\ StartKept(q, f)
    BY <1>1, <2>2 DEF StartKept, StartsInv
  <2>3. CASE ~ StartKept(q, h) /\ StartKept(q, f)
    BY <1>1, <2>1, <2>3 DEF StartKept
  <2>4. CASE StartKept(q, h) /\ ~ StartKept(q, f)
    BY <1>1, <2>1, <2>4 DEF StartKept
  <2>5. CASE ~ StartKept(q, h) /\ ~ StartKept(q, f)
    BY <2>5
  <2> QED BY <2>2, <2>3, <2>4, <2>5
<1> QED BY <1>1 DEF StartsInv

-----------------------------------------------------------------------------
(* Opened messages *)

\* Page q has been loaded again.
Reset(q) == /\ loads'[q] = loads[q] + 1
            /\ SpkKeys(q)' = {}
            /\ DOMAIN Sessions(q)' = {}

\* Page q goes on, and has consumed the keys it had.
ConsumesOn(q) ==
    /\ GoesOn(q)
    /\ \A h \in DOMAIN Sessions(q) :
          /\ h \in DOMAIN Sessions(q)'
          /\ \A key \in Key : Consumed(Sessions(q)[h], key) => Consumed(Sessions(q)'[h], key)

(***************************************************************************)
(* A message that a session has opened was sent by the other end of it.    *)
(***************************************************************************)
LEMMA OtherEnd ==
    ASSUME NEW t, SessionOK(t), SessionInv(t), NEW key \in Key, Consumed(t, key)
    PROVE  /\ SameStart(key.chain, t.root_key)
           /\ Len(key.chain) % 2 # Len(t.root_key) % 2
           /\ Len(key.chain) \in Nat /\ Len(t.root_key) \in Nat
           /\ Len(t.root_key) >= 2
<1>1. /\ SameStart(key.chain, t.root_key)
      /\ Len(key.chain) % 2 = Len(t.receiving_chain.root) % 2
      /\ Len(t.receiving_chain.root) + 1 = Len(t.root_key)
      /\ Len(t.receiving_chain.root) \in Nat
  BY SessionFields DEF Consumed, ReceivingPast, SessionInv
<1>2. Len(key.chain) \in Nat /\ Len(t.root_key) \in Nat
  BY RootKeyLength, SessionFields DEF Key
<1>3. Len(t.root_key) % 2 # Len(t.receiving_chain.root) % 2
  BY <1>1, ParityOfNext
<1> QED BY <1>1, <1>2, <1>3 DEF SameStart

(***************************************************************************)
(* What every step does to a page, as far as opened messages matter.       *)
(***************************************************************************)
LEMMA PagesStep ==
    ASSUME SessionsInv, MessagesInv, TrafficStep
    PROVE  \A q \in User : Reset(q) \/ ConsumesOn(q)
<1>1. ASSUME NEW q \in User, GoesOn(q), DOMAIN Sessions(q)' = DOMAIN Sessions(q),
             \A h \in DOMAIN Sessions(q) : Sessions(q)'[h] = Sessions(q)[h]
      PROVE  ConsumesOn(q)
  BY <1>1 DEF ConsumesOn
<1>2. ASSUME NEW r \in User, Restarts(r)
      PROVE  \A q \in User : Reset(q) \/ ConsumesOn(q)
  BY <1>1, <1>2 DEF Restarts, Reset
<1>3. ASSUME SessionsKept, \A q \in User : GoesOn(q)
      PROVE  \A q \in User : Reset(q) \/ ConsumesOn(q)
  BY <1>1, <1>3 DEF SessionsKept
<1>4. ASSUME NEW p \in User, NEW g, NEW t, Put(p, g, t), \A q \in User : GoesOn(q),
             g \in DOMAIN Sessions(p) =>
                \A key \in Key : Consumed(Sessions(p)[g], key) => Consumed(t, key)
      PROVE  \A q \in User : Reset(q) \/ ConsumesOn(q)
  <2>1. \A q \in User \ {p} : ConsumesOn(q)
    BY <1>1, <1>4 DEF Put
  <2>2. ConsumesOn(p)
    BY <1>4 DEF Put, ConsumesOn
  <2> QED BY <2>1, <2>2
<1>5. ASSUME NEW p \in User, NEW g, NEW s, Starts(p, g, s), \A q \in User : GoesOn(q)
      PROVE  \A q \in User : Reset(q) \/ ConsumesOn(q)
  BY <1>4, <1>5 DEF Starts
<1>6. ASSUME NEW p \in User, NEW g, NEW m, NEW t, Decrypts(p, g, m, t),
             \A q \in User : GoesOn(q)
      PROVE  \A q \in User : Reset(q) \/ ConsumesOn(q)
  <2>1. /\ Put(p, g, t)
        /\ \A key \in Key : Consumed(Sessions(p)[g], key) => Consumed(t, key)
    BY <1>6 DEF Decrypts, Decrypted, Keeps
  <2> QED BY <1>4, <1>6, <2>1
<1>7. ASSUME NEW p \in User, NEW g, Encrypts(p, g), \A q \in User : GoesOn(q)
      PROVE  \A q \in User : Reset(q) \/ ConsumesOn(q)
  <2>1. PICK s : s = Sessions(p)[g]
    OBVIOUS
  <2>2. PICK t : t = AfterEncrypt(s)
    OBVIOUS
  <2>3. Put(p, g, t) /\ g \in DOMAIN Sessions(p) /\ CanEncrypt(s)
    BY <1>7, <2>1, <2>2 DEF Encrypts
  <2>4. SessionOK(s) /\ SessionInv(s)
    BY <2>1, <2>3 DEF SessionsInv, SessionAt
  <2>5. \A key \in Key : Consumed(s, key) => Consumed(t, key)
    BY <2>2, <2>3, <2>4, SessionEncrypted
  <2> QED BY <1>4, <1>7, <2>1, <2>3, <2>5
<1> QED BY <1>2, <1>3, <1>5, <1>6, <1>7 DEF TrafficStep

(***************************************************************************)
(* Every step leaves the starts of sessions, or gives one a fresh start.   *)
(***************************************************************************)
LEMMA StartsOf ==
    ASSUME PagesInv, KeyPairsInv, SessionsInv, MessagesInv, TrafficStep
    PROVE  \E p, g : \A q \in User : \A h \in DOMAIN Sessions(q)' :
              \/ StartKept(q, h)
              \/ q = p /\ h = g /\ ~ Sessions(q)'[h].root_key[2] \subseteq Made
<1>1. CASE \E p, g : \A q \in User : \A h \in DOMAIN Sessions(q)' : RootStep(p, g, q, h)
  BY <1>1 DEF RootStep
<1>2. ASSUME NEW p \in User, NEW g, Encrypts(p, g), NEW q \in User,
             NEW h \in DOMAIN Sessions(q)'
      PROVE  StartKept(q, h)
  <2>1. PICK s : s = Sessions(p)[g]
    OBVIOUS
  <2>2. PICK t : t = AfterEncrypt(s)
    OBVIOUS
  <2>3. Put(p, g, t) /\ g \in DOMAIN Sessions(p) /\ CanEncrypt(s)
    BY <1>2, <2>1, <2>2 DEF Encrypts
  <2>4. t.root_key = s.root_key
    BY <2>1, <2>2, <2>3, SessionEncrypted DEF SessionsInv, SessionAt
  <2> QED BY <2>1, <2>3, <2>4 DEF Put, StartKept
<1> QED BY <1>1, <1>2, RootsStep

(***************************************************************************)
(* Messages that have been sent stay as they are.                          *)
(***************************************************************************)
LEMMA MessagesStay ==
    ASSUME MessagesInv, TrafficStep
    PROVE  \A m \in DOMAIN messages : m \in DOMAIN messages' /\ messages'[m] = messages[m]
<1>1. CASE UNCHANGED messages
  BY <1>1
<1>2. ASSUME NEW x, messages' = Append(messages, x)
      PROVE  \A m \in DOMAIN messages : m \in DOMAIN messages' /\ messages'[m] = messages[m]
  BY <1>2 DEF MessagesInv
<1> QED BY <1>1, <1>2 DEF TrafficStep, Restarts, Starts, Decrypts, Encrypts

(***************************************************************************)
(* Every step keeps the sending chains and the starts apart.               *)
(***************************************************************************)
LEMMA SendersStep ==
    ASSUME PagesInv, KeyPairsInv, SessionsInv, MessagesInv, SendersInv, StartsInv,
           TrafficStep
    PROVE  SendersInv' /\ StartsInv'
<1>1. SessionsInv'
  BY SessionsStep
<1>2. SendersInv'
  BY <1>1, RootsStep, SendersKept, SendersSent
<1>3. StartsInv'
  BY StartsOf, StartsStep
<1> QED BY <1>2, <1>3

(***************************************************************************)
(* What is right of an opened message stays right.                         *)
(***************************************************************************)
LEMMA OpenedKept ==
    ASSUME PagesInv, KeyPairsInv, SessionsInv, MessagesInv, TrafficStep,
           NEW o, OpenedOK(o)
    PROVE  OpenedOK(o)'
<1>1. PICK p : p = o.at.by
  OBVIOUS
<1>2. PICK m : m = o.message
  OBVIOUS
<1>3. PICK key : key = messages[m].key
  OBVIOUS
<1>4. /\ p \in User /\ m \in DOMAIN messages
      /\ o = [at |-> [by |-> p, handle |-> o.at.handle, load |-> o.at.load],
              message |-> m, times |-> 1]
      /\ o.at.load \in 0 .. loads[p]
      /\ o.at.load = loads[p] => /\ o.at.handle \in DOMAIN Sessions(p)
                                 /\ Consumed(Sessions(p)[o.at.handle], key)
      /\ o.at.load # loads[p] => key.chain[2] \cap SpkKeys(p) = {}
      /\ \A h \in DOMAIN Sessions(p) :
            /\ Len(key.chain) % 2 = 1
            /\ Len(Sessions(p)[h].root_key) % 2 = 0
            /\ key.chain[2] = Sessions(p)[h].root_key[2]
            => o.at = [by |-> p, handle |-> h, load |-> loads[p]]
  BY <1>1, <1>2, <1>3 DEF OpenedOK, Where
<1>5. key \in Key /\ key.chain[2] \subseteq Made
  BY <1>3, <1>4, UsedRoots
<1>6. m \in DOMAIN messages' /\ messages'[m].key = key
  BY <1>3, <1>4, MessagesStay
<1>7. Reset(p) \/ ConsumesOn(p)
  BY <1>4, PagesStep
<1>8. loads[p] \in Nat
  BY <1>4 DEF PagesInv
<1>9. loads'[p] = loads[p] + 1 \/ loads'[p] = loads[p]
  BY <1>7 DEF Reset, ConsumesOn, GoesOn
<1>10. o.at.load \in 0 .. loads'[p]
  BY <1>4, <1>8, <1>9
<1>11. ASSUME o.at.load = loads'[p]
       PROVE  /\ o.at.handle \in DOMAIN Sessions(p)'
              /\ Consumed(Sessions(p)'[o.at.handle], key)
  <2>1. ConsumesOn(p)
    BY <1>4, <1>7, <1>8, <1>11 DEF Reset
  <2> QED BY <1>4, <1>5, <1>11, <2>1 DEF ConsumesOn, GoesOn
<1>12. ASSUME o.at.load # loads'[p]
       PROVE  key.chain[2] \cap SpkKeys(p)' = {}
  <2>1. CASE Reset(p)
    BY <2>1 DEF Reset
  <2>2. CASE ConsumesOn(p)
    BY <1>4, <1>5, <1>12, <2>2 DEF ConsumesOn, GoesOn
  <2> QED BY <1>7, <2>1, <2>2
<1>13. ASSUME NEW h \in DOMAIN Sessions(p)', Len(key.chain) % 2 = 1,
              Len(Sessions(p)'[h].root_key) % 2 = 0,
              key.chain[2] = Sessions(p)'[h].root_key[2]
       PROVE  o.at = [by |-> p, handle |-> h, load |-> loads'[p]]
  <2>1. StartKept(p, h)
    BY <1>4, <1>5, <1>13, StartsOf
  <2>2. loads'[p] = loads[p]
    BY <1>7, <1>13 DEF Reset, ConsumesOn, GoesOn
  <2> QED BY <1>4, <1>13, <2>1, <2>2 DEF StartKept
<1> QED BY <1>1, <1>2, <1>4, <1>6, <1>10, <1>11, <1>12, <1>13 DEF OpenedOK, Where

(***************************************************************************)
(* A session does not open a message again.                                *)
(***************************************************************************)
LEMMA NotOpenedBefore ==
    ASSUME OpenedInv, NEW p \in User, NEW g, NEW m,
           ~ Consumed(Sessions(p)[g], messages[m].key)
    PROVE  /\ TimesOpened(p, g, m) = 0
           /\ \A q \in opened :
                 q.message = m /\ q.at.by = p /\ q.at.load = loads[p] => q.at.handle # g
<1>1. ASSUME NEW q \in opened, q.message = m, q.at.by = p, q.at.load = loads[p]
      PROVE  q.at.handle # g
  BY <1>1 DEF OpenedInv, OpenedOK
<1>2. \A q \in opened : ~ (q.at = Where(p, g) /\ q.message = m)
  BY <1>1 DEF Where
<1>3. {q \in opened : q.at = Where(p, g) /\ q.message = m} = {}
  BY <1>2
<1> QED BY <1>1, <1>3, FS_EmptySet DEF TimesOpened

(***************************************************************************)
(* An initiation and a response that have derived one secret are of one    *)
(* key agreement, without a one-time pre-key.                              *)
(***************************************************************************)
LEMMA OneAgreement ==
    ASSUME KeyPairsInv, NEW i \in initiations, NEW r \in responses, i.secret = r.secret
    PROVE  i.bundle.identity.owner = r.by /\ i.bundle.opk = None
<1>1. InitiationOK(i) /\ ResponseOK(r)
  BY DEF KeyPairsInv
<1>2. i.bundle.opk = None
  BY <1>1 DEF InitiationOK, ResponseOK
<1>3. PICK eph \in Keys : eph.kind = "ephemeral" /\ r.secret[2] = {r.identity, eph}
  BY <1>1 DEF ResponseOK
<1>4. {i.eph, i.bundle.identity} = {r.identity, eph}
  BY <1>1, <1>3 DEF InitiationOK
<1>5. r.identity # i.eph
  BY <1>1 DEF InitiationOK, ResponseOK
<1>6. r.identity = i.bundle.identity
  BY <1>4, <1>5
<1> QED BY <1>1, <1>2, <1>6 DEF ResponseOK

(***************************************************************************)
(* Two initiations that have derived one secret are of one user, and so    *)
(* are two responses.                                                      *)
(***************************************************************************)
LEMMA OneUser ==
    ASSUME KeyPairsInv
    PROVE  /\ \A i, j \in initiations : i.secret = j.secret => i.by = j.by
           /\ \A r, t \in responses : r.secret = t.secret => r.by = t.by
<1>1. ASSUME NEW i \in initiations, NEW j \in initiations, i.secret = j.secret
      PROVE  i.by = j.by
  <2>1. InitiationOK(i) /\ InitiationOK(j)
    BY DEF KeyPairsInv
  <2>2. {i.eph, i.bundle.identity} = {j.eph, j.bundle.identity}
    BY <1>1, <2>1 DEF InitiationOK
  <2>3. i.eph # j.bundle.identity
    BY <2>1 DEF InitiationOK
  <2>4. i.eph = j.eph
    BY <2>2, <2>3
  <2> QED BY <2>1, <2>4 DEF InitiationOK
<1>2. ASSUME NEW r \in responses, NEW t \in responses, r.secret = t.secret
      PROVE  r.by = t.by
  <2>1. ResponseOK(r) /\ ResponseOK(t)
    BY DEF KeyPairsInv
  <2>2. PICK e : e.kind = "ephemeral" /\ r.secret[2] = {r.identity, e}
    BY <2>1 DEF ResponseOK
  <2>3. PICK f : f.kind = "ephemeral" /\ t.secret[2] = {t.identity, f}
    BY <2>1 DEF ResponseOK
  <2>4. {r.identity, e} = {t.identity, f} /\ r.identity # f
    BY <1>2, <2>1, <2>2, <2>3 DEF ResponseOK
  <2>5. r.identity = t.identity
    BY <2>4
  <2> QED BY <2>1, <2>5 DEF ResponseOK
<1> QED BY <1>1, <1>2

(***************************************************************************)
(* Two pages that have been given one secret have agreed on it.            *)
(***************************************************************************)
LEMMA SharedSecret ==
    ASSUME KeyPairsInv, NEW p, NEW q, NEW secret \in SecretsOf(p), secret \in SecretsOf(q)
    PROVE  p = q \/ Agreed(secret, p, q)
<1>1. PICK x \in initiations \cup responses : x.by = p /\ x.secret = secret
  BY DEF SecretsOf
<1>2. PICK y \in initiations \cup responses : y.by = q /\ y.secret = secret
  BY DEF SecretsOf
<1>3. CASE \/ x \in initiations /\ y \in initiations
           \/ x \in responses /\ y \in responses
  BY <1>1, <1>2, <1>3, OneUser
<1>4. CASE x \in initiations /\ y \in responses
  <2>1. x.bundle.identity.owner = q /\ x.bundle.opk = None
    BY <1>1, <1>2, <1>4, OneAgreement
  <2> QED BY <1>1, <1>4, <2>1 DEF Agreed
<1>5. CASE x \in responses /\ y \in initiations
  <2>1. y.bundle.identity.owner = p /\ y.bundle.opk = None
    BY <1>1, <1>2, <1>5, OneAgreement
  <2> QED BY <1>2, <1>5, <2>1 DEF Agreed
<1> QED BY <1>3, <1>4, <1>5

(***************************************************************************)
(* Of two numbers, one is even and one is odd.                             *)
(***************************************************************************)
LEMMA OtherParity ==
    ASSUME NEW a \in Nat, NEW b \in Nat, a % 2 # b % 2
    PROVE  \/ a % 2 = 0 /\ b % 2 = 1
           \/ a % 2 = 1 /\ b % 2 = 0
<1>1. (a % 2 = 0 \/ a % 2 = 1) /\ (b % 2 = 0 \/ b % 2 = 1)
  OBVIOUS
<1> QED BY <1>1

\* Two chains of one start, one from each end
TwoSides(a, b) ==
    /\ SameStart(a, b)
    /\ \/ Len(a) % 2 = 0 /\ Len(b) % 2 = 1
       \/ Len(a) % 2 = 1 /\ Len(b) % 2 = 0

(***************************************************************************)
(* Two chains that have one start and come from different ends are of one  *)
(* key agreement, or of one page, which has put two of its own key pairs   *)
(* together.                                                               *)
(***************************************************************************)
LEMMA TwoEnds ==
    ASSUME KeyPairsInv, NEW p, NEW a, Origin(p, a), NEW q, NEW b, Origin(q, b),
           TwoSides(a, b)
    PROVE  ByPeer(a, p, q)
<1>1. a[1] = b[1] /\ a[2] = b[2] /\ Len(a) >= 2 /\ Len(b) >= 2
  BY DEF TwoSides, SameStart
<1>2. p = q \/ Agreed(a[1], p, q)
  BY <1>1, SharedSecret DEF Origin
<1>3. ASSUME p = q
      PROVE  \A k \in a[2] : k.owner = p
  <2>1. FromRatchetKey(p, a[2]) /\ FromPreKey(p, a[2])
    BY <1>1, <1>3 DEF Origin, TwoSides
  <2>2. PICK x, k : a[2] = {x, k} /\ Own(p, x, "ratchet")
    BY <2>1 DEF FromRatchetKey
  <2>3. PICK l \in a[2] : Own(p, l, "spk")
    BY <2>1 DEF FromPreKey
  <2>4. l # x
    BY <2>2, <2>3 DEF Own
  <2>5. a[2] = {x, l}
    BY <2>2, <2>3, <2>4
  <2> QED BY <2>2, <2>3, <2>5 DEF Own
<1> QED BY <1>2, <1>3 DEF ByPeer

\* The message that session_decrypt returns, and where
Record(p, g, m) == [at |-> Where(p, g), message |-> m, times |-> 1]

\* Session g of page p opens message m and is t after it.
OpensFirst(p, g, m, t) ==
    /\ Decrypts(p, g, m, t)
    /\ GoesOn(p)
    /\ ~ Consumed(Sessions(p)[g], messages[m].key)
    /\ Consumed(t, messages[m].key)

\* Session g, which was at one end of key's chain, is t now.
AtOtherEnd(p, g, m, t, key) ==
    /\ g \in DOMAIN Sessions(p)' /\ Sessions(p)'[g] = t
    /\ m \in DOMAIN messages /\ messages' = messages
    /\ Consumed(t, key)
    /\ TwoSides(key.chain, t.root_key)
    /\ Origin(p, t.root_key)

(***************************************************************************)
(* The session that opens a message, and the message                       *)
(***************************************************************************)
LEMMA Opening ==
    ASSUME SessionsInv, MessagesInv, SessionsInv', NEW p \in User, NEW g, NEW m, NEW t,
           OpensFirst(p, g, m, t), NEW key, key = messages[m].key
    PROVE  AtOtherEnd(p, g, m, t, key)
<1>1. PICK s : s = Sessions(p)[g]
  OBVIOUS
<1>2. PICK hdr : hdr = messages[m].hdr
  OBVIOUS
<1>3. PICK new : new = FreshKeyPair(p, "ratchet")
  OBVIOUS
<1>4. /\ g \in DOMAIN Sessions(p) /\ m \in DOMAIN messages
      /\ Put(p, g, t) /\ messages' = messages
      /\ Decrypted(s, t, hdr, new)
      /\ Consumed(t, key)
  BY <1>1, <1>2, <1>3 DEF OpensFirst, Decrypts
<1>5. g \in DOMAIN Sessions(p)' /\ Sessions(p)'[g] = t
  BY <1>4 DEF Put
<1>6. SessionOK(t) /\ SessionInv(t)
  BY <1>4 DEF Decrypted, Keeps
<1>7. key \in Key
  BY <1>4, UsedRoots
<1>8. Origin(p, t.root_key)
  <2>1. SessionAt(p, t)'
    BY <1>5 DEF SessionsInv
  <2>2. SecretsOf(p)' = SecretsOf(p)
    BY DEF OpensFirst, Decrypts, SecretsOf
  <2> QED BY <2>1, <2>2 DEF SessionAt, Origin
<1>9. TwoSides(key.chain, t.root_key)
  <2>1. PICK a : a = key.chain
    OBVIOUS
  <2>2. PICK b : b = t.root_key
    OBVIOUS
  <2>3. SameStart(a, b) /\ Len(a) % 2 # Len(b) % 2 /\ Len(a) \in Nat /\ Len(b) \in Nat
    BY <1>4, <1>6, <1>7, <2>1, <2>2, OtherEnd
  <2>4. TwoSides(a, b)
    BY <2>3, OtherParity DEF TwoSides
  <2> QED BY <2>1, <2>2, <2>4
<1> QED BY <1>4, <1>5, <1>8, <1>9 DEF AtOtherEnd

(***************************************************************************)
(* The message that is opened was sent by the other end ...                *)
(***************************************************************************)
LEMMA NewByPeer ==
    ASSUME KeyPairsInv, SessionsInv, MessagesInv, SessionsInv',
           NEW p \in User, NEW g, NEW m, NEW t, OpensFirst(p, g, m, t)
    PROVE  ByPeer(messages[m].key.chain, messages[m].from, p)
<1>1. PICK key : key = messages[m].key
  OBVIOUS
<1>2. AtOtherEnd(p, g, m, t, key)
  BY <1>1, Opening
<1>3. Origin(messages[m].from, key.chain)
  BY <1>1, <1>2 DEF AtOtherEnd, MessagesInv, MessageOK
<1>4. ByPeer(key.chain, messages[m].from, p)
  BY <1>2, <1>3, TwoEnds DEF AtOtherEnd
<1> QED BY <1>1, <1>4

(***************************************************************************)
(* ... and no other session that its page has initiated has this start.    *)
(***************************************************************************)
LEMMA NewIsOK ==
    ASSUME PagesInv, SessionsInv, MessagesInv, SessionsInv', StartsInv',
           NEW p \in User, NEW g, NEW m, NEW t, OpensFirst(p, g, m, t),
           NEW o, o = Record(p, g, m)
    PROVE  OpenedOK(o)'
<1>1. PICK key : key = messages[m].key
  OBVIOUS
<1>2. AtOtherEnd(p, g, m, t, key)
  BY <1>1, Opening
<1>3. loads'[p] = loads[p] /\ loads[p] \in Nat
  BY DEF OpensFirst, GoesOn, PagesInv
<1>4. o = [at |-> [by |-> p, handle |-> g, load |-> loads'[p]], message |-> m, times |-> 1]
  BY <1>3 DEF Record, Where
<1>5. ASSUME NEW h \in DOMAIN Sessions(p)', Len(key.chain) % 2 = 1,
             Len(Sessions(p)'[h].root_key) % 2 = 0,
             key.chain[2] = Sessions(p)'[h].root_key[2]
      PROVE  o.at = [by |-> p, handle |-> h, load |-> loads'[p]]
  <2>1. Len(t.root_key) % 2 = 0 /\ key.chain[2] = t.root_key[2]
    <3>1. 0 # 1
      OBVIOUS
    <3> QED BY <1>2, <1>5, <3>1 DEF AtOtherEnd, TwoSides, SameStart
  <2>2. h = g
    BY <1>2, <1>5, <2>1 DEF AtOtherEnd, StartsInv
  <2> QED BY <1>4, <2>2
<1>6. /\ o.at.by = p /\ o.at.handle = g /\ o.at.load = loads'[p] /\ o.message = m
      /\ loads'[p] \in 0 .. loads'[p]
  BY <1>3, <1>4
<1>7. m \in DOMAIN messages' /\ messages'[m].key = key
  BY <1>1, <1>2 DEF AtOtherEnd
<1>8. g \in DOMAIN Sessions(p)' /\ Consumed(Sessions(p)'[g], key)
  BY <1>2 DEF AtOtherEnd
<1>9. /\ o = [at |-> [by |-> p, handle |-> o.at.handle, load |-> o.at.load],
              message |-> m, times |-> 1]
      /\ o.at.load \in 0 .. loads'[p] /\ o.at.load = loads'[p]
      /\ o.at.handle \in DOMAIN Sessions(p)' /\ Consumed(Sessions(p)'[o.at.handle], key)
  BY <1>4, <1>6, <1>8
<1> QED BY <1>5, <1>6, <1>7, <1>9 DEF OpenedOK, Where

(***************************************************************************)
(* If the page has opened it before, it is a responder and has done so     *)
(* with another session since it was loaded.                               *)
(***************************************************************************)
LEMMA NewOnce ==
    ASSUME PagesInv, SessionsInv, MessagesInv, OpenedInv, SessionsInv',
           NEW p \in User, NEW g, NEW m, NEW t, OpensFirst(p, g, m, t),
           NEW q \in opened, OpenedOK(q)', q.message = m, q.at.by = p
    PROVE  q.at.handle # g /\ q.at.load = loads[p] /\ p \in Responders
<1>1. PICK key : key = messages[m].key
  OBVIOUS
<1>2. AtOtherEnd(p, g, m, t, key)
  BY <1>1, Opening
<1>3. loads'[p] = loads[p] /\ messages'[m].key = key
  BY <1>1, <1>2 DEF OpensFirst, GoesOn, AtOtherEnd
<1>4. q.at.load = loads[p] => q.at.handle # g
  BY NotOpenedBefore DEF OpensFirst
<1>5. /\ q.at.load # loads[p] => key.chain[2] \cap SpkKeys(p)' = {}
      /\ \A h \in DOMAIN Sessions(p)' :
            /\ Len(key.chain) % 2 = 1
            /\ Len(Sessions(p)'[h].root_key) % 2 = 0
            /\ key.chain[2] = Sessions(p)'[h].root_key[2]
            => q.at = [by |-> p, handle |-> h, load |-> loads[p]]
  BY <1>3 DEF OpenedOK, Where
<1>6. key.chain[2] = t.root_key[2] /\ Len(t.root_key) >= 2
  BY <1>2 DEF AtOtherEnd, TwoSides, SameStart
<1>7. CASE Len(key.chain) % 2 = 1 /\ Len(t.root_key) % 2 = 0
  <2>1. q.at = [by |-> p, handle |-> g, load |-> loads[p]]
    BY <1>2, <1>5, <1>6, <1>7 DEF AtOtherEnd
  <2> QED BY <1>4, <2>1
<1>8. CASE Len(t.root_key) % 2 = 1
  <2>1. /\ p \in Responders
        /\ IF Len(t.root_key) = 1 THEN t.dh_public \in SpkKeys(p)'
                                  ELSE t.root_key[2] \cap SpkKeys(p)' # {}
        /\ t.root_key \in RootKey
    BY <1>2, <1>8, SessionFields DEF AtOtherEnd, SessionsInv, SessionAt, SpkHeld
  <2>2. Len(t.root_key) # 1
    <3>1. \A n \in Nat : n >= 2 => n # 1
      OBVIOUS
    <3> QED BY <1>6, <2>1, <3>1, RootKeyLength
  <2> QED BY <1>4, <1>5, <1>6, <2>1, <2>2
<1> QED BY <1>2, <1>7, <1>8 DEF AtOtherEnd, TwoSides

(***************************************************************************)
(* Messages that are not opened stay with those who have opened them.      *)
(***************************************************************************)
LEMMA OpenedStay ==
    ASSUME PagesInv, KeyPairsInv, SessionsInv, MessagesInv, OpenedInv, TrafficStep,
           NEW o \in opened
    PROVE  /\ OpenedOK(o)'
           /\ \A i \in initiations : i \in initiations'
           /\ messages'[o.message] = messages[o.message]
           /\ ByPeer(messages[o.message].key.chain, messages[o.message].from, o.at.by)
<1>1. OpenedOK(o)
  BY DEF OpenedInv
<1>2. OpenedOK(o)'
  BY <1>1, OpenedKept
<1>3. messages'[o.message] = messages[o.message]
  BY <1>1, MessagesStay DEF OpenedOK
<1>4. ByPeer(messages[o.message].key.chain, messages[o.message].from, o.at.by)
  BY DEF OpenedInv, OpenedByPeer, ByPeer
<1>5. \A i \in initiations : i \in initiations'
  BY DEF TrafficStep, Grown
<1> QED BY <1>2, <1>3, <1>4, <1>5

(***************************************************************************)
(* Every step leaves the opened messages right.                            *)
(***************************************************************************)
LEMMA OpenedStep ==
    ASSUME PagesInv, KeyPairsInv, SessionsInv, MessagesInv, OpenedInv, TrafficStep,
           SessionsInv', StartsInv'
    PROVE  OpenedInv'
<1>1. CASE UNCHANGED opened
  <2>1. (\A o \in opened : OpenedOK(o))'
    BY <1>1, OpenedStay
  <2>2. OpenedByPeer'
    BY <1>1, OpenedStay DEF OpenedByPeer, ByPeer, Agreed
  <2>3. OpenedOnce'
    BY <1>1 DEF OpenedInv, OpenedOnce
  <2> QED BY <2>1, <2>2, <2>3 DEF OpenedInv
<1>2. ASSUME NEW p \in User, NEW g, NEW m, NEW t, OpensFirst(p, g, m, t),
             opened' = opened \cup {Record(p, g, m)}
      PROVE  OpenedInv'
  <2>1. PICK o : o = Record(p, g, m)
    OBVIOUS
  <2>2. /\ o.at = [by |-> p, handle |-> g, load |-> loads[p]] /\ o.message = m
        /\ opened' = opened \cup {o}
    BY <1>2, <2>1 DEF Record, Where
  <2>3. OpenedOK(o)'
    BY <1>2, <2>1, NewIsOK
  <2>4. (\A q \in opened : OpenedOK(q))'
    BY <2>2, <2>3, OpenedStay
  <2>5. /\ ByPeer(messages[m].key.chain, messages[m].from, p)
        /\ messages' = messages
        /\ \A i \in initiations : i \in initiations'
    BY <1>2, NewByPeer DEF OpensFirst, Decrypts, TrafficStep, Grown
  <2>6. OpenedByPeer'
    <3>1. ASSUME NEW q \in opened'
          PROVE  ByPeer(messages[q.message].key.chain, messages[q.message].from, q.at.by)
      <4>1. CASE q \in opened
        BY <4>1, OpenedStay
      <4>2. CASE q = o
        <5>1. q.message = m /\ q.at.by = p
          BY <2>2, <4>2
        <5> QED BY <2>5, <5>1
      <4> QED BY <2>2, <4>1, <4>2
    <3> QED BY <2>5, <3>1 DEF OpenedByPeer, ByPeer, Agreed
  <2>7. ASSUME NEW q \in opened, q.message = m, q.at.by = p
        PROVE  q.at.handle # g /\ q.at.load = loads[p] /\ p \in Responders
    BY <1>2, <2>7, NewOnce, OpenedStay
  <2>8. OpenedOnce'
    BY <2>2, <2>7 DEF OpenedInv, OpenedOnce
  <2> QED BY <2>4, <2>6, <2>8 DEF OpenedInv
<1>3. ASSUME NEW p \in User, NEW g, NEW m, NEW t, Decrypts(p, g, m, t),
             \A q \in User : GoesOn(q), ~ UNCHANGED opened
      PROVE  OpenedInv'
  <2>1. Opens(p, g, m, Sessions(p)[g], t)
    BY <1>3 DEF Decrypts
  <2>2. OpensFirst(p, g, m, t)
    BY <1>3, <2>1 DEF Opens, OpensFirst
  <2>3. TimesOpened(p, g, m) = 0
    BY <2>1, NotOpenedBefore DEF Opens
  <2>4. opened' = opened \cup {Record(p, g, m)}
    BY <2>1, <2>3 DEF Opens, Record
  <2> QED BY <1>2, <2>2, <2>4
<1> QED BY <1>1, <1>3 DEF TrafficStep, Restarts, Starts, Encrypts
-----------------------------------------------------------------------------
(* The inductive invariant *)

Inv == /\ PagesInv
       /\ HandlesInv
       /\ KeyPairsInv
       /\ SessionsInv
       /\ MessagesInv
       /\ SendersInv
       /\ StartsInv
       /\ OpenedInv

(***************************************************************************)
(* Pages that have just been loaded hold nothing, and nobody has called.   *)
(***************************************************************************)
LEMMA InitInv ==
    ASSUME Init
    PROVE  Inv
<1>1. PagesInv /\ HandlesInv
  BY InitStore
<1>2. \A p \in User : \A kind \in Kinds : DOMAIN instance[p][kind] = {}
  <2>1. \A p \in User : instance[p] = FreshInstance
    BY DEF Init
  <2> QED BY <2>1, FreshPage
<1>3. \A p \in User : /\ DOMAIN instance[p].identity = {}
                      /\ DOMAIN instance[p].spk = {}
                      /\ DOMAIN Sessions(p) = {}
  BY <1>2 DEF Kinds, Sessions
<1>4. /\ published = [identity |-> {}, spk |-> {}, opk |-> {}]
      /\ initiations = {} /\ responses = {} /\ messages = <<>> /\ opened = {}
  BY DEF Init
<1>5. KeyPairsInv
  BY <1>3, <1>4 DEF KeyPairsInv
<1>6. SessionsInv /\ StartsInv
  BY <1>3 DEF SessionsInv, StartsInv
<1>7. MessagesInv /\ SendersInv
  BY <1>3, <1>4 DEF MessagesInv, SendersInv, KeysUnique
<1>8. OpenedInv
  BY <1>4 DEF OpenedInv, OpenedByPeer, OpenedOnce
<1> QED BY <1>1, <1>5, <1>6, <1>7, <1>8 DEF Inv

(***************************************************************************)
(* The invariant is inductive.                                             *)
(***************************************************************************)
LEMMA NextInv ==
    ASSUME Inv, [Next]_vars
    PROVE  Inv'
<1>1. PagesInv' /\ HandlesInv'
  BY NextEffect, HandlesStep DEF Inv
<1>2. KeyPairsInv' /\ TrafficStep
  BY NextTraffic DEF Inv
<1>3. SessionsInv' /\ MessagesInv'
  BY <1>2, SessionsStep DEF Inv
<1>4. SendersInv' /\ StartsInv'
  BY <1>2, SendersStep DEF Inv
<1>5. OpenedInv'
  BY <1>2, <1>3, <1>4, OpenedStep DEF Inv
<1> QED BY <1>1, <1>2, <1>3, <1>4, <1>5 DEF Inv

-----------------------------------------------------------------------------
(* Theorems *)

(***************************************************************************)
(* The invariant of the bindings: what the maps hold was filed by a call   *)
(* of its page, under a handle of its own, and every session and message   *)
(* leads back to a key agreement whose keys its party had.                 *)
(***************************************************************************)
THEOREM WasmInvariant == Spec => []Inv
<1>1. Init => Inv
  BY InitInv
<1>2. Inv /\ [Next]_vars => Inv'
  BY NextInv
<1> QED BY <1>1, <1>2, PTL DEF Spec

(***************************************************************************)
(* No call that returns an error has taken a handle: the handles given to  *)
(* a page are those its counter has passed, until a panic in               *)
(* Session::decrypt has left the session map borrowed.                     *)
(***************************************************************************)
THEOREM HandlesNotWasted == Spec => []NoHandleWasted
<1>1. Inv => NoHandleWasted
  BY DEF Inv, HandlesInv, NoHandleWasted
<1> QED BY <1>1, WasmInvariant, PTL

(***************************************************************************)
(* The maps of each page are one HandleStore: whatever the pages call, a   *)
(* handle is for one thing from the call that returned it to the one that  *)
(* destroys it, also after a panic, until the page is loaded again.        *)
(***************************************************************************)
THEOREM StoreImplements == Spec => ImplementsStore
<1>1. Init => Store!Init
  BY InitStore
<1>2. Inv /\ [Next]_vars => [Store!Next]_(Store!vars)
  BY NextEffect, StoreImplemented DEF Inv
<1> QED BY <1>1, <1>2, WasmInvariant, PTL DEF Spec, ImplementsStore, Store!Spec

(***************************************************************************)
(* Every map holds what it is for: key pairs of its page, signed pre-keys  *)
(* and sessions whose fields have their types, under handles that the      *)
(* page's counter has passed.                                              *)
(***************************************************************************)
THEOREM TypeCorrect == Spec => []TypeOK
<1>1. ASSUME Inv
      PROVE  TypeOK
  <2>1. ASSUME NEW p \in User, NEW k \in Kinds
        PROVE  DOMAIN instance[p][k] \subseteq 1 .. instance[p].next_id - 1
    BY <1>1 DEF Inv, HandlesInv
  <2>2. ASSUME NEW p \in User, NEW h \in DOMAIN instance[p].identity
        PROVE  instance[p].identity[h] \in Keys
    BY <1>1 DEF Inv, KeyPairsInv, IdentityKeys, Made
  <2>3. ASSUME NEW p \in User, NEW h \in DOMAIN instance[p].spk
        PROVE  instance[p].spk[h] \in [key : Keys, signer : Keys]
    BY <1>1 DEF Inv, KeyPairsInv, SpkPairs, Made
  <2>4. ASSUME NEW p \in User, NEW h \in DOMAIN instance[p].session
        PROVE  /\ instance[p].session[h].dh_public \in Keys
               /\ instance[p].session[h].remote_dh_public \in Keys \cup {None}
               /\ instance[p].session[h].previous_sending_chain_length \in Nat
    <3>1. SessionOK(instance[p].session[h])
      BY <1>1 DEF Inv, SessionsInv, Sessions, SessionAt
    <3> QED BY <3>1, SessionFields
  <2> QED BY <2>1, <2>2, <2>3, <2>4 DEF TypeOK
<1> QED BY <1>1, WasmInvariant, PTL

(***************************************************************************)
(* No two messages are sealed under one key, whatever the pages do with    *)
(* their handles: two sessions that x3dh gave one secret ratchet with key  *)
(* pairs of their own before either of them encrypts.                      *)
(***************************************************************************)
THEOREM MessageKeysUnique == Spec => []KeysUnique
<1>1. Inv => KeysUnique
  BY DEF Inv, SendersInv
<1> QED BY <1>1, WasmInvariant, PTL

(***************************************************************************)
(* A message that session_decrypt returns was sent by the other party of   *)
(* the key agreement its chain starts from, or by the page itself, if it   *)
(* has made both ends of the session of key pairs of its own: whatever     *)
(* secrets, pre-keys and sessions the pages have mixed up.                 *)
(***************************************************************************)
THEOREM MessagesOpenedByPeer == Spec => []OpenedByPeer
<1>1. Inv => OpenedByPeer
  BY DEF Inv, OpenedInv
<1> QED BY <1>1, WasmInvariant, PTL

(***************************************************************************)
(* A page that gets a message back twice is a responder that has started   *)
(* two sessions from one agreement since it was loaded; a session returns  *)
(* no message twice.                                                       *)
(***************************************************************************)
THEOREM MessagesOpenedOnce == Spec => []OpenedOnce
<1>1. Inv => OpenedOnce
  BY DEF Inv, OpenedInv
<1> QED BY <1>1, WasmInvariant, PTL
=============================================================================
