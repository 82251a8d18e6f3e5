---------------------------- MODULE RatchetProofs ----------------------------
(***************************************************************************)
(* Proofs about the two sessions of Ratchet, for every limit on skipped    *)
(* keys and every bound on chains, key pairs and deliveries.               *)
(*                                                                         *)
(* The first part shows what each operation on a Session does to           *)
(* SessionInv and Consumed, the second that IInv is inductive, the third   *)
(* draws the conclusions.  The fourth relates the two sessions, when no    *)
(* message that was opened comes again and none is damaged (InStep), and   *)
(* the last compares the skipping loop with its closed form.               *)
(***************************************************************************)
EXTENDS MCRatchet, RatchetSessionProofs

-----------------------------------------------------------------------------
(* Operations on one session *)

(***************************************************************************)
(* The fields of a well-typed session.                                     *)
(***************************************************************************)
LEMMA SessionFields ==
    ASSUME NEW s, SessionOK(s)
    PROVE  /\ s.root_key \in RootKey /\ Len(s.root_key) \in Nat
           /\ s.dh_public \in KeyPair
           /\ s.remote_dh_public \in KeyPair \cup {None}
           /\ s.sending_chain # None =>
                 /\ s.sending_chain \in Chain
                 /\ Len(s.sending_chain.root) \in Nat
                 /\ s.sending_chain.index \in Nat
           /\ s.receiving_chain # None =>
                 /\ s.receiving_chain \in Chain
                 /\ Len(s.receiving_chain.root) \in Nat
                 /\ s.receiving_chain.index \in Nat
           /\ s.previous_sending_chain_length \in Nat
           /\ \A k \in DOMAIN s.skipped_keys :
                 /\ s.skipped_keys[k] \in Key
                 /\ Len(s.skipped_keys[k].chain) \in Nat
                 /\ s.skipped_keys[k].n \in Nat
BY DEF SessionOK, SessionWith, Chain, Key, RootKey

(***************************************************************************)
(* Skip stores keys of the receiving chain only, and moves its index past  *)
(* them; the type of the session is kept.                                  *)
(***************************************************************************)
LEMMA SkipType ==
    ASSUME NEW s, SessionOK(s), s.receiving_chain # None,
           NEW dh \in KeyPair, NEW until \in Nat
    PROVE  /\ SessionOK(Skip(s, dh, until))
           /\ Skip(s, dh, until).receiving_chain # None
           /\ Skip(s, dh, until).receiving_chain.root = s.receiving_chain.root
           /\ Skip(s, dh, until).receiving_chain.index = SkipEnd(s, dh, until)
           /\ Skip(s, dh, until).root_key = s.root_key
           /\ Skip(s, dh, until).dh_public = s.dh_public
           /\ Skip(s, dh, until).remote_dh_public = s.remote_dh_public
           /\ Skip(s, dh, until).sending_chain = s.sending_chain
<1> DEFINE end   == SkipEnd(s, dh, until)
           fresh == KeyNames(s, dh, end)
           keys  == [k \in DOMAIN s.skipped_keys \cup fresh |->
                        IF k \in fresh THEN MessageKeyAt(s.receiving_chain, k[2])
                                       ELSE s.skipped_keys[k]]
           chain == [s.receiving_chain EXCEPT !.index = end]
<1>1. end \in Nat
  BY SessionFields, SkipEndType
<1>2. fresh \subseteq KeyPair \X Nat
  BY <1>1, SessionFields DEF KeyNames
<1>3. \A k \in fresh : MessageKeyAt(s.receiving_chain, k[2]) \in Key
  BY <1>2, SessionFields DEF MessageKeyAt, Chain, Key
<1>4. /\ DOMAIN keys \subseteq KeyPair \X Nat
      /\ keys \in [DOMAIN keys -> Key]
  BY <1>2, <1>3, SessionFields DEF SessionOK
<1>5. chain \in Chain /\ chain.root = s.receiving_chain.root /\ chain.index = end
  BY <1>1, SessionFields DEF Chain
<1>6. Skip(s, dh, until) = [s EXCEPT !.receiving_chain = chain, !.skipped_keys = keys]
  BY SessionFields DEF Skip, SessionOK, SessionWith
<1>7. chain # None
  BY <1>5, NoneAssumption
<1> HIDE DEF end, fresh, keys, chain
<1>8. LET t == Skip(s, dh, until)
      IN  t = [root_key          |-> s.root_key,
               dh_public         |-> s.dh_public,
               remote_dh_public  |-> s.remote_dh_public,
               sending_chain     |-> s.sending_chain,
               receiving_chain   |-> chain,
               previous_sending_chain_length |-> s.previous_sending_chain_length,
               skipped_keys      |-> keys]
  BY <1>6 DEF SessionOK, SessionWith
<1>9. Skip(s, dh, until).receiving_chain.index = SkipEnd(s, dh, until)
  BY <1>5, <1>8 DEF end
<1> QED BY <1>4, <1>5, <1>7, <1>8, <1>9, SessionFields DEF SessionOK, SessionWith

(***************************************************************************)
(* The keys Skip stores are new ones, behind the receiving chain's index:  *)
(* no key is stored twice, and a consumed key is not stored again.         *)
(***************************************************************************)
LEMMA SkipInv ==
    ASSUME NEW s, SessionOK(s), s.receiving_chain # None,
           NEW dh \in KeyPair, NEW until \in Nat,
           NEW parity, SessionInv(s, parity)
    PROVE  /\ SessionInv(Skip(s, dh, until), parity)
           /\ \A key \in Key : Consumed(s, key) => Consumed(Skip(s, dh, until), key)
<1> DEFINE t     == Skip(s, dh, until)
           end   == SkipEnd(s, dh, until)
           fresh == KeyNames(s, dh, end)
<1>1. /\ SessionOK(t)
      /\ t.receiving_chain # None
      /\ t.receiving_chain.root = s.receiving_chain.root
      /\ t.receiving_chain.index = end
      /\ t.root_key = s.root_key
      /\ t.dh_public = s.dh_public
      /\ t.remote_dh_public = s.remote_dh_public
      /\ t.sending_chain = s.sending_chain
  BY SkipType
<1>2. end \in Nat /\ end >= s.receiving_chain.index
  BY SkipEndType, SessionFields
<1>3. /\ DOMAIN t.skipped_keys = DOMAIN s.skipped_keys \cup fresh
      /\ \A k \in fresh : t.skipped_keys[k] = MessageKeyAt(s.receiving_chain, k[2])
      /\ \A k \in DOMAIN s.skipped_keys \ fresh :
            t.skipped_keys[k] = s.skipped_keys[k]
  BY DEF Skip, SessionOK, SessionWith
<1>4. /\ s.receiving_chain.index \in Nat
      /\ Len(s.receiving_chain.root) \in Nat
      /\ \A k \in DOMAIN s.skipped_keys : /\ s.skipped_keys[k] \in Key
                                          /\ Len(s.skipped_keys[k].chain) \in Nat
                                          /\ s.skipped_keys[k].n \in Nat
  BY SessionFields
<1>5. \A k \in fresh : /\ k[1] = dh /\ k = <<dh, k[2]>>
                       /\ k[2] \in Nat
                       /\ s.receiving_chain.index <= k[2] /\ k[2] < end
                       /\ t.skipped_keys[k].chain = s.receiving_chain.root
                       /\ t.skipped_keys[k].n = k[2]
  <2> HIDE DEF t, end
  <2>1. ASSUME NEW k \in fresh
        PROVE  k[1] = dh /\ k = <<dh, k[2]>>
               /\ k[2] \in s.receiving_chain.index .. (end - 1)
    BY DEF KeyNames
  <2> HIDE DEF fresh
  <2>2. \A k \in fresh : t.skipped_keys[k] = MessageKeyAt(s.receiving_chain, k[2])
    BY <1>3
  <2>3. ASSUME NEW k \in fresh
        PROVE  /\ k[2] \in Nat
               /\ s.receiving_chain.index <= k[2] /\ k[2] < end
    <3>1. k[2] \in s.receiving_chain.index .. (end - 1)
      BY <2>1
    <3> QED BY <1>2, <1>4, <3>1
  <2>4. ASSUME NEW k \in fresh
        PROVE  /\ t.skipped_keys[k].chain = s.receiving_chain.root
               /\ t.skipped_keys[k].n = k[2]
    <3>1. t.skipped_keys[k] = [chain |-> s.receiving_chain.root, n |-> k[2]]
      BY <2>2, Zenon DEF MessageKeyAt
    <3> QED BY <3>1
  <2> QED BY <2>1, <2>3, <2>4
<1> HIDE DEF t, end, fresh
\* A key behind s is behind t, and is none of the fresh ones.
<1>6. ASSUME NEW key \in Key, ReceivingPast(s, key)
      PROVE  /\ ReceivingPast(t, key)
             /\ \A k \in fresh : t.skipped_keys[k] # key
  <2>1. Len(key.chain) \in Nat /\ key.n \in Nat
    BY DEF Key, RootKey
  <2>2. ReceivingPast(t, key)
    <3>1. /\ Len(key.chain) % 2 = Len(t.receiving_chain.root) % 2
          /\ Len(key.chain) <= Len(t.receiving_chain.root)
      BY <1>1, <1>6 DEF ReceivingPast
    <3>2. Len(key.chain) = Len(t.receiving_chain.root) => key.n < end
      <4>1. ASSUME Len(key.chain) = Len(s.receiving_chain.root) PROVE key.n < end
        <5>1. key.n < s.receiving_chain.index
          BY <1>6, <4>1 DEF ReceivingPast
        <5> QED BY <1>2, <1>4, <2>1, <5>1
      <4> QED BY <1>1, <4>1
    <3> QED BY <1>1, <3>1, <3>2 DEF ReceivingPast
  <2>3. ASSUME NEW k \in fresh, t.skipped_keys[k] = key
        PROVE  FALSE
    <3>1. key.chain = s.receiving_chain.root /\ key.n >= s.receiving_chain.index
      BY <1>5, <2>3
    <3> QED BY <1>4, <1>6, <2>1, <3>1 DEF ReceivingPast
  <2> QED BY <2>2, <2>3
<1>7. \A k \in DOMAIN t.skipped_keys : ReceivingPast(t, t.skipped_keys[k])
  <2>1. \A k \in fresh : ReceivingPast(t, t.skipped_keys[k])
    <3>1. ASSUME NEW k \in fresh PROVE ReceivingPast(t, t.skipped_keys[k])
      <4>1. /\ t.skipped_keys[k].chain = t.receiving_chain.root
            /\ t.skipped_keys[k].n < t.receiving_chain.index
            /\ Len(t.receiving_chain.root) \in Nat
        BY <1>1, <1>4, <1>5
      <4> QED BY <1>1, <4>1 DEF ReceivingPast
    <3> QED BY <3>1
  <2>2. \A k \in DOMAIN s.skipped_keys \ fresh : ReceivingPast(t, t.skipped_keys[k])
    BY <1>3, <1>4, <1>6 DEF SessionInv
  <2> QED BY <2>1, <2>2, <1>3
<1>8. \A j, k \in DOMAIN t.skipped_keys :
          t.skipped_keys[j] = t.skipped_keys[k] => j = k
  <2>1. ASSUME NEW j \in fresh, NEW k \in fresh, t.skipped_keys[j] = t.skipped_keys[k]
        PROVE  j = k
    BY <1>5, <2>1
  <2>2. ASSUME NEW j \in fresh, NEW k \in DOMAIN s.skipped_keys \ fresh
        PROVE  t.skipped_keys[j] # t.skipped_keys[k]
    BY <1>3, <1>4, <1>6 DEF SessionInv
  <2>3. \A j, k \in DOMAIN s.skipped_keys \ fresh :
            t.skipped_keys[j] = t.skipped_keys[k] => j = k
    BY <1>3 DEF SessionInv
  <2> QED BY <1>3, <2>1, <2>2, <2>3
<1>9. SessionInv(t, parity)
  BY <1>1, <1>7, <1>8 DEF SessionInv
<1>10. ASSUME NEW key \in Key, Consumed(s, key)
       PROVE  Consumed(t, key)
  BY <1>3, <1>6, <1>10 DEF Consumed
<1> QED BY <1>9, <1>10 DEF t

(***************************************************************************)
(* Taking a stored key out of the map consumes it, for good.               *)
(***************************************************************************)
LEMMA DropSkippedKeyInv ==
    ASSUME NEW s, SessionOK(s), NEW hdr, HasSkippedKey(s, hdr),
           NEW parity, SessionInv(s, parity)
    PROVE  LET t == DropSkippedKey(s, hdr)
           IN  /\ SessionOK(t)
               /\ SessionInv(t, parity)
               /\ t.root_key = s.root_key
               /\ t.sending_chain = s.sending_chain
               /\ t.receiving_chain = s.receiving_chain
               /\ t.remote_dh_public = s.remote_dh_public
               /\ \A key \in Key : Consumed(s, key) => Consumed(t, key)
               /\ Consumed(t, SkippedKey(s, hdr))
               /\ ~ Consumed(s, SkippedKey(s, hdr))
<1> DEFINE t    == DropSkippedKey(s, hdr)
           name == <<hdr.dh, hdr.n>>
           kept == DOMAIN s.skipped_keys \ {name}
           keys == [k \in kept |-> s.skipped_keys[k]]
<1>1. t = [root_key          |-> s.root_key,
           dh_public         |-> s.dh_public,
           remote_dh_public  |-> s.remote_dh_public,
           sending_chain     |-> s.sending_chain,
           receiving_chain   |-> s.receiving_chain,
           previous_sending_chain_length |-> s.previous_sending_chain_length,
           skipped_keys      |-> keys]
  BY DEF DropSkippedKey, SessionOK, SessionWith
<1>2. /\ DOMAIN keys = kept
      /\ kept \subseteq KeyPair \X Nat
      /\ keys \in [kept -> Key]
  BY SessionFields DEF SessionOK
<1>3. name \in DOMAIN s.skipped_keys /\ SkippedKey(s, hdr) = s.skipped_keys[name]
  BY DEF HasSkippedKey, SkippedKey
<1> HIDE DEF t, keys
<1>4. SessionOK(t)
  BY <1>1, <1>2, SessionFields DEF SessionOK, SessionWith
<1>5. \A k \in kept : t.skipped_keys[k] = s.skipped_keys[k]
  BY <1>1 DEF keys
<1>6. \A key : ReceivingPast(s, key) <=> ReceivingPast(t, key)
  BY <1>1 DEF ReceivingPast
<1>7. SessionInv(t, parity)
  <2>1. \A k \in kept : ReceivingPast(t, t.skipped_keys[k])
    BY <1>5, <1>6 DEF SessionInv
  <2>2. \A j, k \in kept : t.skipped_keys[j] = t.skipped_keys[k] => j = k
    BY <1>5 DEF SessionInv
  <2>3. DOMAIN t.skipped_keys = kept
    BY <1>1, <1>2
  <2> HIDE DEF kept
  <2> QED BY <1>1, <2>1, <2>2, <2>3 DEF SessionInv
<1>8. \A key \in Key : Consumed(s, key) => Consumed(t, key)
  BY <1>1, <1>2, <1>5, <1>6 DEF Consumed
<1>9. Consumed(t, SkippedKey(s, hdr)) /\ ~ Consumed(s, SkippedKey(s, hdr))
  BY <1>1, <1>2, <1>3, <1>5, <1>6 DEF Consumed, SessionInv
<1> QED BY <1>1, <1>4, <1>7, <1>8, <1>9 DEF t

(***************************************************************************)
(* Using the next key of the receiving chain consumes it, for good.        *)
(***************************************************************************)
LEMMA AfterReceiveInv ==
    ASSUME NEW s, SessionOK(s), s.receiving_chain # None,
           NEW parity, SessionInv(s, parity)
    PROVE  LET t     == AfterReceive(s)
               used  == NextMessageKey(s.receiving_chain)
           IN  /\ SessionOK(t)
               /\ SessionInv(t, parity)
               /\ t.root_key = s.root_key
               /\ t.sending_chain = s.sending_chain
               /\ \A key \in Key : Consumed(s, key) => Consumed(t, key)
               /\ used \in Key
               /\ Consumed(t, used)
               /\ ~ Consumed(s, used)
<1> DEFINE t     == AfterReceive(s)
           chain == Advanced(s.receiving_chain)
           used  == NextMessageKey(s.receiving_chain)
<1>1. /\ chain \in Chain
      /\ chain # None
      /\ chain.root = s.receiving_chain.root
      /\ chain.index = s.receiving_chain.index + 1
      /\ s.receiving_chain.index \in Nat
      /\ Len(chain.root) \in Nat
  BY SessionFields, NoneAssumption DEF Advanced, Chain
<1>2. /\ used \in Key
      /\ used.chain = s.receiving_chain.root
      /\ used.n = s.receiving_chain.index
  BY SessionFields DEF NextMessageKey, MessageKeyAt, Chain, Key
<1> HIDE DEF chain, used
<1>3. t = [root_key          |-> s.root_key,
           dh_public         |-> s.dh_public,
           remote_dh_public  |-> s.remote_dh_public,
           sending_chain     |-> s.sending_chain,
           receiving_chain   |-> chain,
           previous_sending_chain_length |-> s.previous_sending_chain_length,
           skipped_keys      |-> s.skipped_keys]
  BY DEF AfterReceive, SessionOK, SessionWith, chain
<1> HIDE DEF t
<1>4. SessionOK(t)
  BY <1>1, <1>3, SessionFields DEF SessionOK, SessionWith
<1>5. ASSUME NEW key \in Key, ReceivingPast(s, key)
      PROVE  ReceivingPast(t, key) /\ key # used
  <2>1. key.n \in Nat
    BY DEF Key
  <2>2. /\ Len(key.chain) % 2 = Len(t.receiving_chain.root) % 2
        /\ Len(key.chain) <= Len(t.receiving_chain.root)
    BY <1>1, <1>3, <1>5 DEF ReceivingPast
  <2>3. Len(key.chain) = Len(s.receiving_chain.root) => key.n < s.receiving_chain.index
    BY <1>5 DEF ReceivingPast
  <2>4. Len(key.chain) = Len(t.receiving_chain.root) => key.n < t.receiving_chain.index
    BY <1>1, <1>3, <2>1, <2>3
  <2>5. key # used
    BY <1>1, <1>2, <2>1, <2>3
  <2> QED BY <1>1, <1>3, <2>2, <2>4, <2>5 DEF ReceivingPast
<1>6. ReceivingPast(t, used)
  <2>1. /\ t.receiving_chain # None
        /\ used.chain = t.receiving_chain.root
        /\ Len(t.receiving_chain.root) \in Nat
        /\ used.n < t.receiving_chain.index
    BY <1>1, <1>2, <1>3
  <2> QED BY <2>1 DEF ReceivingPast
<1>7. \A k \in DOMAIN s.skipped_keys :
          /\ ReceivingPast(t, s.skipped_keys[k])
          /\ s.skipped_keys[k] # used
  BY <1>5, SessionFields DEF SessionInv
<1>8. SessionInv(t, parity)
  BY <1>1, <1>3, <1>7 DEF SessionInv
<1>9. \A key \in Key : Consumed(s, key) => Consumed(t, key)
  BY <1>3, <1>5 DEF Consumed
<1>10. Consumed(t, used)
  BY <1>3, <1>6, <1>7 DEF Consumed
<1>11. ~ Consumed(s, used)
  BY <1>2, <1>5 DEF Consumed
<1> QED BY <1>2, <1>3, <1>4, <1>8, <1>9, <1>10, <1>11 DEF t, used

(***************************************************************************)
(* Parities of neighbouring lengths.                                       *)
(***************************************************************************)
LEMMA ParityOfNext ==
    \A n \in Nat : /\ (n + 2) % 2 = n % 2
                   /\ (n + 1) % 2 # n % 2
                   /\ n % 2 \in {0, 1}
OBVIOUS

(***************************************************************************)
(* A root key derivation makes the name one longer.                        *)
(***************************************************************************)
LEMMA RatchetStepType ==
    ASSUME NEW root \in RootKey, NEW j \in KeyPair, NEW k \in KeyPair
    PROVE  /\ RatchetStep(root, DH(j, k)) \in RootKey
           /\ Len(RatchetStep(root, DH(j, k))) = Len(root) + 1
           /\ Len(root) \in Nat
           /\ NewChain(root) \in Chain
           /\ NewChain(root) # None
           /\ NewChain(root).root = root
           /\ NewChain(root).index = 0
<1>1. DH(j, k) \in {Secret} \cup SUBSET KeyPair
  BY DEF DH
<1>2. NewChain(root) \in Chain
  BY DEF NewChain, Chain
<1> QED BY <1>1, <1>2, NoneAssumption DEF RatchetStep, RootKey, NewChain

(***************************************************************************)
(* A DH ratchet derives two longer root keys, and leaves every key that    *)
(* was behind the session behind it.                                       *)
(***************************************************************************)
LEMMA DhRatchetInv ==
    ASSUME NEW s, SessionOK(s),
           NEW dh \in KeyPair, NEW new \in KeyPair, new[2] > 0,
           NEW parity, SessionInv(s, parity)
    PROVE  LET t == DhRatchet(s, dh, new)
           IN  /\ SessionOK(t)
               /\ SessionInv(t, parity)
               /\ t.receiving_chain # None
               /\ t.remote_dh_public = dh
               /\ t.skipped_keys = s.skipped_keys
               /\ \A key \in Key : /\ Consumed(s, key) => Consumed(t, key)
                                   /\ SendingPast(s, key) => SendingPast(t, key)
<1> DEFINE t    == DhRatchet(s, dh, new)
           recv == RatchetStep(s.root_key, DH(s.dh_public, dh))
           send == RatchetStep(recv, DH(new, dh))
           pn   == IF s.sending_chain = None THEN 0 ELSE s.sending_chain.index
<1>1. s.root_key \in RootKey /\ s.dh_public \in KeyPair
  BY SessionFields
<1>2. recv \in RootKey /\ Len(recv) = Len(s.root_key) + 1 /\ Len(s.root_key) \in Nat
  BY <1>1, RatchetStepType
<1>3. send \in RootKey /\ Len(send) = Len(s.root_key) + 2
  <2> HIDE DEF recv
  <2>1. send \in RootKey /\ Len(send) = Len(recv) + 1
    BY <1>2, RatchetStepType
  <2> QED BY <1>2, <2>1
<1>4. pn \in Nat
  BY SessionFields
<1>5. t = [root_key          |-> send,
           dh_public         |-> new,
           remote_dh_public  |-> dh,
           sending_chain     |-> NewChain(send),
           receiving_chain   |-> NewChain(recv),
           previous_sending_chain_length |-> pn,
           skipped_keys      |-> s.skipped_keys]
  <2>1. t = [s EXCEPT !.root_key         = send,
                      !.dh_public        = new,
                      !.remote_dh_public = dh,
                      !.receiving_chain  = NewChain(recv),
                      !.sending_chain    = NewChain(send),
                      !.previous_sending_chain_length = pn]
    BY Zenon DEF DhRatchet
  <2> HIDE DEF t, recv, send, pn
  <2> QED BY <2>1 DEF SessionOK, SessionWith
<1> HIDE DEF t, recv, send, pn
<1>6. /\ NewChain(recv) \in Chain /\ NewChain(recv) # None /\ NewChain(recv).root = recv
      /\ NewChain(send) \in Chain /\ NewChain(send) # None /\ NewChain(send).root = send
  BY <1>1, <1>2, <1>3, RatchetStepType
<1>7. SessionOK(t)
  BY <1>3, <1>4, <1>5, <1>6 DEF SessionOK, SessionWith
<1>8. ASSUME NEW key \in Key, ReceivingPast(s, key)
      PROVE  ReceivingPast(t, key)
  <2>1. /\ Len(key.chain) \in Nat
        /\ Len(s.receiving_chain.root) + 1 = Len(s.root_key)
        /\ Len(s.receiving_chain.root) \in Nat
        /\ Len(key.chain) % 2 = Len(s.receiving_chain.root) % 2
        /\ Len(key.chain) <= Len(s.receiving_chain.root)
    <3>1. Len(key.chain) \in Nat
      BY DEF Key, RootKey
    <3> QED BY <1>8, <3>1, SessionFields DEF ReceivingPast, SessionInv
  <2>2. Len(recv) = Len(s.receiving_chain.root) + 2
    BY <1>2, <2>1
  <2>3. Len(recv) % 2 = Len(s.receiving_chain.root) % 2
    BY <2>1, <2>2, ParityOfNext, Zenon
  <2>4. /\ Len(key.chain) % 2 = Len(recv) % 2
        /\ Len(key.chain) < Len(recv)
    <3>1. Len(key.chain) % 2 = Len(recv) % 2
      BY <2>1, <2>3, Zenon
    <3>2. Len(key.chain) < Len(recv)
      BY <2>1, <2>2
    <3> QED BY <3>1, <3>2
  <2>5. t.receiving_chain # None /\ t.receiving_chain.root = recv
    BY <1>5, <1>6
  <2>6. Len(key.chain) % 2 = Len(t.receiving_chain.root) % 2
    BY <2>4, <2>5, Zenon
  <2>7. /\ Len(key.chain) <= Len(t.receiving_chain.root)
        /\ Len(key.chain) # Len(t.receiving_chain.root)
    BY <1>2, <2>1, <2>4, <2>5
  <2> QED BY <2>5, <2>6, <2>7 DEF ReceivingPast
<1>9. Len(send) % 2 = Len(s.root_key) % 2
  BY <1>2, <1>3, ParityOfNext, Zenon
<1>10. ASSUME NEW key \in Key, SendingPast(s, key)
      PROVE  SendingPast(t, key)
  <2>1. /\ Len(key.chain) \in Nat
        /\ Len(key.chain) % 2 = Len(s.root_key) % 2
        /\ Len(key.chain) <= Len(s.root_key)
    <3>1. Len(key.chain) \in Nat
      BY DEF Key, RootKey
    <3> QED BY <1>10, <3>1 DEF SendingPast
  <2>2. Len(key.chain) % 2 = Len(send) % 2
    BY <1>9, <2>1, Zenon
  <2>3. Len(key.chain) < Len(send)
    BY <1>2, <1>3, <2>1
  <2>4. t.sending_chain # None /\ t.root_key = send
    BY <1>5, <1>6
  <2>5. Len(key.chain) % 2 = Len(t.root_key) % 2
    BY <2>2, <2>4, Zenon
  <2>6. /\ Len(key.chain) <= Len(t.root_key)
        /\ Len(key.chain) # Len(t.root_key)
    BY <1>2, <1>3, <2>1, <2>3, <2>4
  <2> QED BY <2>4, <2>5, <2>6 DEF SendingPast
<1>11. \A k \in DOMAIN s.skipped_keys : ReceivingPast(t, s.skipped_keys[k])
  BY <1>8, SessionFields DEF SessionInv
<1>12. SessionInv(t, parity)
  <2>1. /\ t.root_key = send /\ t.dh_public = new /\ t.skipped_keys = s.skipped_keys
        /\ t.sending_chain # None /\ t.sending_chain.root = send
        /\ t.receiving_chain # None /\ Len(t.receiving_chain.root) + 1 = Len(send)
    BY <1>2, <1>3, <1>5, <1>6
  <2>2. Len(send) % 2 = parity
    BY <1>9 DEF SessionInv
  <2> QED BY <1>11, <2>1, <2>2 DEF SessionInv
<1>13. \A key \in Key : Consumed(s, key) => Consumed(t, key)
  BY <1>5, <1>8 DEF Consumed
<1> QED BY <1>5, <1>6, <1>7, <1>10, <1>12, <1>13 DEF t

\* The session t that an operation leaves of s is as good as s, and is past
\* every key that s is past.
Keeps(s, t, parity) ==
    /\ SessionOK(t)
    /\ SessionInv(t, parity)
    /\ \A key \in Key : /\ Consumed(s, key) => Consumed(t, key)
                        /\ SendingPast(s, key) => SendingPast(t, key)

(***************************************************************************)
(* Keeping is transitive: decrypt composes the operations that keep.       *)
(***************************************************************************)
LEMMA KeepsTransitive ==
    ASSUME NEW s, NEW t, NEW u, NEW parity,
           Keeps(s, t, parity), Keeps(t, u, parity)
    PROVE  Keeps(s, u, parity)
BY DEF Keeps

(***************************************************************************)
(* Skip keeps: it only stores keys that lie ahead of the receiving chain,  *)
(* and moves the chain past them.                                          *)
(***************************************************************************)
LEMMA SkipKeeps ==
    ASSUME NEW s, SessionOK(s), s.receiving_chain # None,
           NEW dh \in KeyPair, NEW until \in Nat,
           NEW parity, SessionInv(s, parity)
    PROVE  /\ Keeps(s, Skip(s, dh, until), parity)
           /\ Skip(s, dh, until).receiving_chain # None
<1>1. \A key \in Key : SendingPast(s, key) => SendingPast(Skip(s, dh, until), key)
  BY SkipType DEF SendingPast
<1> QED BY <1>1, SkipType, SkipInv DEF Keeps

(***************************************************************************)
(* skip_current_receiving_chain keeps, with an old chain to skip or not.   *)
(***************************************************************************)
LEMMA OldChainKeeps ==
    ASSUME NEW s, SessionOK(s), NEW hdr \in Header,
           NEW parity, SessionInv(s, parity)
    PROVE  Keeps(s, AfterOldChain(s, hdr), parity)
<1>1. CASE HasOldChain(s)
  <2>1. /\ s.receiving_chain # None
        /\ s.remote_dh_public \in KeyPair
        /\ hdr.pn \in Nat
    BY <1>1, SessionFields DEF HasOldChain, Header
  <2> QED BY <1>1, <2>1, SkipKeeps DEF AfterOldChain
<1>2. CASE ~ HasOldChain(s)
  BY <1>2 DEF AfterOldChain, Keeps
<1> QED BY <1>1, <1>2

(***************************************************************************)
(* What decrypt does before its third step keeps, with a DH ratchet or     *)
(* without, and leaves a session with a receiving chain.                   *)
(***************************************************************************)
LEMMA RatchetKeeps ==
    ASSUME NEW s, SessionOK(s), NEW hdr \in Header,
           NeedRatchet(s, hdr) \/ s.receiving_chain # None,
           NEW new \in KeyPair, new[2] > 0,
           NEW parity, SessionInv(s, parity)
    PROVE  /\ Keeps(s, AfterRatchet(s, hdr, new), parity)
           /\ AfterRatchet(s, hdr, new).receiving_chain # None
<1>1. hdr.dh \in KeyPair
  BY DEF Header
<1>2. CASE NeedRatchet(s, hdr)
  <2> DEFINE t == AfterOldChain(s, hdr)
             u == DhRatchet(t, hdr.dh, new)
  <2>1. Keeps(s, t, parity)
    BY OldChainKeeps
  <2> HIDE DEF t
  <2>2. Keeps(t, u, parity) /\ u.receiving_chain # None
    BY <1>1, <2>1, DhRatchetInv DEF Keeps
  <2>3. AfterRatchet(s, hdr, new) = u
    BY <1>2 DEF AfterRatchet, t
  <2> HIDE DEF u
  <2> QED BY <2>1, <2>2, <2>3, KeepsTransitive
<1>3. CASE ~ NeedRatchet(s, hdr)
  BY <1>3 DEF AfterRatchet, Keeps
<1> QED BY <1>2, <1>3

-----------------------------------------------------------------------------
(* The invariant *)

(***************************************************************************)
(* The two initial sessions.                                               *)
(***************************************************************************)
LEMMA InitSessions ==
    /\ SessionOK(InitAlice(Secret, <<Alice, 1>>, SignedPreKey))
    /\ SessionInv(InitAlice(Secret, <<Alice, 1>>, SignedPreKey), 0)
    /\ SessionOK(InitBob(Secret, SignedPreKey))
    /\ SessionInv(InitBob(Secret, SignedPreKey), 1)
<1> DEFINE a    == InitAlice(Secret, <<Alice, 1>>, SignedPreKey)
           b    == InitBob(Secret, SignedPreKey)
           root == RatchetStep(<<Secret>>, DH(<<Alice, 1>>, SignedPreKey))
           none == [k \in {} |-> None]
<1>1. SignedPreKey \in KeyPair /\ SignedPreKey[2] = 0 /\ <<Alice, 1>> \in KeyPair
  BY DEF SignedPreKey, KeyPair, Party
<1>2. <<Secret>> \in RootKey /\ Len(<<Secret>>) = 1
  BY DEF RootKey
<1>3. /\ root \in RootKey /\ Len(root) = 2
      /\ NewChain(root) \in Chain /\ NewChain(root) # None
      /\ NewChain(root).root = root
  <2> HIDE DEF a, b, none
  <2>1. root \in RootKey /\ Len(root) = 2
    <3> DEFINE first == <<Secret>>
               ours  == <<Alice, 1>>
    <3>1. first \in RootKey /\ Len(first) = 1 /\ ours \in KeyPair
      BY <1>1, <1>2
    <3> HIDE DEF first, ours, root
    <3>2. /\ RatchetStep(first, DH(ours, SignedPreKey)) \in RootKey
          /\ Len(RatchetStep(first, DH(ours, SignedPreKey))) = Len(first) + 1
      BY <1>1, <3>1, RatchetStepType
    <3>3. Len(RatchetStep(first, DH(ours, SignedPreKey))) = 2
      BY <3>1, <3>2
    <3> QED BY <3>2, <3>3 DEF first, ours, root
  <2> QED BY <1>1, <2>1, RatchetStepType
<1>4. DOMAIN none = {} /\ none \in [{} -> Key]
  OBVIOUS
<1>5. a = [root_key          |-> root,
           dh_public         |-> <<Alice, 1>>,
           remote_dh_public  |-> SignedPreKey,
           sending_chain     |-> NewChain(root),
           receiving_chain   |-> None,
           previous_sending_chain_length |-> 0,
           skipped_keys      |-> none]
  BY DEF InitAlice
<1>6. b = [root_key          |-> <<Secret>>,
           dh_public         |-> SignedPreKey,
           remote_dh_public  |-> None,
           sending_chain     |-> None,
           receiving_chain   |-> None,
           previous_sending_chain_length |-> 0,
           skipped_keys      |-> none]
  BY DEF InitBob
<1> HIDE DEF a, b, root, none
<1>7. SessionOK(a) /\ SessionInv(a, 0)
  <2>1. SessionOK(a)
    BY <1>1, <1>3, <1>4, <1>5 DEF SessionOK, SessionWith
  <2>2. Len(a.root_key) % 2 = 0
    <3>1. Len(a.root_key) = 2 /\ 2 % 2 = 0
      BY <1>3, <1>5
    <3> QED BY <3>1, Zenon
  <2>3. /\ a.sending_chain.root = a.root_key
        /\ a.dh_public[2] > 0
        /\ a.receiving_chain = None
        /\ a.remote_dh_public[2] = 0
        /\ DOMAIN a.skipped_keys = {}
    BY <1>1, <1>3, <1>4, <1>5
  <2> QED BY <2>1, <2>2, <2>3 DEF SessionInv
<1>8. SessionOK(b) /\ SessionInv(b, 1)
  BY <1>1, <1>2, <1>4, <1>6 DEF SessionOK, SessionWith, SessionInv
<1> QED BY <1>7, <1>8 DEF a, b

(***************************************************************************)
(* The invariant holds of the sessions init_alice and init_bob return, with *)
(* nothing sent.                                                           *)
(***************************************************************************)
LEMMA InitIInv == Init => IInv
<1> SUFFICES ASSUME Init PROVE IInv
  OBVIOUS
<1>1. Sent = {}
  BY DEF Init, Sent
<1>2. \A p \in Party : SessionOK(session[p]) /\ SessionInv(session[p], Parity(p))
  BY InitSessions, PartyAssumption DEF Init, Party, Parity
<1>3. TypeOK
  BY <1>1, <1>2 DEF TypeOK, Init, Sent
<1> QED BY <1>1, <1>2, <1>3 DEF IInv, KeysUnique

(***************************************************************************)
(* The message encrypt makes is well-typed and its key is one no message   *)
(* has: the keys of earlier messages of this party are behind its sending  *)
(* chain, and those of the other party's belong to chains of the other     *)
(* parity.                                                                 *)
(***************************************************************************)
LEMMA NewMessage ==
    ASSUME IInv, NEW p \in Party, CanEncrypt(session[p])
    PROVE  LET s == session[p]
               m == NextMessage(p)
           IN  /\ m \in Message
               /\ m.from = p
               /\ m.hdr.dh[2] > 0
               /\ m.key.chain = s.root_key
               /\ m.key.n = s.sending_chain.index
               /\ \A key \in Key : SendingPast(s, key) => key # m.key
               /\ \A x \in Sent : x.key # m.key
<1> DEFINE s == session[p]
           m == NextMessage(p)
<1>1. /\ SessionOK(s) /\ SessionInv(s, Parity(p))
      /\ s.sending_chain # None
  BY DEF IInv, TypeOK, CanEncrypt
<1>2. /\ s.sending_chain.root = s.root_key
      /\ s.sending_chain.index \in Nat
      /\ Len(s.root_key) \in Nat
  BY <1>1, SessionFields DEF SessionInv
<1>3. /\ m \in Message
      /\ m.from = p
      /\ m.hdr.dh[2] > 0
      /\ m.key.chain = s.root_key
      /\ m.key.n = s.sending_chain.index
  <2>1. NextHeader(s) \in Header /\ NextHeader(s).dh[2] > 0
    BY <1>1, SessionFields DEF NextHeader, Header, SessionInv
  <2>2. /\ NextMessageKey(s.sending_chain) \in Key
        /\ NextMessageKey(s.sending_chain).chain = s.root_key
        /\ NextMessageKey(s.sending_chain).n = s.sending_chain.index
    BY <1>1, <1>2, SessionFields DEF NextMessageKey, MessageKeyAt, Key
  <2>3. m = [from |-> p, call |-> calls[p],
             hdr |-> NextHeader(s), key |-> NextMessageKey(s.sending_chain)]
    BY DEF NextMessage
  <2>4. calls[p] \in Nat
    BY DEF IInv, TypeOK
  <2> QED BY <2>1, <2>2, <2>3, <2>4 DEF Message
<1> HIDE DEF m
<1>4. ASSUME NEW key \in Key, SendingPast(s, key)
      PROVE  key # m.key
  <2>1. Len(key.chain) = Len(s.root_key) => key.n < s.sending_chain.index
    BY <1>4 DEF SendingPast
  <2>2. key.n \in Nat
    BY DEF Key
  <2> QED BY <1>2, <1>3, <2>1, <2>2
\* No message sent before has the key of m.
<1>5. \A x \in Sent : x.key # m.key
  <2> SUFFICES ASSUME NEW x \in Sent PROVE x.key # m.key
    OBVIOUS
  <2>1. x \in Message /\ x.key \in Key /\ x.from \in Party
        /\ SendingPast(session[x.from], x.key)
    BY DEF IInv, TypeOK, MessageInv, Message
  <2>2. CASE x.from = p
    BY <1>4, <2>1, <2>2
  <2>3. CASE x.from # p
    <3>1. Len(x.key.chain) % 2 = Parity(x.from)
      BY <2>1 DEF SendingPast, SessionInv, IInv
    <3>2. Len(m.key.chain) % 2 = Parity(p)
      BY <1>1, <1>3 DEF SessionInv
    <3>3. Parity(x.from) # Parity(p)
      BY <2>1, <2>3 DEF Parity, Party
    <3> QED BY <3>1, <3>2, <3>3, Zenon
  <2> QED BY <2>2, <2>3
<1> QED BY <1>3, <1>4, <1>5 DEF m

(***************************************************************************)
(* Session::encrypt preserves the invariant: the key it uses is behind no  *)
(* sending chain, so no message has it, and afterwards it is behind one.   *)
(***************************************************************************)
LEMMA EncryptInv ==
    ASSUME IInv, NEW p \in Party, Encrypt(p)
    PROVE  IInv'
<1> DEFINE s     == session[p]
           t     == AfterEncrypt(s)
           m     == NextMessage(p)
           chain == Advanced(s.sending_chain)
<1>1. /\ SessionOK(s) /\ SessionInv(s, Parity(p))
      /\ s.sending_chain # None
      /\ session' = [session EXCEPT ![p] = t]
      /\ wire' = [x \in Sent \cup {m} |->
                     IF x = m THEN [tries |-> 0, opened |-> 0] ELSE wire[x]]
      /\ calls' = [calls EXCEPT ![p] = @ + 1]
  BY DEF IInv, TypeOK, Encrypt, CanEncrypt
<1>2. /\ chain \in Chain /\ chain # None
      /\ chain.root = s.root_key
      /\ chain.index = s.sending_chain.index + 1
      /\ s.sending_chain.root = s.root_key
      /\ s.sending_chain.index \in Nat
      /\ Len(s.root_key) \in Nat
  BY <1>1, SessionFields, NoneAssumption DEF Advanced, Chain, SessionInv
<1>3. t = [root_key          |-> s.root_key,
           dh_public         |-> s.dh_public,
           remote_dh_public  |-> s.remote_dh_public,
           sending_chain     |-> chain,
           receiving_chain   |-> s.receiving_chain,
           previous_sending_chain_length |-> s.previous_sending_chain_length,
           skipped_keys      |-> s.skipped_keys]
  BY <1>1 DEF AfterEncrypt, SessionOK, SessionWith
<1>4. /\ m \in Message
      /\ m.from = p
      /\ m.hdr.dh[2] > 0
      /\ m.key.chain = s.root_key
      /\ m.key.n = s.sending_chain.index
      /\ \A key \in Key : SendingPast(s, key) => key # m.key
      /\ \A x \in Sent : x.key # m.key
  BY NewMessage DEF Encrypt
<1> HIDE DEF t, m, chain
<1>5. SessionOK(t) /\ SessionInv(t, Parity(p))
  <2>1. SessionOK(t)
    BY <1>1, <1>2, <1>3, SessionFields DEF SessionOK, SessionWith
  <2>2. \A key : ReceivingPast(s, key) <=> ReceivingPast(t, key)
    BY <1>3 DEF ReceivingPast
  <2>3. SessionInv(t, Parity(p))
    BY <1>1, <1>2, <1>3, <2>2 DEF SessionInv
  <2> QED BY <2>1, <2>3
<1>6. ASSUME NEW key \in Key
      PROVE  /\ Consumed(s, key) => Consumed(t, key)
             /\ SendingPast(s, key) => SendingPast(t, key) /\ key # m.key
  <2>1. key.n \in Nat
    BY DEF Key
  <2>2. Consumed(s, key) => Consumed(t, key)
    BY <1>3 DEF Consumed, ReceivingPast
  <2>3. ASSUME SendingPast(s, key)
        PROVE  SendingPast(t, key) /\ key # m.key
    <3>1. /\ Len(key.chain) % 2 = Len(t.root_key) % 2
          /\ Len(key.chain) <= Len(t.root_key)
      BY <1>3, <2>3 DEF SendingPast
    <3>2. Len(key.chain) = Len(s.root_key) => key.n < s.sending_chain.index
      BY <2>3 DEF SendingPast
    <3>3. Len(key.chain) = Len(t.root_key) => key.n < t.sending_chain.index
      BY <1>2, <1>3, <2>1, <3>2
    <3>4. key # m.key
      BY <1>4, <2>3
    <3> QED BY <1>2, <1>3, <3>1, <3>3, <3>4 DEF SendingPast
  <2> QED BY <2>2, <2>3
<1>7. SendingPast(t, m.key)
  <2>1. /\ t.sending_chain # None
        /\ m.key.chain = t.root_key
        /\ m.key.n < t.sending_chain.index
        /\ Len(t.root_key) \in Nat
    BY <1>2, <1>3, <1>4
  <2> QED BY <2>1 DEF SendingPast
<1>9. /\ Sent' = Sent \cup {m}
      /\ m \notin Sent
      /\ wire'[m] = [tries |-> 0, opened |-> 0]
      /\ \A x \in Sent : wire'[x] = wire[x]
      /\ DOMAIN session' = Party
      /\ session'[p] = t
      /\ \A q \in Party \ {p} : session'[q] = session[q]
  BY <1>1, <1>4 DEF Sent, IInv, TypeOK
<1>10. TypeOK'
  <2>1. calls' \in [Party -> Nat]
    BY <1>1 DEF IInv, TypeOK
  <2> QED BY <1>1, <1>4, <1>5, <1>9, <2>1 DEF IInv, TypeOK
<1>11. \A q \in Party : SessionInv(session'[q], Parity(q))
  BY <1>5, <1>9 DEF IInv
<1>12. ASSUME NEW x \in Sent'
       PROVE  MessageInv(x)'
  <2>1. CASE x = m
    BY <1>4, <1>7, <1>9, <2>1 DEF MessageInv
  <2>2. CASE x \in Sent
    <3>1. /\ x.key \in Key /\ x.from \in Party /\ Peer(x.from) \in Party
          /\ MessageInv(x) /\ wire'[x] = wire[x]
      BY <1>9, <2>2 DEF IInv, TypeOK, Message, Peer, Party
    <3>2. /\ Consumed(session[Peer(x.from)], x.key) => Consumed(session'[Peer(x.from)], x.key)
          /\ SendingPast(session'[x.from], x.key)
      BY <1>6, <1>9, <3>1 DEF MessageInv
    <3> QED BY <3>1, <3>2 DEF MessageInv
  <2> QED BY <1>9, <2>1, <2>2
<1>13. KeysUnique'
  BY <1>4, <1>9 DEF IInv, KeysUnique
<1> QED BY <1>10, <1>11, <1>12, <1>13 DEF IInv

(***************************************************************************)
(* A delivery preserves the invariant when the session it leaves keeps,    *)
(* and the key that opened the message, if one did, was not consumed       *)
(* before and is consumed now.                                             *)
(***************************************************************************)
LEMMA DeliveryInv ==
    ASSUME IInv,
           NEW p \in Party, NEW m \in Sent, m.from = Peer(p),
           NEW t, \/ session' = [session EXCEPT ![p] = t]
                  \/ session' = session /\ t = session[p],
           Keeps(session[p], t, Parity(p)),
           NEW opens \in BOOLEAN, Delivered(m, opens), UNCHANGED calls,
           opens => ~ Consumed(session[p], m.key) /\ Consumed(t, m.key)
    PROVE  IInv'
<1>1. /\ Sent' = Sent
      /\ m \in Message
      /\ wire[m].opened \in Nat /\ wire[m].tries \in Nat
      /\ wire' = [wire EXCEPT ![m] = [tries  |-> wire[m].tries + 1,
                                      opened |-> wire[m].opened + IF opens THEN 1 ELSE 0]]
      /\ wire'[m].tries = wire[m].tries + 1
      /\ wire'[m].opened = wire[m].opened + (IF opens THEN 1 ELSE 0)
      /\ \A x \in Sent \ {m} : wire'[x] = wire[x]
  BY DEF Delivered, Sent, IInv, TypeOK
<1>2. /\ DOMAIN session' = Party
      /\ session'[p] = t
      /\ \A q \in Party \ {p} : session'[q] = session[q]
  BY DEF IInv, TypeOK
<1>3. p = Peer(m.from) /\ \A q \in Party : Peer(q) \in Party
  BY PartyAssumption DEF Peer, Party
<1>4. ASSUME NEW key \in Key, NEW q \in Party
      PROVE  /\ Consumed(session[q], key) => Consumed(session'[q], key)
             /\ SendingPast(session[q], key) => SendingPast(session'[q], key)
  BY <1>2 DEF Keeps
<1>5. TypeOK'
  <2>1. wire' \in [Sent -> [tries : Nat, opened : Nat]]
    <3>1. [tries  |-> wire[m].tries + 1,
           opened |-> wire[m].opened + IF opens THEN 1 ELSE 0]
             \in [tries : Nat, opened : Nat]
      BY <1>1
    <3> QED BY <1>1, <3>1 DEF IInv, TypeOK
  <2>2. \A q \in Party : SessionOK(session'[q])
    BY <1>2 DEF IInv, TypeOK, Keeps
  <2> QED BY <1>1, <1>2, <2>1, <2>2 DEF IInv, TypeOK
<1>6. \A q \in Party : SessionInv(session'[q], Parity(q))
  BY <1>2 DEF IInv, Keeps
<1>7. ASSUME NEW x \in Sent
      PROVE  MessageInv(x)'
  <2>1. /\ MessageInv(x)
        /\ x.key \in Key /\ x.from \in Party /\ Peer(x.from) \in Party
        /\ wire[x].opened \in Nat
    BY <1>3 DEF IInv, TypeOK, Message
  <2>2. /\ Consumed(session[Peer(x.from)], x.key) => Consumed(session'[Peer(x.from)], x.key)
        /\ SendingPast(session'[x.from], x.key)
    BY <1>4, <2>1 DEF MessageInv
  <2>3. CASE x # m
    <3>1. wire'[x] = wire[x]
      BY <1>1, <2>3
    <3> QED BY <2>1, <2>2, <3>1 DEF MessageInv
  <2>4. CASE x = m /\ ~ opens
    <3>1. wire'[x].opened = wire[x].opened
      BY <1>1, <2>1, <2>4
    <3> QED BY <2>1, <2>2, <3>1 DEF MessageInv
  <2>5. CASE x = m /\ opens
    <3>1. wire[x].opened = 0
      BY <1>3, <2>1, <2>5 DEF MessageInv
    <3>2. wire'[x].opened = 1
      BY <1>1, <2>5, <3>1
    <3>3. Consumed(session'[Peer(x.from)], x.key)
      BY <1>2, <1>3, <2>5
    <3> QED BY <2>1, <2>2, <3>2, <3>3 DEF MessageInv
  <2> QED BY <2>3, <2>4, <2>5
<1>8. KeysUnique'
  BY <1>1 DEF IInv, KeysUnique
<1> QED BY <1>1, <1>5, <1>6, <1>7, <1>8 DEF IInv

(***************************************************************************)
(* Every path through Session::decrypt preserves the invariant.            *)
(***************************************************************************)
LEMMA DecryptInv ==
    ASSUME IInv, NEW p \in Party, NEW m \in Sent, NEW intact \in BOOLEAN,
           NEW hdr \in {m.hdr} \cup Forged, Decrypt(p, m, hdr, intact)
    PROVE  IInv'
<1> DEFINE s == session[p]
           r == Ratcheted(p, hdr)
           t == Skip(r, hdr.dh, hdr.n)
<1>1. /\ SessionOK(s) /\ SessionInv(s, Parity(p))
      /\ m.from = Peer(p)
      /\ hdr \in Header /\ hdr.dh \in KeyPair /\ hdr.n \in Nat
      /\ m.key \in Key
      /\ UNCHANGED calls
  BY ForgedAssumption DEF IInv, TypeOK, Decrypt, Message, Header
<1>2. FreshKeyPair(p) \in KeyPair /\ FreshKeyPair(p)[2] > 0
  BY <1>1, SessionFields DEF FreshKeyPair, KeyPair
\* Past the DH ratchet, the session keeps what was consumed.
<1>3. ASSUME Ratchets(p, hdr)
      PROVE  Keeps(s, t, Parity(p)) /\ t.receiving_chain # None
  <2>1. NeedRatchet(s, hdr) \/ s.receiving_chain # None
    BY <1>3 DEF Ratchets
  <2>2. Keeps(s, r, Parity(p)) /\ r.receiving_chain # None
    BY <1>1, <1>2, <2>1, RatchetKeeps DEF Ratcheted
  <2> HIDE DEF r
  <2>3. Keeps(r, t, Parity(p)) /\ t.receiving_chain # None
    BY <1>1, <2>2, SkipKeeps DEF Keeps
  <2> HIDE DEF t
  <2> QED BY <2>2, <2>3, KeepsTransitive
<1> HIDE DEF r, t
<1>4. CASE DecryptWithSkippedKey(p, m, hdr, intact)
  <2> DEFINE u     == DropSkippedKey(s, hdr)
             used  == SkippedKey(s, hdr)
             opens == Opens(m, intact, used)
  <2>1. /\ HasSkippedKey(s, hdr)
        /\ session' = [session EXCEPT ![p] = u]
        /\ Delivered(m, opens)
    BY <1>4 DEF DecryptWithSkippedKey, IInv, TypeOK
  <2>2. /\ SessionOK(u) /\ SessionInv(u, Parity(p))
        /\ u.root_key = s.root_key
        /\ u.sending_chain = s.sending_chain
        /\ \A key \in Key : Consumed(s, key) => Consumed(u, key)
        /\ Consumed(u, used) /\ ~ Consumed(s, used)
    BY <1>1, <2>1, DropSkippedKeyInv
  <2> HIDE DEF u, used
  <2>3. Keeps(s, u, Parity(p))
    BY <2>2 DEF Keeps, SendingPast
  <2>4. opens \in BOOLEAN /\ (opens => ~ Consumed(s, m.key) /\ Consumed(u, m.key))
    BY <2>2 DEF Opens
  <2> HIDE DEF opens
  <2> QED BY <1>1, <2>1, <2>3, <2>4, DeliveryInv
<1>5. CASE RefuseOldChain(p, m, hdr)
  <2>1. session' = [session EXCEPT ![p] = AfterOldChain(s, hdr)] /\ Delivered(m, FALSE)
    BY <1>5 DEF RefuseOldChain, IInv, TypeOK
  <2>2. Keeps(s, AfterOldChain(s, hdr), Parity(p))
    BY <1>1, OldChainKeeps
  <2> QED BY <1>1, <2>1, <2>2, DeliveryInv
<1>6. CASE RefuseNoChain(p, m, hdr)
  <2>1. session' = session /\ Delivered(m, FALSE)
    BY <1>6 DEF RefuseNoChain
  <2>2. Keeps(s, s, Parity(p))
    BY <1>1 DEF Keeps
  <2> QED BY <1>1, <2>1, <2>2, DeliveryInv
<1>7. CASE RefuseNewChain(p, m, hdr)
  <2>1. session' = [session EXCEPT ![p] = t] /\ Delivered(m, FALSE) /\ Ratchets(p, hdr)
    BY <1>7 DEF RefuseNewChain, r, t
  <2> QED BY <1>1, <1>3, <2>1, DeliveryInv
<1>8. CASE DecryptOnChain(p, m, hdr, intact)
  <2> DEFINE u     == AfterReceive(t)
             used  == NextMessageKey(t.receiving_chain)
             opens == Opens(m, intact, used)
  <2>1. session' = [session EXCEPT ![p] = u] /\ Delivered(m, opens) /\ Ratchets(p, hdr)
    BY <1>8 DEF DecryptOnChain, r, t
  <2>2. Keeps(s, t, Parity(p)) /\ t.receiving_chain # None
    BY <1>3, <2>1
  <2>3. /\ SessionOK(u) /\ SessionInv(u, Parity(p))
        /\ u.root_key = t.root_key
        /\ u.sending_chain = t.sending_chain
        /\ \A key \in Key : Consumed(t, key) => Consumed(u, key)
        /\ used \in Key
        /\ Consumed(u, used) /\ ~ Consumed(t, used)
    BY <2>2, AfterReceiveInv DEF Keeps
  <2> HIDE DEF u, used
  <2>4. Keeps(t, u, Parity(p))
    BY <2>3 DEF Keeps, SendingPast
  <2>5. Keeps(s, u, Parity(p))
    BY <2>2, <2>4, KeepsTransitive
  <2>6. ~ Consumed(s, used)
    BY <2>2, <2>3 DEF Keeps
  <2>7. opens \in BOOLEAN /\ (opens => ~ Consumed(s, m.key) /\ Consumed(u, m.key))
    BY <2>3, <2>6 DEF Opens
  <2> HIDE DEF opens
  <2> QED BY <1>1, <2>1, <2>5, <2>7, DeliveryInv
<1> QED BY <1>4, <1>5, <1>6, <1>7, <1>8 DEF Decrypt

(***************************************************************************)
(* IInv is inductive.                                                      *)
(***************************************************************************)
LEMMA NextIInv == IInv /\ [Next]_vars => IInv'
<1> SUFFICES ASSUME IInv, [Next]_vars PROVE IInv'
  OBVIOUS
<1>1. ASSUME NEW p \in Party, Encrypt(p) PROVE IInv'
  BY <1>1, EncryptInv
<1>2. ASSUME NEW p \in Party, NEW m \in Sent, NEW intact \in BOOLEAN,
             NEW hdr \in {m.hdr} \cup Forged, Decrypt(p, m, hdr, intact)
      PROVE  IInv'
  BY <1>2, DecryptInv
<1>3. CASE UNCHANGED vars
  BY <1>3 DEF vars, IInv, TypeOK, MessageInv, KeysUnique, Sent
<1> QED BY <1>1, <1>2, <1>3 DEF Next

(***************************************************************************)
(* In every behaviour, every key of a message is behind its sender, every  *)
(* key stored or used is behind its receiver, and no key is kept after its *)
(* use: the invariant from which the theorems below follow.                *)
(***************************************************************************)
THEOREM Invariance == Spec => []IInv
<1> QED BY InitIInv, NextIInv, PTL DEF Spec

-----------------------------------------------------------------------------
(* Conclusions *)

(***************************************************************************)
(* Sessions and wire keep their types, whatever is delivered.              *)
(***************************************************************************)
THEOREM TypeCorrect == Spec => []TypeOK
<1>1. IInv => TypeOK
  BY DEF IInv
<1> QED BY <1>1, Invariance, PTL

(***************************************************************************)
(* No two calls of encrypt use one key, whichever side they are on.        *)
(***************************************************************************)
THEOREM KeysAreUnique == Spec => []KeysUnique
<1>1. IInv => KeysUnique
  BY DEF IInv
<1> QED BY <1>1, Invariance, PTL

(***************************************************************************)
(* A message never lacks a receiving chain under the header it was sent    *)
(* with, whatever other headers the receiver was given.                    *)
(***************************************************************************)
THEOREM ReceivingChainIsEstablished == Spec => []ReceivingChainEstablished
<1>1. IInv => ReceivingChainEstablished
  <2> SUFFICES ASSUME IInv, NEW m \in Sent,
                      session[Peer(m.from)].receiving_chain = None
               PROVE  NeedRatchet(session[Peer(m.from)], m.hdr)
    BY DEF ReceivingChainEstablished
  <2>1. /\ m.hdr.dh \in KeyPair /\ m.hdr.dh[2] > 0
        /\ Peer(m.from) \in Party
    BY DEF IInv, TypeOK, MessageInv, Message, Header, Peer, Party
  <2>2. LET r == session[Peer(m.from)].remote_dh_public IN r = None \/ r[2] = 0
    BY <2>1 DEF IInv, SessionInv
  <2> QED BY <2>1, <2>2, NoneAssumption DEF NeedRatchet
<1> QED BY <1>1, Invariance, PTL

(***************************************************************************)
(* No session can compute the key of a message it encrypted or opened.     *)
(***************************************************************************)
THEOREM ForwardSecure == Spec => []ForwardSecrecy
<1>1. IInv => ForwardSecrecy
  <2> SUFFICES ASSUME IInv, NEW m \in Sent
               PROVE  /\ ~ Derives(session[m.from], m.key)
                      /\ wire[m].opened > 0 =>
                            ~ Derives(session[Peer(m.from)], m.key)
    BY DEF ForwardSecrecy
  <2> DEFINE s == session[m.from]
             r == session[Peer(m.from)]
  <2>1. /\ m.from \in Party /\ Peer(m.from) \in Party /\ Peer(m.from) # m.from
        /\ m.key \in Key /\ m.key.n \in Nat /\ Len(m.key.chain) \in Nat
        /\ wire[m].opened \in Nat
    BY PartyAssumption DEF IInv, TypeOK, Message, Key, RootKey, Peer, Party
  <2>2. /\ SessionOK(s) /\ SessionInv(s, Parity(m.from))
        /\ SessionOK(r) /\ SessionInv(r, Parity(Peer(m.from)))
        /\ SendingPast(s, m.key)
        /\ wire[m].opened > 0 => Consumed(r, m.key)
    BY <2>1 DEF IInv, TypeOK, MessageInv
  <2>3. /\ Len(s.root_key) \in Nat
        /\ Len(m.key.chain) % 2 = Parity(m.from)
        /\ Len(s.root_key) % 2 = Parity(m.from)
        /\ Len(m.key.chain) <= Len(s.root_key)
    BY <2>2, SessionFields DEF SendingPast, SessionInv
  <2>4. Parity(Peer(m.from)) # Parity(m.from)
    BY <2>1 DEF Parity, Party
  <2>5. /\ Len(r.root_key) \in Nat
        /\ Len(r.root_key) % 2 = Parity(Peer(m.from))
    BY <2>2, SessionFields DEF SessionInv
  <2> HIDE DEF s, r
  \* The sender: its receiving side has chains of the other parity.
  <2>6. ~ Derives(s, m.key)
    <3>1. ASSUME s.receiving_chain # None
          PROVE  Len(s.receiving_chain.root) % 2 # Len(m.key.chain) % 2
      <4>1. /\ Len(s.receiving_chain.root) + 1 = Len(s.root_key)
            /\ Len(s.receiving_chain.root) \in Nat
        BY <2>2, <3>1, SessionFields DEF SessionInv
      <4>2. (Len(s.receiving_chain.root) + 1) % 2 # Len(s.receiving_chain.root) % 2
        BY <4>1, ParityOfNext
      <4> QED BY <2>3, <4>1, <4>2, Zenon
    <3>2. \A k \in DOMAIN s.skipped_keys : s.skipped_keys[k] # m.key
      BY <2>2, <3>1 DEF SessionInv, ReceivingPast
    <3>3. ~ (s.sending_chain # None /\ s.sending_chain.root = m.key.chain
             /\ s.sending_chain.index <= m.key.n)
      BY <2>1, <2>2, SessionFields DEF SendingPast, SessionInv
    <3>4. ~ (s.receiving_chain # None /\ s.receiving_chain.root = m.key.chain)
      BY <3>1
    <3>5. ~ (Len(s.root_key) < Len(m.key.chain))
      BY <2>1, <2>3
    <3> QED BY <3>2, <3>3, <3>4, <3>5 DEF Derives
  \* The receiver: its sending side has chains of the other parity.
  <2>7. ASSUME wire[m].opened > 0
        PROVE  ~ Derives(r, m.key)
    <3>1. Consumed(r, m.key) /\ ReceivingPast(r, m.key)
      BY <2>2, <2>7 DEF Consumed
    <3>2. \A k \in DOMAIN r.skipped_keys : r.skipped_keys[k] # m.key
      BY <3>1 DEF Consumed
    <3>3. Len(r.root_key) % 2 # Len(m.key.chain) % 2
      BY <2>3, <2>4, <2>5, Zenon
    <3>4. ~ (r.sending_chain # None /\ r.sending_chain.root = m.key.chain)
      BY <2>2, <3>3 DEF SessionInv
    <3>5. ~ (r.receiving_chain # None /\ r.receiving_chain.root = m.key.chain
             /\ r.receiving_chain.index <= m.key.n)
      BY <2>1, <2>2, <3>1, SessionFields DEF ReceivingPast
    <3>6. ~ (Len(r.root_key) < Len(m.key.chain))
      <4>1. /\ Len(r.receiving_chain.root) + 1 = Len(r.root_key)
            /\ Len(r.receiving_chain.root) \in Nat
            /\ Len(m.key.chain) <= Len(r.receiving_chain.root)
        BY <2>2, <3>1, SessionFields DEF SessionInv, ReceivingPast
      <4> QED BY <2>1, <2>5, <4>1
    <3> QED BY <3>2, <3>4, <3>5, <3>6 DEF Derives
  <2> QED BY <2>6, <2>7 DEF s, r
<1> QED BY <1>1, Invariance, PTL

(***************************************************************************)
(* A delivery is a Receive of the channel, or hands over nothing.          *)
(***************************************************************************)
LEMMA DeliveryRefines ==
    ASSUME IInv, IInv', NEW m \in Sent, NEW opens \in BOOLEAN, Delivered(m, opens)
    PROVE  Channel!Receive \/ Handed' = Handed
<1>1. /\ Sent' = Sent
      /\ wire[m].opened \in Nat
      /\ wire'[m].opened = wire[m].opened + (IF opens THEN 1 ELSE 0)
      /\ \A x \in Sent \ {m} : wire'[x] = wire[x]
  BY DEF Delivered, Sent, IInv, TypeOK
<1>2. CASE opens
  <2>1. wire'[m].opened <= 1
    BY <1>1 DEF IInv, MessageInv
  <2>2. wire[m].opened = 0 /\ wire'[m].opened = 1
    BY <1>1, <1>2, <2>1
  <2>3. Handed' = [Handed EXCEPT ![m] = 1] /\ Handed[m] = 0 /\ m \in DOMAIN Handed
    BY <1>1, <2>2 DEF Handed
  <2> QED BY <2>3 DEF Channel!Receive
<1>3. CASE ~ opens
  BY <1>1, <1>3 DEF Handed
<1> QED BY <1>2, <1>3

(***************************************************************************)
(* An encrypt call is a Send of the channel: its message is a new one.     *)
(***************************************************************************)
LEMMA EncryptRefines ==
    ASSUME IInv, NEW p \in Party, Encrypt(p)
    PROVE  Channel!Send
<1> DEFINE m == NextMessage(p)
<1>1. m \in Message /\ \A x \in Sent : x.key # m.key
  BY NewMessage DEF Encrypt
<1>2. wire' = [x \in Sent \cup {m} |->
                  IF x = m THEN [tries |-> 0, opened |-> 0] ELSE wire[x]]
  BY DEF Encrypt
<1> HIDE DEF m
<1>3. /\ Sent' = Sent \cup {m} /\ m \notin Sent
      /\ wire'[m].opened = 0
      /\ \A x \in Sent : wire'[x] = wire[x]
  BY <1>1, <1>2 DEF Sent
<1>4. Handed' = [x \in DOMAIN Handed \cup {m} |-> IF x = m THEN 0 ELSE Handed[x]]
  BY <1>3 DEF Handed
<1>5. m \in DOMAIN Handed' \ DOMAIN Handed
  BY <1>3 DEF Handed
<1> QED BY <1>1, <1>4, <1>5 DEF Channel!Send

(***************************************************************************)
(* The two sessions implement the channel: no message is handed to an      *)
(* application twice, however often the network delivers it.               *)
(***************************************************************************)
THEOREM NeverReplays == Spec => NoReplay
<1>1. Init => Channel!Init
  BY DEF Init, Channel!Init, Handed, Sent
<1>2. IInv /\ IInv' /\ [Next]_vars => [Channel!Next]_Handed
  <2> SUFFICES ASSUME IInv, IInv', [Next]_vars PROVE [Channel!Next]_Handed
    OBVIOUS
  <2>1. ASSUME NEW p \in Party, Encrypt(p) PROVE Channel!Send
    BY <2>1, EncryptRefines
  <2>2. ASSUME NEW p \in Party, NEW m \in Sent, NEW intact \in BOOLEAN,
               NEW hdr \in {m.hdr} \cup Forged, Decrypt(p, m, hdr, intact)
        PROVE  Channel!Receive \/ Handed' = Handed
    <3>1. \E opens \in BOOLEAN : Delivered(m, opens)
      BY <2>2 DEF Decrypt, DecryptWithSkippedKey, RefuseOldChain, RefuseNoChain,
                  RefuseNewChain, DecryptOnChain, Opens
    <3> QED BY <3>1, DeliveryRefines
  <2>3. CASE UNCHANGED vars
    BY <2>3 DEF vars, Handed, Sent
  <2> QED BY <2>1, <2>2, <2>3 DEF Next, Channel!Next
<1> QED BY <1>1, <1>2, Invariance, PTL DEF Spec, NoReplay, Channel!Spec

-----------------------------------------------------------------------------
(* The number of skipped keys *)

(***************************************************************************)
(* One run of the skipping loop adds one key, or stops at most one key     *)
(* beyond the limit; when it is not refused it stays within the limit or   *)
(* adds nothing.                                                           *)
(***************************************************************************)
LEMMA SkipCount ==
    ASSUME NEW s, SessionOK(s), s.receiving_chain # None,
           IsFiniteSet(DOMAIN s.skipped_keys),
           NEW dh \in KeyPair, NEW until \in Nat
    PROVE  LET before == Cardinality(DOMAIN s.skipped_keys)
               names  == DOMAIN Skip(s, dh, until).skipped_keys
               after  == Cardinality(names)
           IN  /\ IsFiniteSet(names)
               /\ before \in Nat /\ after \in Nat
               /\ after <= before + 1 \/ after <= MaxSkip + 1
               /\ ~ SkipRefused(s, dh, until) => after = before \/ after <= MaxSkip
<1> DEFINE index  == s.receiving_chain.index
           end    == SkipEnd(s, dh, until)
           old    == DOMAIN s.skipped_keys
           at(e)  == old \cup KeyNames(s, dh, e)
           before == Cardinality(old)
           names  == DOMAIN Skip(s, dh, until).skipped_keys
           after  == Cardinality(names)
<1>1. index \in Nat
  BY SessionFields
<1>2. names = at(end)
  BY DEF Skip, SessionOK, SessionWith
\* One more key name makes the set at most one larger.
<1>3. ASSUME NEW e \in Nat, index <= e, IsFiniteSet(at(e))
      PROVE  /\ IsFiniteSet(at(e + 1))
             /\ Cardinality(at(e + 1)) \in Nat
             /\ Cardinality(at(e)) \in Nat
             /\ Cardinality(at(e + 1)) <= Cardinality(at(e)) + 1
  <2>1. (index .. ((e + 1) - 1)) = (index .. (e - 1)) \cup {e}
    BY <1>1, <1>3
  <2>2. at(e + 1) = at(e) \cup {<<dh, e>>}
    BY <2>1 DEF KeyNames
  <2> HIDE DEF at
  <2>3. /\ IsFiniteSet(at(e) \cup {<<dh, e>>})
        /\ Cardinality(at(e) \cup {<<dh, e>>}) =
              IF <<dh, e>> \in at(e) THEN Cardinality(at(e)) ELSE Cardinality(at(e)) + 1
    BY <1>3, FS_AddElement
  <2>4. Cardinality(at(e)) \in Nat
    BY <1>3, FS_CardinalityType
  <2> QED BY <2>2, <2>3, <2>4
<1>4. at(index) = old
  <2>1. (index .. (index - 1)) = {}
    BY <1>1
  <2> QED BY <2>1 DEF KeyNames
<1>5. before \in Nat
  BY FS_CardinalityType
<1>6. \A e \in Nat : IsFiniteSet(at(e))
  <2> SUFFICES ASSUME NEW e \in Nat PROVE IsFiniteSet(at(e))
    OBVIOUS
  <2>1. IsFiniteSet(index .. (e - 1))
    BY <1>1, FS_Interval
  <2>2. IsFiniteSet({dh})
    BY FS_Singleton
  <2>3. IsFiniteSet({dh} \X (index .. (e - 1)))
    BY <2>1, <2>2, FS_Product
  <2> QED BY <2>3, FS_Union DEF KeyNames
<1>7. /\ end \in Nat /\ end >= index
      /\ \A e \in GivesUpAt(s, dh, until) : end <= e
      /\ SkipRefused(s, dh, until) => end \in GivesUpAt(s, dh, until)
      /\ ~ SkipRefused(s, dh, until) => end \in {index, until}
  BY <1>1, SkipEndType
<1> HIDE DEF end, at
<1>8. IsFiniteSet(names) /\ after \in Nat
  BY <1>2, <1>6, <1>7, FS_CardinalityType
<1>9. CASE SkipRefused(s, dh, until)
  <2> SUFFICES after <= before + 1 \/ after <= MaxSkip + 1
    BY <1>5, <1>8, <1>9
  <2>1. end \in (index + 1) .. until
    BY <1>7, <1>9 DEF GivesUpAt
  <2>2. PICK e \in Nat : index <= e /\ end = e + 1 /\ e <= until
    <3>1. end - 1 \in Nat /\ index <= end - 1 /\ end = (end - 1) + 1 /\ end - 1 <= until
      BY <1>1, <1>7, <2>1
    <3> QED BY <3>1
  <2>3. after <= Cardinality(at(e)) + 1 /\ Cardinality(at(e)) \in Nat
    BY <1>2, <1>3, <1>6, <2>2
  <2>4. CASE e = index
    BY <1>4, <2>3, <2>4
  <2>5. CASE e # index
    <3>1. e \notin GivesUpAt(s, dh, until)
      BY <1>7, <2>2
    <3>2. e \in (index + 1) .. until
      BY <1>1, <2>1, <2>2, <2>5
    <3>3. ~ (Cardinality(at(e)) > MaxSkip)
      BY <3>1, <3>2 DEF GivesUpAt, OverLimit, at
    <3> QED BY <2>3, <3>3, <1>8, MaxSkipAssumption
  <2> QED BY <2>4, <2>5
<1>10. CASE ~ SkipRefused(s, dh, until)
  <2>1. CASE end = index
    BY <1>2, <1>4, <1>5, <1>8, <2>1
  <2>2. CASE end # index
    <3>1. end = until /\ until \in (index + 1) .. until
      BY <1>1, <1>7, <1>10, <2>2
    <3>2. until \notin GivesUpAt(s, dh, until)
      BY <1>10 DEF SkipRefused
    <3>3. ~ (Cardinality(at(until)) > MaxSkip)
      BY <3>1, <3>2 DEF GivesUpAt, OverLimit, at
    <3>4. after <= MaxSkip
      BY <1>2, <1>8, <3>1, <3>3, MaxSkipAssumption
    <3> QED BY <1>5, <1>8, <3>4, MaxSkipAssumption
  <2> QED BY <1>8, <1>5, <2>1, <2>2
<1> QED BY <1>5, <1>8, <1>9, <1>10

FiniteSkipped == \A p \in Party : IsFiniteSet(DOMAIN session[p].skipped_keys)

\* How the number of skipped keys may change from s to t in one decrypt call.
CountGrowth(s, t) ==
    LET before == Cardinality(DOMAIN s.skipped_keys)
        after  == Cardinality(DOMAIN t.skipped_keys)
    IN  /\ IsFiniteSet(DOMAIN t.skipped_keys)
        /\ after <= before + 1 \/ after <= MaxSkip + 1

(***************************************************************************)
(* A DH ratchet that is not refused leaves as many keys as there were, or  *)
(* no more than the limit.                                                 *)
(***************************************************************************)
LEMMA RatchetCount ==
    ASSUME NEW s, SessionOK(s), IsFiniteSet(DOMAIN s.skipped_keys),
           NEW hdr \in Header, NEW new \in KeyPair, new[2] > 0,
           NEW parity, SessionInv(s, parity),
           NeedRatchet(s, hdr) => ~ OldChainRefused(s, hdr)
    PROVE  LET before == Cardinality(DOMAIN s.skipped_keys)
               names  == DOMAIN AfterRatchet(s, hdr, new).skipped_keys
           IN  /\ IsFiniteSet(names)
               /\ before \in Nat /\ Cardinality(names) \in Nat
               /\ Cardinality(names) = before \/ Cardinality(names) <= MaxSkip
<1> DEFINE before == Cardinality(DOMAIN s.skipped_keys)
           t      == AfterOldChain(s, hdr)
<1>1. before \in Nat
  BY FS_CardinalityType
<1>2. CASE NeedRatchet(s, hdr)
  <2>1. /\ IsFiniteSet(DOMAIN t.skipped_keys)
        /\ Cardinality(DOMAIN t.skipped_keys) \in Nat
        /\ \/ Cardinality(DOMAIN t.skipped_keys) = before
           \/ Cardinality(DOMAIN t.skipped_keys) <= MaxSkip
    <3>1. CASE HasOldChain(s)
      <4>1. /\ s.receiving_chain # None
            /\ s.remote_dh_public \in KeyPair
            /\ hdr.pn \in Nat
        BY <3>1, SessionFields DEF HasOldChain, Header
      <4>2. ~ SkipRefused(s, s.remote_dh_public, hdr.pn)
        BY <1>2, <3>1 DEF OldChainRefused
      <4>3. t = Skip(s, s.remote_dh_public, hdr.pn)
        BY <3>1 DEF AfterOldChain
      <4> HIDE DEF t
      <4> QED BY <4>1, <4>2, <4>3, SkipCount
    <3>2. CASE ~ HasOldChain(s)
      BY <1>1, <3>2 DEF AfterOldChain
    <3> QED BY <3>1, <3>2
  <2>2. Keeps(s, t, parity)
    BY OldChainKeeps
  <2>3. hdr.dh \in KeyPair
    BY DEF Header
  <2> HIDE DEF t
  <2>4. DhRatchet(t, hdr.dh, new).skipped_keys = t.skipped_keys
    BY <2>2, <2>3, DhRatchetInv DEF Keeps
  <2>5. AfterRatchet(s, hdr, new) = DhRatchet(t, hdr.dh, new)
    BY <1>2 DEF AfterRatchet, t
  <2> QED BY <1>1, <2>1, <2>4, <2>5
<1>3. CASE ~ NeedRatchet(s, hdr)
  BY <1>1, <1>3 DEF AfterRatchet
<1> QED BY <1>2, <1>3

(***************************************************************************)
(* Whichever way a decrypt call ends, the number of keys it leaves stored is *)
(* within the bound of SkipGrowth.                                         *)
(***************************************************************************)
LEMMA DecryptCount ==
    ASSUME IInv, FiniteSkipped,
           NEW p \in Party, NEW m \in Sent, NEW intact \in BOOLEAN,
           NEW hdr \in {m.hdr} \cup Forged, Decrypt(p, m, hdr, intact)
    PROVE  /\ CountGrowth(session[p], session'[p])
           /\ \A q \in Party \ {p} : session'[q] = session[q]
<1> DEFINE s == session[p]
           r == Ratcheted(p, hdr)
           t == Skip(r, hdr.dh, hdr.n)
           before == Cardinality(DOMAIN s.skipped_keys)
<1>1. /\ SessionOK(s) /\ SessionInv(s, Parity(p))
      /\ hdr \in Header /\ hdr.dh \in KeyPair /\ hdr.n \in Nat
      /\ hdr.pn \in Nat
      /\ DOMAIN session = Party
      /\ IsFiniteSet(DOMAIN s.skipped_keys)
      /\ before \in Nat
  BY FS_CardinalityType, ForgedAssumption DEF IInv, TypeOK, Message, Header, FiniteSkipped
<1>2. FreshKeyPair(p) \in KeyPair /\ FreshKeyPair(p)[2] > 0
  BY <1>1, SessionFields DEF FreshKeyPair, KeyPair
<1>3. ASSUME Ratchets(p, hdr)
      PROVE  Keeps(s, r, Parity(p)) /\ r.receiving_chain # None
  <2>1. NeedRatchet(s, hdr) \/ s.receiving_chain # None
    BY <1>3 DEF Ratchets
  <2> QED BY <1>1, <1>2, <2>1, RatchetKeeps DEF Ratcheted
\* Past the DH ratchet, the skipping loop adds one more key or stays near the limit.
<1>4. ASSUME Ratchets(p, hdr)
      PROVE  CountGrowth(s, t) /\ SessionOK(t)
  <2>1. /\ IsFiniteSet(DOMAIN r.skipped_keys)
        /\ Cardinality(DOMAIN r.skipped_keys) \in Nat
        /\ \/ Cardinality(DOMAIN r.skipped_keys) = before
           \/ Cardinality(DOMAIN r.skipped_keys) <= MaxSkip
    BY <1>1, <1>2, <1>4, RatchetCount DEF Ratcheted, Ratchets
  <2> HIDE DEF r
  <2>2. /\ IsFiniteSet(DOMAIN t.skipped_keys)
        /\ Cardinality(DOMAIN t.skipped_keys) \in Nat
        /\ \/ Cardinality(DOMAIN t.skipped_keys) <= Cardinality(DOMAIN r.skipped_keys) + 1
           \/ Cardinality(DOMAIN t.skipped_keys) <= MaxSkip + 1
        /\ SessionOK(t)
    BY <1>1, <1>3, <1>4, <2>1, SkipCount, SkipType DEF Keeps
  <2> HIDE DEF t
  <2> QED BY <1>1, <2>1, <2>2, MaxSkipAssumption DEF CountGrowth
<1> HIDE DEF r, t
<1>5. CASE DecryptWithSkippedKey(p, m, hdr, intact)
  <2> DEFINE name == <<hdr.dh, hdr.n>>
             u    == DropSkippedKey(s, hdr)
  <2>1. session' = [session EXCEPT ![p] = u]
    BY <1>5 DEF DecryptWithSkippedKey
  <2>2. DOMAIN u.skipped_keys = DOMAIN s.skipped_keys \ {name}
    BY <1>1 DEF DropSkippedKey, SessionOK, SessionWith
  <2> HIDE DEF name, u
  <2>3. /\ IsFiniteSet(DOMAIN u.skipped_keys)
        /\ Cardinality(DOMAIN u.skipped_keys) <= before
        /\ Cardinality(DOMAIN u.skipped_keys) \in Nat
    <3> DEFINE names == DOMAIN s.skipped_keys
    <3>1. IsFiniteSet(names) /\ Cardinality(names) \in Nat
      BY <1>1
    <3> HIDE DEF names
    <3>2. /\ IsFiniteSet(names \ {name})
          /\ Cardinality(names \ {name}) =
                IF name \in names THEN Cardinality(names) - 1 ELSE Cardinality(names)
      BY <3>1, FS_RemoveElement
    <3>3. Cardinality(names \ {name}) \in Nat
      BY <3>2, FS_CardinalityType
    <3>4. Cardinality(names \ {name}) <= Cardinality(names)
      BY <3>1, <3>2
    <3> QED BY <2>2, <3>2, <3>3, <3>4 DEF names
  <2>4. CountGrowth(s, u)
    BY <1>1, <2>3 DEF CountGrowth
  <2> QED BY <1>1, <2>1, <2>4
<1>6. CASE RefuseOldChain(p, m, hdr)
  <2> DEFINE u == AfterOldChain(s, hdr)
  <2>1. session' = [session EXCEPT ![p] = u] /\ HasOldChain(s)
    BY <1>6 DEF RefuseOldChain, OldChainRefused
  <2>2. /\ s.receiving_chain # None
        /\ s.remote_dh_public \in KeyPair
    BY <1>1, <2>1, SessionFields DEF HasOldChain
  <2>3. u = Skip(s, s.remote_dh_public, hdr.pn)
    BY <2>1 DEF AfterOldChain
  <2> HIDE DEF u
  <2>4. CountGrowth(s, u)
    BY <1>1, <2>2, <2>3, SkipCount DEF CountGrowth
  <2> QED BY <1>1, <2>1, <2>4
<1>7. CASE RefuseNewChain(p, m, hdr)
  <2>1. session' = [session EXCEPT ![p] = t] /\ Ratchets(p, hdr)
    BY <1>7 DEF RefuseNewChain, r, t
  <2> QED BY <1>1, <1>4, <2>1
<1>8. CASE DecryptOnChain(p, m, hdr, intact)
  <2>1. session' = [session EXCEPT ![p] = AfterReceive(t)] /\ Ratchets(p, hdr)
    BY <1>8 DEF DecryptOnChain, r, t
  <2>2. AfterReceive(t).skipped_keys = t.skipped_keys
    BY <1>4, <2>1 DEF AfterReceive, SessionOK, SessionWith
  <2>3. CountGrowth(s, AfterReceive(t))
    BY <1>4, <2>1, <2>2 DEF CountGrowth
  <2> QED BY <1>1, <2>1, <2>3
<1>9. CASE RefuseNoChain(p, m, hdr)
  <2>1. session' = session
    BY <1>9 DEF RefuseNoChain
  <2> QED BY <1>1, <2>1 DEF CountGrowth
<1> QED BY <1>5, <1>6, <1>7, <1>8, <1>9 DEF Decrypt

(***************************************************************************)
(* One decrypt call stores at most one skipped key beyond MAX_SKIP, or one *)
(* beyond what the calls before it left.                                   *)
(***************************************************************************)
THEOREM SkipGrowthBounded == Spec => SkipGrowth
<1> DEFINE Grows(p) == \/ StoredKeys(p)' <= StoredKeys(p) + 1
                       \/ StoredKeys(p)' <= MaxSkip + 1
<1>1. Init => FiniteSkipped
  <2> SUFFICES ASSUME Init, NEW p \in Party
               PROVE  IsFiniteSet(DOMAIN session[p].skipped_keys)
    BY DEF FiniteSkipped
  <2>1. DOMAIN session[p].skipped_keys = {}
    BY DEF Init, InitAlice, InitBob
  <2> QED BY <2>1, FS_EmptySet
<1>2. IInv /\ FiniteSkipped /\ [Next]_vars =>
          FiniteSkipped' /\ \A p \in Party : Grows(p)
  <2> SUFFICES ASSUME IInv, FiniteSkipped, [Next]_vars, NEW p \in Party
               PROVE  IsFiniteSet(DOMAIN session'[p].skipped_keys) /\ Grows(p)
    BY DEF FiniteSkipped
  <2>1. IsFiniteSet(DOMAIN session[p].skipped_keys) /\ StoredKeys(p) \in Nat
    BY FS_CardinalityType DEF FiniteSkipped, StoredKeys
  \* Nothing but decrypt changes the keys a party stores.
  <2>2. ASSUME session'[p].skipped_keys = session[p].skipped_keys
        PROVE  IsFiniteSet(DOMAIN session'[p].skipped_keys) /\ Grows(p)
    BY <2>1, <2>2 DEF StoredKeys
  <2>3. ASSUME NEW q \in Party, Encrypt(q)
        PROVE  session'[p].skipped_keys = session[p].skipped_keys
    <3>1. SessionOK(session[q]) /\ session' = [session EXCEPT ![q] = AfterEncrypt(@)]
          /\ DOMAIN session = Party
      BY <2>3 DEF Encrypt, IInv, TypeOK
    <3>2. AfterEncrypt(session[q]).skipped_keys = session[q].skipped_keys
      BY <3>1 DEF AfterEncrypt, SessionOK, SessionWith
    <3> QED BY <3>1, <3>2
  <2>4. ASSUME NEW q \in Party, NEW m \in Sent, NEW intact \in BOOLEAN,
               NEW hdr \in {m.hdr} \cup Forged, Decrypt(q, m, hdr, intact)
        PROVE  IsFiniteSet(DOMAIN session'[p].skipped_keys) /\ Grows(p)
    <3>1. /\ CountGrowth(session[q], session'[q])
          /\ \A x \in Party \ {q} : session'[x] = session[x]
      BY <2>4, DecryptCount
    <3>2. CASE p = q
      BY <3>1, <3>2 DEF CountGrowth, StoredKeys
    <3>3. CASE p # q
      BY <2>2, <3>1, <3>3
    <3> QED BY <3>2, <3>3
  <2>5. CASE UNCHANGED vars
    BY <2>2, <2>5 DEF vars
  <2> QED BY <2>2, <2>3, <2>4, <2>5 DEF Next
<1> QED BY <1>1, <1>2, Invariance, PTL DEF Spec, SkipGrowth

-----------------------------------------------------------------------------
(* When no message that was opened comes again, and none is damaged *)

\* How many messages the sender s has sent on the receiving chain of r
Limit(r, s) == IF r.remote_dh_public = s.dh_public THEN s.sending_chain.index
                                                   ELSE s.previous_sending_chain_length

\* The first n messages of the chain are in M.
AllSent(M, dh, root, n) ==
    \A i \in 0 .. (n - 1) :
        \E m \in M : <<m.hdr.dh, m.hdr.n>> = <<dh, i>> /\ m.key = [chain |-> root, n |-> i]

\* A header tells which of the chains that r knows or s uses the key is from.
Labelled(r, s, m) ==
    /\ m.key.n = m.hdr.n
    /\ m.hdr.dh = s.dh_public => /\ m.key.chain = s.root_key
                                 /\ m.hdr.pn = s.previous_sending_chain_length
    /\ m.hdr.dh = r.remote_dh_public => /\ r.receiving_chain # None
                                        /\ m.key.chain = r.receiving_chain.root
                                        /\ m.hdr.n < Limit(r, s)

\* Message m is ahead of r or its key is stored.
OnItsWay(r, s, m) ==
    \/ m.hdr.dh = s.dh_public /\ m.hdr.dh # r.remote_dh_public
    \/ m.hdr.dh = r.remote_dh_public /\ r.receiving_chain.index <= m.hdr.n
    \/ HasSkippedKey(r, m.hdr) /\ SkippedKey(r, m.hdr) = m.key

\* Every key r stores is that of a message in U, under the name in its header.
StoredFor(r, U) ==
    \A k \in DOMAIN r.skipped_keys :
        \E m \in U : <<m.hdr.dh, m.hdr.n>> = k /\ m.key = r.skipped_keys[k]

(***************************************************************************)
(* Session r receives what session s sends: M are the messages s has sent, *)
(* U those of them that r has not opened.                                  *)
(***************************************************************************)
Hears(r, s, M, U) ==
    /\ \A m \in M : Labelled(r, s, m)
    /\ \A m \in U : OnItsWay(r, s, m)
    /\ StoredFor(r, U)
    /\ r.receiving_chain # None =>
          /\ r.remote_dh_public # None
          /\ r.receiving_chain.index <= Limit(r, s)
          /\ AllSent(M, r.remote_dh_public, r.receiving_chain.root, Limit(r, s))
    /\ s.sending_chain # None => AllSent(M, s.dh_public, s.root_key, s.sending_chain.index)

\* Session a has made the last DH ratchet, with the key that b has.
IsAhead(a, b) ==
    /\ a.root_key = RatchetStep(b.root_key, DH(a.dh_public, b.dh_public))
    /\ a.remote_dh_public = b.dh_public
    /\ b.remote_dh_public # a.dh_public
    /\ a.sending_chain # None
    /\ a.receiving_chain = None <=> b.sending_chain = None
    /\ a.receiving_chain # None => a.receiving_chain.root = b.root_key

\* A header names one message.
NamesUnique(M) ==
    \A m, l \in M : <<m.hdr.dh, m.hdr.n>> = <<l.hdr.dh, l.hdr.n>> => m = l

From(q) == {m \in Sent : m.from = q}

Unopened(q) == {m \in From(q) : wire[m].opened = 0}

\* DH keys are their owner's, and each names one chain.
HeadersInv ==
    /\ \A p \in Party : session[p].dh_public[1] = p
    /\ \A m \in Sent : /\ m.hdr.dh[1] = m.from
                       /\ m.hdr.dh[2] <= session[m.from].dh_public[2]
    /\ \A m, l \in Sent : m.hdr.dh = l.hdr.dh => m.key.chain = l.key.chain

(***************************************************************************)
(* What holds of the two sessions together, when no message that was       *)
(* opened comes again and none is damaged: one of them is a DH ratchet     *)
(* ahead, and each can still open whatever the other has sent.             *)
(***************************************************************************)
InStep ==
    /\ HeadersInv
    /\ \E p \in Party : IsAhead(session[p], session[Peer(p)])
    /\ \A p \in Party : Hears(session[p], session[Peer(p)], From(Peer(p)), Unopened(Peer(p)))

(***************************************************************************)
(* Skipping keys that were used to send stores each under the name of its  *)
(* message, which is not opened yet: the receiver still hears the sender.  *)
(***************************************************************************)
LEMMA SkipHears ==
    ASSUME NEW r, SessionOK(r), r.receiving_chain # None, NEW s,
           NEW M \in SUBSET Message, NEW U \in SUBSET M,
           Hears(r, s, M, U),
           \A x \in M \ U : ReceivingPast(r, x.key),
           NEW until \in Nat, Limit(r, s) \in Nat, until <= Limit(r, s)
    PROVE  Hears(Skip(r, r.remote_dh_public, until), s, M, U)
<1> DEFINE dh    == r.remote_dh_public
           t     == Skip(r, dh, until)
           end   == SkipEnd(r, dh, until)
           fresh == KeyNames(r, dh, end)
           root  == r.receiving_chain.root
           index == r.receiving_chain.index
<1>1. dh \in KeyPair /\ dh # None
  BY SessionFields DEF Hears
<1>2. /\ t.receiving_chain # None
      /\ t.receiving_chain.root = root
      /\ t.receiving_chain.index = end
      /\ t.remote_dh_public = dh
  BY <1>1, SkipType
<1>3. /\ DOMAIN t.skipped_keys = DOMAIN r.skipped_keys \cup fresh
      /\ \A k \in fresh : t.skipped_keys[k] = [chain |-> root, n |-> k[2]]
      /\ \A k \in DOMAIN r.skipped_keys \ fresh :
            t.skipped_keys[k] = r.skipped_keys[k]
  BY DEF Skip, SessionOK, SessionWith, MessageKeyAt
<1>4. index \in Nat /\ end \in Nat /\ index <= end /\ end <= Limit(r, s)
  <2>1. index \in Nat /\ index <= Limit(r, s)
    BY SessionFields DEF Hears
  <2>2. /\ end \in Nat /\ end >= index
        /\ SkipRefused(r, dh, until) => end \in GivesUpAt(r, dh, until)
        /\ ~ SkipRefused(r, dh, until) => end \in {index, until}
    BY <2>1, SkipEndType
  <2>3. \A e \in GivesUpAt(r, dh, until) : e <= until
    BY <2>1 DEF GivesUpAt
  <2> HIDE DEF end
  <2> QED BY <2>1, <2>2, <2>3
<1>5. \A k : k \in fresh <=> \E i \in index .. (end - 1) : k = <<dh, i>>
  BY DEF KeyNames
<1>6. \A x \in M : /\ x.hdr.n \in Nat /\ x.key.n \in Nat
                   /\ x.key = [chain |-> x.key.chain, n |-> x.key.n]
  BY DEF Message, Header, Key
<1>7. Limit(t, s) = Limit(r, s)
  BY <1>2 DEF Limit
<1> HIDE DEF t, end, fresh
<1>8. \A x \in M : Labelled(t, s, x)
  BY <1>2, <1>7 DEF Hears, Labelled
\* A message of the receiving chain whose key is fresh is stored under its name.
<1>9. ASSUME NEW x \in M, <<x.hdr.dh, x.hdr.n>> \in fresh
      PROVE  HasSkippedKey(t, x.hdr) /\ SkippedKey(t, x.hdr) = x.key
  <2>1. x.hdr.dh = dh
    BY <1>5, <1>9
  <2>2. x.key = [chain |-> root, n |-> x.hdr.n]
    BY <1>6, <2>1 DEF Hears, Labelled
  <2> QED BY <1>3, <1>9, <2>2 DEF HasSkippedKey, SkippedKey
<1>10. ASSUME NEW x \in U PROVE OnItsWay(t, s, x)
  <2>1. x \in M /\ OnItsWay(r, s, x)
    BY DEF Hears
  <2>2. CASE <<x.hdr.dh, x.hdr.n>> \in fresh
    BY <1>9, <2>1, <2>2 DEF OnItsWay
  <2>3. CASE <<x.hdr.dh, x.hdr.n>> \notin fresh
    <3>1. CASE x.hdr.dh = s.dh_public /\ x.hdr.dh # dh
      BY <1>2, <3>1 DEF OnItsWay
    <3>2. CASE x.hdr.dh = dh /\ index <= x.hdr.n
      <4>1. x.hdr.n \notin index .. (end - 1)
        BY <1>5, <2>3, <3>2
      <4>2. x.hdr.n \in Nat /\ index \in Nat /\ end \in Nat /\ index <= x.hdr.n
        BY <1>4, <1>6, <2>1, <3>2
      <4>3. end <= x.hdr.n
        <5> HIDE DEF index
        <5> QED BY <4>1, <4>2
      <4> QED BY <1>2, <3>2, <4>3 DEF OnItsWay
    <3>3. CASE HasSkippedKey(r, x.hdr) /\ SkippedKey(r, x.hdr) = x.key
      BY <1>3, <2>3, <3>3 DEF OnItsWay, HasSkippedKey, SkippedKey
    <3> QED BY <2>1, <3>1, <3>2, <3>3 DEF OnItsWay
  <2> QED BY <2>2, <2>3
<1>11. StoredFor(t, U)
  <2> SUFFICES ASSUME NEW k \in DOMAIN t.skipped_keys
               PROVE  \E x \in U : /\ <<x.hdr.dh, x.hdr.n>> = k
                                   /\ x.key = t.skipped_keys[k]
    BY DEF StoredFor
  <2>1. CASE k \in fresh
    <3>1. PICK i \in index .. (end - 1) : k = <<dh, i>>
      BY <1>5, <2>1
    <3>2. i \in 0 .. (Limit(r, s) - 1) /\ index <= i
      BY <1>4, <3>1
    <3>3. PICK x \in M : <<x.hdr.dh, x.hdr.n>> = k /\ x.key = [chain |-> root, n |-> i]
      BY <3>1, <3>2 DEF Hears, AllSent
    <3>4. ~ ReceivingPast(r, x.key)
      <4>1. x.key.n = i /\ x.key.chain = root
        BY <3>3
      <4>2. ~ (i < index)
        BY <1>4, <3>2
      <4> QED BY <4>1, <4>2 DEF ReceivingPast
    <3>5. x \in U
      BY <3>4
    <3>6. t.skipped_keys[k] = [chain |-> root, n |-> i]
      BY <1>3, <2>1, <3>1
    <3> QED BY <3>3, <3>5, <3>6
  <2>2. CASE k \in DOMAIN r.skipped_keys \ fresh
    BY <1>3, <2>2 DEF Hears, StoredFor
  <2> QED BY <1>3, <2>1, <2>2
<1> QED BY <1>1, <1>2, <1>4, <1>7, <1>8, <1>10, <1>11 DEF Hears, t

(***************************************************************************)
(* Whether r hears s depends on the sending side of s and the receiving    *)
(* side of r only.                                                         *)
(***************************************************************************)
LEMMA HearsSides ==
    ASSUME NEW r, NEW s, NEW M, NEW U, Hears(r, s, M, U),
           NEW t, /\ t.remote_dh_public = r.remote_dh_public
                  /\ t.receiving_chain = r.receiving_chain
                  /\ t.skipped_keys = r.skipped_keys,
           NEW v, /\ v.dh_public = s.dh_public
                  /\ v.root_key = s.root_key
                  /\ v.sending_chain = s.sending_chain
                  /\ v.previous_sending_chain_length = s.previous_sending_chain_length
    PROVE  Hears(t, v, M, U)
<1>1. Limit(t, v) = Limit(r, s)
  BY DEF Limit
<1>2. \A m : /\ Labelled(r, s, m) => Labelled(t, v, m)
             /\ OnItsWay(r, s, m) => OnItsWay(t, v, m)
  BY <1>1 DEF Labelled, OnItsWay, HasSkippedKey, SkippedKey
<1>3. StoredFor(t, U)
  BY DEF Hears, StoredFor
<1> QED BY <1>1, <1>2, <1>3 DEF Hears

(***************************************************************************)
(* A stored key opens the message it is found for, and taking it out of    *)
(* the map takes no other message's key.                                   *)
(***************************************************************************)
LEMMA DropHears ==
    ASSUME NEW r, SessionOK(r), NEW s, NEW M, NEW U \in SUBSET M,
           Hears(r, s, M, U), NamesUnique(M),
           \A x, y \in M : x.key = y.key => x = y,
           NEW m \in M, HasSkippedKey(r, m.hdr)
    PROVE  /\ SkippedKey(r, m.hdr) = m.key
           /\ Hears(DropSkippedKey(r, m.hdr), s, M, U \ {m})
<1> DEFINE t    == DropSkippedKey(r, m.hdr)
           name == <<m.hdr.dh, m.hdr.n>>
           kept == DOMAIN r.skipped_keys \ {name}
<1>1. /\ t.remote_dh_public = r.remote_dh_public
      /\ t.receiving_chain = r.receiving_chain
      /\ DOMAIN t.skipped_keys = kept
      /\ \A k \in kept : t.skipped_keys[k] = r.skipped_keys[k]
  BY DEF DropSkippedKey, SessionOK, SessionWith
<1>2. SkippedKey(r, m.hdr) = m.key
  <2>1. PICK x \in U : <<x.hdr.dh, x.hdr.n>> = name /\ x.key = r.skipped_keys[name]
    BY DEF Hears, StoredFor, HasSkippedKey
  <2>2. x = m
    BY <2>1 DEF NamesUnique
  <2> QED BY <2>1, <2>2 DEF SkippedKey
<1> HIDE DEF t
<1>3. Limit(t, s) = Limit(r, s)
  BY <1>1 DEF Limit
<1>4. \A x \in M : Labelled(t, s, x)
  BY <1>1, <1>3 DEF Hears, Labelled
<1>5. ASSUME NEW x \in U \ {m} PROVE OnItsWay(t, s, x)
  <2>1. CASE HasSkippedKey(r, x.hdr) /\ SkippedKey(r, x.hdr) = x.key
    <3>1. <<x.hdr.dh, x.hdr.n>> # name
      BY DEF NamesUnique
    <3> QED BY <1>1, <2>1, <3>1 DEF OnItsWay, HasSkippedKey, SkippedKey
  <2> QED BY <1>1, <2>1 DEF Hears, OnItsWay
<1>6. StoredFor(t, U \ {m})
  BY <1>1 DEF Hears, StoredFor
<1> QED BY <1>1, <1>2, <1>3, <1>4, <1>5, <1>6 DEF Hears, t

(***************************************************************************)
(* When the receiving chain has come to a message's number, its next key   *)
(* opens the message, and the chain moves past no other message.           *)
(***************************************************************************)
LEMMA ReceiveHears ==
    ASSUME NEW r, SessionOK(r), NEW parity, SessionInv(r, parity),
           NEW s, NEW M \in SUBSET Message, NEW U \in SUBSET M,
           Hears(r, s, M, U), NamesUnique(M), Limit(r, s) \in Nat,
           NEW m \in M, m.hdr.dh = r.remote_dh_public,
           r.receiving_chain.index = m.hdr.n
    PROVE  /\ NextMessageKey(r.receiving_chain) = m.key
           /\ Hears(AfterReceive(r), s, M, U \ {m})
<1> DEFINE t    == AfterReceive(r)
           root == r.receiving_chain.root
           n    == m.hdr.n
<1>1. /\ r.receiving_chain # None
      /\ m.key.chain = root /\ m.key.n = n
      /\ n < Limit(r, s)
      /\ m.key = [chain |-> m.key.chain, n |-> m.key.n]
      /\ n \in Nat
      /\ \A x \in M : x.hdr.n \in Nat
  BY DEF Hears, Labelled, Message, Header, Key
<1>2. NextMessageKey(r.receiving_chain) = m.key
  BY <1>1 DEF NextMessageKey, MessageKeyAt
<1>3. /\ t.remote_dh_public = r.remote_dh_public
      /\ t.receiving_chain # None
      /\ t.receiving_chain.root = root
      /\ t.receiving_chain.index = n + 1
      /\ t.skipped_keys = r.skipped_keys
  <2>1. r.receiving_chain \in Chain
    BY <1>1, SessionFields
  <2>2. /\ Advanced(r.receiving_chain) \in Chain
        /\ Advanced(r.receiving_chain).root = root
        /\ Advanced(r.receiving_chain).index = n + 1
    BY <2>1 DEF Advanced, Chain
  <2>3. Advanced(r.receiving_chain) # None
    BY <2>2, NoneAssumption
  <2>4. /\ t.remote_dh_public = r.remote_dh_public
        /\ t.receiving_chain = Advanced(r.receiving_chain)
        /\ t.skipped_keys = r.skipped_keys
    BY DEF AfterReceive, SessionOK, SessionWith
  <2> QED BY <2>2, <2>3, <2>4
<1> HIDE DEF t
<1>4. Limit(t, s) = Limit(r, s)
  BY <1>3 DEF Limit
<1>5. \A x \in M : Labelled(t, s, x)
  BY <1>1, <1>3, <1>4 DEF Hears, Labelled
<1>6. ASSUME NEW x \in U \ {m} PROVE OnItsWay(t, s, x)
  <2>1. CASE x.hdr.dh = r.remote_dh_public /\ n <= x.hdr.n
    <3>1. x.hdr.n # n
      BY <2>1 DEF NamesUnique
    <3>2. n + 1 <= x.hdr.n
      BY <1>1, <2>1, <3>1
    <3> QED BY <1>3, <2>1, <3>2 DEF OnItsWay
  <2> QED BY <1>3, <2>1 DEF Hears, OnItsWay, HasSkippedKey, SkippedKey
<1>7. StoredFor(t, U \ {m})
  <2> SUFFICES ASSUME NEW k \in DOMAIN r.skipped_keys
               PROVE  \E x \in U \ {m} : /\ <<x.hdr.dh, x.hdr.n>> = k
                                         /\ x.key = r.skipped_keys[k]
    BY <1>3 DEF StoredFor
  <2>1. PICK x \in U : <<x.hdr.dh, x.hdr.n>> = k /\ x.key = r.skipped_keys[k]
    BY DEF Hears, StoredFor
  <2>2. r.skipped_keys[k] # m.key
    <3>1. ReceivingPast(r, r.skipped_keys[k])
      BY DEF SessionInv
    <3>2. ~ ReceivingPast(r, m.key)
      BY <1>1 DEF ReceivingPast
    <3> QED BY <3>1, <3>2
  <2> QED BY <2>1, <2>2
<1>8. n + 1 <= Limit(r, s)
  BY <1>1
<1> QED BY <1>1, <1>2, <1>3, <1>4, <1>5, <1>6, <1>7, <1>8 DEF Hears, t

(***************************************************************************)
(* A message that starts a DH ratchet is from the sender's current chain:  *)
(* the sender is ahead, and the header's previous_chain_length is what it  *)
(* sent on the receiver's old chain.                                       *)
(***************************************************************************)
LEMMA NewChainMessage ==
    ASSUME NEW r, NEW s, SessionOK(s), NEW M, NEW U \in SUBSET M,
           Hears(r, s, M, U), IsAhead(r, s) \/ IsAhead(s, r),
           NEW m \in U, ~ HasSkippedKey(r, m.hdr), NeedRatchet(r, m.hdr)
    PROVE  /\ m.hdr.dh = s.dh_public
           /\ m.key.chain = s.root_key
           /\ m.hdr.pn = s.previous_sending_chain_length
           /\ IsAhead(s, r)
           /\ Limit(r, s) = m.hdr.pn
           /\ Limit(r, s) \in Nat
<1>1. Labelled(r, s, m) /\ OnItsWay(r, s, m)
  BY DEF Hears
<1>2. m.hdr.dh = s.dh_public /\ s.dh_public # r.remote_dh_public
  BY <1>1 DEF OnItsWay, NeedRatchet
<1>3. IsAhead(s, r)
  BY <1>2 DEF IsAhead
<1> QED BY <1>1, <1>2, <1>3, SessionFields DEF Labelled, Limit

(***************************************************************************)
(* skip_current_receiving_chain keeps the receiver hearing the sender, and *)
(* leaves nothing of the old chain behind unless it is refused.            *)
(***************************************************************************)
LEMMA OldChainHears ==
    ASSUME NEW r, SessionOK(r), NEW s,
           NEW M \in SUBSET Message, NEW U \in SUBSET M, Hears(r, s, M, U),
           \A x \in M \ U : ReceivingPast(r, x.key),
           NEW hdr, Limit(r, s) \in Nat, hdr.pn = Limit(r, s)
    PROVE  LET t == AfterOldChain(r, hdr)
           IN  /\ Hears(t, s, M, U)
               /\ SessionOK(t)
               /\ t.root_key = r.root_key
               /\ t.dh_public = r.dh_public
               /\ t.remote_dh_public = r.remote_dh_public
               /\ t.sending_chain = r.sending_chain
               /\ t.previous_sending_chain_length = r.previous_sending_chain_length
               /\ ~ OldChainRefused(r, hdr) /\ t.receiving_chain # None =>
                     t.receiving_chain.index = Limit(r, s)
<1> DEFINE t == AfterOldChain(r, hdr)
<1>1. CASE HasOldChain(r)
  <2>1. /\ r.receiving_chain # None
        /\ r.remote_dh_public \in KeyPair
        /\ hdr.pn \in Nat
        /\ t = Skip(r, r.remote_dh_public, hdr.pn)
    BY <1>1, SessionFields DEF HasOldChain, AfterOldChain
  <2>2. Hears(t, s, M, U)
    BY <2>1, SkipHears
  <2>3. /\ SessionOK(t)
        /\ t.root_key = r.root_key
        /\ t.dh_public = r.dh_public
        /\ t.remote_dh_public = r.remote_dh_public
        /\ t.sending_chain = r.sending_chain
        /\ t.receiving_chain.index = SkipEnd(r, r.remote_dh_public, hdr.pn)
    BY <2>1, SkipType
  <2>5. t.previous_sending_chain_length = r.previous_sending_chain_length
    BY <2>1 DEF Skip, SessionOK, SessionWith
  <2>4. ASSUME ~ OldChainRefused(r, hdr)
        PROVE  SkipEnd(r, r.remote_dh_public, hdr.pn) = hdr.pn
    <3>1. ~ SkipRefused(r, r.remote_dh_public, hdr.pn)
      BY <1>1, <2>4 DEF OldChainRefused
    <3>2. r.receiving_chain.index \in Nat /\ r.receiving_chain.index <= hdr.pn
      BY <2>1, SessionFields DEF Hears
    <3>3. SkipEnd(r, r.remote_dh_public, hdr.pn) = Max({r.receiving_chain.index, hdr.pn})
      BY <3>1 DEF SkipEnd
    <3> QED BY <2>1, <3>2, <3>3 DEF Max
  <2> QED BY <2>2, <2>3, <2>4, <2>5
<1>2. CASE ~ HasOldChain(r)
  <2>1. t = r
    BY <1>2 DEF AfterOldChain
  <2>2. r.receiving_chain = None
    BY <1>2 DEF HasOldChain, Hears
  <2> QED BY <2>1, <2>2
<1> QED BY <1>1, <1>2

(***************************************************************************)
(* A DH ratchet with the key of the session s that is ahead makes the      *)
(* other one, r, go ahead of it; nothing either has sent gets lost, since  *)
(* r stored the old chain and has not used the new key pair yet.           *)
(***************************************************************************)
LEMMA DhRatchetHears ==
    ASSUME NEW r, SessionOK(r), NEW s, SessionOK(s), IsAhead(s, r),
           NEW M \in SUBSET Message, NEW U \in SUBSET M, Hears(r, s, M, U),
           NEW L \in SUBSET Message, NEW W \in SUBSET L, Hears(s, r, L, W),
           \A x \in M : SendingPast(s, x.key),
           r.receiving_chain # None => r.receiving_chain.index = Limit(r, s),
           NEW new \in KeyPair, new # r.dh_public,
           \A x \in L : x.hdr.dh # new
    PROVE  LET u == DhRatchet(r, s.dh_public, new)
           IN  /\ IsAhead(u, s)
               /\ Hears(u, s, M, U)
               /\ Hears(s, u, L, W)
<1> DEFINE u    == DhRatchet(r, s.dh_public, new)
           recv == RatchetStep(r.root_key, DH(r.dh_public, s.dh_public))
           send == RatchetStep(recv, DH(new, s.dh_public))
           pn   == IF r.sending_chain = None THEN 0 ELSE r.sending_chain.index
<1>1. recv = s.root_key
  <2>1. DH(r.dh_public, s.dh_public) = DH(s.dh_public, r.dh_public)
    BY DEF DH
  <2> QED BY <2>1 DEF IsAhead
<1>2. /\ s.root_key \in RootKey /\ s.dh_public \in KeyPair
      /\ s.sending_chain # None /\ s.sending_chain.index \in Nat
      /\ s.remote_dh_public = r.dh_public
      /\ r.remote_dh_public # s.dh_public
      /\ s.dh_public # None
  BY SessionFields, NoneAssumption DEF IsAhead
<1>3. /\ u.root_key = send
      /\ u.dh_public = new
      /\ u.remote_dh_public = s.dh_public
      /\ u.sending_chain = NewChain(send)
      /\ u.receiving_chain = NewChain(recv)
      /\ u.previous_sending_chain_length = pn
      /\ u.skipped_keys = r.skipped_keys
  BY DEF DhRatchet, SessionOK, SessionWith
<1>4. /\ NewChain(recv) # None /\ NewChain(recv).root = s.root_key
      /\ NewChain(recv).index = 0
      /\ NewChain(send) # None /\ NewChain(send).root = send
      /\ NewChain(send).index = 0
  <2>1. send \in RootKey
    BY <1>1, <1>2, RatchetStepType
  <2> HIDE DEF send, recv
  <2> QED BY <1>1, <1>2, <2>1, RatchetStepType
<1> HIDE DEF u, pn
<1>5. IsAhead(u, s)
  <2>1. u.root_key = RatchetStep(s.root_key, DH(u.dh_public, s.dh_public))
    BY <1>1, <1>3
  <2> HIDE DEF send, recv
  <2> QED BY <1>2, <1>3, <1>4, <2>1 DEF IsAhead
<1> HIDE DEF send, recv
<1>6. Hears(u, s, M, U)
  <2>1. Limit(u, s) = s.sending_chain.index
    BY <1>3 DEF Limit
  <2>2. ASSUME NEW x \in M PROVE Labelled(u, s, x)
    <3>1. Labelled(r, s, x) /\ SendingPast(s, x.key)
      BY DEF Hears
    <3>2. ASSUME x.hdr.dh = s.dh_public
          PROVE  x.key.chain = s.root_key /\ x.hdr.n < s.sending_chain.index
      BY <3>1, <3>2 DEF Labelled, SendingPast
    <3> QED BY <1>3, <1>4, <2>1, <3>1, <3>2 DEF Labelled
  <2>3. ASSUME NEW x \in U PROVE OnItsWay(u, s, x)
    <3>1. OnItsWay(r, s, x) /\ Labelled(r, s, x) /\ x.hdr.n \in Nat
      BY DEF Hears, Message, Header
    <3>2. CASE x.hdr.dh = s.dh_public
      BY <1>3, <1>4, <3>1, <3>2 DEF OnItsWay
    <3>3. CASE x.hdr.dh = r.remote_dh_public /\ r.receiving_chain.index <= x.hdr.n
      <4>1. r.receiving_chain # None /\ x.hdr.n < r.receiving_chain.index
        BY <3>1, <3>3 DEF Labelled
      <4>2. r.receiving_chain.index \in Nat
        BY <4>1, SessionFields
      <4> QED BY <3>1, <3>3, <4>1, <4>2
    <3>4. CASE HasSkippedKey(r, x.hdr) /\ SkippedKey(r, x.hdr) = x.key
      BY <1>3, <3>4 DEF OnItsWay, HasSkippedKey, SkippedKey
    <3> QED BY <3>1, <3>2, <3>3, <3>4 DEF OnItsWay
  <2>4. StoredFor(u, U)
    BY <1>3 DEF Hears, StoredFor
  <2>5. AllSent(M, s.dh_public, s.root_key, s.sending_chain.index)
    BY <1>2 DEF Hears
  <2> QED BY <1>2, <1>3, <1>4, <2>1, <2>2, <2>3, <2>4, <2>5 DEF Hears
<1>7. Hears(s, u, L, W)
  <2>1. s.receiving_chain # None => Limit(s, u) = Limit(s, r)
    <3>1. Limit(s, u) = pn
      BY <1>2, <1>3 DEF Limit
    <3>2. Limit(s, r) = r.sending_chain.index
      BY <1>2 DEF Limit
    <3> QED BY <3>1, <3>2 DEF pn, IsAhead
  <2>2. \A x \in L : Labelled(s, u, x)
    BY <1>3, <2>1 DEF Hears, Labelled
  <2>3. \A x \in W : OnItsWay(s, u, x)
    BY <1>2, <1>3 DEF Hears, OnItsWay
  <2>4. AllSent(L, u.dh_public, u.root_key, u.sending_chain.index)
    <3>1. 0 .. (u.sending_chain.index - 1) = {}
      BY <1>3, <1>4
    <3> QED BY <3>1 DEF AllSent
  <2> QED BY <1>2, <2>1, <2>2, <2>3, <2>4 DEF Hears
<1> QED BY <1>5, <1>6, <1>7 DEF u

\* Two sessions r and s: s has sent M, of which r has not opened U, and r has
\* sent L, of which s has not opened W.
Together(r, s, M, U, L, W) ==
    /\ IsAhead(r, s) \/ IsAhead(s, r)
    /\ Hears(r, s, M, U)
    /\ Hears(s, r, L, W)

(***************************************************************************)
(* What the two invariants say of the session of party p.                  *)
(***************************************************************************)
LEMMA PartyFacts ==
    ASSUME IInv, InStep, NEW p \in Party
    PROVE  LET q == Peer(p)
               r == session[p]
               s == session[q]
               M == From(q)
               U == Unopened(q)
               L == From(p)
           IN  /\ q \in Party /\ q # p /\ Peer(q) = p
               /\ SessionOK(r) /\ SessionInv(r, Parity(p))
               /\ SessionOK(s) /\ SessionInv(s, Parity(q))
               /\ M \in SUBSET Message /\ U \in SUBSET M
               /\ L \in SUBSET Message /\ Unopened(p) \in SUBSET L
               /\ Together(r, s, M, U, L, Unopened(p))
               /\ \A x, y \in M : x.key = y.key => x = y
               /\ \A x \in M : SendingPast(s, x.key) /\ x.hdr.dh[2] > 0
               /\ \A x \in M \ U : Consumed(r, x.key) /\ ReceivingPast(r, x.key)
               /\ FreshKeyPair(p) \in KeyPair
               /\ FreshKeyPair(p)[2] > 0 /\ FreshKeyPair(p) # r.dh_public
               /\ \A x \in L : x.hdr.dh # FreshKeyPair(p)
               /\ r.receiving_chain # None => Limit(r, s) \in Nat
<1> DEFINE q == Peer(p)
           r == session[p]
           s == session[q]
           M == From(q)
           U == Unopened(q)
           L == From(p)
<1>1. q \in Party /\ q # p /\ Peer(q) = p /\ Party = {p, q}
  BY PartyAssumption DEF Peer, Party
<1> HIDE DEF q
<1>2. /\ SessionOK(r) /\ SessionInv(r, Parity(p))
      /\ SessionOK(s) /\ SessionInv(s, Parity(q))
  BY <1>1 DEF IInv, TypeOK
<1>3. /\ M \in SUBSET Message /\ U \in SUBSET M
      /\ L \in SUBSET Message /\ Unopened(p) \in SUBSET L
  BY DEF From, Unopened, IInv, TypeOK
<1>4. Together(r, s, M, U, L, Unopened(p))
  <2>1. IsAhead(r, s) \/ IsAhead(s, r)
    <3>1. PICK o \in Party : IsAhead(session[o], session[Peer(o)])
      BY DEF InStep
    <3>2. o = p \/ o = q
      BY <1>1
    <3>3. o = p => IsAhead(r, s)
      BY <3>1 DEF q
    <3>4. o = q => IsAhead(s, r)
      BY <1>1, <3>1
    <3> QED BY <3>2, <3>3, <3>4
  <2>2. Hears(r, s, M, U) /\ Hears(s, r, L, Unopened(p))
    BY <1>1 DEF InStep, q
  <2> QED BY <2>1, <2>2 DEF Together
<1>5. \A x, y \in M : x.key = y.key => x = y
  BY DEF IInv, KeysUnique, From
<1>6. \A x \in M : SendingPast(s, x.key) /\ x.hdr.dh[2] > 0
  BY DEF IInv, MessageInv, From
<1>7. \A x \in M \ U : Consumed(r, x.key) /\ ReceivingPast(r, x.key)
  <2> SUFFICES ASSUME NEW x \in M \ U
               PROVE  Consumed(r, x.key) /\ ReceivingPast(r, x.key)
    OBVIOUS
  <2>1. x \in Sent /\ x.from = q /\ wire[x].opened # 0
    BY DEF From, Unopened
  <2>2. wire[x].opened = 1
    <3>1. wire[x] \in [tries : Nat, opened : Nat] /\ wire[x].opened <= 1
      BY <2>1 DEF IInv, TypeOK, MessageInv
    <3> QED BY <2>1, <3>1
  <2> QED BY <1>1, <2>1, <2>2 DEF IInv, MessageInv, Consumed
<1>8. /\ FreshKeyPair(p) \in KeyPair
      /\ FreshKeyPair(p)[2] > 0 /\ FreshKeyPair(p) # r.dh_public
      /\ \A x \in L : x.hdr.dh # FreshKeyPair(p)
  <2>1. r.dh_public \in KeyPair /\ r.dh_public[2] \in Nat
    BY <1>2, SessionFields DEF KeyPair
  <2>2. \A x \in L : x.hdr.dh[2] <= r.dh_public[2] /\ x.hdr.dh[2] \in Nat
    <3>1. \A x \in L : x \in Sent /\ x.from = p /\ x.hdr.dh \in KeyPair
      BY <1>3 DEF From, Message, Header
    <3> QED BY <3>1 DEF InStep, HeadersInv, KeyPair
  <2>3. FreshKeyPair(p) = <<p, r.dh_public[2] + 1>>
    BY DEF FreshKeyPair
  <2>4. FreshKeyPair(p) \in KeyPair /\ FreshKeyPair(p)[2] = r.dh_public[2] + 1
    BY <2>1, <2>3 DEF KeyPair
  <2> QED BY <2>1, <2>2, <2>4
<1>9. r.receiving_chain # None => Limit(r, s) \in Nat
  <2>1. r.receiving_chain # None /\ r.remote_dh_public = s.dh_public
           => s.sending_chain # None
    BY <1>4 DEF Together, IsAhead
  <2> QED BY <1>2, <2>1, SessionFields DEF Limit
<1> QED BY <1>1, <1>2, <1>3, <1>4, <1>5, <1>6, <1>7, <1>8, <1>9 DEF q

(***************************************************************************)
(* A sender's message is told by its header: a DH key names a chain, and   *)
(* the number in the header is that of the key.                            *)
(***************************************************************************)
LEMMA HeadersUnique ==
    ASSUME IInv, InStep, NEW q \in Party
    PROVE  NamesUnique(From(q))
<1> SUFFICES ASSUME NEW x \in From(q), NEW y \in From(q),
                    <<x.hdr.dh, x.hdr.n>> = <<y.hdr.dh, y.hdr.n>>
             PROVE  x = y
  BY DEF NamesUnique
<1>1. Peer(q) \in Party /\ Peer(Peer(q)) = q
  BY PartyAssumption DEF Peer, Party
<1>2. x \in Sent /\ y \in Sent /\ x.key \in Key /\ y.key \in Key
  BY DEF From, IInv, TypeOK, Message
<1>3. x.key.n = x.hdr.n /\ y.key.n = y.hdr.n
  BY <1>1 DEF InStep, Hears, Labelled
<1>4. x.key.chain = y.key.chain
  BY <1>2 DEF InStep, HeadersInv
<1>5. x.key = y.key
  BY <1>2, <1>3, <1>4 DEF Key
<1> QED BY <1>2, <1>5 DEF IInv, KeysUnique

(***************************************************************************)
(* Steps 1 and 2 of decrypt, not refused: the sessions stay together, and  *)
(* the message is one that the receiving chain has yet to come to.         *)
(***************************************************************************)
LEMMA RatchetTogether ==
    ASSUME IInv, InStep, NEW p \in Party,
           NEW m \in Unopened(Peer(p)), Ratchets(p, m.hdr)
    PROVE  LET t == Ratcheted(p, m.hdr)
               s == session[Peer(p)]
               M == From(Peer(p))
           IN  /\ Keeps(session[p], t, Parity(p))
               /\ Together(t, s, M, Unopened(Peer(p)), From(p), Unopened(p))
               /\ t.dh_public \in {session[p].dh_public, FreshKeyPair(p)}
               /\ t.remote_dh_public = m.hdr.dh
               /\ t.receiving_chain # None
               /\ t.receiving_chain.index <= m.hdr.n
               /\ m.hdr.n <= Limit(t, s)
               /\ Limit(t, s) \in Nat
<1> DEFINE q == Peer(p)
           r == session[p]
           s == session[q]
           M == From(q)
           U == Unopened(q)
           L == From(p)
           W == Unopened(p)
           t == Ratcheted(p, m.hdr)
<1>1. /\ SessionOK(r) /\ SessionInv(r, Parity(p))
      /\ SessionOK(s)
      /\ M \in SUBSET Message /\ U \in SUBSET M
      /\ L \in SUBSET Message /\ W \in SUBSET L
      /\ Together(r, s, M, U, L, W)
      /\ \A x \in M : SendingPast(s, x.key) /\ x.hdr.dh[2] > 0
      /\ \A x \in M \ U : ReceivingPast(r, x.key)
      /\ FreshKeyPair(p) \in KeyPair
      /\ FreshKeyPair(p)[2] > 0 /\ FreshKeyPair(p) # r.dh_public
      /\ \A x \in L : x.hdr.dh # FreshKeyPair(p)
      /\ r.receiving_chain # None => Limit(r, s) \in Nat
  BY PartyFacts
<1>2. /\ m \in U /\ m \in M
      /\ m.hdr \in Header /\ m.hdr.dh \in KeyPair /\ m.hdr.n \in Nat
      /\ m.hdr.dh[2] > 0
  BY <1>1 DEF Message, Header
<1>3. /\ ~ HasSkippedKey(r, m.hdr)
      /\ NeedRatchet(r, m.hdr) => ~ OldChainRefused(r, m.hdr)
      /\ NeedRatchet(r, m.hdr) \/ r.receiving_chain # None
  BY DEF Ratchets
<1>4. t = AfterRatchet(r, m.hdr, FreshKeyPair(p))
  BY DEF Ratcheted
<1> HIDE DEF q, t, U, W
<1>5. Keeps(r, t, Parity(p)) /\ t.receiving_chain # None
  BY <1>1, <1>2, <1>3, <1>4, RatchetKeeps
<1>6. CASE NeedRatchet(r, m.hdr)
  <2> DEFINE v == AfterOldChain(r, m.hdr)
             u == DhRatchet(v, m.hdr.dh, FreshKeyPair(p))
  <2>1. /\ m.hdr.dh = s.dh_public
        /\ m.key.chain = s.root_key
        /\ IsAhead(s, r)
        /\ Limit(r, s) = m.hdr.pn
        /\ Limit(r, s) \in Nat
    BY <1>1, <1>2, <1>3, <1>6, NewChainMessage DEF Together
  <2>2. /\ Hears(v, s, M, U)
        /\ SessionOK(v)
        /\ v.root_key = r.root_key
        /\ v.dh_public = r.dh_public
        /\ v.remote_dh_public = r.remote_dh_public
        /\ v.sending_chain = r.sending_chain
        /\ v.previous_sending_chain_length = r.previous_sending_chain_length
        /\ v.receiving_chain # None => v.receiving_chain.index = Limit(r, s)
    <3>1. Hears(r, s, M, U) /\ m.hdr.pn = Limit(r, s) /\ ~ OldChainRefused(r, m.hdr)
      BY <1>1, <1>3, <1>6, <2>1 DEF Together
    <3>2. /\ SessionOK(r) /\ M \in SUBSET Message /\ U \in SUBSET M
          /\ \A x \in M \ U : ReceivingPast(r, x.key)
          /\ Limit(r, s) \in Nat
      BY <1>1, <2>1
    <3> DEFINE hdr == m.hdr
    <3>3. hdr.pn = Limit(r, s) /\ ~ OldChainRefused(r, hdr) /\ v = AfterOldChain(r, hdr)
      BY <3>1
    <3>4. Hears(r, s, M, U)
      BY <3>1
    <3> HIDE DEF r, s, M, L, u, v, hdr
    <3>5. LET x == AfterOldChain(r, hdr)
          IN  /\ Hears(x, s, M, U)
              /\ SessionOK(x)
              /\ x.root_key = r.root_key
              /\ x.dh_public = r.dh_public
              /\ x.remote_dh_public = r.remote_dh_public
              /\ x.sending_chain = r.sending_chain
              /\ x.previous_sending_chain_length = r.previous_sending_chain_length
              /\ ~ OldChainRefused(r, hdr) /\ x.receiving_chain # None =>
                    x.receiving_chain.index = Limit(r, s)
      BY <3>2, <3>3, <3>4, OldChainHears, SMTT(90)
    <3> QED BY <3>3, <3>5
  <2>3. r.receiving_chain = None <=> v.receiving_chain = None
    BY <1>1, SkipType, SessionFields, <1>2 DEF AfterOldChain, HasOldChain, Header
  <2>4. t = u
    BY <1>4, <1>6 DEF AfterRatchet
  <2> HIDE DEF v
  <2>5. Limit(v, s) = Limit(r, s)
    BY <2>2 DEF Limit
  <2>6. IsAhead(s, v)
    BY <2>1, <2>2 DEF IsAhead
  <2>7. Hears(s, v, L, W)
    <3>1. Hears(s, r, L, W)
      BY <1>1 DEF Together
    <3> HIDE DEF r, s, L
    <3> QED BY <2>2, <3>1, HearsSides
  <2>8. /\ IsAhead(u, s)
        /\ Hears(u, s, M, U)
        /\ Hears(s, u, L, W)
    BY <1>1, <2>1, <2>2, <2>5, <2>6, <2>7, DhRatchetHears
  <2>9. /\ u.dh_public = FreshKeyPair(p)
        /\ u.remote_dh_public = m.hdr.dh
        /\ u.receiving_chain.index = 0
    BY <2>2 DEF DhRatchet, SessionOK, SessionWith, NewChain
  <2>10. Limit(u, s) = s.sending_chain.index /\ Limit(u, s) \in Nat
    BY <1>1, <2>1, <2>9, SessionFields DEF Limit, IsAhead
  <2> HIDE DEF u
  <2>11. m.hdr.n <= Limit(u, s)
    <3>1. Labelled(u, s, m)
      BY <1>2, <2>8 DEF Hears
    <3> QED BY <1>2, <2>9, <2>10, <3>1 DEF Labelled
  <2> QED BY <1>2, <1>5, <2>4, <2>8, <2>9, <2>10, <2>11 DEF Together, q, t, U, W
<1>7. CASE ~ NeedRatchet(r, m.hdr)
  <2>1. t = r /\ r.remote_dh_public = m.hdr.dh
    BY <1>4, <1>7 DEF AfterRatchet, NeedRatchet
  <2>2. Labelled(r, s, m) /\ OnItsWay(r, s, m)
    BY <1>1, <1>2 DEF Together, Hears
  <2>3. r.receiving_chain.index <= m.hdr.n
    BY <1>3, <2>1, <2>2 DEF OnItsWay
  <2>4. Limit(r, s) \in Nat
    BY <1>1, <1>5, <2>1
  <2>5. m.hdr.n <= Limit(r, s)
    BY <1>2, <2>1, <2>2, <2>4 DEF Labelled
  <2> QED BY <1>1, <1>5, <2>1, <2>3, <2>4, <2>5 DEF q, t, U, W
<1> QED BY <1>6, <1>7

(***************************************************************************)
(* A loop that gives up leaves more keys than the limit.                   *)
(***************************************************************************)
LEMMA RefusedOverLimit ==
    ASSUME NEW r, SessionOK(r), r.receiving_chain # None,
           NEW dh, NEW until \in Nat, SkipRefused(r, dh, until)
    PROVE  Cardinality(DOMAIN Skip(r, dh, until).skipped_keys) > MaxSkip
<1>1. SkipEnd(r, dh, until) \in GivesUpAt(r, dh, until)
  BY SkipEndType, SessionFields
<1>2. OverLimit(r, dh, SkipEnd(r, dh, until))
  BY <1>1 DEF GivesUpAt
<1>3. DOMAIN Skip(r, dh, until).skipped_keys
         = DOMAIN r.skipped_keys \cup KeyNames(r, dh, SkipEnd(r, dh, until))
  BY DEF Skip, SessionOK, SessionWith
<1> QED BY <1>2, <1>3 DEF OverLimit

(***************************************************************************)
(* What a call of decrypt makes of the session of p: t is heard and hears  *)
(* like before, and either the message was opened or the map of skipped    *)
(* keys is over its limit.                                                 *)
(***************************************************************************)
DecryptOutcome(p, m, t, opens) ==
    /\ session' = [session EXCEPT ![p] = t]
    /\ Delivered(m, opens)
    /\ t.dh_public \in {session[p].dh_public, FreshKeyPair(p)}
    /\ Together(t, session[Peer(p)], From(Peer(p)),
                IF opens THEN Unopened(Peer(p)) \ {m} ELSE Unopened(Peer(p)),
                From(p), Unopened(p))
    /\ ~ opens => Cardinality(DOMAIN t.skipped_keys) > MaxSkip

(***************************************************************************)
(* Every path through decrypt has such an outcome.                         *)
(***************************************************************************)
LEMMA DecryptKeepsTogether ==
    ASSUME ~ Redeliver, Damage = {},
           IInv, InStep, NEW p \in Party, NEW m \in Sent, NEW intact \in BOOLEAN,
           NEW hdr, Decrypt(p, m, hdr, intact)
    PROVE  /\ m \in Unopened(Peer(p))
           /\ \E t : \E opens \in BOOLEAN : DecryptOutcome(p, m, t, opens)
<1> DEFINE q == Peer(p)
           r == session[p]
           s == session[q]
           M == From(q)
           U == Unopened(q)
           L == From(p)
           W == Unopened(p)
           h == Ratcheted(p, m.hdr)
           t == Skip(h, m.hdr.dh, m.hdr.n)
<1>1. /\ SessionOK(r) /\ SessionInv(r, Parity(p))
      /\ SessionOK(s)
      /\ M \in SUBSET Message /\ U \in SUBSET M
      /\ Together(r, s, M, U, L, W)
      /\ \A x, y \in M : x.key = y.key => x = y
      /\ \A x \in M \ U : Consumed(r, x.key) /\ ReceivingPast(r, x.key)
  BY PartyFacts
<1>2. m.from = q /\ intact /\ hdr = m.hdr /\ m \in U /\ m \in M
  BY DEF Decrypt, MayDeliver, From, Unopened
<1>3. /\ m.hdr \in Header /\ m.hdr.dh \in KeyPair /\ m.hdr.n \in Nat
      /\ m.key \in Key
  BY <1>1, <1>2 DEF Message, Header
<1>4. NamesUnique(M)
  <2>1. q \in Party
    BY PartyFacts
  <2> QED BY <2>1, HeadersUnique
<1> HIDE DEF h, t, U, W
\* Whatever ends in t keeps Together, for the skipping loop does.
<1>5. ASSUME Ratchets(p, m.hdr)
      PROVE  /\ Keeps(r, h, Parity(p)) /\ h.receiving_chain # None
             /\ Keeps(r, t, Parity(p)) /\ t.receiving_chain # None
             /\ t.receiving_chain.index = SkipEnd(h, m.hdr.dh, m.hdr.n)
             /\ t.dh_public \in {r.dh_public, FreshKeyPair(p)}
             /\ t.remote_dh_public = m.hdr.dh
             /\ Together(t, s, M, U, L, W)
             /\ Limit(t, s) \in Nat
             /\ h.receiving_chain.index <= m.hdr.n
  <2>1. /\ Keeps(r, h, Parity(p))
        /\ Together(h, s, M, U, L, W)
        /\ h.dh_public \in {r.dh_public, FreshKeyPair(p)}
        /\ h.remote_dh_public = m.hdr.dh
        /\ h.receiving_chain # None
        /\ h.receiving_chain.index <= m.hdr.n
        /\ m.hdr.n <= Limit(h, s)
        /\ Limit(h, s) \in Nat
    BY <1>2, <1>5, RatchetTogether DEF h, U, W
  <2>2. SessionOK(h) /\ SessionInv(h, Parity(p))
    BY <2>1 DEF Keeps
  <2>3. Keeps(h, t, Parity(p)) /\ t.receiving_chain # None
    BY <1>3, <2>1, <2>2, SkipKeeps DEF t
  <2>4. /\ t.receiving_chain.index = SkipEnd(h, m.hdr.dh, m.hdr.n)
        /\ t.receiving_chain.root = h.receiving_chain.root
        /\ t.root_key = h.root_key
        /\ t.dh_public = h.dh_public
        /\ t.remote_dh_public = h.remote_dh_public
        /\ t.sending_chain = h.sending_chain
    BY <1>3, <2>1, <2>2, SkipType DEF t
  <2>5. t.previous_sending_chain_length = h.previous_sending_chain_length
    BY <2>2 DEF t, Skip, SessionOK, SessionWith
  <2>6. \A x \in M \ U : ReceivingPast(h, x.key)
    <3> SUFFICES ASSUME NEW x \in M \ U PROVE ReceivingPast(h, x.key)
      OBVIOUS
    <3>1. x.key \in Key /\ Consumed(r, x.key)
      BY <1>1 DEF Message
    <3> QED BY <2>1, <3>1 DEF Keeps, Consumed
  <2>7. Hears(t, s, M, U)
    <3>1. Hears(h, s, M, U)
      BY <2>1 DEF Together
    <3>2. Hears(Skip(h, h.remote_dh_public, m.hdr.n), s, M, U)
      <4> HIDE DEF r, s, M
      <4> QED BY <1>1, <1>3, <2>1, <2>2, <2>6, <3>1, SkipHears
    <3> QED BY <2>1, <3>2 DEF t
  <2>8. Hears(s, t, L, W)
    <3>1. Hears(s, h, L, W)
      BY <2>1 DEF Together
    <3> HIDE DEF s, L
    <3> QED BY <2>4, <2>5, <3>1, HearsSides
  <2>9. IsAhead(t, s) \/ IsAhead(s, t)
    <3>1. IsAhead(h, s) \/ IsAhead(s, h)
      BY <2>1 DEF Together
    <3> HIDE DEF s
    <3> QED BY <2>1, <2>3, <2>4, <3>1 DEF IsAhead
  <2>10. Limit(t, s) = Limit(h, s)
    BY <2>4 DEF Limit
  <2> QED BY <2>1, <2>3, <2>4, <2>7, <2>8, <2>9, <2>10, KeepsTransitive DEF Together
<1>6. CASE DecryptWithSkippedKey(p, m, m.hdr, intact)
  <2> DEFINE u == DropSkippedKey(r, m.hdr)
  <2>1. /\ HasSkippedKey(r, m.hdr)
        /\ session' = [session EXCEPT ![p] = u]
        /\ Delivered(m, Opens(m, intact, SkippedKey(r, m.hdr)))
    BY <1>6 DEF DecryptWithSkippedKey, IInv, TypeOK
  <2>2. SkippedKey(r, m.hdr) = m.key /\ Hears(u, s, M, U \ {m})
    <3>1. Hears(r, s, M, U)
      BY <1>1 DEF Together
    <3> HIDE DEF r, s, M
    <3> QED BY <1>1, <1>2, <1>4, <2>1, <3>1, DropHears
  <2>3. Delivered(m, TRUE)
    BY <1>2, <2>1, <2>2 DEF Opens
  <2>4. /\ u.root_key = r.root_key
        /\ u.dh_public = r.dh_public
        /\ u.remote_dh_public = r.remote_dh_public
        /\ u.sending_chain = r.sending_chain
        /\ u.receiving_chain = r.receiving_chain
        /\ u.previous_sending_chain_length = r.previous_sending_chain_length
    BY <1>1 DEF DropSkippedKey, SessionOK, SessionWith
  <2> HIDE DEF u
  <2>5. Together(u, s, M, U \ {m}, L, W)
    <3>1. Hears(s, r, L, W) /\ (IsAhead(r, s) \/ IsAhead(s, r))
      BY <1>1 DEF Together
    <3> HIDE DEF r, s, M, L
    <3>2. Hears(s, u, L, W)
      BY <2>4, <3>1, HearsSides
    <3>3. IsAhead(u, s) \/ IsAhead(s, u)
      BY <2>4, <3>1 DEF IsAhead
    <3> QED BY <2>2, <3>2, <3>3 DEF Together
  <2>6. DecryptOutcome(p, m, u, TRUE)
    BY <2>1, <2>3, <2>4, <2>5 DEF DecryptOutcome, U, W
  <2> QED BY <1>2, <2>6 DEF U
<1>7. CASE RefuseOldChain(p, m, m.hdr)
  <2> DEFINE u == AfterOldChain(r, m.hdr)
  <2>1. /\ ~ HasSkippedKey(r, m.hdr)
        /\ NeedRatchet(r, m.hdr)
        /\ OldChainRefused(r, m.hdr)
        /\ session' = [session EXCEPT ![p] = u] /\ Delivered(m, FALSE)
    BY <1>7 DEF RefuseOldChain, IInv, TypeOK
  <2>2. Hears(r, s, M, U) /\ (IsAhead(r, s) \/ IsAhead(s, r)) /\ Hears(s, r, L, W)
    BY <1>1 DEF Together
  <2>3. IsAhead(s, r) /\ Limit(r, s) = m.hdr.pn /\ Limit(r, s) \in Nat
    <3> HIDE DEF r, s, M
    <3> QED BY <1>1, <1>2, <2>1, <2>2, NewChainMessage
  <2>4. /\ Hears(u, s, M, U)
        /\ u.root_key = r.root_key
        /\ u.dh_public = r.dh_public
        /\ u.remote_dh_public = r.remote_dh_public
        /\ u.sending_chain = r.sending_chain
        /\ u.previous_sending_chain_length = r.previous_sending_chain_length
    <3> DEFINE own == m.hdr
    <3>1. own.pn = Limit(r, s) /\ u = AfterOldChain(r, own)
      BY <2>3
    <3> HIDE DEF r, s, M, u, own
    <3>2. \A x \in M \ U : ReceivingPast(r, x.key)
      BY <1>1
    <3>3. SessionOK(r) /\ M \in SUBSET Message /\ U \in SUBSET M /\ Limit(r, s) \in Nat
      BY <1>1, <2>3
    <3> QED BY <2>2, <3>1, <3>2, <3>3, OldChainHears
  <2>5. Cardinality(DOMAIN u.skipped_keys) > MaxSkip
    <3>1. HasOldChain(r) /\ SkipRefused(r, r.remote_dh_public, m.hdr.pn)
      BY <2>1 DEF OldChainRefused
    <3>2. r.receiving_chain # None /\ m.hdr.pn \in Nat
      BY <1>3, <3>1 DEF HasOldChain, Header
    <3>3. u = Skip(r, r.remote_dh_public, m.hdr.pn)
      BY <3>1 DEF AfterOldChain
    <3> QED BY <1>1, <3>1, <3>2, <3>3, RefusedOverLimit
  <2> HIDE DEF u
  <2>6. Together(u, s, M, U, L, W)
    <3> HIDE DEF r, s, M, L
    <3>1. Hears(s, u, L, W)
      BY <2>2, <2>4, HearsSides
    <3>2. IsAhead(s, u)
      BY <2>3, <2>4 DEF IsAhead
    <3> QED BY <2>4, <3>1, <3>2 DEF Together
  <2>7. DecryptOutcome(p, m, u, FALSE)
    BY <2>1, <2>4, <2>5, <2>6 DEF DecryptOutcome, U, W
  <2> QED BY <1>2, <2>7 DEF U
<1>8. CASE RefuseNewChain(p, m, m.hdr)
  <2>1. /\ Ratchets(p, m.hdr)
        /\ SkipRefused(h, m.hdr.dh, m.hdr.n)
        /\ session' = [session EXCEPT ![p] = t] /\ Delivered(m, FALSE)
    BY <1>8 DEF RefuseNewChain, h, t
  <2>2. Cardinality(DOMAIN t.skipped_keys) > MaxSkip
    BY <1>3, <1>5, <2>1, RefusedOverLimit DEF t, Keeps
  <2>3. DecryptOutcome(p, m, t, FALSE)
    BY <1>5, <2>1, <2>2 DEF DecryptOutcome, U, W
  <2> QED BY <1>2, <2>3 DEF U
<1>9. CASE DecryptOnChain(p, m, m.hdr, intact)
  <2> DEFINE u == AfterReceive(t)
  <2>1. /\ Ratchets(p, m.hdr)
        /\ ~ SkipRefused(h, m.hdr.dh, m.hdr.n)
        /\ session' = [session EXCEPT ![p] = u]
        /\ Delivered(m, Opens(m, intact, NextMessageKey(t.receiving_chain)))
    BY <1>9 DEF DecryptOnChain, h, t
  <2>2. t.receiving_chain.index = m.hdr.n
    <3>1. h.receiving_chain.index \in Nat /\ h.receiving_chain.index <= m.hdr.n
      BY <1>5, <2>1, SessionFields DEF Keeps
    <3>2. t.receiving_chain.index = Max({h.receiving_chain.index, m.hdr.n})
      BY <1>5, <2>1 DEF SkipEnd
    <3> QED BY <1>3, <3>1, <3>2 DEF Max
  <2>3. /\ NextMessageKey(t.receiving_chain) = m.key
        /\ Hears(u, s, M, U \ {m})
    <3>1. Hears(t, s, M, U) /\ SessionOK(t) /\ SessionInv(t, Parity(p))
      BY <1>5, <2>1 DEF Together, Keeps
    <3> HIDE DEF s, M
    <3> QED BY <1>1, <1>2, <1>4, <1>5, <2>1, <2>2, <3>1, ReceiveHears
  <2>4. Delivered(m, TRUE)
    BY <1>2, <2>1, <2>3 DEF Opens
  <2>5. /\ u.root_key = t.root_key
        /\ u.dh_public = t.dh_public
        /\ u.remote_dh_public = t.remote_dh_public
        /\ u.sending_chain = t.sending_chain
        /\ u.receiving_chain = Advanced(t.receiving_chain)
        /\ u.previous_sending_chain_length = t.previous_sending_chain_length
    BY <1>5, <2>1 DEF AfterReceive, Keeps, SessionOK, SessionWith
  <2>6. /\ u.receiving_chain # None /\ t.receiving_chain # None
        /\ u.receiving_chain.root = t.receiving_chain.root
    <3>1. t.receiving_chain \in Chain /\ t.receiving_chain # None
      BY <1>5, <2>1, SessionFields DEF Keeps
    <3>2. /\ Advanced(t.receiving_chain) \in Chain
          /\ Advanced(t.receiving_chain).root = t.receiving_chain.root
      BY <3>1 DEF Advanced, Chain
    <3> QED BY <2>5, <3>1, <3>2, NoneAssumption
  <2> HIDE DEF u
  <2>7. Together(u, s, M, U \ {m}, L, W)
    <3>1. Hears(s, t, L, W) /\ (IsAhead(t, s) \/ IsAhead(s, t))
      BY <1>5, <2>1 DEF Together
    <3> HIDE DEF s, M, L
    <3>2. Hears(s, u, L, W)
      BY <2>5, <3>1, HearsSides
    <3>3. IsAhead(u, s) \/ IsAhead(s, u)
      BY <2>5, <2>6, <3>1 DEF IsAhead
    <3> QED BY <2>3, <3>2, <3>3 DEF Together
  <2>8. u.dh_public \in {r.dh_public, FreshKeyPair(p)}
    BY <1>5, <2>1, <2>5
  <2>9. DecryptOutcome(p, m, u, TRUE)
    BY <2>1, <2>4, <2>7, <2>8 DEF DecryptOutcome, U, W
  <2> QED BY <1>2, <2>9 DEF U
\* A message under the DH key r knows is one of its receiving chain.
<1>10. CASE RefuseNoChain(p, m, m.hdr)
  <2>1. r.receiving_chain = None /\ m.hdr.dh = r.remote_dh_public
    BY <1>10 DEF RefuseNoChain, NeedRatchet
  <2>2. Labelled(r, s, m)
    BY <1>1, <1>2 DEF Together, Hears
  <2> QED BY <2>1, <2>2 DEF Labelled
<1> QED BY <1>2, <1>6, <1>7, <1>8, <1>9, <1>10 DEF Decrypt

(***************************************************************************)
(* An outcome of decrypt preserves InStep.                                 *)
(***************************************************************************)
LEMMA OutcomeInStep ==
    ASSUME IInv, InStep, NEW p \in Party, NEW m \in Unopened(Peer(p)),
           NEW t, NEW opens \in BOOLEAN, DecryptOutcome(p, m, t, opens)
    PROVE  InStep'
<1> DEFINE q == Peer(p)
           r == session[p]
           s == session[q]
           U == IF opens THEN Unopened(q) \ {m} ELSE Unopened(q)
<1>1. /\ q \in Party /\ q # p /\ Peer(q) = p /\ Party = {p, q}
      /\ r.dh_public \in KeyPair
      /\ m \in Sent /\ m.from = q /\ wire[m].opened = 0
  <2>1. q \in Party /\ q # p /\ Peer(q) = p /\ Party = {p, q}
    BY PartyAssumption DEF Peer, Party
  <2>2. r.dh_public \in KeyPair
    BY PartyFacts, SessionFields
  <2> QED BY <2>1, <2>2 DEF Unopened, From
<1>2. /\ session' = [session EXCEPT ![p] = t]
      /\ Delivered(m, opens)
      /\ t.dh_public \in {r.dh_public, FreshKeyPair(p)}
      /\ Together(t, s, From(q), U, From(p), Unopened(p))
  BY DEF DecryptOutcome
<1>3. DOMAIN session = Party /\ wire \in [Sent -> [tries : Nat, opened : Nat]]
  BY DEF IInv, TypeOK
<1>4. session'[p] = t /\ session'[q] = s
  BY <1>1, <1>2, <1>3
<1>5. /\ Sent' = Sent
      /\ wire'[m].opened = IF opens THEN 1 ELSE 0
      /\ \A x \in Sent \ {m} : wire'[x] = wire[x]
  BY <1>1, <1>2, <1>3 DEF Delivered, Sent
<1>6. \A o : From(o)' = From(o)
  BY <1>5 DEF From
<1>7. Unopened(p)' = Unopened(p) /\ Unopened(q)' = U
  <2>1. \A x \in From(p) : x # m /\ x \in Sent
    BY <1>1 DEF From
  <2>2. Unopened(p)' = Unopened(p)
    BY <1>5, <1>6, <2>1 DEF Unopened
  <2>3. Unopened(q)' = U
    <3>1. \A x \in From(q) : x \in Sent
      BY DEF From
    <3>2. m \in From(q)
      BY <1>1 DEF From
    <3> QED BY <1>1, <1>5, <1>6, <3>1, <3>2 DEF Unopened
  <2> QED BY <2>2, <2>3
<1> HIDE DEF q, U
<1>8. HeadersInv'
  <2>1. t.dh_public[1] = p /\ \A n \in Nat : n <= r.dh_public[2] => n <= t.dh_public[2]
    <3>1. r.dh_public[1] = p /\ r.dh_public[2] \in Nat
      BY <1>1 DEF InStep, HeadersInv, KeyPair
    <3>2. /\ FreshKeyPair(p)[1] = p
          /\ FreshKeyPair(p)[2] = r.dh_public[2] + 1
      BY DEF FreshKeyPair
    <3>3. CASE t.dh_public = r.dh_public
      BY <3>1, <3>3
    <3>4. CASE t.dh_public = FreshKeyPair(p)
      BY <3>1, <3>2, <3>4
    <3> QED BY <1>2, <3>3, <3>4
  <2>2. \A o \in Party : session'[o].dh_public[1] = o
    BY <1>1, <1>4, <2>1 DEF InStep, HeadersInv
  <2>3. ASSUME NEW x \in Sent
        PROVE  x.hdr.dh[1] = x.from /\ x.hdr.dh[2] <= session'[x.from].dh_public[2]
    <3>1. /\ x.hdr.dh[1] = x.from /\ x.hdr.dh[2] <= session[x.from].dh_public[2]
          /\ x.from \in Party /\ x.hdr.dh[2] \in Nat
      BY DEF InStep, HeadersInv, IInv, TypeOK, Message, Header, KeyPair
    <3> QED BY <1>1, <1>4, <2>1, <3>1
  <2>4. \A x, y \in Sent : x.hdr.dh = y.hdr.dh => x.key.chain = y.key.chain
    BY DEF InStep, HeadersInv
  <2> QED BY <1>5, <2>2, <2>3, <2>4 DEF HeadersInv
<1>9. \E o \in Party : IsAhead(session'[o], session'[Peer(o)])
  <2>1. IsAhead(t, s) \/ IsAhead(s, t)
    BY <1>2 DEF Together
  <2>2. Peer(p) = q
    BY DEF q
  <2> QED BY <1>1, <1>4, <2>1, <2>2
<1>10. \A o \in Party : Hears(session'[o], session'[Peer(o)],
                              From(Peer(o))', Unopened(Peer(o))')
  <2>1. Hears(t, s, From(q), U) /\ Hears(s, t, From(p), Unopened(p))
    BY <1>2 DEF Together
  <2>2. Peer(p) = q
    BY DEF q
  <2>3. Hears(session'[p], session'[Peer(p)], From(Peer(p))', Unopened(Peer(p))')
    BY <1>4, <1>6, <1>7, <2>1, <2>2
  <2>4. Hears(session'[q], session'[Peer(q)], From(Peer(q))', Unopened(Peer(q))')
    BY <1>1, <1>4, <1>6, <1>7, <2>1, <2>2
  <2> QED BY <1>1, <2>3, <2>4
<1> QED BY <1>8, <1>9, <1>10 DEF InStep

(***************************************************************************)
(* The next message of s is one more that r will hear.                     *)
(***************************************************************************)
LEMMA EncryptHears ==
    ASSUME NEW r, SessionOK(r), NEW s, SessionOK(s), CanEncrypt(s),
           s.sending_chain.root = s.root_key,
           IsAhead(r, s) \/ IsAhead(s, r),
           NEW M \in SUBSET Message, NEW U \in SUBSET M, Hears(r, s, M, U),
           r.receiving_chain # None => Limit(r, s) \in Nat,
           NEW m, m.hdr = NextHeader(s), m.key = NextMessageKey(s.sending_chain)
    PROVE  Hears(r, AfterEncrypt(s), M \cup {m}, U \cup {m})
<1> DEFINE t     == AfterEncrypt(s)
           index == s.sending_chain.index
<1>1. s.sending_chain # None /\ s.sending_chain \in Chain /\ index \in Nat
  BY SessionFields DEF CanEncrypt
<1>2. /\ t.sending_chain # None
      /\ t.sending_chain.index = index + 1
      /\ t.root_key = s.root_key
      /\ t.dh_public = s.dh_public
      /\ t.previous_sending_chain_length = s.previous_sending_chain_length
  <2>1. /\ Advanced(s.sending_chain) \in Chain
        /\ Advanced(s.sending_chain).index = index + 1
    BY <1>1 DEF Advanced, Chain
  <2>2. /\ t.sending_chain = Advanced(s.sending_chain)
        /\ t.root_key = s.root_key
        /\ t.dh_public = s.dh_public
        /\ t.previous_sending_chain_length = s.previous_sending_chain_length
    BY DEF AfterEncrypt, SessionOK, SessionWith
  <2> QED BY <2>1, <2>2, NoneAssumption
<1>3. /\ m.hdr.dh = s.dh_public /\ m.hdr.n = index
      /\ m.hdr.pn = s.previous_sending_chain_length
      /\ m.key = [chain |-> s.root_key, n |-> index]
      /\ m.key.n = index /\ m.key.chain = s.root_key
  BY DEF NextHeader, NextMessageKey, MessageKeyAt
<1> HIDE DEF t, index
<1>4. ASSUME r.remote_dh_public = s.dh_public
      PROVE  /\ r.receiving_chain # None
             /\ r.receiving_chain.root = s.root_key
             /\ Limit(r, s) = index
             /\ Limit(r, t) = index + 1
  <2>1. IsAhead(r, s)
    BY <1>4 DEF IsAhead
  <2> QED BY <1>1, <1>2, <1>4, <2>1 DEF IsAhead, Limit, index
<1>5. r.remote_dh_public # s.dh_public => Limit(r, t) = Limit(r, s)
  BY <1>2 DEF Limit
<1>6. \A x \in M : Labelled(r, t, x)
  <2> SUFFICES ASSUME NEW x \in M PROVE Labelled(r, t, x)
    OBVIOUS
  <2>1. Labelled(r, s, x)
    BY DEF Hears
  <2>2. CASE r.remote_dh_public = s.dh_public
    <3>1. x.hdr.dh = r.remote_dh_public => x.hdr.n < Limit(r, t)
      <4>1. x.hdr.dh = r.remote_dh_public => x.hdr.n < index
        BY <1>4, <2>1, <2>2 DEF Labelled
      <4>2. x.hdr.n \in Nat /\ index \in Nat
        BY <1>1 DEF Message, Header, index
      <4> QED BY <1>4, <2>2, <4>1, <4>2
    <3> QED BY <1>2, <2>1, <3>1 DEF Labelled
  <2>3. CASE r.remote_dh_public # s.dh_public
    BY <1>2, <1>5, <2>1, <2>3 DEF Labelled
  <2> QED BY <2>2, <2>3
<1>7. Labelled(r, t, m)
  <2>1. index < index + 1
    BY <1>1 DEF index
  <2> QED BY <1>2, <1>3, <1>4, <2>1 DEF Labelled
<1>8. OnItsWay(r, t, m)
  <2>1. CASE r.remote_dh_public = s.dh_public
    <3>1. r.receiving_chain.index <= index
      BY <1>4, <2>1 DEF Hears
    <3> QED BY <1>3, <2>1, <3>1 DEF OnItsWay
  <2>2. CASE r.remote_dh_public # s.dh_public
    BY <1>2, <1>3, <2>2 DEF OnItsWay
  <2> QED BY <2>1, <2>2
<1>9. \A x \in U : OnItsWay(r, t, x)
  BY <1>2 DEF Hears, OnItsWay
<1>10. StoredFor(r, U \cup {m})
  BY DEF Hears, StoredFor
\* With m the chain's first index + 1 messages are sent.
<1>11. ASSUME AllSent(M, s.dh_public, s.root_key, index)
       PROVE  AllSent(M \cup {m}, s.dh_public, s.root_key, index + 1)
  <2> SUFFICES ASSUME NEW i \in 0 .. ((index + 1) - 1)
               PROVE  \E x \in M \cup {m} : /\ <<x.hdr.dh, x.hdr.n>> = <<s.dh_public, i>>
                                            /\ x.key = [chain |-> s.root_key, n |-> i]
    BY DEF AllSent
  <2>1. i = index \/ i \in 0 .. (index - 1)
    BY <1>1 DEF index
  <2>2. CASE i = index
    BY <1>3, <2>2
  <2>3. CASE i \in 0 .. (index - 1)
    BY <1>11, <2>3 DEF AllSent
  <2> QED BY <2>1, <2>2, <2>3
<1>12. AllSent(M, s.dh_public, s.root_key, index)
  BY <1>1 DEF Hears, index
<1>13. ASSUME r.receiving_chain # None
       PROVE  /\ r.remote_dh_public # None
              /\ r.receiving_chain.index <= Limit(r, t)
              /\ AllSent(M \cup {m}, r.remote_dh_public, r.receiving_chain.root, Limit(r, t))
  <2>1. /\ r.remote_dh_public # None
        /\ r.receiving_chain.index <= Limit(r, s)
        /\ AllSent(M, r.remote_dh_public, r.receiving_chain.root, Limit(r, s))
        /\ r.receiving_chain.index \in Nat
    BY <1>13, SessionFields DEF Hears
  <2>2. CASE r.remote_dh_public = s.dh_public
    <3>1. r.receiving_chain.index <= index + 1
      <4>1. r.receiving_chain.index <= index /\ index \in Nat
        BY <1>1, <1>4, <2>1, <2>2 DEF index
      <4> QED BY <2>1, <4>1
    <3> QED BY <1>4, <1>11, <1>12, <2>1, <2>2, <3>1
  <2>3. CASE r.remote_dh_public # s.dh_public
    <3>1. AllSent(M \cup {m}, r.remote_dh_public, r.receiving_chain.root, Limit(r, s))
      BY <2>1 DEF AllSent
    <3> QED BY <1>5, <2>1, <2>3, <3>1
  <2> QED BY <2>2, <2>3
<1>14. t.sending_chain # None =>
          AllSent(M \cup {m}, t.dh_public, t.root_key, t.sending_chain.index)
  BY <1>2, <1>11, <1>12
<1> QED BY <1>6, <1>7, <1>8, <1>9, <1>10, <1>13, <1>14 DEF Hears, t

(***************************************************************************)
(* Session::encrypt preserves InStep.                                      *)
(***************************************************************************)
LEMMA EncryptInStep ==
    ASSUME IInv, InStep, NEW p \in Party, Encrypt(p)
    PROVE  InStep'
<1> DEFINE q == Peer(p)
           s == session[p]
           r == session[q]
           t == AfterEncrypt(s)
           m == NextMessage(p)
<1>1. /\ q \in Party /\ q # p /\ Peer(q) = p /\ Party = {p, q}
      /\ SessionOK(r) /\ SessionOK(s) /\ SessionInv(s, Parity(p))
      /\ From(p) \in SUBSET Message /\ Unopened(p) \in SUBSET From(p)
      /\ Together(r, s, From(p), Unopened(p), From(q), Unopened(q))
      /\ r.receiving_chain # None => Limit(r, s) \in Nat
  <2>1. q \in Party /\ q # p /\ Peer(q) = p /\ Party = {p, q}
    BY PartyAssumption DEF Peer, Party
  <2> HIDE DEF q
  <2> QED BY <2>1, PartyFacts
<1>2. /\ CanEncrypt(s) /\ s.sending_chain # None
      /\ session' = [session EXCEPT ![p] = t]
      /\ wire' = [x \in Sent \cup {m} |->
                     IF x = m THEN [tries |-> 0, opened |-> 0] ELSE wire[x]]
      /\ DOMAIN session = Party
  BY DEF IInv, TypeOK, Encrypt, CanEncrypt
<1>3. s.sending_chain.root = s.root_key
  BY <1>1, <1>2 DEF SessionInv
<1>4. session'[p] = t /\ session'[q] = r
  BY <1>1, <1>2
<1>5. m.from = p /\ m.hdr = NextHeader(s) /\ m.key = NextMessageKey(s.sending_chain)
  BY DEF NextMessage
<1>6. m.hdr.dh = s.dh_public /\ m.key.chain = s.root_key
  BY <1>3, <1>5 DEF NextHeader, NextMessageKey, MessageKeyAt
<1>7. m \notin Sent
  BY <1>2, NewMessage
<1>8. /\ t.root_key = s.root_key
      /\ t.dh_public = s.dh_public
      /\ t.remote_dh_public = s.remote_dh_public
      /\ t.receiving_chain = s.receiving_chain
      /\ t.skipped_keys = s.skipped_keys
      /\ t.sending_chain # None
  <2>1. Advanced(s.sending_chain) # None
    <3>1. s.sending_chain \in Chain
      BY <1>1, <1>2, SessionFields
    <3>2. Advanced(s.sending_chain) \in Chain
      BY <3>1 DEF Advanced, Chain
    <3> QED BY <3>2, NoneAssumption
  <2> QED BY <1>1, <2>1 DEF AfterEncrypt, SessionOK, SessionWith
<1>9. /\ Sent' = Sent \cup {m}
      /\ wire'[m].opened = 0
      /\ \A x \in Sent : wire'[x] = wire[x]
  BY <1>2, <1>7 DEF Sent
<1> HIDE DEF q, t, m
<1>10. /\ From(p)' = From(p) \cup {m} /\ Unopened(p)' = Unopened(p) \cup {m}
       /\ From(q)' = From(q) /\ Unopened(q)' = Unopened(q)
  <2>1. From(p)' = From(p) \cup {m} /\ From(q)' = From(q)
    BY <1>1, <1>5, <1>9 DEF From
  <2>2. \A o : \A x \in From(o) : x \in Sent
    BY DEF From
  <2> QED BY <1>9, <2>1, <2>2 DEF Unopened
<1>11. Hears(r, t, From(p) \cup {m}, Unopened(p) \cup {m})
  <2>1. Hears(r, s, From(p), Unopened(p)) /\ (IsAhead(r, s) \/ IsAhead(s, r))
    BY <1>1 DEF Together
  <2> HIDE DEF r, s
  <2> QED BY <1>1, <1>2, <1>3, <1>5, <2>1, EncryptHears DEF t
<1>12. Hears(t, r, From(q), Unopened(q))
  <2>1. Hears(s, r, From(q), Unopened(q))
    BY <1>1 DEF Together
  <2> HIDE DEF r, s
  <2> QED BY <1>8, <2>1, HearsSides
<1>13. IsAhead(r, t) \/ IsAhead(t, r)
  <2>1. IsAhead(r, s) \/ IsAhead(s, r)
    BY <1>1 DEF Together
  <2> HIDE DEF r, s
  <2> QED BY <1>2, <1>8, <2>1 DEF IsAhead
<1>14. HeadersInv'
  <2>1. \A o \in Party : session'[o].dh_public = session[o].dh_public
    BY <1>1, <1>4, <1>8
  <2>2. s.dh_public[1] = p /\ s.dh_public[2] \in Nat
    BY <1>1, SessionFields DEF InStep, HeadersInv, KeyPair
  <2>3. \A x \in Sent' : x.hdr.dh[1] = x.from /\ x.hdr.dh[2] <= session'[x.from].dh_public[2]
    <3>1. \A x \in Sent : x.from \in Party
      BY DEF IInv, TypeOK, Message
    <3>2. m.hdr.dh[1] = m.from /\ m.hdr.dh[2] <= session'[m.from].dh_public[2]
      BY <1>5, <1>6, <2>1, <2>2
    <3> QED BY <1>9, <2>1, <3>1, <3>2 DEF InStep, HeadersInv
  \* A message under the DH key of s is one of s, of the chain of its root key.
  <2>4. ASSUME NEW x \in Sent, x.hdr.dh = s.dh_public
        PROVE  x.key.chain = s.root_key
    <3>1. x \in From(p)
      BY <2>2, <2>4 DEF InStep, HeadersInv, From
    <3>2. Labelled(r, s, x)
      BY <1>1, <3>1 DEF Together, Hears
    <3> QED BY <2>4, <3>2 DEF Labelled
  <2>5. \A x, y \in Sent' : x.hdr.dh = y.hdr.dh => x.key.chain = y.key.chain
    <3>1. \A x, y \in Sent : x.hdr.dh = y.hdr.dh => x.key.chain = y.key.chain
      BY DEF InStep, HeadersInv
    <3> QED BY <1>6, <1>9, <2>4, <3>1
  <2> QED BY <2>1, <2>3, <2>5 DEF InStep, HeadersInv
<1>15. \E o \in Party : IsAhead(session'[o], session'[Peer(o)])
  <2>1. Peer(p) = q
    BY DEF q
  <2> QED BY <1>1, <1>4, <1>13, <2>1
<1>16. \A o \in Party : Hears(session'[o], session'[Peer(o)],
                              From(Peer(o))', Unopened(Peer(o))')
  <2>1. Peer(p) = q
    BY DEF q
  <2>2. Hears(session'[p], session'[Peer(p)], From(Peer(p))', Unopened(Peer(p))')
    BY <1>4, <1>10, <1>12, <2>1
  <2>3. Hears(session'[q], session'[Peer(q)], From(Peer(q))', Unopened(Peer(q))')
    BY <1>1, <1>4, <1>10, <1>11
  <2> QED BY <1>1, <2>2, <2>3
<1> QED BY <1>14, <1>15, <1>16 DEF InStep

(***************************************************************************)
(* InStep holds of the sessions init_alice and init_bob return: the        *)
(* initiator's constructor is the first DH ratchet.                        *)
(***************************************************************************)
LEMMA InitInStep == Init => InStep
<1> SUFFICES ASSUME Init PROVE InStep
  OBVIOUS
<1> DEFINE a == session[Alice]
           b == session[Bob]
<1>1. /\ Sent = {}
      /\ a = InitAlice(Secret, <<Alice, 1>>, SignedPreKey)
      /\ b = InitBob(Secret, SignedPreKey)
  BY PartyAssumption DEF Init, Sent, Party
<1>2. /\ a.dh_public = <<Alice, 1>> /\ b.dh_public = SignedPreKey
      /\ a.remote_dh_public = SignedPreKey /\ b.remote_dh_public = None
      /\ a.root_key = RatchetStep(<<Secret>>, DH(<<Alice, 1>>, SignedPreKey))
      /\ b.root_key = <<Secret>>
      /\ a.receiving_chain = None /\ b.receiving_chain = None
      /\ a.sending_chain = NewChain(a.root_key) /\ b.sending_chain = None
      /\ DOMAIN a.skipped_keys = {} /\ DOMAIN b.skipped_keys = {}
  BY <1>1 DEF InitAlice, InitBob
<1>3. a.sending_chain # None /\ a.sending_chain.index = 0
  <2>1. a.root_key \in RootKey
    BY <1>1, InitSessions, SessionFields
  <2>2. NewChain(a.root_key) \in Chain
    <3> HIDE DEF a
    <3> QED BY <2>1 DEF NewChain, Chain
  <2> HIDE DEF a
  <2> QED BY <1>2, <2>2, NoneAssumption DEF NewChain
<1>4. /\ Peer(Alice) = Bob /\ Peer(Bob) = Alice
      /\ Alice \in Party /\ Bob \in Party /\ Party = {Alice, Bob}
  BY PartyAssumption DEF Peer, Party
<1>5. None # <<Alice, 1>>
  BY <1>4, NoneAssumption DEF KeyPair
<1>6. \A q : From(q) = {} /\ Unopened(q) = {}
  BY <1>1 DEF From, Unopened
<1> HIDE DEF a, b
<1>7. IsAhead(a, b)
  BY <1>2, <1>3, <1>5 DEF IsAhead
<1>8. Hears(a, b, {}, {})
  BY <1>2 DEF Hears, StoredFor
<1>9. Hears(b, a, {}, {})
  <2>1. AllSent({}, a.dh_public, a.root_key, a.sending_chain.index)
    <3>1. 0 .. (a.sending_chain.index - 1) = {}
      BY <1>3
    <3> QED BY <3>1 DEF AllSent
  <2> QED BY <1>2, <2>1 DEF Hears, StoredFor
<1>10. HeadersInv
  <2>1. \A p \in Party : session[p].dh_public[1] = p
    BY <1>2, <1>4 DEF a, b, SignedPreKey
  <2> QED BY <1>1, <2>1 DEF HeadersInv
<1>11. \A p \in Party : Hears(session[p], session[Peer(p)], From(Peer(p)), Unopened(Peer(p)))
  BY <1>4, <1>6, <1>8, <1>9 DEF a, b
<1>12. \E p \in Party : IsAhead(session[p], session[Peer(p)])
  BY <1>4, <1>7 DEF a, b
<1> QED BY <1>10, <1>11, <1>12 DEF InStep

(***************************************************************************)
(* InStep is inductive together with IInv.                                 *)
(***************************************************************************)
LEMMA NextInStep ==
    ASSUME ~ Redeliver, Damage = {}, IInv, InStep, [Next]_vars
    PROVE  InStep'
<1>1. ASSUME NEW p \in Party, Encrypt(p) PROVE InStep'
  BY <1>1, EncryptInStep
<1>2. ASSUME NEW p \in Party, NEW m \in Sent, NEW intact \in BOOLEAN,
             NEW hdr, Decrypt(p, m, hdr, intact)
      PROVE  InStep'
  <2>1. /\ m \in Unopened(Peer(p))
        /\ \E t : \E opens \in BOOLEAN : DecryptOutcome(p, m, t, opens)
    BY <1>2, DecryptKeepsTogether
  <2>2. PICK t : \E opens \in BOOLEAN : DecryptOutcome(p, m, t, opens)
    BY <2>1
  <2>3. PICK opens \in BOOLEAN : DecryptOutcome(p, m, t, opens)
    BY <2>2
  <2> QED BY <2>1, <2>3, OutcomeInStep
<1>3. CASE UNCHANGED vars
  BY <1>3 DEF vars, InStep, HeadersInv, From, Unopened, Sent
<1> QED BY <1>1, <1>2, <1>3 DEF Next

(***************************************************************************)
(* When no message that was opened comes again and none is damaged, one of *)
(* the sessions is always a DH ratchet ahead, and each can still open what *)
(* the other has sent.                                                     *)
(***************************************************************************)
THEOREM SessionsInStep ==
    ASSUME ~ Redeliver, Damage = {}
    PROVE  Spec => []InStep
<1>1. Init => InStep
  BY InitInStep
<1>2. IInv /\ InStep /\ [Next]_vars => InStep'
  BY NextInStep
<1> QED BY <1>1, <1>2, Invariance, PTL DEF Spec

(***************************************************************************)
(* A sequence is the beginning of any that extends it.                     *)
(***************************************************************************)
LEMMA StepExtends ==
    ASSUME NEW root \in RootKey, NEW j \in KeyPair, NEW k \in KeyPair
    PROVE  LET next == RatchetStep(root, DH(j, k))
           IN  Len(next) = Len(root) + 1 /\ SubSeq(next, 1, Len(root)) = root
<1> DEFINE next == RatchetStep(root, DH(j, k))
<1>1. Len(next) = Len(root) + 1 /\ Len(root) \in Nat
  BY RatchetStepType
<1>2. \A i \in 1 .. Len(root) : next[i] = root[i]
  BY DEF RatchetStep, RootKey
<1>3. SubSeq(next, 1, Len(root)) = [i \in 1 .. Len(root) |-> next[i]]
  BY <1>1 DEF RatchetStep, RootKey
<1>4. root = [i \in 1 .. Len(root) |-> root[i]]
  BY DEF RootKey
<1> QED BY <1>1, <1>2, <1>3, <1>4

(***************************************************************************)
(* The two root keys are one DH ratchet half apart.                        *)
(***************************************************************************)
THEOREM RootsAlwaysAgree ==
    ASSUME ~ Redeliver, Damage = {}
    PROVE  Spec => []RootsAgree
<1>1. IInv /\ InStep => RootsAgree
  <2> SUFFICES ASSUME IInv, InStep PROVE RootsAgree
    OBVIOUS
  <2>1. PICK p \in Party : IsAhead(session[p], session[Peer(p)])
    BY DEF InStep
  <2> DEFINE r == session[p]
             s == session[Peer(p)]
  <2>2. SessionOK(r) /\ SessionOK(s)
    BY PartyFacts
  <2>3. Len(r.root_key) = Len(s.root_key) + 1 /\ SubSeq(r.root_key, 1, Len(s.root_key)) = s.root_key
    BY <2>1, <2>2, SessionFields, StepExtends DEF IsAhead
  <2>4. (p = Alice /\ Peer(p) = Bob) \/ (p = Bob /\ Peer(p) = Alice)
    BY PartyAssumption DEF Peer, Party
  <2> QED BY <2>3, <2>4 DEF RootsAgree
<1> QED BY <1>1, Invariance, SessionsInStep, PTL

(***************************************************************************)
(* No decrypt call throws away the key of a message still to be opened.    *)
(***************************************************************************)
THEOREM NothingIsLost ==
    ASSUME ~ Redeliver, Damage = {}
    PROVE  Spec => []NothingLost
<1>1. IInv /\ InStep => NothingLost
  <2> SUFFICES ASSUME IInv, InStep, NEW m \in Sent, wire[m].opened = 0
               PROVE  CanStillOpen(session[Peer(m.from)], m)
    BY DEF NothingLost
  <2> DEFINE p == Peer(m.from)
             r == session[p]
             s == session[Peer(p)]
             M == From(Peer(p))
             U == Unopened(Peer(p))
  <2>1. p \in Party /\ Peer(p) = m.from
    BY PartyAssumption DEF IInv, TypeOK, Message, Peer, Party
  <2>2. m \in M /\ m \in U
    BY <2>1 DEF From, Unopened
  <2>3. /\ SessionOK(r) /\ SessionOK(s)
        /\ U \in SUBSET M
        /\ Hears(r, s, M, U)
        /\ (IsAhead(r, s) \/ IsAhead(s, r))
        /\ \A x, y \in M : x.key = y.key => x = y
        /\ NamesUnique(M)
    <3>1. Peer(p) \in Party
      BY <2>1, PartyFacts
    <3> QED BY <2>1, <3>1, PartyFacts, HeadersUnique DEF Together
  <2> SUFFICES CanStillOpen(r, m)
    OBVIOUS
  <2> HIDE DEF p, r, s, M, U
  <2>4. Labelled(r, s, m) /\ OnItsWay(r, s, m)
    BY <2>2, <2>3 DEF Hears
  <2>5. CASE HasSkippedKey(r, m.hdr)
    BY <2>2, <2>3, <2>5, DropHears DEF CanStillOpen
  <2>6. CASE ~ HasSkippedKey(r, m.hdr) /\ NeedRatchet(r, m.hdr)
    <3>1. m.hdr.dh = s.dh_public /\ m.key.chain = s.root_key /\ IsAhead(s, r)
      BY <2>2, <2>3, <2>6, NewChainMessage
    <3>2. DH(s.dh_public, r.dh_public) = DH(r.dh_public, s.dh_public)
      BY DEF DH
    <3> QED BY <2>6, <3>1, <3>2 DEF CanStillOpen, IsAhead
  <2>7. CASE ~ HasSkippedKey(r, m.hdr) /\ ~ NeedRatchet(r, m.hdr)
    <3>1. m.hdr.dh = r.remote_dh_public
      BY <2>7 DEF NeedRatchet
    <3> QED BY <2>4, <2>7, <3>1 DEF CanStillOpen, Labelled, OnItsWay
  <2> QED BY <2>5, <2>6, <2>7
<1> QED BY <1>1, Invariance, SessionsInStep, PTL

(***************************************************************************)
(* The skipped keys stored are keys of messages still to come.             *)
(***************************************************************************)
THEOREM SkippedKeysOutstanding ==
    ASSUME ~ Redeliver, Damage = {}
    PROVE  Spec => []SkippedKeysAreOutstanding
<1>1. InStep => SkippedKeysAreOutstanding
  <2> SUFFICES ASSUME InStep, NEW p \in Party, NEW k \in DOMAIN session[p].skipped_keys
               PROVE  \E m \in Sent : /\ m.from = Peer(p)
                                      /\ <<m.hdr.dh, m.hdr.n>> = k
                                      /\ m.key = session[p].skipped_keys[k]
                                      /\ wire[m].opened = 0
    BY DEF SkippedKeysAreOutstanding
  <2>1. PICK m \in Unopened(Peer(p)) : /\ <<m.hdr.dh, m.hdr.n>> = k
                                       /\ m.key = session[p].skipped_keys[k]
    BY DEF InStep, Hears, StoredFor
  <2>2. m \in Sent /\ m.from = Peer(p) /\ wire[m].opened = 0
    BY DEF Unopened, From
  <2> QED BY <2>1, <2>2
<1> QED BY <1>1, SessionsInStep, PTL

(***************************************************************************)
(* decrypt fails to open a message that comes undamaged, and was not       *)
(* opened before, only when that leaves more skipped keys than the limit.  *)
(***************************************************************************)
THEOREM OnlyRefusedWhenFull ==
    ASSUME ~ Redeliver, Damage = {}
    PROVE  Spec => RefusedOnlyWhenFull
<1>1. IInv /\ InStep /\ [Next]_vars
         => \A m \in Sent :
                /\ wire[m].opened = 0
                /\ wire'[m].opened = 0
                /\ wire'[m].tries > wire[m].tries
                => StoredKeys(Peer(m.from))' > MaxSkip
  <2> SUFFICES ASSUME IInv, InStep, [Next]_vars, NEW m \in Sent, wire[m].opened = 0,
                      wire'[m].opened = 0, wire'[m].tries > wire[m].tries
               PROVE  StoredKeys(Peer(m.from))' > MaxSkip
    OBVIOUS
  <2>1. /\ wire \in [Sent -> [tries : Nat, opened : Nat]]
        /\ DOMAIN session = Party
        /\ wire[m].tries \in Nat
    BY DEF IInv, TypeOK
  <2>2. ~ UNCHANGED vars
    BY <2>1 DEF vars
  <2>3. ASSUME NEW p \in Party, Encrypt(p) PROVE FALSE
    <3>1. m # NextMessage(p)
      BY <2>3, NewMessage DEF Encrypt
    <3>2. wire'[m] = wire[m]
      BY <2>3, <3>1 DEF Encrypt
    <3> QED BY <2>1, <3>2
  <2>4. ASSUME NEW p \in Party, NEW x \in Sent, NEW intact \in BOOLEAN,
               NEW hdr, Decrypt(p, x, hdr, intact)
        PROVE  StoredKeys(Peer(m.from))' > MaxSkip
    <3>1. /\ x \in Unopened(Peer(p))
          /\ \E t : \E opens \in BOOLEAN : DecryptOutcome(p, x, t, opens)
      BY <2>4, DecryptKeepsTogether
    <3>2. PICK t : \E opens \in BOOLEAN : DecryptOutcome(p, x, t, opens)
      BY <3>1
    <3>3. PICK opens \in BOOLEAN : DecryptOutcome(p, x, t, opens)
      BY <3>2
    <3>4. Delivered(x, opens) /\ session' = [session EXCEPT ![p] = t]
      BY <3>3 DEF DecryptOutcome
    <3>5. x = m
      <4>1. CASE x # m
        <5>1. wire'[m] = wire[m]
          BY <3>4, <4>1, <2>1 DEF Delivered
        <5> QED BY <2>1, <5>1
      <4> QED BY <4>1
    <3>6. ~ opens
      BY <2>1, <3>4, <3>5 DEF Delivered
    <3>7. Cardinality(DOMAIN t.skipped_keys) > MaxSkip
      BY <3>3, <3>6 DEF DecryptOutcome
    <3>8. Peer(m.from) = p
      BY <3>1, <3>5, PartyAssumption DEF Unopened, From, Peer, Party
    <3>9. session'[p] = t
      BY <2>1, <3>4
    <3> QED BY <3>7, <3>8, <3>9 DEF StoredKeys
  <2> QED BY <2>2, <2>3, <2>4 DEF Next
<1>2. IInv /\ InStep /\ [Next]_vars
         => [\A m \in Sent :
                /\ wire[m].opened = 0
                /\ wire'[m].opened = 0
                /\ wire'[m].tries > wire[m].tries
                => StoredKeys(Peer(m.from))' > MaxSkip]_vars
  BY <1>1
<1> QED BY <1>2, Invariance, SessionsInStep, PTL DEF Spec, RefusedOnlyWhenFull

-----------------------------------------------------------------------------
(* The skipping loop *)

(***************************************************************************)
(* The loop and its closed form end with the same session and verdict.     *)
(*                                                                         *)
(* The iterations follow the closed form up to its end and stay there; a   *)
(* first iteration that does not would be the least of a set of naturals.  *)
(***************************************************************************)
LEMMA LoopIsSkip ==
    ASSUME NEW s, SessionOK(s), s.receiving_chain # None,
           NEW dh, NEW until \in Nat
    PROVE  Loop(s, dh, until) = [session |-> Skip(s, dh, until),
                                 refused |-> SkipRefused(s, dh, until)]
<1> DEFINE index   == s.receiving_chain.index
           root    == s.receiving_chain.root
           stop    == SkipEnd(s, dh, until)
           gave_up == SkipRefused(s, dh, until)
           names(e) == DOMAIN s.skipped_keys \cup KeyNames(s, dh, e)
           keys(e)  == [k \in names(e) |->
                           IF k \in KeyNames(s, dh, e)
                           THEN MessageKeyAt(s.receiving_chain, k[2])
                           ELSE s.skipped_keys[k]]
           at(e)    == [s EXCEPT !.receiving_chain.index = e, !.skipped_keys = keys(e)]
           reached(i) == IF index + i <= stop THEN index + i ELSE stop
           state(e)   == [session |-> at(e), refused |-> gave_up /\ e = stop]
           next(now)  == IF now.refused \/ now.session.receiving_chain.index >= until
                         THEN now
                         ELSE OneIteration(now.session, dh)
           body(f)    == [i \in 0 .. until |->
                             IF i = 0
                             THEN [session |-> s, refused |-> FALSE]
                             ELSE next(f[i - 1])]
           after      == CHOOSE f : f = body(f)
<1>1. Loop(s, dh, until) = after[until]
  BY DEF Loop
<1>2. /\ index \in Nat /\ stop \in Nat /\ index <= stop
      /\ gave_up => stop \in GivesUpAt(s, dh, until)
      /\ ~ gave_up => stop = IF index <= until THEN until ELSE index
      /\ \A e \in GivesUpAt(s, dh, until) : stop <= e
  <2>1. index \in Nat
    BY SessionFields
  <2>2. /\ stop \in Nat /\ index <= stop
        /\ gave_up => stop \in GivesUpAt(s, dh, until)
        /\ \A e \in GivesUpAt(s, dh, until) : stop <= e
    BY <2>1, SkipEndType
  <2>3. ASSUME ~ gave_up PROVE stop = IF index <= until THEN until ELSE index
    <3>1. stop = Max({index, until})
      BY <2>3 DEF SkipEnd
    <3> HIDE DEF stop, index
    <3> QED BY <2>1, <3>1 DEF Max
  <2> QED BY <2>1, <2>2, <2>3
\* Giving up means that the names of all iterations so far are too many.
<1>3. \A e \in Nat : index < e /\ e <= until =>
         (e \in GivesUpAt(s, dh, until) <=> Cardinality(names(e)) > MaxSkip)
  <2> SUFFICES ASSUME NEW e \in Nat, index < e, e <= until
               PROVE  e \in GivesUpAt(s, dh, until) <=> Cardinality(names(e)) > MaxSkip
    OBVIOUS
  <2>1. e \in (index + 1) .. until
    BY <1>2
  <2> QED BY <2>1 DEF GivesUpAt, OverLimit
<1>4. GivesUpAt(s, dh, until) \subseteq (index + 1) .. until
  BY DEF GivesUpAt
<1>5. gave_up \in BOOLEAN
  BY DEF SkipRefused
<1>6. /\ KeyNames(s, dh, index) = {}
      /\ \A e \in Nat : index <= e =>
            KeyNames(s, dh, e + 1) = KeyNames(s, dh, e) \cup {<<dh, e>>}
  <2>1. (index .. (index - 1)) = {}
    BY <1>2
  <2>2. \A e \in Nat : index <= e =>
           (index .. ((e + 1) - 1)) = (index .. (e - 1)) \cup {e}
    BY <1>2
  <2> QED BY <2>1, <2>2 DEF KeyNames
<1>7. \A e \in Nat : /\ at(e).receiving_chain = [root |-> root, index |-> e]
                     /\ at(e).skipped_keys = keys(e)
                     /\ DOMAIN keys(e) = names(e)
  <2>1. s.receiving_chain \in Chain
    BY SessionFields
  <2> HIDE DEF keys
  <2>2. \A e \in Nat : /\ at(e).receiving_chain = [s.receiving_chain EXCEPT !.index = e]
                       /\ at(e).skipped_keys = keys(e)
    BY DEF SessionOK, SessionWith
  <2>3. \A e \in Nat : [s.receiving_chain EXCEPT !.index = e] = [root |-> root, index |-> e]
    BY <2>1 DEF Chain
  <2>4. \A e \in Nat : DOMAIN keys(e) = names(e)
    BY DEF keys
  <2> QED BY <2>2, <2>3, <2>4
<1> HIDE DEF stop, gave_up
\* Before the first iteration nothing has changed.
<1>8. at(index) = s
  <2>1. keys(index) = s.skipped_keys
    BY <1>6 DEF SessionOK, SessionWith
  <2>2. [s.receiving_chain EXCEPT !.index = index] = s.receiving_chain
    BY SessionFields DEF Chain
  <2> HIDE DEF keys
  <2>3. at(index) = [s EXCEPT !.receiving_chain = s.receiving_chain,
                              !.skipped_keys = s.skipped_keys]
    BY <2>1, <2>2
  <2> HIDE DEF at
  <2> QED BY <2>3 DEF SessionOK, SessionWith
\* One iteration goes one key on.
<1>9. ASSUME NEW e \in Nat, index <= e
      PROVE  OneIteration(at(e), dh) =
                [session |-> at(e + 1), refused |-> Cardinality(names(e + 1)) > MaxSkip]
  <2> DEFINE t    == at(e)
             name == <<dh, e>>
             more == [k \in DOMAIN t.skipped_keys \cup {name} |->
                         IF k = name THEN NextMessageKey(t.receiving_chain)
                                     ELSE t.skipped_keys[k]]
  <2>1. /\ t.receiving_chain = [root |-> root, index |-> e]
        /\ t.receiving_chain.index = e
        /\ t.skipped_keys = keys(e)
        /\ DOMAIN keys(e) = names(e)
    BY <1>7
  <2>2. OneIteration(t, dh) = [session |-> [t EXCEPT !.receiving_chain = Advanced(@),
                                                     !.skipped_keys = more],
                               refused |-> Cardinality(DOMAIN more) > MaxSkip]
    <3> HIDE DEF at
    <3> QED BY <2>1 DEF OneIteration
  <2>3. names(e + 1) = names(e) \cup {name}
    BY <1>6, <1>9
  <2>4. DOMAIN more = names(e + 1)
    BY <2>1, <2>3
  <2>5. more = keys(e + 1)
    <3> SUFFICES ASSUME NEW k \in names(e + 1) PROVE more[k] = keys(e + 1)[k]
      <4> HIDE DEF at, names
      <4> QED BY <2>4
    <3>1. CASE k = name
      <4>1. NextMessageKey(t.receiving_chain) = [chain |-> root, n |-> e]
        BY <2>1 DEF NextMessageKey, MessageKeyAt
      <4>2. k \in KeyNames(s, dh, e + 1) /\ k[2] = e
        BY <1>6, <1>9, <3>1
      <4>3. keys(e + 1)[k] = [chain |-> root, n |-> e]
        BY <4>2 DEF MessageKeyAt
      <4> HIDE DEF t, names, keys
      <4> QED BY <2>4, <3>1, <4>1, <4>3
    <3>2. CASE k # name
      <4>1. k \in names(e) /\ (k \in KeyNames(s, dh, e + 1) <=> k \in KeyNames(s, dh, e))
        BY <1>6, <1>9, <2>3, <3>2
      <4>2. keys(e + 1)[k] = keys(e)[k]
        BY <4>1
      <4> HIDE DEF t, names, keys
      <4> QED BY <2>1, <2>4, <3>2, <4>2
    <3> QED BY <3>1, <3>2
  <2>6. [t EXCEPT !.receiving_chain = Advanced(@), !.skipped_keys = more] = at(e + 1)
    <3>1. Advanced(t.receiving_chain) = [s.receiving_chain EXCEPT !.index = e + 1]
      <4>1. s.receiving_chain \in Chain
        BY SessionFields
      <4> HIDE DEF t
      <4> QED BY <2>1, <4>1 DEF Advanced, Chain
    <3>2. t = [s EXCEPT !.receiving_chain = [@ EXCEPT !.index = e], !.skipped_keys = keys(e)]
      BY DEF at
    <3> HIDE DEF more, keys
    <3>3. at(e + 1) = [s EXCEPT !.receiving_chain = [s.receiving_chain EXCEPT !.index = e + 1],
                                !.skipped_keys = more]
      BY <2>5
    <3>4. [t EXCEPT !.receiving_chain = Advanced(@), !.skipped_keys = more]
            = [t EXCEPT !.receiving_chain = [s.receiving_chain EXCEPT !.index = e + 1],
                        !.skipped_keys = more]
      BY <3>1
    <3> HIDE DEF at
    <3> QED BY <3>2, <3>3, <3>4 DEF SessionOK, SessionWith
  <2> HIDE DEF more, at
  <2> QED BY <2>2, <2>4, <2>6
<1> HIDE DEF at, names
\* It goes from one state of the closed form to the next, and stays in the last.
<1>10. ASSUME NEW i \in Nat
       PROVE  next(state(reached(i))) = state(reached(i + 1))
  <2>1. PICK e \in Nat : e = reached(i) /\ index <= e /\ e <= stop
    <3>1. reached(i) \in Nat /\ index <= reached(i) /\ reached(i) <= stop
      BY <1>2
    <3> HIDE DEF reached
    <3> QED BY <3>1
  <2>2. reached(i + 1) = IF e = stop THEN stop ELSE e + 1
    BY <1>2, <2>1
  <2>4. gave_up => index < stop /\ stop <= until
    BY <1>2, <1>4
  <2> HIDE DEF reached, index, root
  <2>3. /\ state(e).session = at(e) /\ at(e).receiving_chain.index = e
        /\ state(e).refused = (gave_up /\ e = stop)
    <3>1. at(e).receiving_chain.index = e
      <4> HIDE DEF keys
      <4>1. at(e).receiving_chain = [root |-> root, index |-> e]
        BY <1>7
      <4> QED BY <4>1
    <3>2. state(e).session = at(e)
      OBVIOUS
    <3>3. state(e).refused = (gave_up /\ e = stop)
      BY Zenon
    <3> QED BY <3>1, <3>2, <3>3
  <2>5. CASE e = stop
    <3>1. state(e).refused \/ state(e).session.receiving_chain.index >= until
      <4>1. stop >= until \/ gave_up
        <5> HIDE DEF state, next, keys
        <5> QED BY <1>2 DEF index
      <4>2. CASE gave_up
        BY <2>3, <2>5, <4>2, Zenon
      <4>3. CASE stop >= until
        <5>1. state(e).session.receiving_chain.index = stop
          <6> HIDE DEF state
          <6> QED BY <2>3, <2>5
        <5> HIDE DEF state
        <5> QED BY <4>3, <5>1
      <4> QED BY <4>1, <4>2, <4>3
    <3>2. next(state(e)) = state(e)
      <4> HIDE DEF state
      <4> QED BY <3>1
    <3> HIDE DEF state, next
    <3> QED BY <2>1, <2>2, <2>5, <3>2
  <2>6. CASE e # stop
    <3>1. e < until /\ index < e + 1 /\ e + 1 <= stop /\ e + 1 <= until /\ e + 1 \in Nat
      BY <1>2, <2>1, <2>4, <2>6
    <3>2. ~ (state(e).refused \/ state(e).session.receiving_chain.index >= until)
      <4>1. ~ state(e).refused
        BY <2>3, <2>6, Zenon
      <4>2. state(e).session.receiving_chain.index = e
        <5> HIDE DEF state
        <5> QED BY <2>3
      <4>3. ~ (e >= until)
        BY <3>1
      <4> HIDE DEF state
      <4> QED BY <4>1, <4>2, <4>3
    <3>3. next(state(e)) = OneIteration(at(e), dh)
      BY <2>3, <3>2
    <3>4. Cardinality(names(e + 1)) > MaxSkip <=> gave_up /\ e + 1 = stop
      <4>1. e + 1 \in GivesUpAt(s, dh, until) <=> Cardinality(names(e + 1)) > MaxSkip
        BY <1>3, <3>1
      <4>2. e + 1 \in GivesUpAt(s, dh, until) => stop <= e + 1 /\ gave_up
        BY <1>2 DEF gave_up, SkipRefused
      <4> QED BY <1>2, <3>1, <4>1, <4>2
    <3>5. (Cardinality(names(e + 1)) > MaxSkip) = (gave_up /\ e + 1 = stop)
      BY <3>4
    <3>6. next(state(e)) = [session |-> at(e + 1), refused |-> gave_up /\ e + 1 = stop]
      <4>1. OneIteration(at(e), dh) =
               [session |-> at(e + 1), refused |-> Cardinality(names(e + 1)) > MaxSkip]
        BY <1>9, <2>1 DEF index
      <4> HIDE DEF state, next
      <4> QED BY <3>3, <3>5, <4>1, Zenon
    <3>7. next(state(e)) = state(e + 1)
      <4> HIDE DEF next
      <4>1. state(e + 1) = [session |-> at(e + 1), refused |-> gave_up /\ e + 1 = stop]
        OBVIOUS
      <4> HIDE DEF state
      <4> QED BY <3>6, <4>1, Zenon
    <3> HIDE DEF state, next
    <3> QED BY <2>1, <2>2, <2>6, <3>7
  <2> QED BY <2>5, <2>6
<1>11. state(reached(0)) = [session |-> s, refused |-> FALSE]
  <2>1. reached(0) = index
    BY <1>2
  <2>2. (gave_up /\ index = stop) = FALSE
    BY <1>2, <1>4
  <2> HIDE DEF reached, index
  <2> QED BY <1>8, <2>1, <2>2
\* The closed form solves the loop's recursion, so the loop does.
<1> HIDE DEF state, next, reached
<1>12. after = body(after)
  <2> DEFINE closed == [i \in 0 .. until |-> state(reached(i))]
  <2>1. ASSUME NEW i \in 0 .. until
        PROVE  closed[i] = body(closed)[i]
    <3>1. CASE i = 0
      BY <1>11, <3>1
    <3>2. CASE i # 0
      <4>1. i - 1 \in Nat /\ i - 1 \in 0 .. until /\ (i - 1) + 1 = i
        BY <3>2
      <4>2. next(state(reached(i - 1))) = state(reached(i))
        BY <1>10, <4>1
      <4> QED BY <3>2, <4>1, <4>2
    <3> QED BY <3>1, <3>2
  <2>2. closed = body(closed)
    BY <2>1
  <2> HIDE DEF closed, body
  <2> QED BY <2>2
<1>13. /\ after[0] = [session |-> s, refused |-> FALSE]
       /\ \A i \in 0 .. until : i # 0 => after[i] = next(after[i - 1])
  <2> HIDE DEF after
  <2>1. \A i \in 0 .. until : after[i] = body(after)[i]
    BY <1>12
  <2>2. body(after)[0] = [session |-> s, refused |-> FALSE]
    <3>1. 0 \in 0 .. until
      OBVIOUS
    <3> QED BY <3>1
  <2>3. \A i \in 0 .. until : i # 0 => body(after)[i] = next(after[i - 1])
    OBVIOUS
  <2>4. 0 \in 0 .. until
    OBVIOUS
  <2> HIDE DEF body
  <2> QED BY <2>1, <2>2, <2>3, <2>4, Zenon
<1> HIDE DEF after, body
<1>14. \A i \in 0 .. until : after[i] = state(reached(i))
  <2> DEFINE Wrong == {i \in 0 .. until : after[i] # state(reached(i))}
  <2> SUFFICES ASSUME Wrong # {} PROVE FALSE
    OBVIOUS
  <2>1. PICK i \in Wrong : \A j \in Wrong : i <= j
    <3>1. Wrong \in SUBSET Nat
      OBVIOUS
    <3> HIDE DEF Wrong
    <3> QED BY <3>1, LeastNatural
  <2>2. i # 0
    BY <1>11, <1>13
  <2>3. i - 1 \in Nat /\ i - 1 \in 0 .. until /\ (i - 1) + 1 = i /\ ~ (i <= i - 1)
    BY <2>2
  <2>4. after[i - 1] = state(reached(i - 1))
    BY <2>1, <2>3
  <2>5. after[i] = next(state(reached(i - 1)))
    BY <1>13, <2>2, <2>4
  <2>6. next(state(reached(i - 1))) = state(reached(i))
    BY <1>10, <2>3
  <2> QED BY <2>5, <2>6
<1>15. reached(until) = stop
  BY <1>2, <1>4 DEF reached
<1>16. after[until] = [session |-> at(stop), refused |-> gave_up]
  <2>1. after[until] = state(stop)
    BY <1>14, <1>15
  <2>2. (gave_up /\ stop = stop) = gave_up
    BY <1>5
  <2> QED BY <2>1, <2>2 DEF state
<1>17. at(stop) = Skip(s, dh, until)
  BY DEF at, Skip, stop, names
<1> QED BY <1>1, <1>16, <1>17 DEF gave_up

(***************************************************************************)
(* In every session in reach, the skipping loops of decrypt end as their   *)
(* closed form says, wherever they are told to stop.                       *)
(***************************************************************************)
THEOREM ClosedFormAlwaysRight == Spec => []ClosedFormIsRight
<1>1. IInv => ClosedFormIsRight
  <2> SUFFICES ASSUME IInv, NEW p \in Party, session[p].receiving_chain # None,
                      NEW m \in Sent, NEW until \in 0 .. MaxSend
               PROVE  Loop(session[p], m.hdr.dh, until) =
                         [session |-> Skip(session[p], m.hdr.dh, until),
                          refused |-> SkipRefused(session[p], m.hdr.dh, until)]
    BY DEF ClosedFormIsRight
  <2>1. SessionOK(session[p]) /\ until \in Nat
    BY BoundAssumption DEF IInv, TypeOK
  <2> QED BY <2>1, LoopIsSkip
<1> QED BY <1>1, Invariance, PTL
==============================================================================
