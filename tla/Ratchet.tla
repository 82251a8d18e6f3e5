------------------------------- MODULE Ratchet -------------------------------
(***************************************************************************)
(* Two Double Ratchet sessions that share an X3DH secret, and the network  *)
(* between them.  The network may lose, delay, reorder and, as the         *)
(* constants allow, damage and duplicate messages: a message stays on the  *)
(* wire once sent, and is delivered whenever the network likes.            *)
(*                                                                         *)
(* Session::decrypt changes the session before it knows whether the        *)
(* message authenticates, and keeps the changes when it returns an error:  *)
(* every delivery below leaves the session as the code leaves it.          *)
(***************************************************************************)
EXTENDS RatchetSession

CONSTANTS Alice, Bob,    \* the initiator and the responder
          Secret,        \* the shared secret X3DH gave both of them
          MaxSend,       \* bound: messages per sending chain
          MaxCalls,      \* bound: encrypt calls per party
          MaxKeys,       \* bound: DH key pairs per party
          MaxDeliveries, \* bound: deliveries of one message
          Redeliver,     \* may a message that was opened be delivered again?
          Damage,        \* the parties whose messages may arrive damaged
          Forged         \* the headers a damaged message may arrive with

ASSUME PartyAssumption == Alice # Bob

ASSUME BoundAssumption == /\ MaxSend \in Nat
                          /\ MaxCalls \in Nat
                          /\ MaxKeys \in Nat \ {0}
                          /\ MaxDeliveries \in Nat
                          /\ Redeliver \in BOOLEAN
                          /\ Damage \subseteq {Alice, Bob}

VARIABLES session,   \* the Session of each party
          wire,      \* for each message sent, what became of it so far
          calls      \* how often each party has called encrypt

vars == <<session, wire, calls>>

Party == {Alice, Bob}
Peer(p) == IF p = Alice THEN Bob ELSE Alice

\* generate_dh_keypair: a key pair nobody has seen before
FreshKeyPair(p) == <<p, session[p].dh_public[2] + 1>>

\* Bob's signed pre-key, which the X3DH bundle told Alice
SignedPreKey == <<Bob, 0>>

Sent == DOMAIN wire

-----------------------------------------------------------------------------
Init ==
    /\ session = [p \in Party |->
                     IF p = Alice
                     THEN InitAlice(Secret, <<Alice, 1>>, SignedPreKey)
                     ELSE InitBob(Secret, SignedPreKey)]
    /\ wire = [m \in {} |-> None]
    /\ calls = [p \in Party |-> 0]

(***************************************************************************)
(* A message is its header and a ciphertext under its message key, which   *)
(* is also bound to the header (the associated data).  Every encrypt call  *)
(* makes a message of its own, which is known by the number of the call:   *)
(* two calls under one key would make two messages.                        *)
(***************************************************************************)
NextMessage(p) == [from |-> p,
                   call |-> calls[p],
                   hdr  |-> NextHeader(session[p]),
                   key  |-> NextMessageKey(session[p].sending_chain)]

Encrypt(p) ==
    /\ CanEncrypt(session[p])
    /\ session[p].sending_chain.index < MaxSend          \* bound
    /\ calls[p] < MaxCalls                               \* bound
    /\ session[p].dh_public[2] < MaxKeys                 \* bound
    /\ session' = [session EXCEPT ![p] = AfterEncrypt(@)]
    /\ wire' = [x \in Sent \cup {NextMessage(p)} |->
                   IF x = NextMessage(p) THEN [tries |-> 0, opened |-> 0]
                                         ELSE wire[x]]
    /\ calls' = [calls EXCEPT ![p] = @ + 1]

-----------------------------------------------------------------------------
(***************************************************************************)
(* Deliveries.  m.from's peer calls decrypt with m as it arrives: intact,  *)
(* or damaged in its ciphertext, its header or both.                       *)
(***************************************************************************)

MayDeliver(m, hdr, intact) ==
    /\ wire[m].tries < MaxDeliveries                     \* bound
    /\ Redeliver \/ wire[m].opened = 0
    /\ intact => hdr = m.hdr
    /\ intact \/ m.from \in Damage

\* AES-GCM opens what the same key sealed, with the same associated data.
Opens(m, intact, key) == intact /\ key = m.key

Delivered(m, opens) ==
    wire' = [wire EXCEPT ![m] = [tries  |-> @.tries + 1,
                                 opened |-> @.opened + IF opens THEN 1 ELSE 0]]

\* decrypt finds the key among the skipped ones.
DecryptWithSkippedKey(p, m, hdr, intact) ==
    /\ HasSkippedKey(session[p], hdr)
    /\ session' = [session EXCEPT ![p] = DropSkippedKey(@, hdr)]
    /\ Delivered(m, Opens(m, intact, SkippedKey(session[p], hdr)))

\* decrypt starts a DH ratchet, and the rest of the old chain is too long.
RefuseOldChain(p, m, hdr) ==
    /\ ~ HasSkippedKey(session[p], hdr)
    /\ NeedRatchet(session[p], hdr)
    /\ OldChainRefused(session[p], hdr)
    /\ session' = [session EXCEPT ![p] = AfterOldChain(@, hdr)]
    /\ Delivered(m, FALSE)

\* decrypt starts no DH ratchet, and finds no receiving chain either.
RefuseNoChain(p, m, hdr) ==
    /\ ~ HasSkippedKey(session[p], hdr)
    /\ ~ NeedRatchet(session[p], hdr)
    /\ session[p].receiving_chain = None
    /\ UNCHANGED session
    /\ Delivered(m, FALSE)

\* decrypt gets past the DH ratchet, if one was needed, with a receiving chain.
Ratchets(p, hdr) ==
    /\ ~ HasSkippedKey(session[p], hdr)
    /\ IF NeedRatchet(session[p], hdr)
       THEN /\ ~ OldChainRefused(session[p], hdr)
            /\ session[p].dh_public[2] < MaxKeys         \* bound
       ELSE session[p].receiving_chain # None

Ratcheted(p, hdr) == AfterRatchet(session[p], hdr, FreshKeyPair(p))

\* decrypt would have to skip too many keys of the receiving chain.
RefuseNewChain(p, m, hdr) ==
    /\ Ratchets(p, hdr)
    /\ SkipRefused(Ratcheted(p, hdr), hdr.dh, hdr.n)
    /\ session' = [session EXCEPT ![p] = Skip(Ratcheted(p, hdr), hdr.dh, hdr.n)]
    /\ Delivered(m, FALSE)

\* decrypt tries the next key of the receiving chain.
DecryptOnChain(p, m, hdr, intact) ==
    /\ Ratchets(p, hdr)
    /\ ~ SkipRefused(Ratcheted(p, hdr), hdr.dh, hdr.n)
    /\ LET s == Skip(Ratcheted(p, hdr), hdr.dh, hdr.n)
       IN  /\ session' = [session EXCEPT ![p] = AfterReceive(s)]
           /\ Delivered(m, Opens(m, intact, NextMessageKey(s.receiving_chain)))

Decrypt(p, m, hdr, intact) ==
    /\ m.from = Peer(p)
    /\ MayDeliver(m, hdr, intact)
    /\ \/ DecryptWithSkippedKey(p, m, hdr, intact)
       \/ RefuseOldChain(p, m, hdr)
       \/ RefuseNoChain(p, m, hdr)
       \/ RefuseNewChain(p, m, hdr)
       \/ DecryptOnChain(p, m, hdr, intact)
    /\ UNCHANGED calls

Next == \E p \in Party :
            \/ Encrypt(p)
            \/ \E m \in Sent, intact \in BOOLEAN :
                  \E hdr \in {m.hdr} \cup Forged : Decrypt(p, m, hdr, intact)

Spec == Init /\ [][Next]_vars

-----------------------------------------------------------------------------
(* Types *)

KeyPair == Party \X Nat
RootKey == Seq({Secret} \cup SUBSET KeyPair)
Chain   == [root : RootKey, index : Nat]
Key     == [chain : RootKey, n : Nat]
Header  == [dh : KeyPair, n : Nat, pn : Nat]
Message == [from : Party, call : Nat, hdr : Header, key : Key]

ASSUME ForgedAssumption == Forged \subseteq Header

ASSUME NoneAssumption == None \notin KeyPair \cup Chain

\* A session whose skipped keys are stored under the given names
SessionWith(names) ==
    [root_key          : RootKey,
     dh_public         : KeyPair,
     remote_dh_public  : KeyPair \cup {None},
     sending_chain     : Chain \cup {None},
     receiving_chain   : Chain \cup {None},
     previous_sending_chain_length : Nat,
     skipped_keys      : [names -> Key]]

SessionOK(s) == /\ DOMAIN s.skipped_keys \subseteq KeyPair \X Nat
                /\ s \in SessionWith(DOMAIN s.skipped_keys)

(***************************************************************************)
(* The types of the session fields (the struct Session) and of the wire.   *)
(***************************************************************************)
TypeOK ==
    /\ DOMAIN session = Party
    /\ \A p \in Party : SessionOK(session[p])
    /\ Sent \subseteq Message
    /\ wire \in [Sent -> [tries : Nat, opened : Nat]]
    /\ calls \in [Party -> Nat]

-----------------------------------------------------------------------------
(* Safety, whatever the network does *)

(***************************************************************************)
(* The sessions implement the channel the applications expect: what        *)
(* decrypt returns was sent, and no message is returned twice, although    *)
(* nothing in a session remembers which messages it has seen.              *)
(***************************************************************************)
Handed == [m \in Sent |-> wire[m].opened]

Channel == INSTANCE SecureChannel WITH Message <- Message, handed <- Handed

NoReplay == Channel!Spec

(***************************************************************************)
(* No two encrypt calls, of one party or of both, seal under the same key. *)
(***************************************************************************)
KeysUnique == \A m1, m2 \in Sent : m1.key = m2.key => m1 = m2

\* What a session can still compute: the keys it stores, the rest of its
\* chains, and what lies ahead of its root key.
Derives(s, key) ==
    \/ \E k \in DOMAIN s.skipped_keys : s.skipped_keys[k] = key
    \/ \E chain \in {s.sending_chain, s.receiving_chain} \ {None} :
          chain.root = key.chain /\ chain.index <= key.n
    \/ /\ Len(s.root_key) < Len(key.chain)
       /\ SubSeq(key.chain, 1, Len(s.root_key)) = s.root_key

(***************************************************************************)
(* Forward secrecy: once encrypt has used a key its sender cannot compute  *)
(* it again, and once decrypt has opened a message with it neither can the *)
(* receiver.                                                               *)
(***************************************************************************)
ForwardSecrecy ==
    \A m \in Sent :
        /\ ~ Derives(session[m.from], m.key)
        /\ wire[m].opened > 0 => ~ Derives(session[Peer(m.from)], m.key)

(***************************************************************************)
(* How far one call of decrypt can push the map of skipped keys: one entry *)
(* beyond the limit, or one entry beyond what an earlier call left there.  *)
(***************************************************************************)
StoredKeys(p) == Cardinality(DOMAIN session[p].skipped_keys)

SkipGrowth ==
    [][\A p \in Party :
          \/ StoredKeys(p)' <= StoredKeys(p) + 1
          \/ StoredKeys(p)' <= MaxSkip + 1]_vars

(***************************************************************************)
(* A message that arrives under the header it was sent with is never       *)
(* refused for want of a receiving chain (the error of step 3 of decrypt), *)
(* whatever arrived under another header before it: the responder's first  *)
(* step is a DH ratchet, and nobody sends under the signed pre-key.  Only  *)
(* a damaged header can bring that error about (RefuseNoChain).            *)
(***************************************************************************)
ReceivingChainEstablished ==
    \A m \in Sent : LET s == session[Peer(m.from)]
                    IN  s.receiving_chain = None => NeedRatchet(s, m.hdr)

-----------------------------------------------------------------------------
(***************************************************************************)
(* The inductive invariant behind NoReplay, KeysUnique and ForwardSecrecy. *)
(*                                                                         *)
(* The length of a root key or of a chain's name tells when it was         *)
(* derived.  init_alice derives once and init_bob does not, and a DH       *)
(* ratchet derives twice: the initiator's root keys and sending chains     *)
(* have even lengths and the responder's odd ones, and within a party they *)
(* only grow.  So a chain never comes back, not even when a message that   *)
(* arrives again sets off a DH ratchet of its own.                         *)
(***************************************************************************)
Parity(p) == IF p = Alice THEN 0 ELSE 1

\* The receiving side of s is past key: its chain is older than the receiving
\* chain, or is the receiving chain and has moved on.
ReceivingPast(s, key) ==
    /\ s.receiving_chain # None
    /\ Len(key.chain) % 2 = Len(s.receiving_chain.root) % 2
    /\ Len(key.chain) <= Len(s.receiving_chain.root)
    /\ Len(key.chain) = Len(s.receiving_chain.root) => key.n < s.receiving_chain.index

\* The sending side of s is past key.
SendingPast(s, key) ==
    /\ s.sending_chain # None
    /\ Len(key.chain) % 2 = Len(s.root_key) % 2
    /\ Len(key.chain) <= Len(s.root_key)
    /\ Len(key.chain) = Len(s.root_key) => key.n < s.sending_chain.index

\* decrypt has used key and does not keep it.
Consumed(s, key) ==
    /\ ReceivingPast(s, key)
    /\ \A k \in DOMAIN s.skipped_keys : s.skipped_keys[k] # key

SessionInv(s, parity) ==
    /\ Len(s.root_key) % 2 = parity
    /\ s.sending_chain # None => /\ s.sending_chain.root = s.root_key
                                 /\ s.dh_public[2] > 0
    /\ s.receiving_chain # None =>
          Len(s.receiving_chain.root) + 1 = Len(s.root_key)
    /\ s.receiving_chain = None =>
          s.remote_dh_public = None \/ s.remote_dh_public[2] = 0
    /\ \A k \in DOMAIN s.skipped_keys : ReceivingPast(s, s.skipped_keys[k])
    /\ \A j, k \in DOMAIN s.skipped_keys :
          s.skipped_keys[j] = s.skipped_keys[k] => j = k

MessageInv(m) ==
    /\ m.hdr.dh[2] > 0
    /\ SendingPast(session[m.from], m.key)
    /\ wire[m].opened <= 1
    /\ wire[m].opened = 1 => Consumed(session[Peer(m.from)], m.key)

(***************************************************************************)
(* What keeps a key from being derived twice: every key of a message is    *)
(* behind its sender's sending chain, every stored key and every key that  *)
(* opened a message is behind the receiving chain, and no stored key has   *)
(* been used.                                                              *)
(***************************************************************************)
IInv ==
    /\ TypeOK
    /\ \A p \in Party : SessionInv(session[p], Parity(p))
    /\ \A m \in Sent : MessageInv(m)
    /\ KeysUnique

-----------------------------------------------------------------------------
(* Safety, when no message that was opened comes again *)

(***************************************************************************)
(* The two root keys are one DH ratchet half apart, and the shorter one    *)
(* leads to the longer one: the parties agree on the whole history.        *)
(***************************************************************************)
RootsAgree ==
    LET a == session[Alice].root_key
        b == session[Bob].root_key
    IN  \/ Len(a) = Len(b) + 1 /\ SubSeq(a, 1, Len(b)) = b
        \/ Len(b) = Len(a) + 1 /\ SubSeq(b, 1, Len(a)) = a

\* The receiver has stored the key of m, has it ahead in its receiving chain,
\* or gets there with its next DH ratchet.
CanStillOpen(s, m) ==
    \/ HasSkippedKey(s, m.hdr) /\ SkippedKey(s, m.hdr) = m.key
    \/ /\ ~ HasSkippedKey(s, m.hdr)
       /\ IF NeedRatchet(s, m.hdr)
          THEN m.key.chain = RatchetStep(s.root_key, DH(s.dh_public, m.hdr.dh))
          ELSE /\ m.key.chain = s.receiving_chain.root
               /\ s.receiving_chain.index <= m.hdr.n

(***************************************************************************)
(* Whatever was refused, skipped or overtaken so far, a message that was   *)
(* not opened yet can still be opened: no decrypt call throws away a key   *)
(* that is still needed.                                                   *)
(***************************************************************************)
NothingLost ==
    \A m \in Sent : wire[m].opened = 0 => CanStillOpen(session[Peer(m.from)], m)

(***************************************************************************)
(* The skipped keys a session stores are exactly keys of messages that     *)
(* were sent and are still to come, each under its message's header.       *)
(***************************************************************************)
SkippedKeysAreOutstanding ==
    \A p \in Party : \A k \in DOMAIN session[p].skipped_keys :
        \E m \in Sent : /\ m.from = Peer(p)
                        /\ <<m.hdr.dh, m.hdr.n>> = k
                        /\ m.key = session[p].skipped_keys[k]
                        /\ wire[m].opened = 0

(***************************************************************************)
(* The only reason to refuse a message that is still to be opened is a map *)
(* of skipped keys over its limit: whatever overtook the message and       *)
(* whatever is lost, each other delivery succeeds at once.                 *)
(***************************************************************************)
RefusedOnlyWhenFull ==
    [][\A m \in Sent :
          /\ wire[m].opened = 0
          /\ wire'[m].opened = 0
          /\ wire'[m].tries > wire[m].tries
          => StoredKeys(Peer(m.from))' > MaxSkip]_vars

-----------------------------------------------------------------------------
(* Liveness *)

MessageId == (Party \X (1 .. MaxKeys - 1)) \X (0 .. MaxSend - 1)

HasId(m, id) == <<m.hdr.dh, m.hdr.n>> = id

\* The network delivers an undamaged copy of the message.
Arrives(id) == \E m \in Sent : HasId(m, id) /\ Decrypt(Peer(m.from), m, m.hdr, TRUE)

\* The network does not hold a message back forever.
FairSpec == Spec /\ \A id \in MessageId : WF_vars(Arrives(id))

(***************************************************************************)
(* Every message sent is opened in the end, although decrypt may refuse it *)
(* for skipping too much: the sender or the network tries again, and each  *)
(* refused call brings the receiving chain nearer.                         *)
(***************************************************************************)
EveryMessageOpened ==
    \A id \in MessageId :
        (\E m \in Sent : HasId(m, id))
            ~> (\E m \in Sent : HasId(m, id) /\ wire[m].opened > 0)
==============================================================================
