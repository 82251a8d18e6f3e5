----------------------------- MODULE WasmStore -----------------------------
(***************************************************************************)
(* The bindings for browsers (src/src/wasm.rs), from end to end: each      *)
(* user's page runs one instance of the module, which keeps identities,    *)
(* signed pre-keys, sessions and MLS states in maps of its own and gives   *)
(* the page handles for them, all from one counter.  Pages agree on        *)
(* secrets, start sessions and exchange messages over a network that may   *)
(* lose, delay, repeat and damage them.                                    *)
(*                                                                         *)
(* A page calls any function with any number as a handle, with any public  *)
(* data and any secret it has been given.  A page runs one call at a time. *)
(* A call that finds no such handle, or cannot decode an argument, returns *)
(* an error before it has changed anything and has no action.              *)
(*                                                                         *)
(* In WebAssembly a panic does not unwind.  One that happens inside        *)
(* Session::decrypt leaves the RefCell of the session map borrowed for as  *)
(* long as the instance lives: the page can go on calling, but every call  *)
(* that needs this map panics as well.  Nothing is stored anywhere else: a *)
(* page that is loaded again starts with empty maps and with handle 1.     *)
(***************************************************************************)
EXTENDS KeyAgreement

CONSTANTS Initiators,     \* bound: the users who call x3dh_initiate
          Responders,     \* bound: the users who publish pre-keys and respond
          ReloadUsers,    \* bound: the users who load their page again, once it
                          \* has a signed pre-key
          MaxLoads,       \* bound: how often each of them does
          MaxHandles,     \* bound: handles taken of the instances together
          KeyKinds,       \* bound: the kinds of keys that sessions are started with
          MlsUsers,       \* bound: the users who call the mls_ functions,
          MaxMlsHandles,  \* bound: ... while so many handles are taken, before they
                          \* generate keys
          MaxKeyPairs,    \* bound: key pairs the users generate
          MaxInitiations, \* bound: calls of x3dh_initiate that succeed
          MaxMessages,    \* bound: messages
          MaxIndex        \* bound: the index of a receiving chain

User == Initiators \cup Responders

ASSUME WasmAssumption ==
    {MaxHandles, MaxMlsHandles, MaxLoads, MaxKeyPairs, MaxInitiations,
     MaxMessages, MaxIndex} \subseteq Nat

VARIABLES instance,    \* each page's instance of the module
          given,       \* the handles the page has been given since it was loaded
          loads,       \* how often each page has been loaded again
          generated,   \* how many key pairs each user has generated
          published,   \* public keys: identities, signed and one-time pre-keys
          initiations, \* what calls of x3dh_initiate returned
          responses,   \* what calls of x3dh_respond returned
          messages,    \* what calls of session_encrypt returned
          opened       \* the messages session_decrypt returned: where, how often

vars == <<instance, given, loads, generated, published,
          initiations, responses, messages, opened>>

keys == <<loads, generated, published, initiations, responses>>
traffic == <<messages, opened>>

Handle == 1 .. MaxHandles

-----------------------------------------------------------------------------
(* The maps *)

Empty == [h \in {} |-> None]

FreshInstance == [identity |-> Empty, spk |-> Empty, session |-> Empty, mls |-> Empty,
                  next_id |-> 1, borrowed |-> FALSE]

Kinds == {"identity", "spk", "session", "mls"}

Known(p, kind, h) == h \in DOMAIN instance[p][kind]

\* Mutant: each map counts for itself.
NextIdOfMap(p, kind) == 1 + Cardinality(DOMAIN instance[p][kind])

NextId(p, kind) == instance[p].next_id

\* The handles that the instances have taken from their counters
Taken == MapThenSumSet(LAMBDA p : instance[p].next_id - 1, User)

\* The result is filed under a handle of its own, which the page is given.
File(p, kind, x) ==
    LET id == NextId(p, kind)
    IN  /\ Taken < MaxHandles /\ id \in Handle                \* bound
        /\ instance' = [instance EXCEPT
              ![p].next_id = @ + 1,
              ![p][kind]   = [h \in DOMAIN @ \cup {id} |-> IF h = id THEN x ELSE @[h]]]
        /\ given' = [given EXCEPT ![p] = @ \cup {id}]

FreshKeyPair(p, kind) == KeyPairOf(p, kind, generated[p])

Generates(p) ==
    /\ MapThenSumSet(LAMBDA q : generated[q], User) < MaxKeyPairs  \* bound
    /\ generated' = [generated EXCEPT ![p] = @ + 1]

Publish(kind, x) == published' = [published EXCEPT ![kind] = @ \cup {x}]

-----------------------------------------------------------------------------
Init == /\ instance = [p \in User |-> FreshInstance]
        /\ given = [p \in User |-> {}]
        /\ loads = [p \in User |-> 0]
        /\ generated = [p \in User |-> 0]
        /\ published = [identity |-> {}, spk |-> {}, opk |-> {}]
        /\ initiations = {}
        /\ responses = {}
        /\ messages = <<>>
        /\ opened = {}

-----------------------------------------------------------------------------
(* Keys and key agreement *)

GenerateIdentityKeypair(p) ==
    LET identity == FreshKeyPair(p, "identity")
    IN  /\ Generates(p)
        /\ Publish("identity", identity)
        /\ File(p, "identity", identity)
        /\ UNCHANGED <<loads, initiations, responses, traffic>>

GenerateSignedPreKey(p, h) ==
    /\ p \in Responders                                      \* bound
    /\ Known(p, "identity", h)
    /\ LET spk == [key |-> FreshKeyPair(p, "spk"), signer |-> instance[p].identity[h]]
       IN  /\ Generates(p)
           /\ Publish("spk", spk)
           /\ File(p, "spk", spk)
    /\ UNCHANGED <<loads, initiations, responses, traffic>>

\* The private halves are dropped: the page gets no handle for them.
GenerateOneTimePreKey(p) ==
    /\ p \in Responders                                      \* bound
    /\ Generates(p)
    /\ Publish("opk", [key |-> FreshKeyPair(p, "onetime"), id |-> 0])
    /\ UNCHANGED <<instance, given, loads, initiations, responses, traffic>>

\* What a directory can answer: any keys, whether they belong together or not
Bundles == [identity : published.identity, verifying : published.identity,
            spk : published.spk, opk : published.opk \cup {None}]

MayInitiate(p) == /\ p \in Initiators                       \* bound
                  /\ Cardinality(initiations) < MaxInitiations \* bound

X3dhInitiate(p, h, bundle) ==
    /\ Known(p, "identity", h)
    /\ Accepts(bundle)
    /\ LET eph == FreshKeyPair(p, "ephemeral")
           identity == instance[p].identity[h]
       IN  /\ Generates(p)
           /\ initiations' = initiations \cup
                 {[by |-> p, identity |-> identity, eph |-> eph, bundle |-> bundle,
                   secret |-> InitiatorSecret(identity, eph, bundle)]}
    /\ UNCHANGED <<instance, given, loads, published, responses, traffic>>

\* The one-time pre-key is always None.
X3dhRespond(p, h, hs, i) ==
    /\ p \in Responders                                      \* bound
    /\ Known(p, "identity", h)
    /\ Known(p, "spk", hs)
    /\ responses' = responses \cup
          {[by |-> p, identity |-> instance[p].identity[h],
            secret |-> ResponderSecret(instance[p].identity[h], instance[p].spk[hs],
                                       None, i.identity, i.eph)]}
    /\ UNCHANGED <<instance, given, loads, generated, published, initiations, traffic>>

-----------------------------------------------------------------------------
(* Sessions *)

\* A handle is taken and not given to the page.
Waste(p) == /\ Taken < MaxHandles                           \* bound
            /\ instance' = [instance EXCEPT ![p].next_id = @ + 1]
            /\ UNCHANGED given

\* The session is filed; or, if the map is still borrowed, the call panics
\* and the handle it has taken is for nothing.
FileSession(p, session) ==
    \/ /\ ~ instance[p].borrowed
       /\ File(p, "session", session)
    \/ /\ instance[p].borrowed
       /\ Waste(p)

\* The secrets that calls of the page have returned, whichever calls
SecretsOf(p) == {x.secret : x \in {y \in initiations \cup responses : y.by = p}}

\* The public keys that have been published, whatever for
PublicKeys == {key \in published.identity \cup {x.key : x \in published.spk \cup published.opk} :
                  key.kind \in KeyKinds}                      \* bound

CreateSessionAlice(p, secret, key) ==
    /\ Generates(p)
    /\ FileSession(p, InitAlice(secret, FreshKeyPair(p, "ratchet"), key))
    /\ UNCHANGED <<loads, published, initiations, responses, traffic>>

\* Mutant: the handle is taken before the signed pre-key is looked up.
CreateSessionBobIdFirst(p, secret, hs) ==
    /\ IF Known(p, "spk", hs)
       THEN FileSession(p, InitBob(secret, instance[p].spk[hs].key))
       ELSE Waste(p)
    /\ UNCHANGED <<keys, traffic>>

CreateSessionBob(p, secret, hs) ==
    /\ Known(p, "spk", hs)
    /\ FileSession(p, InitBob(secret, instance[p].spk[hs].key))
    /\ UNCHANGED <<keys, traffic>>

\* The session map is not borrowed, and h is in it.
Borrows(p, h) == ~ instance[p].borrowed /\ Known(p, "session", h)

SessionEncrypt(p, h) ==
    LET s == instance[p].session[h]
    IN  /\ Borrows(p, h)
        /\ CanEncrypt(s)
        /\ Len(messages) < MaxMessages                       \* bound
        /\ messages' = Append(messages,
              [from |-> p, hdr |-> NextHeader(s), key |-> NextMessageKey(s.sending_chain)])
        /\ instance' = [instance EXCEPT ![p].session[h] = AfterEncrypt(s)]
        /\ UNCHANGED <<given, keys, opened>>

\* Session::decrypt up to the AEAD: what it leaves behind if it gets there,
\* the key it tries, and what an earlier error leaves behind.
Reaches(s, hdr, new) ==
    HasSkippedKey(s, hdr) \/
    /\ NeedRatchet(s, hdr) => ~ OldChainRefused(s, hdr)
    /\ LET r == AfterRatchet(s, hdr, new)
       IN  r.receiving_chain # None /\ ~ SkipRefused(r, hdr.dh, hdr.n)

Skipped(s, hdr, new) == Skip(AfterRatchet(s, hdr, new), hdr.dh, hdr.n)

AfterDecrypt(s, hdr, new) ==
    IF HasSkippedKey(s, hdr) THEN DropSkippedKey(s, hdr)
                             ELSE AfterReceive(Skipped(s, hdr, new))

KeyTried(s, hdr, new) ==
    IF HasSkippedKey(s, hdr) THEN SkippedKey(s, hdr)
                             ELSE NextMessageKey(Skipped(s, hdr, new).receiving_chain)

AfterRefusal(s, hdr, new) ==
    IF NeedRatchet(s, hdr) /\ OldChainRefused(s, hdr)
    THEN AfterOldChain(s, hdr)
    ELSE LET r == AfterRatchet(s, hdr, new)
         IN  IF r.receiving_chain = None THEN r ELSE Skip(r, hdr.dh, hdr.n)

\* A DH ratchet generates a key pair.
Ratchets(s, hdr) == /\ ~ HasSkippedKey(s, hdr)
                    /\ NeedRatchet(s, hdr)
                    /\ ~ OldChainRefused(s, hdr)

ReceivingIndex(s) == IF s.receiving_chain = None THEN 0 ELSE s.receiving_chain.index

Where(p, h) == [by |-> p, handle |-> h, load |-> loads[p]]

TimesOpened(p, h, m) ==
    Cardinality({o \in opened : o.at = Where(p, h) /\ o.message = m})

\* session_decrypt of message m, which is as it was sent if intact.
SessionDecrypt(p, h, m, intact) ==
    LET s   == instance[p].session[h]
        hdr == messages[m].hdr
        new == FreshKeyPair(p, "ratchet")
        opens == intact /\ Reaches(s, hdr, new) /\ KeyTried(s, hdr, new) = messages[m].key
    IN  /\ Borrows(p, h)
        /\ hdr.n < MaxIndex /\ ReceivingIndex(s) < MaxIndex  \* bound
        /\ IF Ratchets(s, hdr) THEN Generates(p) ELSE UNCHANGED generated
        /\ instance' = [instance EXCEPT ![p].session[h] =
              IF Reaches(s, hdr, new) THEN AfterDecrypt(s, hdr, new)
                                      ELSE AfterRefusal(s, hdr, new)]
        /\ opened' = IF opens
              THEN opened \cup {[at |-> Where(p, h), message |-> m,
                                 times |-> TimesOpened(p, h, m) + 1]}
              ELSE opened
        /\ UNCHANGED <<given, loads, published, initiations, responses, messages>>

\* The borrow_mut() of session_decrypt is never given back.
Trapped(pg) == [pg EXCEPT !.borrowed = TRUE]

\* A header's DH key of another length: to_public_key panics.
DecryptShortKey(p, h) ==
    /\ Borrows(p, h)
    /\ instance' = [instance EXCEPT ![p] = Trapped(@)]
    /\ UNCHANGED <<given, keys, traffic>>

\* A nonce of another length: Nonce::from_slice panics, the session changed.
DecryptShortNonce(p, h, m) ==
    LET s   == instance[p].session[h]
        hdr == messages[m].hdr
        new == FreshKeyPair(p, "ratchet")
    IN  /\ Borrows(p, h)
        /\ Reaches(s, hdr, new)
        /\ IF Ratchets(s, hdr) THEN Generates(p) ELSE UNCHANGED generated
        /\ instance' = [instance EXCEPT
              ![p] = Trapped([@ EXCEPT !.session[h] = AfterDecrypt(s, hdr, new)])]
        /\ UNCHANGED <<given, loads, published, initiations, responses, traffic>>

-----------------------------------------------------------------------------
(* MLS states: module MlsGroup has what is in them. *)

FileMls(p) == /\ p \in MlsUsers /\ generated[p] = 0        \* bound
              /\ Taken < MaxMlsHandles                       \* bound
              /\ File(p, "mls", "state")
              /\ UNCHANGED <<keys, traffic>>

MlsCreateGroup(p) == FileMls(p)

MlsProcessWelcome(p) == FileMls(p)

\* mls_add_member, mls_remove_member, mls_encrypt_message, mls_decrypt_message
\* and mls_process_commit work on a copy and file that.
MlsStep(p, h) == Known(p, "mls", h) /\ FileMls(p)

MlsDestroyState(p, h) ==
    /\ Known(p, "mls", h)
    /\ instance' = [instance EXCEPT ![p].mls = [k \in DOMAIN @ \ {h} |-> @[k]]]
    /\ UNCHANGED <<given, keys, traffic>>

\* The user loads the page again, or the browser does.
Reload(p) ==
    /\ p \in ReloadUsers /\ loads[p] < MaxLoads             \* bound
    /\ DOMAIN instance[p].spk # {}                           \* bound
    /\ loads' = [loads EXCEPT ![p] = @ + 1]
    /\ instance' = [instance EXCEPT ![p] = FreshInstance]
    /\ given' = [given EXCEPT ![p] = {}]
    /\ UNCHANGED <<generated, published, initiations, responses, traffic>>

Call(p) ==
    \/ GenerateIdentityKeypair(p)
    \/ GenerateOneTimePreKey(p)
    \/ MlsCreateGroup(p)
    \/ MlsProcessWelcome(p)
    \/ \E h \in DOMAIN instance[p].identity :
          \/ GenerateSignedPreKey(p, h)
          \/ /\ MayInitiate(p)
             /\ \E bundle \in Bundles :
                   bundle.identity.owner # p /\ X3dhInitiate(p, h, bundle)
          \/ \E hs \in DOMAIN instance[p].spk, i \in initiations : X3dhRespond(p, h, hs, i)
    \/ \E secret \in SecretsOf(p) :
          \/ \E key \in PublicKeys : CreateSessionAlice(p, secret, key)
          \/ \E hs \in Handle : CreateSessionBob(p, secret, hs)
    \/ \E h \in DOMAIN instance[p].session :
          \/ SessionEncrypt(p, h)
          \/ \E m \in DOMAIN messages :
                \/ SessionDecrypt(p, h, m, TRUE)
                \/ SessionDecrypt(p, h, m, FALSE)
                \/ DecryptShortNonce(p, h, m)
          \/ DecryptShortKey(p, h)
    \/ \E h \in DOMAIN instance[p].mls : MlsStep(p, h) \/ MlsDestroyState(p, h)

Next == \E p \in User : Call(p) \/ Reload(p)

Spec == Init /\ [][Next]_vars

-----------------------------------------------------------------------------
(* Safety *)

Keys == [owner : User, kind : {"identity", "spk", "onetime", "ephemeral", "ratchet"},
         n : Nat]

RootKey == Seq(Seq(SUBSET Keys) \cup SUBSET Keys)

Chain == [root : RootKey, index : Nat]

\* The Rust type tells None from what is in an Option.
ASSUME NoneAssumption == None \notin Keys \cup Chain

\* The types of what an instance keeps.
TypeOK ==
    \A p \in User :
        /\ \A k \in Kinds : DOMAIN instance[p][k] \subseteq 1 .. instance[p].next_id - 1
        /\ \A h \in DOMAIN instance[p].identity : instance[p].identity[h] \in Keys
        /\ \A h \in DOMAIN instance[p].spk :
              instance[p].spk[h] \in [key : Keys, signer : Keys]
        /\ \A h \in DOMAIN instance[p].session :
              /\ instance[p].session[h].dh_public \in Keys
              /\ instance[p].session[h].remote_dh_public \in Keys \cup {None}
              /\ instance[p].session[h].previous_sending_chain_length \in Nat

(***************************************************************************)
(* The four maps of each page are one HandleStore: a number that names an  *)
(* identity never comes to name a session, say, nor is it ever given out   *)
(* again, although the maps know nothing of each other.                    *)
(***************************************************************************)
Kept(p) == UNION {DOMAIN instance[p][kind] : kind \in Kinds}

Things == [x \in UNION {{p} \X Kept(p) : p \in User} |->
              [kind \in {k \in Kinds : Known(x[1], k, x[2])} |-> instance[x[1]][kind][x[2]]]]

Issued == UNION {{p} \X given[p] : p \in User}

Store == INSTANCE HandleStore
            WITH Program <- User, Name <- Handle, things <- Things, issued <- Issued

ImplementsStore == Store!Spec

(***************************************************************************)
(* Until a call has panicked with the session map borrowed, a page has     *)
(* been given every handle that was taken: no call that returns an error   *)
(* takes one.                                                              *)
(***************************************************************************)
NoHandleWasted ==
    \A p \in User : \/ instance[p].borrowed
                    \/ given[p] = 1 .. instance[p].next_id - 1

(***************************************************************************)
(* No two messages of any sessions, of either page, are sealed under one   *)
(* key: not when a page starts two sessions with one secret, nor after a   *)
(* panic or a reload.                                                      *)
(***************************************************************************)
KeysUnique ==
    \A m, n \in DOMAIN messages : messages[m].key = messages[n].key => m = n

\* P and q have agreed on the secret.  The bundle had no one-time pre-key: its
\* private half is lost.
Agreed(secret, p, q) ==
    \E i \in initiations : /\ secret = i.secret
                           /\ {p, q} = {i.by, i.bundle.identity.owner}
                           /\ i.bundle.opk = None

(***************************************************************************)
(* Whatever handles, secrets and keys the pages mix up, a message is only  *)
(* opened at the other end of the key agreement its session comes from, or *)
(* else by the page that has sealed it and has made both ends of the       *)
(* session itself: its first DH output is of two key pairs of its own.     *)
(***************************************************************************)
OpenedByPeer ==
    \A o \in opened :
        LET m == messages[o.message]
        IN  \/ Agreed(m.key.chain[1], m.from, o.at.by)
            \/ /\ m.from = o.at.by
               /\ \A k \in m.key.chain[2] : k.owner = m.from

(***************************************************************************)
(* A session returns a message once.  A page returns it twice only if it   *)
(* is the responder and has started two sessions from one agreement since  *)
(* it was loaded: nothing but the page tells that the second is the first  *)
(* again.                                                                  *)
(***************************************************************************)
OpenedOnce ==
    \A o, q \in opened :
        o.message = q.message /\ o.at.by = q.at.by =>
            \/ o = q
            \/ /\ o.at.handle # q.at.handle
               /\ o.at.load = q.at.load
               /\ o.at.by \in Responders
=============================================================================
