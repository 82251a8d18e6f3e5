# Ghostcrypt crypto-core in TLA+

The crate under `src/src` is the cryptographic core of a messenger: X3DH key
agreement, the Double Ratchet, MLS groups, and two layers that hand them to
applications (`api.rs` for Flutter, `wasm.rs` for browsers). These modules
model the parts that keep state, check them with TLC on small instances, and
prove their safety properties, and three refinements, with TLAPS for
every number of parties, keys, messages and calls.

Paths below are relative to the crate's `src/` directory unless they say
otherwise; `PROJECT.json` maps every definition to its lines.

## 1. Inventory

| Part | State | Operations | Interacts with |
|---|---|---|---|
| Double Ratchet session, `ratchet/state.rs` | root key, own DH key pair, the other's DH key, two chains, length of the previous sending chain, map of skipped keys | `init_alice`, `init_bob`, `encrypt`, `decrypt` | calls chains, KDF and AEAD; gets its secret from X3DH; is kept in the FFI's store |
| Chains, DH ratchet, header, `ratchet/{chain,dh_ratchet,header}.rs` | a chain key and its index | `advance`, `dh_ratchet_step`, `to_public_key` | called by the session |
| KDF, AEAD, `kdf`, `aead` | none | derive, seal, open | called by everything |
| Keys, `identity/keys.rs` | key pairs the application keeps | generate, sign, verify, `generate_batch` | X3DH, the directory server |
| X3DH, `x3dh` | none | `initiate`, `respond` | keys, and the sessions started with the secret |
| FFI session store, `api.rs` | a global map under an `RwLock`, an atomic handle counter | create (two kinds), encrypt, decrypt, destroy | sessions; called by Dart on several threads |
| FFI MLS store, `api.rs` | a second map and counter | `mls_*`: copy a state out, work on it, file the result under a new handle | the MLS wrapper |
| MLS wrapper, `mls/mod.rs` | none of its own: a state blob goes in and another comes out | create, add, remove, encrypt, decrypt, process commit, process welcome | OpenMLS (external) |
| WASM bindings, `wasm.rs` | four thread-local maps (identities, signed pre-keys, sessions, MLS states), one counter for their handles | generate keys, X3DH, create, encrypt, decrypt, `mls_*` | everything above; called by a page, one call at a time |
| Post-quantum KEM, `pqc` | none | generate, encapsulate, decapsulate | nothing else in the crate |

What is hard about them, and what makes each correct:

- **Session.** The network reorders, loses, repeats and damages messages.
  `decrypt` changes the session step by step and *keeps the changes when it
  fails*: a stored key is gone, a chain has moved, a DH ratchet has happened
  before the AEAD has its say. Correct means: no key seals two messages, nothing
  is returned twice, used keys cannot be derived again, no key that is still
  needed is thrown away, and a message sent can be opened in whatever order
  messages arrive.
- **X3DH.** The directory server is not trusted to answer with current or even
  matching keys: a bundle is five independent fields, of which only the signed
  pre-key is signed. Correct means: both ends compute the same secret exactly when
  they use the same keys; initiator and owner of the bundle can compute it, nobody
  else, and with a bundle put together from keys of several parties nobody but the
  initiator; and the sessions started with it understand each other.
- **FFI store.** Threads interleave between taking a handle and taking the lock,
  calls on a handle race its destruction, and a panic poisons the lock. Correct
  means: message numbers are given out once and in order, what is destroyed
  stays destroyed, what was created is there, every call returns.
- **WASM bindings.** Four maps share a counter and untyped handles; a panic does
  not unwind, so the session map stays borrowed; a page that is loaded again has
  lost everything and counts from 1. Correct means: a handle names one thing, a
  call that fails takes none, no key seals two messages, and a message is opened
  by the other end of the key agreement only.
- **Hybrid KEM.** ML-KEM answers a wrong key or ciphertext with another secret, not
  with an error, and the caller may pass the same X25519 secret again. Correct
  means: a new secret each time.
- **MLS.** Handles are values: an old one still names the old state, so an
  application can fork a group with itself; members commit at the same time and
  merge their own commit at once. Correct means: whoever is in an epoch agrees
  on its members, only members read, a client that goes on with its latest handle
  never repeats a key generation, and with a delivery service that takes one commit
  for each epoch nobody gets into a branch another client made, and everybody gets to
  the latest epoch.

## 2. Modules

```
RatchetSession  <-- Ratchet --refines--> SecureChannel
   ^        ^          ^------ MCRatchet (with SkipLoop)
   |        SkipLoop
KeyAgreement  <-- X3DH      <-- MCX3DH
              <-- WasmStore --refines--> HandleStore <--refines-- SessionStore <-- MCSessionStore
              <-- HybridKem <-- MCHybridKem                MCWasmStore --> WasmStore
MlsGroup  <-- MCMlsGroup

Proofs about              in                  which use
RatchetSession            RatchetSessionProofs
Ratchet, SkipLoop         RatchetProofs       RatchetSessionProofs
KeyAgreement              KeyAgreementProofs
X3DH                      X3DHProofs          KeyAgreementProofs
SessionStore              SessionStoreProofs
WasmStore                 WasmStoreProofs     RatchetSessionProofs, KeyAgreementProofs
MlsGroup                  MlsGroupProofs
HybridKem                 HybridKemProofs
```

An arrow points from a module to the one it EXTENDS.

**RatchetSession** is one session as a value and the effect of each operation
on it. Cryptography is symbolic. A DH output is the set of the two key pairs; a
root key is the sequence of its inputs since the X3DH secret; a chain carries
the name of the root-key derivation it came from; a message key is a chain's
name and a number. So equal names are equal keys, and *what can be computed from
what* is a matter of prefixes. `Skip` is the closed form of the loop that stores
skipped keys, including its early return and what it leaves behind then.

**Ratchet** composes two sessions with a network. `wire` says for each message
sent how often it was delivered and opened; a message never leaves it, so loss
and reordering are choices of when to deliver, duplication is the constant
`Redeliver`, `Damage` is the set of parties whose messages may be damaged, and
`Forged` the headers a damaged message may arrive with, beside its own. Every call
of `Session::encrypt` (`Encrypt`) makes a message of its own, told apart by the
number of the call, so that two calls under one key would be two messages.
`Session::decrypt` is five actions, one per way through the code: a stored key
(`DecryptWithSkippedKey`), a refusal while the old chain is skipped
(`RefuseOldChain`), the error "No receiving chain established" (`RefuseNoChain`,
which an initiator that has received nothing returns for a header with the signed
pre-key it started from), a refusal on the current chain, after the DH ratchet if
there was one (`RefuseNewChain`), and the next key of the chain
(`DecryptOnChain`). Each leaves the session as the code leaves it, whether or not
the AEAD accepts.

**SecureChannel** is the promise to the applications: what is handed over was
sent, and is handed over once. `Ratchet!NoReplay` says that Ratchet implements
it, with the count of successful openings as refinement mapping.

**SkipLoop** is the loop iteration by iteration (it stands twice in the code).
`MCRatchet!ClosedFormIsRight` compares it with `Skip` in every session that occurs;
the model needs nothing of the loop but this, and it is proved (section 4).

**KeyAgreement** has what X3DH computes with keys, without anyone's state: key
pairs, the check of the signature, and both ends' shared secret.

**X3DH** has users, a directory that answers with any identity key, any verifying
key, any signed pre-key and any one-time pre-key or none, `initiate`, which checks the
signature and nothing else, `respond`, which is told any party as the sender, and
the two sessions' first message and reply, taken from RatchetSession.

**SessionStore** has the map, the counter, the lock with its poison flag, and
threads: `Begin`, `FetchAdd`, `Lock`, then the call's own steps. `encrypt` is two
steps, `Advance` and `Number`, because `api.rs` reads the index after the call and
only the lock keeps the two together. The two inputs whose length nobody checks
are forms of a decrypt call. An initiator's session without a receiving chain, given
a header with the key it already has, starts no DH ratchet and returns the error of
`state.rs:168-169` (`CannotDecrypt`). A session is reduced to its sending
chain's number and index, which is what these calls tell apart.

**HandleStore** is what either binding layer promises: a handle names one thing
from the call that returned it to the one that destroys it, and nothing after; a
program that starts again starts over. SessionStore and WasmStore implement it
(`ImplementsStore`): in SessionStore the handles given out are those of creations
that have returned, in WasmStore those the page was given.

**WasmStore** puts key agreement, sessions and messages together as a page meets
them. Each exported function is an action that looks up its handles in the maps,
works with KeyAgreement's and RatchetSession's operators, and files the result
under the next handle. `decrypt` is one operator here (`Reaches`, `AfterDecrypt`,
`AfterRefusal`), for interleavings within it do not exist. `DecryptShortKey` and
`DecryptShortNonce` are the panics: `borrowed` then stays true and creations
only waste a handle (`FileSession`). `Reload` is the browser's. Arguments are passed
freely: a call may take any number for a handle, a bundle is any identity key, any
signed pre-key, its signer's or another's verifying key and any published one-time
pre-key or none, and `create_session_*` takes any secret that a call of the page
returned, with any public key of the kinds in `KeyKinds`, whether or not the two
belong together. MLS states are opaque in it.

**HybridKem** has users with hybrid key pairs, `HybridEncapsulate` with any X25519
secret to any X25519 and any ML-KEM key, and `HybridDecapsulate` with any of one's
own keys and any ciphertext, one that no encapsulation returned included. A secret is
the pair of its two parts in the order they are concatenated in.

**MlsGroup** has each client's map of states, the commits and messages made, and
every `mls_` operation as one action that files its result under a new handle. A
call is atomic here: the code copies the state out under the read lock, works on
the copy, and inserts it under a handle nobody else has, so whatever happens in
between is as if it happened before or after. OpenMLS is external: an epoch's
secrets are named by the sequence of commits that led to it, a message opens in
its own epoch and once, a commit is processed in the epoch it was made in. A client
is a signature key. `create_group` generates one for the creator that is in no key
package, so the creator's own key package can be added to the group too: it is one
of the other clients. Making a commit merges it, and a delivery service may take it
later or never: with `Serial` there is one that takes a single commit for each epoch
(`Accept`) and gives out those. A client whose commit has lost (`HasLost`) has its
latest handle in a branch of its own and goes back to the last handle on the history
taken (`Usable`), which it has to have kept: `Destroy` under `Serial` leaves it.
`Restart` ends a client's process: neither binding gives a state blob out, so the
states are lost, handles count from 1 again, and only an old welcome leads back.

## 3. Runs

| Run | Bounds | Shows |
|---|---|---|
| `ratchet_network` | limit 2, 3 messages per chain, chains 1 and 2 of each party, 7 deliveries | `RefusedOnlyWhenFull`: a delivery fails only if the map of skipped keys is full; `NothingLost` and `SkippedKeysAreOutstanding` through all refusals; `RootsAgree`: root keys are half a ratchet apart and agree; `SkipGrowth`: what one call can do to the number of stored keys; `ClosedFormIsRight` |
| `ratchet_fair` | limit 1, 2 messages per chain, fair | `EveryMessageOpened` |
| `ratchet_duplicates` | limit 2, 2 messages per chain, 3 per party, chains 1 and 2 of each party, each message delivered twice, opened or not; any message may be damaged in its ciphertext, its header (to one with the signed pre-key), or both | `IInv`, `ReceivingChainEstablished`: only a damaged header brings the error of `decrypt`'s third step about; `KeysUnique`, `ForwardSecrecy`, and `NoReplay` (the refinement) |
| `ratchet_old_ratchet` | duplicates | violated: see findings |
| `x3dh_agreement` | 3 users, together 2 signed pre-keys and 2 batches of one key, 2 initiations, 1 response; any combination of keys in a bundle | `Agreement`, `OnlyPeersCanCompute`, `SecretsFresh`, `FirstExchange` |
| `x3dh_api` | the same through `api.rs` | violated: see findings |
| `store_calls` | 2 threads, 4 calls of any kind, 4 handles (so the counter wraps), fair | `MessageNumbers`, `EncryptInOrder`, `DestroyedForGood`, `ImplementsStore` (the refinement), `EveryCallReturns` |
| `store_panic` | 3 calls | violated: see findings |
| `mls_forks` | 3 clients, 3 commits, 2 messages, 7 states filed, 1 destroyed, 1 restart, any handle used | `RosterAgreement`, `ReadByMembers`, `GenerationsUnique`, `NoReplay` |
| `mls_serial` | 3 clients, 4 commits, made at any time and taken one for each epoch, 13 states filed, 2 destroyed, no restart, no messages, fair | `OwnBranchesOnly`: nobody is in a branch another client made; `MembersCatchUp`, also for those whose commit lost |
| `wasm_store` | 2 pages, 6 handles, 7 key pairs, 1 initiation, 2 messages, 1 reload of the responder's page once it has a signed pre-key, limit 1, receiving chains to 2; keys taken for signed pre-keys are signed pre-keys; MLS calls by one page, up to its second handle and before it has keys | `ImplementsStore` (the refinement), `NoHandleWasted`, `KeysUnique`, `OpenedByPeer`, `OpenedOnce` |
| `hybrid_kem` | 3 users with a hybrid key pair each, 2 encapsulations, 1 decapsulation | `SecretsFresh` |

Why the bounds are enough to be of interest. Two chains per party are the least
with which an old chain is skipped during a DH ratchet on both sides, a late
message belongs to a chain that is gone, and a repeated one sets off a ratchet
back to an old key. Two or three messages per chain overtake each other on both
sides of a boundary. Limits of 1 and 2 make refusals common; the real limit is a
constant and the proofs hold for every value of it. In the store, four calls are
a creation, a call that panics or destroys, and two that race it; two threads
interleave inside every call. In X3DH two signed pre-keys and two one-time pre-keys
are those of one user, an old and a new one or two with one id, or those of two, whose
keys get mixed up in a bundle. In MLS, three commits are an addition and two that
compete; a third client sees a fork from outside. With a delivery service there are
four: two additions, two that compete, and so a client that goes back and then has
to follow; or one addition less and a commit after it has gone back. One restart
is enough for a client to meet its own earlier generations. In WasmStore six handles
are an identity on each page, a signed pre-key and the two sessions, and two to spare for a
second session, an MLS state or what a reload or a panic costs; two messages are a
message and its reply, or two that could share a key. One kind of keys for the other
end's signed pre-key keeps mistakes of the kind that matters, the wrong user's or an
old one, and `x3dh_initiate` is called with other users' identity keys; the proofs
use none of these bounds. In HybridKem three users are the least with two recipients
whose halves are mixed by a third.
`CHECK_DEADLOCK` is off everywhere: a bounded system stops when its bounds are used up, and a
messenger that is idle may stay so.

### Fairness

- `Ratchet!FairSpec`: weak fairness for the arrival of each message (an undamaged
  copy). The crate does not retransmit; the application and its server do, and
  fairness stands for them. It is per message: a network that only ever retries one
  message opens no other. The bound on tries is above what the refusals at these
  bounds can use up, or the property would fail.
- `SessionStore!FairSpec`: weak fairness for the steps of each thread: the
  scheduler runs threads, and an `RwLock` nobody holds is granted. Calls are
  finitely many, so starvation by an endless stream of others is excluded by the
  bound, not by the code.
- `MlsGroup!FairSpec`: weak fairness for each client's reading of commits and
  welcomes, from the handle that `Usable` gives, so also after a commit of its own has
  lost. Nothing in the crate does it; it is the client's duty. Making commits and
  their being taken is not fair.

## 4. Proofs

Every theorem is for every value of the constants: any limit, any number of
parties, key pairs, messages, calls and deliveries.

### Ratchet (`RatchetProofs`)

| Theorem | Says |
|---|---|
| `Invariance` | `IInv` always holds |
| `TypeCorrect` | `TypeOK` |
| `KeysAreUnique` | no two encrypt calls, of one party or of both, use the same key, each call being a message of its own |
| `ForwardSecure` | a sender cannot recompute a key it used, nor a receiver one that opened a message |
| `NeverReplays` | Ratchet implements SecureChannel |
| `ReceivingChainIsEstablished` | a message under the header it was sent with never gets the error of `decrypt`'s third step, whatever damaged headers came before; only a damaged header can |
| `SkipGrowthBounded` | one call leaves at most `MAX_SKIP + 1` stored keys, or one more than before |
| `ClosedFormAlwaysRight` | the skipping loop, iteration by iteration, ends as `Skip` says |

and, assuming `~Redeliver` and `Damage = {}` (no message that was opened comes
again, none is damaged; loss, delay, reordering and refused deliveries remain):

| Theorem | Says |
|---|---|
| `SessionsInStep` | the invariant `InStep` below |
| `RootsAlwaysAgree` | the root keys are half a DH ratchet apart |
| `NothingIsLost` | a message not opened yet can still be opened |
| `SkippedKeysOutstanding` | stored keys are keys of messages still to come, under their headers |
| `OnlyRefusedWhenFull` | a refusal leaves more than `MAX_SKIP` stored keys |

None of the first is inductive alone: a session has no record of
messages seen, so that it returns nothing twice must follow from its keys. The
length of a root key's name tells when it was derived. `init_alice` derives once
and `init_bob` does not; a DH ratchet derives twice. Hence the initiator's sending
chains have names of even length and the responder's of odd length, and for each
party they only grow — also when a repeated message sets off a ratchet of its own.
`IInv` puts this into three statements: every message's key is *behind* its
sender's sending chain (`SendingPast`), every stored key, and every key that
opened a message, is behind the receiver's receiving chain (`ReceivingPast`), and a key
that opened a message is not among the stored ones (`Consumed`). Every operation
of `decrypt` keeps what is behind a session behind it (`Keeps`), with a lemma per
operation; stored keys are new because they come from ahead of the chain.

`SkipGrowth` has no invariant: the number of stored keys is not bounded by
`MAX_SKIP`. Each call can leave one more, as the loop stores a key before it
looks at the limit; counting lemmas (`SkipCount`, `RatchetCount`) give the bound.

The second list is about the two sessions together. `InStep` says that one of them
made the last DH ratchet, with the key the other has (`IsAhead`), and of each
direction (`Hears`): a header tells the message's chain (`Labelled`); a message not
opened yet is on the sender's newest chain, ahead on the receiving chain, or its key
is stored (`OnItsWay`); a stored key belongs to such a message (`StoredFor`); and
every number below the sender's index was sent (`AllSent`), so that what the loop
skips are keys of messages. The invariant is inductive because a header's
`previous_chain_length` is exactly what was sent on the old chain (`NewChainMessage`,
`OldChainHears`), and because a DH ratchet leads the session behind to the
other's root key (`DhRatchetHears`). The two assumptions are needed: a message of an
old chain that comes again starts a DH ratchet of its own (run `ratchet_old_ratchet`),
and one that does not authenticate uses up the key of the next.

`ClosedFormAlwaysRight` needs induction over the loop. Instead of the library's
induction theorems it takes the least iteration that differs from the closed form
(`LeastNatural`), and that the loop's recursion has a solution at all is shown with
the closed form itself (`LoopIsSkip`).

### WasmStore (`WasmStoreProofs`)

| Theorem | Says |
|---|---|
| `WasmInvariant` | the inductive invariant `Inv` |
| `TypeCorrect` | the maps hold what they are for |
| `HandlesNotWasted` | until a panic, a page has been given every handle its counter has passed |
| `StoreImplements` | the four maps of each page are one HandleStore |
| `MessageKeysUnique` | no two messages, of any sessions of any pages, are sealed under one key |
| `MessagesOpenedByPeer` | a message is opened only by the other party of its key agreement, or by the page that sealed it and made both ends of the session of its own key pairs |
| `MessagesOpenedOnce` | a page gets a message back twice only as a responder with two sessions from one agreement, since it was loaded |

The handles are the easier half: a map's handles were given to the page, those
are below the counter, and no two maps share one (`PagesInv`, `HandlesInv`). What
a call does to the maps (`StoreStep`) then is a step of HandleStore, or none
(`StoreImplemented`).

For keys and messages a page may use any handle and any secret it has seen, so
"its session" means nothing; every session and every message must lead back to
its agreement on its own. `KeyPairsInv` says what was generated (`Made`) and what
initiations and responses hold. `SessionAt` is the invariant of one session: the
`SessionInv` of the ratchet, and where its root key comes from (`Origin`): it starts
with a secret that a call of its page returned, and its first DH output is of a
ratchet key of the page's if the root key's length is even, of a signed pre-key of
the page's if it is odd.
Every step that derives a root key puts a key pair into it that did not exist
before, so the result is no root key in use (`RootsStep`, `UsedRoots`). The one
exception is a responder's session that has received nothing; it has no sending
chain. Hence sending chains are distinct, also for two sessions with one secret, and
ahead of the messages sealed with them (`SendersInv`), which is `KeysUnique`.

A session that opens a message has a root key of the other parity than the message's
chain and the same first two names (`OtherEnd`, `TwoSides`). So both pages were given
the same secret, and the first DH output is of a ratchet key of one page and a signed
pre-key of the other. If the pages differ, calls of both returned the secret. Two
initiations with one secret are of one user, whose ephemeral key is in it, and so are
two responses (`OneUser`); so it is an initiation and a response, of one agreement
(`SharedSecret`, `OneAgreement`). A response derives three DH outputs and an
initiation with a one-time pre-key four, so there was none. If the page is the same, it
made both ends of the session itself, and both key pairs are its own (`TwoEnds`). For
`OpenedOnce`, an
initiator's sessions start with key pairs of their own (`StartsInv`), so no other
session of the page can open the message. A responder's start with a signed
pre-key. Its page has lost that pre-key when it is loaded again, and pre-keys
generated later are in no chain that exists (`OpenedOK`, `SpkHeld`).

### SessionStore (`SessionStoreProofs`)

| Theorem | Says |
|---|---|
| `TypeCorrect` | types of the map, the counter, the lock and the calls under way |
| `NumbersCorrect` | no two encrypt calls of a session get one message number, and none is left out |
| `OrderCorrect` | a call that begins after another has returned gets a greater number |
| `DestroyedCorrect` | a session that was destroyed is never found again |
| `StoreImplements` | the map under its lock implements HandleStore |

`BaseInv` is about calls and the lock: the threads between `Lock` and their return
are the one that holds it, and a chain advanced but not numbered is in the map.
`HandlesInv` says that the counter is one past the handles taken, which are
distinct, and `SessionsInv` that the numbers given out for a session are those
before its index, less one while a thread stands between `Advance` and `Number`.
All but `TypeCorrect` assume `MaxCalls <= Handles`: the counter has not come round.
The code's counter has 32 bits, and after it has come round a new session can
replace one that is in use, which the code does not look for; TLC runs `store_calls` at
the same limit.

### MlsGroup (`MlsGroupProofs`)

| Theorem | Says |
|---|---|
| `TypeCorrect` | types of the states |
| `RostersAgree` | states in one epoch have one roster, whatever was forked |
| `ReadersAreMembers` | only members of the sender's epoch read a message |
| `GenerationsDiffer` | a client that used nothing twice does not repeat a generation |
| `NothingReplayed` | nor is such a client returned a message twice |
| `BranchesAreOwn` | with `Serial`, every history is that of the commits taken, but for commits of the client's own at its end |

`GroupInv` says that a state's roster is the one its history ends with
(`RosterOf`), that a commit changes the roster of the history before it and adds
nobody who was in it, and that a message carries its epoch's. The other two need to
know that a client is not in an epoch a second time with what it knew forgotten.
For a client outside `reused` (it went on from its latest handle and took each
welcome once), `CleanInv` says where its own part of each history starts — the last
commit that added it — and that its latest state is as far as every epoch it used
from the same start, and remembers what it did in its own epoch. `BranchesAreOwn`
does not restrict who commits when: commits are made and merged concurrently, and
the delivery service takes one for each epoch. What a client processes was taken, so
it is the next on the history taken; what it departs by is its own.

### X3DH (`X3DHProofs`)

| Theorem | Says |
|---|---|
| `TypeCorrect` | types of keys, bundles, initiations, responses |
| `SecretsDiffer` | no two initiations share a secret |
| `PeersOnly` | whatever keys the bundle combines: the initiator and the party whose bundle it is can compute the secret; nobody else, and nobody but the initiator if its identity, verifying and one-time keys are not one party's |
| `SecretsAgree` | a response has the secret exactly if it is to that initiation, from its initiator, by the owner of the bundle's identity key, with the bundle's pre-keys |
| `SessionsMeet` | the sessions understand each other exactly then |

`IInv` adds to the types what `initiate` checked and computed (`Initiated`), that
each initiation has an ephemeral key of its own, and what `respond` was given. The
rest is about sets of two keys: the kinds of keys tell which of the two is which
(`KeyAgreementProofs` has what the two ends' secrets consist of, and the first
message of a session).

### HybridKem (`HybridKemProofs`)

| Theorem | Says |
|---|---|
| `SecretsDiffer` | no two encapsulations share a secret |

The invariant is that each encapsulation has randomness of its own. That the two ends
agree, and that one half does not give the secret, is not claimed: of symbolic
secrets it holds by definition.

### Assumptions, and what is left to TLC

Formal: the parties of Ratchet differ; bounds are naturals; `None` is no thread, key
pair or chain, as Rust tells `None` from what is in an `Option`; a group's creator is a
client. Beyond those: keys with different names differ (no
collisions), chain indices and handles of pages are naturals (the code's are `u32`; the bound on
handles keeps a page's below it).

Only model-checked:

- all liveness (`EveryMessageOpened`, `EveryCallReturns`, `MembersCatchUp`), which
  is out of the prover's reach;
- that the three comments of section 5 do not hold of the code.

## 5. What the checks found

Runs that show a disagreement between code and comment:

- `ratchet_old_ratchet`: any header whose DH key is not the *current* one starts
  a DH ratchet (`state.rs:130`), also an old key on a message that comes again.
  The two sessions then part for good. No property that is proved breaks: nothing
  is returned twice and no key is reused; messages are lost. `decrypt`'s comment
  speaks of the sender's key changing.
- `x3dh_api`: `x3dh_respond` passes no one-time pre-key (`api.rs:267`), so with a
  bundle that has one the secrets differ.
- `store_panic`: `session_decrypt` panics on a header key or nonce of a wrong
  length, with the lock held, although "all fallible operations return `Result`".

Seen while modelling, without a run of their own:

- A message that is opened and comes again on the *same* chain makes `decrypt`
  advance the chain and use up the key of the next message (`state.rs:183`).
- The map of skipped keys holds more than `MAX_SKIP` entries after a refusal, and
  one more after each further one; `SkipGrowth` says exactly how much.
- `generate_batch` numbers each batch from 0, so two batches of a user share ids
  (`identity/keys.rs:220`); with the wrong key of the right id the secrets differ,
  which `Agreement` accounts for.
- With a poisoned lock `destroy_session` answers `false` for a session that
  exists (`api.rs:407`).
- An empty plaintext from `decrypt_message` may be an application message as well
  as a merged commit (`mls/mod.rs:494`).
- In a page, a panic inside `session_decrypt` ends the use of all sessions until the
  page is loaded again (`wasm.rs:546`); identities, pre-keys and MLS states go on
  working. Each further `create_session_*` panics after it has taken a handle.
- `wasm.rs` publishes one-time pre-keys whose private halves it drops
  (`wasm.rs:141`): no message of a session that was initiated with one can be opened,
  which is the last conjunct of `Agreed` in `OpenedByPeer`.
- A responder's page that starts two sessions from one agreement opens the
  initiator's messages in both (`wasm.rs:415`); `OpenedOnce` allows exactly this.
- `wasm.rs:513` and `:518` cut the numbers of a JSON header to 32 bits before
  anything looks at them.
- `add_member` and `remove_member` merge their commit before anybody else has seen it
  (`mls/mod.rs:387-403`). A client whose commit loses to another of the same epoch
  cannot get on from the state it was returned; it has to have kept the handle from
  before, which nothing in the crate says.
- A header with the signed pre-key an initiator started from makes `decrypt` return "No
  receiving chain established" (`ratchet/state.rs:168`); the session is unchanged.
- `hybrid_decapsulate` cannot report a mismatch; with a wrong key or ciphertext it
  returns a secret nobody else has. `x25519_ephemeral_public` is the public half of
  whatever secret the caller passed, new or not.
- Neither binding can export or import a session or an MLS state, although
  `mls/mod.rs:5` says that "clients manage state externally": a restart loses them.

## 6. Not modelled

- The errors of `wasm.rs` for bad base64, JSON or lengths, which change nothing, and
  the wrap of its handle counter.
- `mls_generate_key_package`: it changes no state; each client is taken to have
  generated its key package. The states under WasmStore's MLS handles: MlsGroup has
  them.
- A session or an MLS state restored from an older copy: no function of the crate
  imports one.
- The two proposal branches of `decrypt_message`: nothing in the crate creates a
  proposal.
- OpenMLS, AES-GCM, HKDF and the curves themselves: ideal functions.
- Byte formats (base64, JSON, serialised blobs) and the stateless AES helpers.
- The wrap of a chain's index after 2^32 messages without a DH ratchet.

## 7. Plan

Done, in the order of importance: RatchetSession, Ratchet, SecureChannel and
their proofs; SkipLoop; KeyAgreement and X3DH; SessionStore and HandleStore;
MlsGroup; WasmStore; HybridKem; then the proofs about X3DH, SessionStore,
MlsGroup, HybridKem, WasmStore, and the two ratchet sessions together.

Every safety property a passing run checks now has a theorem. Next: `InStep` with
damaged messages: one that does not authenticate uses up at most the key of one
message, which bounds what is lost; and the refinement of HandleStore with a counter
that comes round.
