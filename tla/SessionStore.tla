---------------------------- MODULE SessionStore ----------------------------
(***************************************************************************)
(* The FFI's store of Double Ratchet sessions (src/src/api.rs): a map from *)
(* handles to sessions behind one RwLock, which every call takes for       *)
(* writing, and an atomic counter for the handles.  The threads are those  *)
(* on which Dart's calls run.                                              *)
(*                                                                         *)
(* A session is reduced to what its calls tell apart: which of its sending *)
(* chains is current (chain counts its DH ratchets) and how many messages  *)
(* that chain has encrypted, None before there is one.  Module Ratchet     *)
(* has the rest.                                                           *)
(***************************************************************************)
EXTENDS Integers, FiniteSets

CONSTANTS Thread,      \* the threads that call the FFI
          Handles,     \* how many values a handle has (2^32)
          MaxCalls,    \* bound: calls in total
          Malformed,   \* may a header or a nonce have the wrong length?
          None

ASSUME StoreAssumption == /\ Handles \in Nat \ {0, 1}
                          /\ MaxCalls \in Nat
                          /\ Malformed \in BOOLEAN
                          /\ None \notin Thread \cup Nat

VARIABLES next_id,   \* NEXT_SESSION_ID
          sessions,  \* SESSIONS: the map
          holder,    \* SESSIONS: the thread that holds the lock, or None
          poisoned,  \* SESSIONS: has a thread panicked while it held the lock?
          pc,        \* what each thread does next
          call,      \* the call each thread is in
          returned   \* the calls that have returned, with their outcomes

vars == <<next_id, sessions, holder, poisoned, pc, call, returned>>

store == <<next_id, sessions, holder, poisoned>>

-----------------------------------------------------------------------------
(* Sessions *)

InitiatorSession == [chain |-> 0, sent |-> 0]
ResponderSession == [chain |-> 0, sent |-> None]

AfterAdvance(s) == [s EXCEPT !.sent = @ + 1]

\* Mutant: the index starts over on the chain that was there.
AfterDecryptSameChain(s, ratchets) ==
    IF ratchets THEN [s EXCEPT !.sent = 0] ELSE s

\* What decrypt leaves behind, if the header's key starts a DH ratchet
AfterDecrypt(s, ratchets) ==
    IF ratchets THEN [chain |-> s.chain + 1, sent |-> 0] ELSE s

(***************************************************************************)
(* What decrypt is given: a header that starts a DH ratchet or not, and a  *)
(* message it opens, one it returns an error for, a header key that is not *)
(* 32 bytes long, or a nonce that is not 12 bytes long.  The two lengths   *)
(* are not checked: to_public_key panics before the session changes,       *)
(* aead::decrypt after.                                                    *)
(***************************************************************************)
Forms == {"opens", "fails"} \cup IF Malformed THEN {"short key", "short nonce"} ELSE {}

Ops == [op : {"create initiator", "create responder", "encrypt", "destroy"}]
       \cup [op : {"decrypt"}, form : Forms, ratchets : BOOLEAN]

Creates(c) == c.op \in {"create initiator", "create responder"}

-----------------------------------------------------------------------------
Init == /\ next_id = 1
        /\ sessions = [h \in {} |-> None]
        /\ holder = None
        /\ poisoned = FALSE
        /\ pc = [t \in Thread |-> "idle"]
        /\ call = [t \in Thread |-> None]
        /\ returned = {}

Calling == {t \in Thread : pc[t] # "idle"}

Begun == Cardinality(returned) + Cardinality(Calling)

\* The handles Dart has been given, destroyed ones included
Given == {r.handle : r \in {x \in returned : Creates(x) /\ x.outcome = "Ok"}}

(***************************************************************************)
(* A call begins.  before is the calls that had returned by then.          *)
(***************************************************************************)
Begin(t) ==
    /\ pc[t] = "idle"
    /\ Begun < MaxCalls                                      \* bound
    /\ \E c \in Ops, h \in Given \cup {None} :
          /\ Creates(c) <=> h = None
          /\ call' = [call EXCEPT ![t] =
                [args |-> c, op |-> c.op, handle |-> h, id |-> Begun,
                 before |-> {r.id : r \in returned}]]
          /\ pc' = [pc EXCEPT ![t] = IF Creates(c) THEN "fetch_add" ELSE "lock"]
    /\ UNCHANGED <<store, returned>>

\* number: the chain and the number of the message that encrypt returns
Returns(t, outcome, number) ==
    /\ pc' = [pc EXCEPT ![t] = "idle"]
    /\ call' = [call EXCEPT ![t] = None]
    /\ returned' = returned \cup
          {[op |-> call[t].op, handle |-> call[t].handle, id |-> call[t].id,
            before |-> call[t].before, outcome |-> outcome, number |-> number]}

Return(t, outcome) == Returns(t, outcome, None)

\* Mutants: the counter is read and not advanced, or does not wrap around.
SameHandle(h) == h
HandleUnbounded(h) == h + 1

\* AtomicU32::fetch_add wraps around.
NextHandle(h) == (h + 1) % Handles

FetchAdd(t) ==
    /\ pc[t] = "fetch_add"
    /\ call' = [call EXCEPT ![t].handle = next_id]
    /\ next_id' = NextHandle(next_id)
    /\ pc' = [pc EXCEPT ![t] = "lock"]
    /\ UNCHANGED <<sessions, holder, poisoned, returned>>

-----------------------------------------------------------------------------
(* SESSIONS.write() *)

\* Mutant: encrypt takes the lock for reading.
EncryptsShare(t) ==
    holder \in {None} \cup {u \in Calling : {call[t].op, call[u].op} = {"encrypt"}}

LockIsFree(t) == holder = None

Lock(t) ==
    /\ pc[t] = "lock"
    /\ LockIsFree(t)
    /\ ~ poisoned
    /\ holder' = t
    /\ pc' = [pc EXCEPT ![t] = "locked"]
    /\ UNCHANGED <<next_id, sessions, poisoned, call, returned>>

\* A poisoned lock is an error, and for destroy_session the answer false.
LockPoisoned(t) ==
    /\ pc[t] = "lock"
    /\ LockIsFree(t)
    /\ poisoned
    /\ Return(t, IF call[t].op = "destroy" THEN "false" ELSE "Err")
    /\ UNCHANGED store

Holds(t, op) == pc[t] = "locked" /\ call[t].op = op

\* The guard is dropped as the call returns.
Unlock == holder' = None /\ poisoned' = poisoned

\* Mutant: the lock is still held after a panic.
PoisonHeld == holder' = holder /\ poisoned' = TRUE

\* The guard is dropped while the thread unwinds.
Poison == holder' = None /\ poisoned' = TRUE

Known(t) == call[t].handle \in DOMAIN sessions

Session(t) == sessions[call[t].handle]

-----------------------------------------------------------------------------
(* The calls, with the lock held *)

\* HashMap::insert replaces what the handle had.
Insert(t) ==
    /\ pc[t] = "locked"
    /\ Creates(call[t])
    /\ sessions' = [h \in DOMAIN sessions \cup {call[t].handle} |->
                       IF h # call[t].handle THEN sessions[h]
                       ELSE IF call[t].op = "create initiator"
                       THEN InitiatorSession ELSE ResponderSession]
    /\ Return(t, "Ok")
    /\ Unlock
    /\ UNCHANGED next_id

\* "No session with handle"
UnknownHandle(t) ==
    /\ pc[t] = "locked"
    /\ call[t].op \in {"encrypt", "decrypt"}
    /\ ~ Known(t)
    /\ Return(t, "Err")
    /\ Unlock
    /\ UNCHANGED <<next_id, sessions>>

\* "No sending chain established"
CannotEncrypt(t) ==
    /\ Holds(t, "encrypt")
    /\ Known(t)
    /\ Session(t).sent = None
    /\ Return(t, "Err")
    /\ Unlock
    /\ UNCHANGED <<next_id, sessions>>

\* encrypt takes the next key off the chain ...
Advance(t) ==
    /\ Holds(t, "encrypt")
    /\ Known(t)
    /\ Session(t).sent # None
    /\ sessions' = [sessions EXCEPT ![call[t].handle] = AfterAdvance(@)]
    /\ pc' = [pc EXCEPT ![t] = "advanced"]
    /\ UNCHANGED <<next_id, holder, poisoned, call, returned>>

\* ... and numbers the message by the chain's new index.
Number(t) ==
    /\ pc[t] = "advanced"
    /\ Returns(t, "Ok", [chain |-> Session(t).chain, n |-> Session(t).sent - 1])
    /\ Unlock
    /\ UNCHANGED <<next_id, sessions>>

\* A responder that has heard nothing ratchets to any key, an initiator to any
\* but the signed pre-key it has.
StartsRatchet(t) == call[t].args.ratchets \/ Session(t).sent = None

\* The initiator that has heard nothing, told of the signed pre-key it has
LacksReceivingChain(t) == Session(t).chain = 0 /\ ~ StartsRatchet(t)

\* "No receiving chain established"
CannotDecrypt(t) ==
    /\ Holds(t, "decrypt")
    /\ Known(t)
    /\ call[t].args.form # "short key"
    /\ LacksReceivingChain(t)
    /\ Return(t, "Err")
    /\ Unlock
    /\ UNCHANGED <<next_id, sessions>>

Decrypts(t, form) == /\ Holds(t, "decrypt")
                     /\ Known(t)
                     /\ call[t].args.form = form

\* decrypt returns.  An error leaves the session as changed as success does.
Decrypt(t) ==
    /\ Decrypts(t, "opens") \/ Decrypts(t, "fails")
    /\ ~ LacksReceivingChain(t)
    /\ sessions' = [sessions EXCEPT ![call[t].handle] =
                        AfterDecrypt(@, StartsRatchet(t))]
    /\ Return(t, IF call[t].args.form = "opens" THEN "Ok" ELSE "Err")
    /\ Unlock
    /\ UNCHANGED next_id

\* to_public_key panics.
DecryptShortKey(t) ==
    /\ Decrypts(t, "short key")
    /\ Return(t, "panic")
    /\ Poison
    /\ UNCHANGED <<next_id, sessions>>

\* Nonce::from_slice panics.
DecryptShortNonce(t) ==
    /\ Decrypts(t, "short nonce")
    /\ ~ LacksReceivingChain(t)
    /\ sessions' = [sessions EXCEPT ![call[t].handle] =
                        AfterDecrypt(@, StartsRatchet(t))]
    /\ Return(t, "panic")
    /\ Poison
    /\ UNCHANGED next_id

\* Mutant: destroy_session only looks the handle up.
Keep(handle) == sessions

Without(handle) == [h \in DOMAIN sessions \ {handle} |-> sessions[h]]

Destroy(t) ==
    /\ Holds(t, "destroy")
    /\ sessions' = Without(call[t].handle)
    /\ Return(t, IF Known(t) THEN "true" ELSE "false")
    /\ Unlock
    /\ UNCHANGED next_id

-----------------------------------------------------------------------------
Step(t) == \/ FetchAdd(t) \/ Lock(t) \/ LockPoisoned(t)
           \/ Insert(t) \/ UnknownHandle(t)
           \/ CannotEncrypt(t) \/ Advance(t) \/ Number(t)
           \/ CannotDecrypt(t) \/ Decrypt(t)
           \/ DecryptShortKey(t) \/ DecryptShortNonce(t)
           \/ Destroy(t)

Next == \E t \in Thread : Begin(t) \/ Step(t)

Spec == Init /\ [][Next]_vars

\* A thread in a call that can go on does so in the end.
FairSpec == Spec /\ \A t \in Thread : WF_vars(Step(t))

-----------------------------------------------------------------------------
(* Safety *)

HandleSet == 0 .. (Handles - 1)

\* The types of the store.
TypeOK == /\ next_id \in HandleSet
          /\ DOMAIN sessions \subseteq HandleSet
          /\ \A h \in DOMAIN sessions :
                sessions[h] \in [chain : Nat, sent : Nat \cup {None}]
          /\ holder \in Thread \cup {None}
          /\ poisoned \in BOOLEAN
          /\ pc \in [Thread -> {"idle", "fetch_add", "lock", "locked", "advanced"}]

Did(op, outcome) == {r \in returned : r.op = op /\ r.outcome = outcome}

Encrypted == Did("encrypt", "Ok")

Removals == Did("destroy", "true")

(***************************************************************************)
(* However calls interleave, no session gives out a message number of a    *)
(* chain twice, and between calls it has given out every number below its  *)
(* index: a number stands for a message key and its nonce.                 *)
(***************************************************************************)
MessageNumbers ==
    /\ \A r, q \in Encrypted : r.handle = q.handle /\ r.number = q.number => r = q
    /\ Calling = {} =>
          \A h \in DOMAIN sessions : sessions[h].sent # None =>
              {r.number.n : r \in {x \in Encrypted : /\ x.handle = h
                                                     /\ x.number.chain = sessions[h].chain}}
                  = 0 .. (sessions[h].sent - 1)

(***************************************************************************)
(* Two calls of encrypt on a session, one after the other, give messages   *)
(* in that order.                                                          *)
(***************************************************************************)
EncryptInOrder ==
    \A r, q \in Encrypted :
        r.handle = q.handle /\ r.id \in q.before =>
            \/ r.number.chain < q.number.chain
            \/ r.number.chain = q.number.chain /\ r.number.n < q.number.n

(***************************************************************************)
(* Once destroy_session has returned true, no later call succeeds with the *)
(* handle, and of all calls of destroy_session only one returns true.      *)
(***************************************************************************)
DestroyedForGood ==
    \A d \in Removals, r \in returned :
        r.handle = d.handle =>
            /\ d.id \in r.before => r.outcome \notin {"Ok", "true"}
            /\ r \in Removals => r = d

(***************************************************************************)
(* The store implements HandleStore, a session being there for the         *)
(* application once its creation has returned: no two creations get the    *)
(* same handle although they take it before they take the lock, no call    *)
(* changes another session, and only destroy_session makes one go away.    *)
(***************************************************************************)
Store == INSTANCE HandleStore
            WITH Program <- {"app"}, Name <- HandleSet,
                 things <- [h \in {"app"} \X DOMAIN sessions |-> sessions[h[2]]],
                 issued <- {"app"} \X Given

ImplementsStore == Store!Spec

-----------------------------------------------------------------------------
(* Liveness *)

(***************************************************************************)
(* Every call returns, also when another thread panics with the lock held. *)
(***************************************************************************)
EveryCallReturns == \A t \in Thread : pc[t] # "idle" ~> pc[t] = "idle"
=============================================================================
