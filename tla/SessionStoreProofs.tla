------------------------- MODULE SessionStoreProofs -------------------------
(***************************************************************************)
(* Proofs about the FFI's store of sessions, for any set of threads and    *)
(* any number of handles and calls.                                        *)
(*                                                                         *)
(* The first part is the book-keeping of the calls and the lock, and holds *)
(* whatever the constants are.  The second is about the handles and the    *)
(* sessions behind them, as long as the counter has not come round.        *)
(***************************************************************************)
EXTENDS SessionStore, FiniteSetTheorems, TLAPS

-----------------------------------------------------------------------------
(* The calls and the lock *)

OpNames == {"create initiator", "create responder", "encrypt", "destroy", "decrypt"}

CallRecord == [args : Ops, op : OpNames, handle : HandleSet \cup {None},
               id : Nat, before : SUBSET Nat]

(***************************************************************************)
(* What is known of call c when n calls have begun and those in R have     *)
(* returned: its number is below n; the calls that had returned when it    *)
(* began are among those in R and had lower numbers; and if it is not a    *)
(* creation, one of them had created its session.                          *)
(***************************************************************************)
WellFormed(c, n, R) ==
    /\ c.op \in OpNames
    /\ c.id \in 0 .. (n - 1)
    /\ c.before \subseteq {r.id : r \in R} \cap 0 .. (c.id - 1)
    /\ ~ Creates(c) => \E r \in R : /\ Creates(r) /\ r.outcome = "Ok"
                                    /\ r.handle = c.handle /\ r.id \in c.before

CallsInv ==
    /\ IsFiniteSet(returned) /\ IsFiniteSet(Calling)
    /\ Begun <= MaxCalls
    /\ DOMAIN call = Thread
    /\ \A t \in Calling :
          /\ call[t] \in CallRecord
          /\ call[t].op = call[t].args.op
          /\ WellFormed(call[t], Begun, returned)
          /\ pc[t] = "fetch_add" => Creates(call[t])
          /\ Creates(call[t]) /\ pc[t] # "fetch_add" => call[t].handle \in HandleSet
    /\ \A r \in returned : /\ WellFormed(r, Begun, returned)
                           /\ Creates(r) => r.handle \in HandleSet

\* Every call has a number of its own.
IdsInv ==
    /\ \A r, q \in returned : r.id = q.id => r = q
    /\ \A t, u \in Calling : call[t].id = call[u].id => t = u
    /\ \A t \in Calling, r \in returned : call[t].id # r.id

(***************************************************************************)
(* The threads between the lock and its release are one thread, holder,    *)
(* and a session whose chain has been advanced is there until its message  *)
(* is numbered.                                                            *)
(***************************************************************************)
LockInv ==
    \A t \in Thread :
        /\ pc[t] \in {"locked", "advanced"} <=> holder = t
        /\ pc[t] = "advanced" => /\ call[t].op = "encrypt"
                                 /\ call[t].handle \in DOMAIN sessions
                                 /\ sessions[call[t].handle].sent \in Nat \ {0}

BaseInv == TypeOK /\ CallsInv /\ IdsInv /\ LockInv

-----------------------------------------------------------------------------
(***************************************************************************)
(* What is known of a call stays true as calls begin and return.           *)
(***************************************************************************)
LEMMA WellFormedGrows ==
    ASSUME NEW c, NEW n \in Nat, NEW m \in Nat, n <= m,
           NEW R, NEW Q, R \subseteq Q, WellFormed(c, n, R)
    PROVE  WellFormed(c, m, Q)
BY DEF WellFormed

(***************************************************************************)
(* The number of calls begun is a natural number.                          *)
(***************************************************************************)
LEMMA BegunType ==
    ASSUME IsFiniteSet(returned), IsFiniteSet(Calling)
    PROVE  /\ Begun \in Nat
           /\ Cardinality(returned) \in Nat /\ Cardinality(Calling) \in Nat
BY FS_CardinalityType DEF Begun

(***************************************************************************)
(* A call that begins gets the next number, and the calls that have        *)
(* returned before it have lower ones.                                     *)
(***************************************************************************)
LEMMA BeginCalls ==
    ASSUME TypeOK, CallsInv, IdsInv, NEW t \in Thread, Begin(t)
    PROVE  CallsInv' /\ IdsInv'
<1>1. /\ IsFiniteSet(returned) /\ IsFiniteSet(Calling)
      /\ Begun \in Nat /\ Cardinality(returned) \in Nat /\ Cardinality(Calling) \in Nat
  BY BegunType DEF CallsInv
<1>2. PICK c \in Ops, h \in Given \cup {None} :
          /\ Creates(c) <=> h = None
          /\ call' = [call EXCEPT ![t] =
                [args |-> c, op |-> c.op, handle |-> h, id |-> Begun,
                 before |-> {r.id : r \in returned}]]
          /\ pc' = [pc EXCEPT ![t] = IF Creates(c) THEN "fetch_add" ELSE "lock"]
  BY DEF Begin
<1>3. pc[t] = "idle" /\ Begun < MaxCalls /\ UNCHANGED <<store, returned>>
  BY DEF Begin
<1>4. pc \in [Thread -> {"idle", "fetch_add", "lock", "locked", "advanced"}]
  BY DEF TypeOK
<1>5. Calling' = Calling \cup {t} /\ t \notin Calling
  BY <1>2, <1>3, <1>4 DEF Calling
<1>6. /\ IsFiniteSet(Calling') /\ IsFiniteSet(returned')
      /\ Begun' = Begun + 1 /\ Begun' <= MaxCalls
  <2>1. IsFiniteSet(Calling') /\ Cardinality(Calling') = Cardinality(Calling) + 1
    BY <1>1, <1>5, FS_AddElement
  <2> QED BY <1>1, <1>3, <2>1, StoreAssumption DEF Begun
<1> DEFINE new == [args |-> c, op |-> c.op, handle |-> h, id |-> Begun,
                   before |-> {r.id : r \in returned}]
<1>7. /\ DOMAIN call' = Thread /\ call'[t] = new
      /\ \A u \in Calling : u \in Thread /\ u # t /\ call'[u] = call[u] /\ pc'[u] = pc[u]
  BY <1>2, <1>3, <1>4 DEF CallsInv, Calling
<1>8. \A r \in returned : WellFormed(r, Begun', returned') /\ r.id \in 0 .. (Begun - 1)
  <2> SUFFICES ASSUME NEW r \in returned
               PROVE  WellFormed(r, Begun', returned') /\ r.id \in 0 .. (Begun - 1)
    OBVIOUS
  <2>1. WellFormed(r, Begun, returned)
    BY DEF CallsInv
  <2>2. WellFormed(r, Begun', returned')
    BY <1>1, <1>3, <1>6, <2>1, WellFormedGrows
  <2> QED BY <2>1, <2>2 DEF WellFormed
<1>9. \A u \in Calling : WellFormed(call'[u], Begun', returned') /\ call'[u].id \in 0 .. (Begun - 1)
  <2> SUFFICES ASSUME NEW u \in Calling
               PROVE  WellFormed(call'[u], Begun', returned') /\ call'[u].id \in 0 .. (Begun - 1)
    OBVIOUS
  <2>1. WellFormed(call[u], Begun, returned)
    BY DEF CallsInv
  <2>2. WellFormed(call[u], Begun', returned')
    BY <1>1, <1>3, <1>6, <2>1, WellFormedGrows
  <2> QED BY <1>7, <2>1, <2>2 DEF WellFormed
<1>10. /\ new \in CallRecord /\ new.op = new.args.op
       /\ WellFormed(new, Begun', returned')
       /\ pc'[t] = "fetch_add" <=> Creates(new)
  <2>1. c.op \in OpNames
    BY DEF Ops, OpNames
  <2>2. h \in Given => /\ h \in HandleSet
                       /\ \E r \in returned : /\ Creates(r) /\ r.outcome = "Ok"
                                              /\ r.handle = h
    BY DEF Given, CallsInv
  <2>3. {r.id : r \in returned} \subseteq 0 .. (Begun - 1)
    BY <1>8
  <2>4. new \in CallRecord
    BY <1>1, <2>1, <2>2, <2>3 DEF CallRecord
  <2>5. Creates(new) <=> Creates(c)
    BY DEF Creates
  <2>6. ~ Creates(c) => h \in Given
    BY <1>2
  <2>7. WellFormed(new, Begun', returned')
    BY <1>1, <1>3, <1>6, <2>1, <2>2, <2>3, <2>5, <2>6 DEF WellFormed
  <2> QED BY <1>2, <1>4, <2>4, <2>5, <2>7
<1> HIDE DEF new
<1>11. new.id = Begun
  BY DEF new
<1>12. CallsInv'
  <2>1. \A u \in Calling' :
          /\ call'[u] \in CallRecord
          /\ call'[u].op = call'[u].args.op
          /\ WellFormed(call'[u], Begun', returned')
          /\ pc'[u] = "fetch_add" => Creates(call'[u])
          /\ Creates(call'[u]) /\ pc'[u] # "fetch_add" => call'[u].handle \in HandleSet
    BY <1>5, <1>7, <1>9, <1>10 DEF CallsInv
  <2>2. \A r \in returned' : /\ WellFormed(r, Begun', returned')
                             /\ Creates(r) => r.handle \in HandleSet
    BY <1>3, <1>8 DEF CallsInv
  <2> QED BY <1>6, <1>7, <2>1, <2>2 DEF CallsInv
<1>13. IdsInv'
  BY <1>1, <1>3, <1>5, <1>7, <1>8, <1>9, <1>11 DEF IdsInv
<1> QED BY <1>12, <1>13

(***************************************************************************)
(* A call that returns is no longer among those that are being made, and   *)
(* what was known of it is known of its record.                            *)
(***************************************************************************)
LEMMA ReturnsCalls ==
    ASSUME TypeOK, CallsInv, IdsInv, NEW t \in Thread, NEW outcome, NEW number,
           pc[t] \in {"lock", "locked", "advanced"},
           Returns(t, outcome, number)
    PROVE  CallsInv' /\ IdsInv'
<1> DEFINE r0 == [op |-> call[t].op, handle |-> call[t].handle, id |-> call[t].id,
                  before |-> call[t].before, outcome |-> outcome, number |-> number]
<1>1. /\ IsFiniteSet(returned) /\ IsFiniteSet(Calling)
      /\ Begun \in Nat /\ Cardinality(returned) \in Nat /\ Cardinality(Calling) \in Nat
  BY BegunType DEF CallsInv
<1>2. pc \in [Thread -> {"idle", "fetch_add", "lock", "locked", "advanced"}]
  BY DEF TypeOK
<1>3. /\ returned' = returned \cup {r0} /\ returned \subseteq returned'
      /\ t \in Calling
      /\ call' = [call EXCEPT ![t] = None] /\ pc' = [pc EXCEPT ![t] = "idle"]
  BY DEF Returns, Calling
<1>4. /\ r0.id = call[t].id /\ r0.op = call[t].op
      /\ r0.handle = call[t].handle /\ r0.before = call[t].before
  OBVIOUS
<1> HIDE DEF r0
<1>5. r0 \notin returned /\ \A r \in returned : r.id # r0.id
  BY <1>3, <1>4 DEF IdsInv
<1>6. Calling' = Calling \ {t}
  BY <1>2, <1>3 DEF Calling
<1>7. IsFiniteSet(returned') /\ IsFiniteSet(Calling') /\ Begun' = Begun
  <2>1. /\ IsFiniteSet(returned \cup {r0})
        /\ Cardinality(returned \cup {r0}) = Cardinality(returned) + 1
    BY <1>1, <1>5, FS_AddElement
  <2>2. /\ IsFiniteSet(Calling \ {t})
        /\ Cardinality(Calling \ {t}) = Cardinality(Calling) - 1
    BY <1>1, <1>3, FS_RemoveElement
  <2> QED BY <1>1, <1>3, <1>6, <2>1, <2>2 DEF Begun
<1>8. /\ DOMAIN call' = Thread
      /\ \A u \in Calling' : /\ u \in Calling /\ u # t
                             /\ call'[u] = call[u] /\ pc'[u] = pc[u]
  BY <1>2, <1>3, <1>6 DEF CallsInv, Calling
<1>9. \A r \in returned' : /\ WellFormed(r, Begun', returned')
                           /\ Creates(r) => r.handle \in HandleSet
  <2>1. ASSUME NEW r \in returned
        PROVE  /\ WellFormed(r, Begun', returned')
               /\ Creates(r) => r.handle \in HandleSet
    BY <1>1, <1>3, <1>7, WellFormedGrows DEF CallsInv
  <2>2. WellFormed(r0, Begun', returned') /\ (Creates(r0) => r0.handle \in HandleSet)
    <3>1. WellFormed(call[t], Begun, returned)
      BY <1>3 DEF CallsInv
    <3>2. WellFormed(r0, Begun, returned)
      BY <1>4, <3>1 DEF WellFormed, Creates
    <3>3. WellFormed(r0, Begun', returned')
      BY <1>1, <1>3, <1>7, <3>2, WellFormedGrows
    <3>4. Creates(r0) => r0.handle \in HandleSet
      BY <1>3, <1>4 DEF CallsInv, Creates
    <3> QED BY <3>3, <3>4
  <2> QED BY <1>3, <2>1, <2>2
<1>10. \A u \in Calling' : WellFormed(call'[u], Begun', returned')
  BY <1>1, <1>3, <1>7, <1>8, WellFormedGrows DEF CallsInv
<1>11. CallsInv'
  <2>1. \A u \in Calling' :
          /\ call'[u] \in CallRecord
          /\ call'[u].op = call'[u].args.op
          /\ pc'[u] = "fetch_add" => Creates(call'[u])
          /\ Creates(call'[u]) /\ pc'[u] # "fetch_add" => call'[u].handle \in HandleSet
    BY <1>8 DEF CallsInv
  <2> QED BY <1>7, <1>8, <1>9, <1>10, <2>1 DEF CallsInv
<1>12. IdsInv'
  BY <1>3, <1>4, <1>5, <1>6, <1>8 DEF IdsInv
<1> QED BY <1>11, <1>12

(***************************************************************************)
(* The other steps only move a thread on, and fetch_add fills in a handle. *)
(***************************************************************************)
LEMMA MovesCalls ==
    ASSUME TypeOK, CallsInv, IdsInv, NEW t \in Thread,
           FetchAdd(t) \/ Lock(t) \/ Advance(t)
    PROVE  CallsInv' /\ IdsInv'
<1>1. pc \in [Thread -> {"idle", "fetch_add", "lock", "locked", "advanced"}]
  BY DEF TypeOK
<1>2. /\ returned' = returned /\ t \in Calling
      /\ pc[t] = "fetch_add" <=> FetchAdd(t)
      /\ pc'[t] \in {"lock", "locked", "advanced"}
      /\ \A u \in Thread \ {t} : pc'[u] = pc[u]
  BY <1>1 DEF FetchAdd, Lock, Advance, Holds, Calling
<1>3. Calling' = Calling
  BY <1>1, <1>2 DEF Calling
<1>4. Begun' = Begun
  BY <1>2, <1>3 DEF Begun
<1>5. /\ DOMAIN call' = Thread
      /\ \A u \in Calling \ {t} : call'[u] = call[u]
      /\ call'[t] = IF FetchAdd(t) THEN [call[t] EXCEPT !.handle = next_id] ELSE call[t]
  BY <1>2 DEF FetchAdd, Lock, Advance, CallsInv, Calling
<1>6. call[t] \in CallRecord /\ next_id \in HandleSet
  BY <1>2 DEF CallsInv, TypeOK
<1>7. /\ call'[t] \in CallRecord
      /\ call'[t].id = call[t].id /\ call'[t].op = call[t].op
      /\ call'[t].args = call[t].args /\ call'[t].before = call[t].before
      /\ call'[t].handle = IF FetchAdd(t) THEN next_id ELSE call[t].handle
  BY <1>5, <1>6 DEF CallRecord
<1>8. /\ WellFormed(call'[t], Begun, returned)
      /\ call'[t].op = call'[t].args.op
      /\ Creates(call'[t]) => call'[t].handle \in HandleSet
  <2>1. /\ WellFormed(call[t], Begun, returned)
        /\ call[t].op = call[t].args.op
        /\ Creates(call'[t]) <=> Creates(call[t])
        /\ FetchAdd(t) => Creates(call[t])
        /\ Creates(call[t]) /\ ~ FetchAdd(t) => call[t].handle \in HandleSet
    BY <1>2, <1>7 DEF CallsInv, Creates
  <2> QED BY <1>6, <1>7, <2>1 DEF WellFormed
<1>9. CallsInv'
  <2>1. \A u \in Calling :
          /\ call'[u] \in CallRecord
          /\ call'[u].op = call'[u].args.op
          /\ WellFormed(call'[u], Begun, returned)
          /\ pc'[u] = "fetch_add" => Creates(call'[u])
          /\ Creates(call'[u]) /\ pc'[u] # "fetch_add" => call'[u].handle \in HandleSet
    BY <1>2, <1>5, <1>7, <1>8 DEF CallsInv, Calling
  <2> QED BY <1>2, <1>3, <1>4, <1>5, <2>1 DEF CallsInv
<1>10. \A u \in Calling : call'[u].id = call[u].id
  BY <1>5, <1>7
<1>11. IdsInv'
  BY <1>2, <1>3, <1>10 DEF IdsInv
<1> QED BY <1>9, <1>11

-----------------------------------------------------------------------------
(* The lock and the types *)

SessionType == [chain : Nat, sent : Nat \cup {None}]

(***************************************************************************)
(* How a call ends: with the lock held, or turned away because the lock is *)
(* poisoned.                                                               *)
(***************************************************************************)
Ends(t) == \/ LockPoisoned(t) \/ Insert(t) \/ UnknownHandle(t)
           \/ CannotEncrypt(t) \/ CannotDecrypt(t) \/ Number(t)
           \/ Decrypt(t) \/ DecryptShortKey(t) \/ DecryptShortNonce(t)
           \/ Destroy(t)

(***************************************************************************)
(* Each of the ways in which a call ends makes it return.                  *)
(***************************************************************************)
LEMMA EndsReturn ==
    ASSUME NEW t \in Thread, Ends(t)
    PROVE  /\ pc[t] \in {"lock", "locked", "advanced"}
           /\ \E outcome, number : Returns(t, outcome, number)
BY DEF Ends, LockPoisoned, Insert, UnknownHandle, CannotEncrypt, CannotDecrypt, Number, Decrypt,
       DecryptShortKey, DecryptShortNonce, Destroy, Return, Holds, Decrypts

(***************************************************************************)
(* A call that ends lets the lock go if it had it, and leaves it alone if  *)
(* not; and unless it had the lock it leaves the sessions alone.           *)
(***************************************************************************)
LEMMA EndsUnlock ==
    ASSUME TypeOK, LockInv, NEW t \in Thread, Ends(t)
    PROVE  /\ poisoned' \in BOOLEAN /\ next_id' = next_id
           /\ holder' = None /\ \A u \in Thread \ {t} : holder # u
           /\ pc' = [pc EXCEPT ![t] = "idle"]
           /\ call' = [call EXCEPT ![t] = None]
<1>1. pc' = [pc EXCEPT ![t] = "idle"] /\ call' = [call EXCEPT ![t] = None]
  BY EndsReturn DEF Returns
<1>2. CASE LockPoisoned(t)
  <2>1. holder = None /\ UNCHANGED store
    BY <1>2 DEF LockPoisoned, LockIsFree
  <2>2. poisoned' = poisoned /\ next_id' = next_id /\ holder' = None
    BY <2>1 DEF store
  <2> QED BY <1>1, <2>1, <2>2, StoreAssumption DEF TypeOK
<1>3. CASE ~ LockPoisoned(t)
  <2>1. pc[t] \in {"locked", "advanced"} /\ holder = t
    BY <1>3 DEF Ends, Insert, UnknownHandle, CannotEncrypt, CannotDecrypt, Number, Decrypt,
       DecryptShortKey, DecryptShortNonce, Destroy, Holds, Decrypts, LockInv
  <2>2. (Unlock \/ Poison) /\ next_id' = next_id
    BY <1>3 DEF Ends, Insert, UnknownHandle, CannotEncrypt, CannotDecrypt, Number, Decrypt,
       DecryptShortKey, DecryptShortNonce, Destroy
  <2> QED BY <1>1, <2>1, <2>2 DEF Unlock, Poison, TypeOK
<1> QED BY <1>2, <1>3

(***************************************************************************)
(* The sessions a call leaves behind are sessions under handles.           *)
(***************************************************************************)
LEMMA EndsSessions ==
    ASSUME TypeOK, CallsInv, NEW t \in Thread, Ends(t)
    PROVE  /\ DOMAIN sessions' \subseteq HandleSet
           /\ \A h \in DOMAIN sessions' : sessions'[h] \in SessionType
<1>1. /\ DOMAIN sessions \subseteq HandleSet
      /\ \A h \in DOMAIN sessions : sessions[h] \in SessionType
  BY DEF TypeOK, SessionType
<1>2. CASE Insert(t)
  <2>1. call[t].handle \in HandleSet
    BY <1>2 DEF Insert, CallsInv, Calling
  <2>2. InitiatorSession \in SessionType /\ ResponderSession \in SessionType
    BY DEF InitiatorSession, ResponderSession, SessionType
  <2> DEFINE new == IF call[t].op = "create initiator"
                    THEN InitiatorSession ELSE ResponderSession
  <2>3. /\ DOMAIN sessions' = DOMAIN sessions \cup {call[t].handle}
        /\ \A h \in DOMAIN sessions' :
              sessions'[h] = IF h # call[t].handle THEN sessions[h] ELSE new
    BY <1>2 DEF Insert
  <2> QED BY <1>1, <2>1, <2>2, <2>3
<1>3. CASE Decrypt(t) \/ DecryptShortNonce(t)
  <2>1. /\ call[t].handle \in DOMAIN sessions
        /\ sessions' = [sessions EXCEPT ![call[t].handle] =
                           AfterDecrypt(sessions[call[t].handle], StartsRatchet(t))]
    BY <1>3 DEF Decrypt, DecryptShortNonce, Decrypts, Known
  <2>2. AfterDecrypt(sessions[call[t].handle], StartsRatchet(t)) \in SessionType
    BY <1>1, <2>1 DEF AfterDecrypt, SessionType
  <2> QED BY <1>1, <2>1, <2>2
<1>4. CASE Destroy(t)
  BY <1>1, <1>4 DEF Destroy, Without
<1>5. CASE sessions' = sessions
  BY <1>1, <1>5
<1>6. \/ Insert(t) \/ Decrypt(t) \/ DecryptShortNonce(t) \/ Destroy(t)
      \/ sessions' = sessions
  BY DEF Ends, LockPoisoned, UnknownHandle, CannotEncrypt, CannotDecrypt, Number, DecryptShortKey, store
<1> QED BY <1>2, <1>3, <1>4, <1>5, <1>6

(***************************************************************************)
(* The write lock: whatever a call does, in the end at most one thread has *)
(* it, and a session whose chain has been advanced does not change or go   *)
(* away before its message is numbered.                                    *)
(***************************************************************************)
LEMMA EndsLock ==
    ASSUME BaseInv, NEW t \in Thread, Ends(t)
    PROVE  TypeOK' /\ LockInv'
<1>1. /\ TypeOK /\ CallsInv /\ LockInv
      /\ pc \in [Thread -> {"idle", "fetch_add", "lock", "locked", "advanced"}]
  BY DEF BaseInv, TypeOK
<1>2. /\ poisoned' \in BOOLEAN /\ next_id' = next_id
      /\ holder' = None /\ \A u \in Thread \ {t} : holder # u
      /\ pc' = [pc EXCEPT ![t] = "idle"]
  BY <1>1, EndsUnlock
<1>3. TypeOK'
  <2>1. /\ DOMAIN sessions' \subseteq HandleSet
        /\ \A h \in DOMAIN sessions' : sessions'[h] \in SessionType
    BY <1>1, EndsSessions
  <2> QED BY <1>1, <1>2, <2>1 DEF TypeOK, SessionType
<1>4. \A u \in Thread : pc'[u] \notin {"locked", "advanced"}
  BY <1>1, <1>2 DEF LockInv
<1>5. LockInv'
  BY <1>2, <1>4, StoreAssumption DEF LockInv
<1> QED BY <1>3, <1>5

(***************************************************************************)
(* The steps of a call before it ends keep types and the lock.             *)
(***************************************************************************)
LEMMA MovesLock ==
    ASSUME BaseInv, NEW t \in Thread,
           FetchAdd(t) \/ Lock(t) \/ Advance(t) \/ Begin(t)
    PROVE  TypeOK' /\ LockInv'
<1>1. /\ TypeOK /\ CallsInv /\ LockInv
      /\ pc \in [Thread -> {"idle", "fetch_add", "lock", "locked", "advanced"}]
      /\ DOMAIN call = Thread /\ next_id \in HandleSet
  BY DEF BaseInv, TypeOK, CallsInv
<1>2. CASE Advance(t)
  <2> DEFINE h == call[t].handle
             s == sessions[h]
  <2>1. /\ pc[t] = "locked" /\ call[t].op = "encrypt" /\ holder = t
        /\ h \in DOMAIN sessions /\ s.sent # None
        /\ sessions' = [sessions EXCEPT ![h] = AfterAdvance(s)]
        /\ pc' = [pc EXCEPT ![t] = "advanced"]
        /\ UNCHANGED <<next_id, holder, poisoned, call, returned>>
    BY <1>1, <1>2 DEF Advance, Holds, Known, Session, LockInv
  <2>2. s \in SessionType /\ s.sent \in Nat
    BY <1>1, <2>1 DEF TypeOK, SessionType
  <2>3. AfterAdvance(s) \in SessionType /\ AfterAdvance(s).sent \in Nat \ {0}
    BY <2>2 DEF AfterAdvance, SessionType
  <2>4. TypeOK'
    BY <1>1, <2>1, <2>3 DEF TypeOK, SessionType
  <2>5. \A u \in Thread \ {t} : pc'[u] = pc[u] /\ pc[u] \notin {"locked", "advanced"}
    BY <1>1, <2>1 DEF LockInv
  <2>6. LockInv'
    BY <1>1, <2>1, <2>3, <2>5 DEF LockInv
  <2> QED BY <2>4, <2>6
<1>3. CASE Lock(t)
  BY <1>1, <1>3, StoreAssumption DEF Lock, LockIsFree, TypeOK, LockInv
<1>4. CASE FetchAdd(t)
  <2>1. NextHandle(next_id) \in HandleSet
    BY <1>1, StoreAssumption DEF NextHandle, HandleSet
  <2>2. /\ pc[t] = "fetch_add" /\ next_id' = NextHandle(next_id)
        /\ pc' = [pc EXCEPT ![t] = "lock"]
        /\ UNCHANGED <<sessions, holder, poisoned>>
        /\ \A u \in Thread \ {t} : call'[u] = call[u]
    BY <1>1, <1>4 DEF FetchAdd
  <2>3. TypeOK'
    BY <1>1, <2>1, <2>2 DEF TypeOK
  <2>4. LockInv'
    BY <1>1, <2>2 DEF LockInv
  <2> QED BY <2>3, <2>4
<1>5. CASE Begin(t)
  <2>1. /\ pc[t] = "idle" /\ pc'[t] \in {"fetch_add", "lock"}
        /\ pc' \in [Thread -> {"idle", "fetch_add", "lock", "locked", "advanced"}]
        /\ UNCHANGED store
        /\ \A u \in Thread \ {t} : pc'[u] = pc[u] /\ call'[u] = call[u]
    BY <1>1, <1>5 DEF Begin
  <2>2. TypeOK'
    BY <1>1, <2>1 DEF TypeOK, store
  <2>3. LockInv'
    BY <1>1, <2>1 DEF LockInv, store
  <2> QED BY <2>2, <2>3
<1> QED BY <1>2, <1>3, <1>4, <1>5

(***************************************************************************)
(* The book-keeping holds at all times, whatever the constants are.        *)
(***************************************************************************)
LEMMA StepsAreEndsOrMoves ==
    ASSUME NEW t \in Thread, Begin(t) \/ Step(t)
    PROVE  Begin(t) \/ FetchAdd(t) \/ Lock(t) \/ Advance(t) \/ Ends(t)
BY DEF Step, Ends

(***************************************************************************)
(* No call has begun and nobody holds the lock.                            *)
(***************************************************************************)
LEMMA BaseInvInit == Init => BaseInv
<1> SUFFICES ASSUME Init PROVE BaseInv
  OBVIOUS
<1>1. Calling = {}
  BY DEF Init, Calling
<1>2. IsFiniteSet(returned) /\ IsFiniteSet(Calling) /\ Begun = 0
  BY <1>1, FS_EmptySet DEF Init, Begun
<1>3. TypeOK
  <2>1. next_id \in HandleSet
    BY StoreAssumption DEF Init, HandleSet
  <2>2. DOMAIN sessions = {}
    BY DEF Init
  <2>3. pc \in [Thread -> {"idle", "fetch_add", "lock", "locked", "advanced"}]
    BY DEF Init
  <2> QED BY <2>1, <2>2, <2>3 DEF Init, TypeOK
<1>4. CallsInv
  BY <1>1, <1>2, StoreAssumption DEF Init, CallsInv
<1>5. IdsInv
  BY <1>1 DEF Init, IdsInv
<1>6. LockInv
  BY StoreAssumption DEF Init, LockInv
<1> QED BY <1>3, <1>4, <1>5, <1>6 DEF BaseInv

(***************************************************************************)
(* The book-keeping of the calls and the lock is inductive.                *)
(***************************************************************************)
LEMMA BaseInvStep == BaseInv /\ [Next]_vars => BaseInv'
<1> SUFFICES ASSUME BaseInv, [Next]_vars PROVE BaseInv'
  OBVIOUS
<1>1. TypeOK /\ CallsInv /\ IdsInv /\ LockInv
  BY DEF BaseInv
<1>2. ASSUME NEW t \in Thread, Begin(t) PROVE BaseInv'
  BY <1>1, <1>2, BeginCalls, MovesLock DEF BaseInv
<1>3. ASSUME NEW t \in Thread, FetchAdd(t) \/ Lock(t) \/ Advance(t) PROVE BaseInv'
  BY <1>1, <1>3, MovesCalls, MovesLock DEF BaseInv
<1>4. ASSUME NEW t \in Thread, Ends(t) PROVE BaseInv'
  BY <1>1, <1>4, EndsReturn, ReturnsCalls, EndsLock DEF BaseInv
<1>5. CASE UNCHANGED vars
  <2>1. Calling' = Calling /\ Begun' = Begun
    BY <1>5 DEF Calling, Begun, vars
  <2>2. CallsInv' /\ IdsInv'
    BY <1>1, <1>5, <2>1 DEF CallsInv, IdsInv, vars
  <2>3. TypeOK' /\ LockInv'
    BY <1>1, <1>5 DEF TypeOK, LockInv, vars
  <2> QED BY <2>2, <2>3 DEF BaseInv
<1> QED BY <1>2, <1>3, <1>4, <1>5, StepsAreEndsOrMoves DEF Next

(***************************************************************************)
(* The counter, the handles and the sessions keep their types, for any     *)
(* number of handles: also when the counter comes round.                   *)
(***************************************************************************)
THEOREM TypeCorrect == Spec => []TypeOK
<1>1. BaseInv => TypeOK
  BY DEF BaseInv
<1> QED BY <1>1, BaseInvInit, BaseInvStep, PTL DEF Spec

-----------------------------------------------------------------------------
(* The handles and the sessions *)

\* The creations that have taken a handle: their numbers, and the handles
Creations == {r \in returned : Creates(r)}

Takers == {t \in Calling : Creates(call[t]) /\ pc[t] # "fetch_add"}

Takings == {<<r.id, r.handle>> : r \in Creations}
           \cup {<<call[t].id, call[t].handle>> : t \in Takers}

Taken == Cardinality({x[1] : x \in Takings})

\* The k-th handle that the counter gives out, up to when it is at 1 again
KthHandle(k) == IF k < Handles THEN k ELSE k - Handles

(***************************************************************************)
(* The counter is one past the handles given out, and those are distinct:  *)
(* what fetch_add is for.                                                  *)
(***************************************************************************)
HandlesInv ==
    /\ next_id = KthHandle(Taken + 1)
    /\ \A x \in Takings : \E k \in 1 .. Taken : x[2] = KthHandle(k)
    /\ \A x, y \in Takings : x[2] = y[2] => x = y

\* How many messages of h's current chain have been numbered: a thread that
\* has advanced the chain has not numbered its message yet.
Numbered(h) == IF \E t \in Thread : pc[t] = "advanced" /\ call[t].handle = h
               THEN sessions[h].sent - 1 ELSE sessions[h].sent

\* The message is of an earlier chain of s, or among the first n of its chain.
IsPast(number, s, n) ==
    \/ number.chain < s.chain
    \/ number.chain = s.chain /\ s.sent # None /\ number.n < n

(***************************************************************************)
(* The numbers given out for a session are those before its index, all of  *)
(* them on its current chain; a message's session is there when the        *)
(* message is numbered, and never comes back once it has been removed.     *)
(***************************************************************************)
SessionsInv ==
    /\ DOMAIN sessions \subseteq Given
    /\ \A d \in Removals : d.handle \notin DOMAIN sessions
    /\ \A r \in Encrypted : r.number \in [chain : Nat, n : Nat]
    /\ \A h \in DOMAIN sessions :
          /\ \A r \in Encrypted :
                r.handle = h => IsPast(r.number, sessions[h], Numbered(h))
          /\ sessions[h].sent # None =>
                \A n \in 0 .. (Numbered(h) - 1) :
                   \E r \in Encrypted : /\ r.handle = h
                                        /\ r.number = [chain |-> sessions[h].chain, n |-> n]

NumbersUnique ==
    \A r, q \in Encrypted : r.handle = q.handle /\ r.number = q.number => r = q

IInv == /\ BaseInv
        /\ HandlesInv
        /\ SessionsInv
        /\ NumbersUnique /\ EncryptInOrder /\ DestroyedForGood

-----------------------------------------------------------------------------
(* Handles *)

(***************************************************************************)
(* Only calls that have begun take handles.                                *)
(***************************************************************************)
LEMMA TakenBegun ==
    ASSUME BaseInv
    PROVE  /\ IsFiniteSet({x[1] : x \in Takings}) /\ Taken \in Nat
           /\ {x[1] : x \in Takings} \subseteq 0 .. (Begun - 1)
           /\ Begun \in Nat /\ Begun <= MaxCalls
<1>1. Begun \in Nat /\ Begun <= MaxCalls
  BY BegunType DEF BaseInv, CallsInv
<1>2. {x[1] : x \in Takings} \subseteq 0 .. (Begun - 1)
  BY DEF BaseInv, CallsInv, WellFormed, Takings, Creations, Takers
<1>3. IsFiniteSet({x[1] : x \in Takings})
  <2>1. IsFiniteSet(0 .. (Begun - 1))
    BY <1>1, FS_Interval
  <2> QED BY <1>2, <2>1, FS_Subset
<1> QED BY <1>1, <1>2, <1>3, FS_CardinalityType DEF Taken

(***************************************************************************)
(* fetch_add gives the thread the counter's handle; no other step takes or *)
(* gives back a handle.                                                    *)
(***************************************************************************)
LEMMA TakingsStep ==
    ASSUME BaseInv, NEW t \in Thread
    PROVE  /\ Begin(t) \/ Lock(t) \/ Advance(t) \/ Ends(t) => Takings' = Takings
           /\ FetchAdd(t) =>
                 /\ Takings' = Takings \cup {<<call[t].id, next_id>>}
                 /\ call[t].id \in 0 .. (Begun - 1)
                 /\ call[t].id \notin {x[1] : x \in Takings}
<1>1. /\ pc \in [Thread -> {"idle", "fetch_add", "lock", "locked", "advanced"}]
      /\ DOMAIN call = Thread
  BY DEF BaseInv, TypeOK, CallsInv
<1>2. CASE Begin(t)
  <2>1. /\ pc[t] = "idle" /\ returned' = returned
        /\ \A u \in Thread \ {t} : pc'[u] = pc[u] /\ call'[u] = call[u]
    BY <1>1, <1>2 DEF Begin
  <2>2. PICK c \in Ops, h \in Given \cup {None} :
          /\ call' = [call EXCEPT ![t] =
                [args |-> c, op |-> c.op, handle |-> h, id |-> Begun,
                 before |-> {r.id : r \in returned}]]
          /\ pc' = [pc EXCEPT ![t] = IF Creates(c) THEN "fetch_add" ELSE "lock"]
    BY <1>2 DEF Begin
  <2>3. Creates(call'[t]) => pc'[t] = "fetch_add"
    BY <1>1, <2>2 DEF Creates
  <2>4. Takers' = Takers
    BY <1>1, <2>1, <2>3 DEF Takers, Calling
  <2>5. \A u \in Takers : call'[u] = call[u]
    BY <2>1 DEF Takers, Calling
  <2> QED BY <1>2, <2>1, <2>4, <2>5 DEF Takings, Creations, Begin, FetchAdd
<1>3. CASE Lock(t) \/ Advance(t)
  <2>1. /\ pc[t] \notin {"idle", "fetch_add"} /\ UNCHANGED <<call, returned>>
        /\ pc' = [pc EXCEPT ![t] = pc'[t]] /\ pc'[t] \in {"locked", "advanced"}
    BY <1>1, <1>3 DEF Lock, Advance, Holds
  <2>2. Takers' = Takers
    BY <1>1, <2>1 DEF Takers, Calling
  <2> QED BY <2>1, <2>2 DEF Takings, Creations, FetchAdd
<1>4. CASE Ends(t)
  <2>1. /\ pc[t] \in {"lock", "locked", "advanced"}
        /\ \E outcome, number : Returns(t, outcome, number)
    BY <1>4, EndsReturn
  <2>2. PICK outcome, number : Returns(t, outcome, number)
    BY <2>1
  <2> DEFINE r0 == [op |-> call[t].op, handle |-> call[t].handle, id |-> call[t].id,
                    before |-> call[t].before, outcome |-> outcome, number |-> number]
  <2>3. /\ returned' = returned \cup {r0}
        /\ pc' = [pc EXCEPT ![t] = "idle"] /\ call' = [call EXCEPT ![t] = None]
    BY <2>2 DEF Returns
  <2>4. /\ r0.id = call[t].id /\ r0.handle = call[t].handle
        /\ Creates(r0) <=> Creates(call[t])
    BY DEF Creates
  <2> HIDE DEF r0
  <2>5. Takers' = Takers \ {t}
    BY <1>1, <2>3 DEF Takers, Calling
  <2>6. \A u \in Takers' : call'[u] = call[u]
    BY <1>1, <2>3, <2>5 DEF Takers, Calling
  <2>7. Creations' = Creations \cup (IF t \in Takers THEN {r0} ELSE {})
    BY <1>1, <2>1, <2>3, <2>4 DEF Creations, Takers, Calling
  <2> QED BY <2>1, <2>4, <2>5, <2>6, <2>7 DEF Takings, FetchAdd
<1>5. CASE FetchAdd(t)
  <2>1. /\ pc[t] = "fetch_add" /\ returned' = returned /\ t \in Calling
        /\ call' = [call EXCEPT ![t].handle = next_id]
        /\ pc' = [pc EXCEPT ![t] = "lock"]
    BY <1>5 DEF FetchAdd, Calling
  <2>2. call[t] \in CallRecord /\ Creates(call[t]) /\ call[t].id \in 0 .. (Begun - 1)
    BY <2>1 DEF BaseInv, CallsInv, WellFormed
  <2>3. call'[t].handle = next_id /\ call'[t].id = call[t].id /\ call'[t].op = call[t].op
    BY <1>1, <2>1, <2>2 DEF CallRecord
  <2>4. Takers' = Takers \cup {t} /\ t \notin Takers
    BY <1>1, <2>1, <2>2, <2>3 DEF Takers, Calling, Creates
  <2>5. \A u \in Takers : call'[u] = call[u]
    BY <1>1, <2>1, <2>4 DEF Takers, Calling
  <2>6. Takings' = Takings \cup {<<call[t].id, next_id>>}
    BY <2>1, <2>3, <2>4, <2>5 DEF Takings, Creations
  <2>7. \A x \in Takings : x[1] # call[t].id
    <3>1. \A r \in returned : r.id # call[t].id
      BY <2>1 DEF BaseInv, IdsInv
    <3>2. \A u \in Takers : call[u].id # call[t].id
      BY <2>1, <2>4 DEF BaseInv, IdsInv, Takers
    <3> QED BY <3>1, <3>2 DEF Takings, Creations
  <2>8. ~ (Begin(t) \/ Lock(t) \/ Advance(t) \/ Ends(t))
    BY <2>1, EndsReturn DEF Begin, Lock, Advance, Holds
  <2> QED BY <2>2, <2>6, <2>7, <2>8
<1> QED BY <1>2, <1>3, <1>4, <1>5

(***************************************************************************)
(* Until it has come round, the counter has only given out other handles   *)
(* than the one it is at.                                                  *)
(***************************************************************************)
LEMMA HandlesInvStep ==
    ASSUME MaxCalls <= Handles, BaseInv, HandlesInv, [Next]_vars
    PROVE  HandlesInv'
<1>1. /\ IsFiniteSet({x[1] : x \in Takings}) /\ Taken \in Nat
      /\ {x[1] : x \in Takings} \subseteq 0 .. (Begun - 1)
      /\ Begun \in Nat /\ Begun <= MaxCalls
  BY TakenBegun
<1>2. ASSUME Takings' = Takings, next_id' = next_id PROVE HandlesInv'
  BY <1>2 DEF HandlesInv, Taken
<1>3. ASSUME NEW t \in Thread, FetchAdd(t) PROVE HandlesInv'
  <2> DEFINE ids == {x[1] : x \in Takings}
             id  == call[t].id
  <2>1. /\ Takings' = Takings \cup {<<id, next_id>>}
        /\ id \in 0 .. (Begun - 1) /\ id \notin ids
    BY <1>3, TakingsStep
  <2>2. {x[1] : x \in Takings'} = ids \cup {id}
    <3>1. <<id, next_id>>[1] = id
      OBVIOUS
    <3>2. \A x \in Takings' : x[1] \in ids \cup {id}
      BY <2>1, <3>1
    <3>3. \A i \in ids \cup {id} : \E x \in Takings' : i = x[1]
      BY <2>1, <3>1
    <3> QED BY <3>2, <3>3
  <2>3. ids \cup {id} \subseteq 0 .. (Begun - 1)
    BY <1>1, <2>1
  <2>4. IsFiniteSet(ids) /\ Cardinality(ids) = Taken
    BY <1>1 DEF Taken
  <2> HIDE DEF ids, id
  <2>5. Cardinality(ids \cup {id}) = Taken + 1
    BY <2>1, <2>4, FS_AddElement
  <2>6. Cardinality(ids \cup {id}) <= Begun
    <3>1. IsFiniteSet(0 .. (Begun - 1)) /\ Cardinality(0 .. (Begun - 1)) = Begun
      BY <1>1, FS_Interval
    <3> QED BY <2>3, <3>1, FS_Subset
  <2>7. Taken' = Taken + 1 /\ Taken + 1 <= Handles
    <3>1. Taken' = Cardinality({x[1] : x \in Takings'})
      BY DEF Taken
    <3>2. Taken' = Taken + 1
      BY <2>2, <2>5, <3>1
    <3> QED BY <1>1, <2>5, <2>6, <3>2, StoreAssumption
  <2>8. next_id' = KthHandle(Taken' + 1)
    <3>1. next_id' = NextHandle(KthHandle(Taken + 1))
      BY <1>3 DEF FetchAdd, HandlesInv
    <3> QED BY <1>1, <2>7, <3>1, StoreAssumption DEF NextHandle, KthHandle
  <2>9. \A x \in Takings' : \E k \in 1 .. Taken' : x[2] = KthHandle(k)
    BY <1>1, <2>1, <2>7 DEF HandlesInv
  <2>10. \A x \in Takings : x[2] # next_id
    <3> SUFFICES ASSUME NEW x \in Takings PROVE x[2] # next_id
      OBVIOUS
    <3>1. PICK k \in 1 .. Taken : x[2] = KthHandle(k)
      BY DEF HandlesInv
    <3> QED BY <1>1, <2>7, <3>1, StoreAssumption DEF HandlesInv, KthHandle
  <2>11. \A x, y \in Takings' : x[2] = y[2] => x = y
    BY <2>1, <2>10 DEF HandlesInv
  <2> QED BY <2>8, <2>9, <2>11 DEF HandlesInv
<1>4. ASSUME NEW t \in Thread, Begin(t) \/ Lock(t) \/ Advance(t) \/ Ends(t)
      PROVE  HandlesInv'
  <2>1. next_id' = next_id
    BY <1>4, EndsUnlock DEF BaseInv, Begin, Lock, Advance, store
  <2> QED BY <1>2, <1>4, <2>1, TakingsStep
<1>5. CASE UNCHANGED vars
  <2>1. Takings' = Takings
    BY <1>5 DEF vars, Takings, Creations, Takers, Calling
  <2> QED BY <1>2, <1>5, <2>1 DEF vars
<1> QED BY <1>3, <1>4, <1>5, StepsAreEndsOrMoves DEF Next

(***************************************************************************)
(* So no two creations have the same handle, and one that has not returned *)
(* has none that the application has been given.                           *)
(***************************************************************************)
LEMMA CreationsDiffer ==
    ASSUME BaseInv, HandlesInv
    PROVE  /\ \A r, q \in Creations : r.handle = q.handle => r = q
           /\ \A t \in Takers : call[t].handle \notin Given
<1>1. ASSUME NEW r \in Creations, NEW q \in Creations, r.handle = q.handle PROVE r = q
  <2>1. <<r.id, r.handle>> \in Takings /\ <<q.id, q.handle>> \in Takings
    BY DEF Takings
  <2>2. <<r.id, r.handle>>[2] = r.handle /\ <<q.id, q.handle>>[2] = q.handle
    OBVIOUS
  <2>3. <<r.id, r.handle>> = <<q.id, q.handle>>
    BY <1>1, <2>1, <2>2 DEF HandlesInv
  <2>4. r.id = q.id
    BY <2>3
  <2> QED BY <2>4 DEF Creations, BaseInv, IdsInv
<1>2. ASSUME NEW t \in Takers, NEW r \in Creations PROVE call[t].handle # r.handle
  <2>1. <<r.id, r.handle>> \in Takings /\ <<call[t].id, call[t].handle>> \in Takings
    BY DEF Takings
  <2>2. /\ <<r.id, r.handle>>[2] = r.handle
        /\ <<call[t].id, call[t].handle>>[2] = call[t].handle
    OBVIOUS
  <2>3. call[t].handle = r.handle => <<r.id, r.handle>> = <<call[t].id, call[t].handle>>
    BY <2>1, <2>2 DEF HandlesInv
  <2>4. r.id # call[t].id
    BY DEF Creations, Takers, BaseInv, IdsInv
  <2> QED BY <2>3, <2>4
<1> QED BY <1>1, <1>2 DEF Given, Creations

-----------------------------------------------------------------------------
(* What the calls return *)

(***************************************************************************)
(* The record of a call that ends, and which steps make which records: a   *)
(* creation succeeds at the insert, encrypt when the message is numbered,  *)
(* and no other call succeeds without the session there.                   *)
(***************************************************************************)
LEMMA EndsRecord ==
    ASSUME BaseInv, NEW t \in Thread, Ends(t)
    PROVE  \E r :
        /\ returned' = returned \cup {r}
        /\ r.op = call[t].op /\ r.handle = call[t].handle
        /\ r.id = call[t].id /\ r.before = call[t].before
        /\ Creates(r) /\ r.outcome = "Ok" <=> Insert(t)
        /\ r.op = "encrypt" /\ r.outcome = "Ok" <=> Number(t)
        /\ Number(t) => r.number = [chain |-> Session(t).chain, n |-> Session(t).sent - 1]
        /\ r.op = "destroy" /\ r.outcome = "true" <=> Destroy(t) /\ Known(t)
        /\ r.outcome \in {"Ok", "true"} => Insert(t) \/ Known(t)
<1>1. pc[t] # "idle" /\ call[t] \in CallRecord
  BY EndsReturn DEF BaseInv, CallsInv, Calling
<1> DEFINE Rec(outcome, number) ==
              [op |-> call[t].op, handle |-> call[t].handle, id |-> call[t].id,
               before |-> call[t].before, outcome |-> outcome, number |-> number]
<1>2. CASE Insert(t)
  <2>1. returned' = returned \cup {Rec("Ok", None)} /\ pc[t] = "locked"
    BY <1>2 DEF Insert, Return, Returns
  <2>2. call[t].op \in {"create initiator", "create responder"}
    BY <1>2 DEF Insert, Creates
  <2>3. ~ Number(t) /\ ~ Destroy(t)
    BY <2>1, <2>2 DEF Number, Destroy, Holds
  <2> WITNESS Rec("Ok", None)
  <2> QED BY <1>2, <2>1, <2>2, <2>3 DEF Creates
<1>3. CASE Number(t)
  <2> DEFINE number == [chain |-> Session(t).chain, n |-> Session(t).sent - 1]
  <2>1. returned' = returned \cup {Rec("Ok", number)} /\ pc[t] = "advanced"
    BY <1>3 DEF Number, Returns
  <2>2. call[t].op = "encrypt" /\ Known(t)
    BY <2>1 DEF BaseInv, LockInv, Known
  <2>3. ~ Insert(t) /\ ~ Destroy(t)
    BY <2>1 DEF Insert, Destroy, Holds
  <2> WITNESS Rec("Ok", number)
  <2> QED BY <1>3, <2>1, <2>2, <2>3 DEF Creates
<1>4. CASE Destroy(t)
  <2> DEFINE outcome == IF Known(t) THEN "true" ELSE "false"
  <2>1. returned' = returned \cup {Rec(outcome, None)}
    BY <1>4 DEF Destroy, Return, Returns
  <2>2. call[t].op = "destroy" /\ pc[t] = "locked"
    BY <1>4 DEF Destroy, Holds
  <2>3. ~ Insert(t) /\ ~ Number(t)
    BY <2>2 DEF Insert, Number, Creates
  <2>4. outcome = "true" <=> Known(t)
    OBVIOUS
  <2> HIDE DEF outcome
  <2>5. outcome \in {"true", "false"}
    BY DEF outcome
  <2> WITNESS Rec(outcome, None)
  <2> QED BY <1>4, <2>1, <2>2, <2>3, <2>4, <2>5 DEF Creates
<1>5. CASE Decrypt(t)
  <2> DEFINE outcome == IF call[t].args.form = "opens" THEN "Ok" ELSE "Err"
  <2>1. returned' = returned \cup {Rec(outcome, None)}
    BY <1>5 DEF Decrypt, Return, Returns
  <2>2. call[t].op = "decrypt" /\ pc[t] = "locked" /\ Known(t)
    BY <1>5 DEF Decrypt, Decrypts, Holds
  <2>3. ~ Insert(t) /\ ~ Number(t) /\ ~ Destroy(t)
    BY <2>2 DEF Insert, Number, Creates, Destroy, Holds
  <2> HIDE DEF outcome
  <2> WITNESS Rec(outcome, None)
  <2> QED BY <2>1, <2>2, <2>3 DEF Creates
<1>6. CASE \/ LockPoisoned(t) \/ UnknownHandle(t) \/ CannotEncrypt(t) \/ CannotDecrypt(t)
           \/ DecryptShortKey(t) \/ DecryptShortNonce(t)
  <2>1. PICK outcome \in {"false", "Err", "panic"} :
           returned' = returned \cup {Rec(outcome, None)}
    BY <1>6 DEF LockPoisoned, UnknownHandle, CannotEncrypt, CannotDecrypt, DecryptShortKey,
                DecryptShortNonce, Return, Returns
  <2>2. ~ Insert(t) /\ ~ Number(t) /\ ~ (Destroy(t) /\ Known(t))
    BY <1>6 DEF LockPoisoned, UnknownHandle, CannotEncrypt, CannotDecrypt, DecryptShortKey,
                DecryptShortNonce, Decrypts, Insert, Number, Destroy, Holds, Creates
  <2> WITNESS Rec(outcome, None)
  <2> QED BY <2>1, <2>2 DEF Creates
<1> QED BY <1>2, <1>3, <1>4, <1>5, <1>6 DEF Ends

(***************************************************************************)
(* What the application has been given and told, after each step: a new    *)
(* handle at an insert, a numbered message, a removal.                     *)
(***************************************************************************)
LEMMA ResultsStep ==
    ASSUME BaseInv, HandlesInv, NEW t \in Thread, Begin(t) \/ Step(t)
    PROVE  /\ Given' = IF Insert(t) THEN Given \cup {call[t].handle} ELSE Given
           /\ Insert(t) => call[t].handle \notin Given
           /\ ~ Number(t) => Encrypted' = Encrypted
           /\ ~ (Destroy(t) /\ Known(t)) => Removals' = Removals
<1>1. CASE Ends(t)
  <2>1. PICK r :
        /\ returned' = returned \cup {r}
        /\ r.handle = call[t].handle
        /\ Creates(r) /\ r.outcome = "Ok" <=> Insert(t)
        /\ r.op = "encrypt" /\ r.outcome = "Ok" <=> Number(t)
        /\ r.op = "destroy" /\ r.outcome = "true" <=> Destroy(t) /\ Known(t)
    BY <1>1, EndsRecord
  <2>2. Given' = IF Insert(t) THEN Given \cup {call[t].handle} ELSE Given
    BY <2>1 DEF Given
  <2>3. ASSUME Insert(t) PROVE call[t].handle \notin Given
    <3>1. t \in Takers
      BY <2>3 DEF Insert, Takers, Calling
    <3> QED BY <3>1, CreationsDiffer
  <2> QED BY <2>1, <2>2, <2>3 DEF Encrypted, Removals, Did
<1>2. CASE Begin(t) \/ FetchAdd(t) \/ Lock(t) \/ Advance(t)
  <2>1. returned' = returned
    BY <1>2 DEF Begin, FetchAdd, Lock, Advance
  <2>2. ~ Insert(t)
    BY <1>2 DEF Begin, FetchAdd, Lock, Advance, Insert, Holds, Creates
  <2> QED BY <2>1, <2>2 DEF Given, Encrypted, Removals, Did
<1> QED BY <1>1, <1>2, StepsAreEndsOrMoves

-----------------------------------------------------------------------------
(* Message numbers *)

(***************************************************************************)
(* Only a session whose chain a thread has just advanced has given out     *)
(* one number less than its index says.                                    *)
(***************************************************************************)
LEMMA NumberedIs ==
    ASSUME BaseInv, NEW h
    PROVE  /\ (\A t \in Thread : pc[t] # "advanced") => Numbered(h) = sessions[h].sent
           /\ \A t \in Thread : pc[t] = "advanced" =>
                 Numbered(h) = IF h = call[t].handle THEN sessions[h].sent - 1
                                                     ELSE sessions[h].sent
<1>1. \A t, u \in Thread : pc[t] = "advanced" /\ pc[u] = "advanced" => t = u
  BY DEF BaseInv, LockInv
<1> QED BY <1>1 DEF Numbered

(***************************************************************************)
(* The thread with the lock: no other has advanced a chain.                *)
(***************************************************************************)
LEMMA AloneLocked ==
    ASSUME BaseInv, NEW t \in Thread, pc[t] \in {"locked", "advanced"}
    PROVE  /\ t \in Calling
           /\ \A u \in Thread \ {t} : pc[u] \notin {"locked", "advanced"}
           /\ pc[t] = "locked" => \A h : Numbered(h) = sessions[h].sent
<1>1. \A u \in Thread \ {t} : pc[u] \notin {"locked", "advanced"}
  BY DEF BaseInv, LockInv
<1> QED BY <1>1, NumberedIs DEF Calling

(***************************************************************************)
(* After a call has ended no thread has the lock, so every index counts    *)
(* the numbers given out.                                                  *)
(***************************************************************************)
LEMMA EndsNumbered ==
    ASSUME BaseInv, NEW t \in Thread, Ends(t), NEW h
    PROVE  Numbered(h)' = sessions'[h].sent
<1>1. \A u \in Thread : pc'[u] # "advanced"
  <2>1. pc' = [pc EXCEPT ![t] = "idle"] /\ \A u \in Thread \ {t} : holder # u
    BY EndsUnlock DEF BaseInv
  <2> QED BY <2>1 DEF BaseInv, LockInv, TypeOK
<1> QED BY <1>1 DEF Numbered

(***************************************************************************)
(* A created session has a handle no message was numbered for.             *)
(***************************************************************************)
LEMMA InsertSessions ==
    ASSUME BaseInv, HandlesInv, SessionsInv, NEW t \in Thread, Insert(t)
    PROVE  SessionsInv'
<1>0. PICK g : g = call[t].handle
  OBVIOUS
<1>1. /\ Given' = Given \cup {g} /\ g \notin Given
      /\ Encrypted' = Encrypted /\ Removals' = Removals
  <2>1. ~ Number(t) /\ ~ Destroy(t)
    BY DEF Insert, Number, Destroy, Holds, Creates
  <2> QED BY <1>0, <2>1, ResultsStep DEF Step
<1>2. \A r \in Encrypted \cup Removals : r.handle \in Given
  BY DEF BaseInv, CallsInv, WellFormed, Encrypted, Removals, Did, Given, Creates
<1>3. \A h \in DOMAIN sessions : h # g
  BY <1>1 DEF SessionsInv
<1>4. /\ DOMAIN sessions' = DOMAIN sessions \cup {g}
      /\ \A h \in DOMAIN sessions : sessions'[h] = sessions[h]
      /\ sessions'[g] \in {InitiatorSession, ResponderSession}
  BY <1>0, <1>3 DEF Insert
<1>5. \A h \in DOMAIN sessions' : Numbered(h)' = sessions'[h].sent
  BY EndsNumbered DEF Ends
<1>6. \A h \in DOMAIN sessions : Numbered(h) = sessions[h].sent
  BY AloneLocked DEF Insert
<1>7. sessions'[g].sent # None => sessions'[g].sent = 0
  BY <1>4 DEF InitiatorSession, ResponderSession
<1>8. \A h \in DOMAIN sessions' :
          /\ \A r \in Encrypted' :
                r.handle = h => IsPast(r.number, sessions'[h], Numbered(h)')
          /\ sessions'[h].sent # None =>
                \A n \in 0 .. (Numbered(h)' - 1) :
                   \E r \in Encrypted' : /\ r.handle = h
                                         /\ r.number = [chain |-> sessions'[h].chain, n |-> n]
  <2>1. ASSUME NEW h \in DOMAIN sessions
        PROVE  Numbered(h)' = Numbered(h) /\ sessions'[h] = sessions[h]
    BY <1>4, <1>5, <1>6
  <2>2. \A r \in Encrypted : r.handle # g
    BY <1>1, <1>2
  <2>3. sessions'[g].sent # None => 0 .. (Numbered(g)' - 1) = {}
    BY <1>4, <1>5, <1>7
  <2> QED BY <1>1, <1>4, <2>1, <2>2, <2>3 DEF SessionsInv
<1> QED BY <1>1, <1>2, <1>4, <1>8 DEF SessionsInv

(***************************************************************************)
(* While a thread has advanced a chain and not numbered its message, the   *)
(* numbers given out are what they were.                                   *)
(***************************************************************************)
LEMMA AdvanceSessions ==
    ASSUME BaseInv, HandlesInv, SessionsInv, NEW t \in Thread, Advance(t)
    PROVE  SessionsInv'
<1>0. PICK g : g = call[t].handle
  OBVIOUS
<1>1. Given' = Given /\ Encrypted' = Encrypted /\ Removals' = Removals
  BY DEF Advance, Given, Encrypted, Removals, Did
<1>2. /\ pc[t] = "locked" /\ pc' = [pc EXCEPT ![t] = "advanced"] /\ call' = call
      /\ g \in DOMAIN sessions /\ sessions[g].sent # None
      /\ sessions' = [sessions EXCEPT ![g] = AfterAdvance(sessions[g])]
      /\ sessions[g] \in SessionType
  BY <1>0 DEF Advance, Holds, Known, Session, BaseInv, TypeOK, SessionType
<1>3. /\ sessions'[g].chain = sessions[g].chain
      /\ sessions'[g].sent = sessions[g].sent + 1 /\ sessions[g].sent \in Nat
      /\ sessions'[g].sent # None
      /\ \A h \in DOMAIN sessions \ {g} : sessions'[h] = sessions[h]
      /\ DOMAIN sessions' = DOMAIN sessions
  BY <1>2, StoreAssumption DEF AfterAdvance, SessionType
<1>4. \A h \in DOMAIN sessions : Numbered(h)' = Numbered(h)
  <2>1. \A h \in DOMAIN sessions : Numbered(h) = sessions[h].sent
    BY <1>2, AloneLocked
  <2>2. \A u \in Thread : pc'[u] = "advanced" <=> u = t
    <3>1. \A u \in Thread \ {t} : pc[u] # "advanced"
      BY <1>2, AloneLocked
    <3> QED BY <1>2, <3>1 DEF BaseInv, TypeOK
  <2>3. \A h : Numbered(h)' = IF h = g THEN sessions'[h].sent - 1 ELSE sessions'[h].sent
    BY <1>0, <1>2, <2>2 DEF Numbered
  <2> QED BY <1>3, <2>1, <2>3
<1>5. \A h \in DOMAIN sessions :
          /\ sessions'[h].chain = sessions[h].chain
          /\ sessions'[h].sent # None <=> sessions[h].sent # None
  BY <1>2, <1>3
<1> QED BY <1>1, <1>3, <1>4, <1>5 DEF SessionsInv, IsPast

(***************************************************************************)
(* The message gets the last number before the chain's index, which no     *)
(* message of the session has, and comes after all that have returned.     *)
(***************************************************************************)
LEMMA NumberSessions ==
    ASSUME BaseInv, HandlesInv, SessionsInv, NEW t \in Thread, Number(t)
    PROVE  /\ SessionsInv'
           /\ \E r : /\ returned' = returned \cup {r}
                     /\ r.handle = call[t].handle /\ r.id = call[t].id
                     /\ Encrypted' = Encrypted \cup {r}
                     /\ r.number \in [chain : Nat, n : Nat]
                     /\ \A q \in Encrypted : q.handle = r.handle =>
                           \/ q.number.chain < r.number.chain
                           \/ q.number.chain = r.number.chain /\ q.number.n < r.number.n
<1>0. PICK g : g = call[t].handle
  OBVIOUS
<1> DEFINE s == sessions[g]
<1>1. /\ pc[t] = "advanced" /\ g \in DOMAIN sessions
      /\ s.sent \in Nat \ {0} /\ s.chain \in Nat
      /\ UNCHANGED <<next_id, sessions>>
  <2>1. g \in DOMAIN sessions /\ s.sent \in Nat \ {0}
    BY <1>0 DEF Number, BaseInv, LockInv
  <2> QED BY <2>1 DEF Number, BaseInv, TypeOK
<1>2. PICK r : /\ returned' = returned \cup {r}
               /\ r.op = "encrypt" /\ r.outcome = "Ok"
               /\ r.handle = g /\ r.id = call[t].id
               /\ r.number = [chain |-> s.chain, n |-> s.sent - 1]
  <2>1. PICK r : /\ returned' = returned \cup {r}
                 /\ r.handle = call[t].handle /\ r.id = call[t].id
                 /\ r.op = "encrypt" /\ r.outcome = "Ok" <=> Number(t)
                 /\ Number(t) => r.number = [chain |-> Session(t).chain,
                                             n |-> Session(t).sent - 1]
    BY EndsRecord DEF Ends
  <2> QED BY <1>0, <2>1 DEF Session
<1>3. Encrypted' = Encrypted \cup {r} /\ r.number \in [chain : Nat, n : Nat]
  BY <1>1, <1>2 DEF Encrypted, Did
<1>4. Given' = Given /\ Removals' = Removals
  <2>1. ~ Insert(t) /\ ~ Destroy(t)
    BY <1>1 DEF Insert, Destroy, Holds
  <2> QED BY <2>1, ResultsStep DEF Step
<1>5. \A h \in DOMAIN sessions :
         /\ Numbered(h)' = sessions[h].sent
         /\ Numbered(h) = IF h = g THEN sessions[h].sent - 1 ELSE sessions[h].sent
  BY <1>0, <1>1, EndsNumbered, NumberedIs DEF Ends
<1>6. \A q \in Encrypted : /\ q.number \in [chain : Nat, n : Nat]
                           /\ q.handle = g => IsPast(q.number, s, s.sent - 1)
  BY <1>1, <1>5 DEF SessionsInv
<1>7. \A q \in Encrypted : q.handle = r.handle =>
         \/ q.number.chain < r.number.chain
         \/ q.number.chain = r.number.chain /\ q.number.n < r.number.n
  BY <1>2, <1>6 DEF IsPast
<1>8. SessionsInv'
  <2>1. \A h \in DOMAIN sessions \ {g} :
           /\ \A q \in Encrypted' :
                 q.handle = h => IsPast(q.number, sessions[h], Numbered(h)')
           /\ sessions[h].sent # None =>
                 \A n \in 0 .. (Numbered(h)' - 1) :
                    \E q \in Encrypted' : /\ q.handle = h
                                          /\ q.number = [chain |-> sessions[h].chain, n |-> n]
    BY <1>2, <1>3, <1>5 DEF SessionsInv
  <2>2. \A q \in Encrypted' : q.handle = g => IsPast(q.number, s, Numbered(g)')
    <3>1. ASSUME NEW q \in Encrypted, q.handle = g PROVE IsPast(q.number, s, Numbered(g)')
      BY <1>1, <1>5, <1>6, <3>1 DEF IsPast
    <3>2. IsPast(r.number, s, Numbered(g)')
      BY <1>1, <1>2, <1>5, StoreAssumption DEF IsPast
    <3> QED BY <1>3, <3>1, <3>2
  <2>3. ASSUME NEW n \in 0 .. (Numbered(g)' - 1)
        PROVE  \E q \in Encrypted' : q.handle = g /\ q.number = [chain |-> s.chain, n |-> n]
    <3>1. CASE n = s.sent - 1
      BY <1>2, <1>3, <3>1
    <3>2. CASE n # s.sent - 1
      <4>1. n \in 0 .. (Numbered(g) - 1) /\ s.sent # None
        BY <1>1, <1>5, <3>2, StoreAssumption
      <4> QED BY <1>1, <1>3, <4>1 DEF SessionsInv
    <3> QED BY <3>1, <3>2
  <2> QED BY <1>1, <1>3, <1>4, <2>1, <2>2, <2>3 DEF SessionsInv
<1> QED BY <1>0, <1>2, <1>3, <1>7, <1>8

(***************************************************************************)
(* decrypt: a DH ratchet starts a chain of which nothing has been numbered. *)
(***************************************************************************)
LEMMA DecryptSessions ==
    ASSUME BaseInv, HandlesInv, SessionsInv, NEW t \in Thread,
           Decrypt(t) \/ DecryptShortNonce(t)
    PROVE  SessionsInv'
<1>0. PICK g : g = call[t].handle
  OBVIOUS
<1>1. /\ pc[t] = "locked" /\ call[t].op = "decrypt" /\ g \in DOMAIN sessions
      /\ sessions' = [sessions EXCEPT ![g] = AfterDecrypt(sessions[g], StartsRatchet(t))]
      /\ sessions[g] \in SessionType
  BY <1>0 DEF Decrypt, DecryptShortNonce, Decrypts, Holds, Known, BaseInv, TypeOK,
              SessionType
<1>2. Given' = Given /\ Encrypted' = Encrypted /\ Removals' = Removals
  <2>1. ~ Insert(t) /\ ~ Number(t) /\ ~ Destroy(t)
    BY <1>1 DEF Insert, Number, Destroy, Holds, Creates
  <2> QED BY <2>1, ResultsStep DEF Step
<1>3. \A h \in DOMAIN sessions : /\ Numbered(h) = sessions[h].sent
                                 /\ Numbered(h)' = sessions'[h].sent
  BY <1>1, AloneLocked, EndsNumbered DEF Ends
<1>4. /\ DOMAIN sessions' = DOMAIN sessions
      /\ \A h \in DOMAIN sessions \ {g} : sessions'[h] = sessions[h]
      /\ \/ sessions'[g] = sessions[g]
         \/ sessions'[g].chain = sessions[g].chain + 1 /\ sessions'[g].sent = 0
  BY <1>1 DEF AfterDecrypt
<1>5. \A h \in DOMAIN sessions :
          /\ \A r \in Encrypted :
                r.handle = h => IsPast(r.number, sessions'[h], sessions'[h].sent)
          /\ sessions'[h].sent # None =>
                \A n \in 0 .. (sessions'[h].sent - 1) :
                   \E r \in Encrypted : /\ r.handle = h
                                        /\ r.number = [chain |-> sessions'[h].chain, n |-> n]
  <2>1. ASSUME NEW h \in DOMAIN sessions, sessions'[h] = sessions[h]
        PROVE  /\ \A r \in Encrypted :
                     r.handle = h => IsPast(r.number, sessions'[h], sessions'[h].sent)
               /\ sessions'[h].sent # None =>
                     \A n \in 0 .. (sessions'[h].sent - 1) :
                        \E r \in Encrypted :
                           r.handle = h /\ r.number = [chain |-> sessions'[h].chain, n |-> n]
    BY <1>3, <2>1 DEF SessionsInv
  <2>2. ASSUME sessions'[g].chain = sessions[g].chain + 1, sessions'[g].sent = 0
        PROVE  /\ \A r \in Encrypted : r.handle = g => IsPast(r.number, sessions'[g], 0)
               /\ 0 .. (sessions'[g].sent - 1) = {}
    <3>1. ASSUME NEW r \in Encrypted, r.handle = g PROVE IsPast(r.number, sessions'[g], 0)
      <4>1. /\ r.number.chain \in Nat /\ sessions[g].chain \in Nat
            /\ r.number.chain <= sessions[g].chain
        BY <1>1, <3>1 DEF SessionsInv, IsPast, SessionType
      <4> QED BY <2>2, <4>1 DEF IsPast
    <3> QED BY <2>2, <3>1
  <2> QED BY <1>4, <2>1, <2>2
<1> QED BY <1>2, <1>3, <1>4, <1>5 DEF SessionsInv

(***************************************************************************)
(* destroy_session removes the session, which is then recorded as removed. *)
(***************************************************************************)
LEMMA DestroySessions ==
    ASSUME BaseInv, HandlesInv, SessionsInv, NEW t \in Thread, Destroy(t)
    PROVE  SessionsInv'
<1>0. PICK g : g = call[t].handle
  OBVIOUS
<1>1. /\ pc[t] = "locked" /\ call[t].op = "destroy"
      /\ sessions' = [h \in DOMAIN sessions \ {g} |-> sessions[h]]
  BY <1>0 DEF Destroy, Holds, Without
<1>2. ~ Insert(t) /\ ~ Number(t)
  BY <1>1 DEF Insert, Number, Creates
<1>3. Given' = Given /\ Encrypted' = Encrypted
  BY <1>2, ResultsStep DEF Step
<1>4. \A d \in Removals' : d \in Removals \/ d.handle = g
  <2>1. PICK r : returned' = returned \cup {r} /\ r.handle = call[t].handle
    BY EndsRecord DEF Ends
  <2> QED BY <1>0, <2>1 DEF Removals, Did
<1>5. /\ DOMAIN sessions' = DOMAIN sessions \ {g}
      /\ \A h \in DOMAIN sessions' : sessions'[h] = sessions[h]
  BY <1>1
<1>6. \A h \in DOMAIN sessions' : Numbered(h)' = Numbered(h)
  BY <1>1, <1>5, AloneLocked, EndsNumbered DEF Ends
<1> QED BY <1>3, <1>4, <1>5, <1>6 DEF SessionsInv

(***************************************************************************)
(* The steps that leave the sessions alone, and what they have numbered.   *)
(***************************************************************************)
LEMMA OtherSessions ==
    ASSUME BaseInv, HandlesInv, SessionsInv, NEW t \in Thread,
           \/ Begin(t) \/ FetchAdd(t) \/ Lock(t) \/ LockPoisoned(t)
           \/ UnknownHandle(t) \/ CannotEncrypt(t) \/ CannotDecrypt(t) \/ DecryptShortKey(t)
    PROVE  SessionsInv'
<1>1. sessions' = sessions
  BY DEF Begin, FetchAdd, Lock, LockPoisoned, UnknownHandle, CannotEncrypt, CannotDecrypt,
         DecryptShortKey, store
<1>2. ~ Insert(t) /\ ~ Number(t) /\ ~ Destroy(t)
  BY DEF Begin, FetchAdd, Lock, LockPoisoned, UnknownHandle, CannotEncrypt, CannotDecrypt, Holds,
         DecryptShortKey, Decrypts, Insert, Number, Destroy, Creates
<1>3. Given' = Given /\ Encrypted' = Encrypted /\ Removals' = Removals
  BY <1>2, ResultsStep DEF Step
<1>4. \A h : Numbered(h)' = Numbered(h)
  <2>1. pc[t] # "advanced" /\ pc'[t] # "advanced"
    <3>1. pc \in [Thread -> {"idle", "fetch_add", "lock", "locked", "advanced"}]
      BY DEF BaseInv, TypeOK
    <3> QED BY <3>1 DEF Begin, FetchAdd, Lock, LockPoisoned, UnknownHandle, CannotEncrypt, CannotDecrypt,
                        Holds, DecryptShortKey, Decrypts, Return, Returns
  <2>2. \A u \in Thread \ {t} : pc'[u] = pc[u] /\ call'[u] = call[u]
    <3>1. /\ pc \in [Thread -> {"idle", "fetch_add", "lock", "locked", "advanced"}]
          /\ DOMAIN call = Thread
      BY DEF BaseInv, TypeOK, CallsInv
    <3> QED BY <3>1 DEF Begin, FetchAdd, Lock, LockPoisoned, UnknownHandle, CannotEncrypt, CannotDecrypt,
                        DecryptShortKey, Return, Returns
  <2> QED BY <1>1, <2>1, <2>2 DEF Numbered
<1> QED BY <1>1, <1>3, <1>4 DEF SessionsInv

(***************************************************************************)
(* Every step keeps the numbers of messages behind the indices of their    *)
(* sessions.                                                               *)
(***************************************************************************)
LEMMA SessionsInvStep ==
    ASSUME BaseInv, HandlesInv, SessionsInv, [Next]_vars
    PROVE  SessionsInv'
<1>1. ASSUME NEW t \in Thread, Begin(t) \/ Step(t) PROVE SessionsInv'
  BY <1>1, InsertSessions, AdvanceSessions, NumberSessions, DecryptSessions,
     DestroySessions, OtherSessions DEF Step
<1>2. CASE UNCHANGED vars
  <2>1. \A h : Numbered(h)' = Numbered(h)
    BY <1>2 DEF vars, Numbered
  <2> QED BY <1>2, <2>1 DEF vars, SessionsInv, Given, Encrypted, Removals, Did
<1> QED BY <1>1, <1>2 DEF Next

-----------------------------------------------------------------------------
(* The properties *)

(***************************************************************************)
(* A message that is returned now differs from those returned before, and  *)
(* no call that has returned began after it.                               *)
(***************************************************************************)
LEMMA NumbersStep ==
    ASSUME BaseInv, HandlesInv, SessionsInv, NumbersUnique, EncryptInOrder,
           [Next]_vars
    PROVE  NumbersUnique' /\ EncryptInOrder'
<1>1. ASSUME Encrypted' = Encrypted PROVE NumbersUnique' /\ EncryptInOrder'
  BY <1>1 DEF NumbersUnique, EncryptInOrder
<1>2. ASSUME NEW t \in Thread, Number(t) PROVE NumbersUnique' /\ EncryptInOrder'
  <2>1. PICK r : /\ returned' = returned \cup {r}
                 /\ r.handle = call[t].handle /\ r.id = call[t].id
                 /\ Encrypted' = Encrypted \cup {r}
                 /\ r.number \in [chain : Nat, n : Nat]
                 /\ \A q \in Encrypted : q.handle = r.handle =>
                       \/ q.number.chain < r.number.chain
                       \/ q.number.chain = r.number.chain /\ q.number.n < r.number.n
    BY <1>2, NumberSessions
  <2>2. \A q \in Encrypted : q \in returned /\ q.number \in [chain : Nat, n : Nat]
    BY DEF Encrypted, Did, SessionsInv
  <2>3. NumbersUnique'
    BY <2>1, <2>2 DEF NumbersUnique
  <2>4. \A q \in returned : r.id \notin q.before
    <3>1. t \in Calling
      BY <1>2 DEF Number, Calling
    <3> QED BY <2>1, <3>1 DEF BaseInv, CallsInv, IdsInv, WellFormed
  <2>5. r.id \notin r.before
    <3>1. \A q \in returned' : WellFormed(q, Begun', returned')
      BY <1>2, BaseInvStep DEF Next, Step, BaseInv, CallsInv
    <3> QED BY <2>1, <3>1 DEF WellFormed
  <2>6. EncryptInOrder'
    BY <2>1, <2>2, <2>4, <2>5 DEF EncryptInOrder
  <2> QED BY <2>3, <2>6
<1>3. ASSUME NEW t \in Thread, Begin(t) \/ Step(t), ~ Number(t)
      PROVE  NumbersUnique' /\ EncryptInOrder'
  BY <1>1, <1>3, ResultsStep
<1>4. CASE UNCHANGED vars
  BY <1>1, <1>4 DEF vars, Encrypted, Did
<1> QED BY <1>2, <1>3, <1>4 DEF Next

(***************************************************************************)
(* A call with the handle of a session that was removed fails, and a call  *)
(* that removes a session is the first with its handle to do so.           *)
(***************************************************************************)
LEMMA DestroyedStep ==
    ASSUME BaseInv, HandlesInv, SessionsInv, DestroyedForGood, [Next]_vars
    PROVE  DestroyedForGood'
<1>1. ASSUME returned' = returned PROVE DestroyedForGood'
  BY <1>1 DEF DestroyedForGood, Removals, Did
<1>2. ASSUME NEW t \in Thread, Ends(t) PROVE DestroyedForGood'
  <2>1. PICK r :
        /\ returned' = returned \cup {r}
        /\ r.op = call[t].op /\ r.handle = call[t].handle
        /\ r.id = call[t].id /\ r.before = call[t].before
        /\ Creates(r) /\ r.outcome = "Ok" <=> Insert(t)
        /\ r.op = "destroy" /\ r.outcome = "true" <=> Destroy(t) /\ Known(t)
        /\ r.outcome \in {"Ok", "true"} => Insert(t) \/ Known(t)
    BY <1>2, EndsRecord
  <2>2. t \in Calling
    BY <1>2, EndsReturn DEF Calling
  <2>3. r \in Removals' => r.handle \in DOMAIN sessions
    BY <2>1 DEF Removals, Did, Known
  <2>4. r.outcome \in {"Ok", "true"} => Insert(t) \/ r.handle \in DOMAIN sessions
    BY <2>1 DEF Known
  <2>5. \A d \in Removals : d.handle \notin DOMAIN sessions /\ d.handle \in Given
    <3> SUFFICES ASSUME NEW d \in Removals
                 PROVE  d.handle \notin DOMAIN sessions /\ d.handle \in Given
      OBVIOUS
    <3>1. d \in returned /\ d.op = "destroy"
      BY DEF Removals, Did
    <3>2. WellFormed(d, Begun, returned) /\ ~ Creates(d)
      BY <3>1 DEF BaseInv, CallsInv, Creates
    <3>3. d.handle \in Given
      BY <3>2 DEF WellFormed, Given
    <3> QED BY <3>3 DEF SessionsInv
  <2>6. Insert(t) => r.handle \notin Given
    BY <1>2, <2>1, ResultsStep DEF Step
  <2>7. \A q \in returned : r.id \notin q.before
    BY <2>1, <2>2 DEF BaseInv, CallsInv, IdsInv, WellFormed
  <2>8. r.id \notin r.before
    <3>1. WellFormed(call[t], Begun, returned)
      BY <2>2 DEF BaseInv, CallsInv
    <3> QED BY <2>1, <3>1 DEF WellFormed
  <2>9. Removals' \subseteq Removals \cup {r}
    BY <2>1 DEF Removals, Did
  <2>10. ASSUME NEW d \in Removals', NEW q \in returned', q.handle = d.handle
         PROVE  /\ d.id \in q.before => q.outcome \notin {"Ok", "true"}
                /\ q \in Removals' => q = d
    <3>1. CASE d \in Removals /\ q \in returned
      BY <2>3, <2>5, <2>9, <2>10, <3>1 DEF DestroyedForGood
    <3>2. CASE d \in Removals /\ q = r
      BY <2>3, <2>4, <2>5, <2>6, <2>10, <3>2
    <3>3. CASE d = r /\ q \in returned
      BY <2>3, <2>5, <2>7, <2>9, <2>10, <3>3
    <3>4. CASE d = r /\ q = r
      BY <2>8, <3>4
    <3> QED BY <2>1, <2>9, <3>1, <3>2, <3>3, <3>4
  <2> QED BY <2>10 DEF DestroyedForGood
<1>3. ASSUME NEW t \in Thread, Begin(t) \/ FetchAdd(t) \/ Lock(t) \/ Advance(t)
      PROVE  DestroyedForGood'
  BY <1>1, <1>3 DEF Begin, FetchAdd, Lock, Advance
<1>4. CASE UNCHANGED vars
  BY <1>1, <1>4 DEF vars
<1> QED BY <1>2, <1>3, <1>4, StepsAreEndsOrMoves DEF Next

-----------------------------------------------------------------------------
(***************************************************************************)
(* The inductive invariant, as long as there are no more calls than        *)
(* handles.  It needs the first part for what is known of the calls in     *)
(* flight, without which nothing keeps two creations from taking one       *)
(* handle, or a thread from numbering a message on a session that another  *)
(* has replaced.                                                           *)
(***************************************************************************)
LEMMA IInvInit == Init => IInv
<1> SUFFICES ASSUME Init PROVE IInv
  OBVIOUS
<1>1. BaseInv
  BY BaseInvInit
<1>2. returned = {} /\ Calling = {} /\ DOMAIN sessions = {} /\ next_id = 1
  BY DEF Init, Calling
<1>3. HandlesInv
  <2>1. Takings = {} /\ {x[1] : x \in Takings} = {}
    BY <1>2 DEF Takings, Creations, Takers
  <2>2. Taken = 0
    BY <2>1, FS_EmptySet DEF Taken
  <2> QED BY <1>2, <2>1, <2>2, StoreAssumption DEF HandlesInv, KthHandle
<1>4. Encrypted = {} /\ Removals = {}
  BY <1>2 DEF Encrypted, Removals, Did
<1>5. SessionsInv /\ NumbersUnique /\ EncryptInOrder /\ DestroyedForGood
  BY <1>2, <1>4 DEF SessionsInv, NumbersUnique, EncryptInOrder, DestroyedForGood
<1> QED BY <1>1, <1>3, <1>5 DEF IInv

(***************************************************************************)
(* As long as the counter does not come round, the invariant is inductive. *)
(***************************************************************************)
LEMMA IInvStep ==
    ASSUME MaxCalls <= Handles
    PROVE  IInv /\ [Next]_vars => IInv'
BY BaseInvStep, HandlesInvStep, SessionsInvStep, NumbersStep, DestroyedStep DEF IInv

(***************************************************************************)
(* As long as it does not, the invariant holds in every reachable state.   *)
(***************************************************************************)
LEMMA IInvAlways ==
    ASSUME MaxCalls <= Handles
    PROVE  Spec => []IInv
<1>1. IInv /\ [Next]_vars => IInv'
  BY IInvStep
<1> QED BY <1>1, IInvInit, PTL DEF Spec

(***************************************************************************)
(* No message number is given out twice, and none is left out: encrypt     *)
(* takes the session for writing from the moment it reads the index.       *)
(***************************************************************************)
THEOREM NumbersCorrect ==
    ASSUME MaxCalls <= Handles
    PROVE  Spec => []MessageNumbers
<1>1. IInv => MessageNumbers
  <2> SUFFICES ASSUME IInv, Calling = {}, NEW h \in DOMAIN sessions,
                      sessions[h].sent # None
               PROVE  {r.number.n : r \in {x \in Encrypted :
                                /\ x.handle = h
                                /\ x.number.chain = sessions[h].chain}}
                          = 0 .. (sessions[h].sent - 1)
    BY DEF IInv, NumbersUnique, MessageNumbers
  <2>1. BaseInv /\ SessionsInv
    BY DEF IInv
  <2>2. Numbered(h) = sessions[h].sent
    <3>1. \A t \in Thread : pc[t] # "advanced"
      BY DEF Calling
    <3> QED BY <2>1, <3>1, NumberedIs
  <2>3. sessions[h].sent \in Nat /\ sessions[h].chain \in Nat
    BY <2>1 DEF BaseInv, TypeOK
  <2>4. ASSUME NEW r \in Encrypted, r.handle = h, r.number.chain = sessions[h].chain
        PROVE  r.number.n \in 0 .. (sessions[h].sent - 1)
    BY <2>1, <2>2, <2>3, <2>4 DEF SessionsInv, IsPast
  <2>5. ASSUME NEW n \in 0 .. (sessions[h].sent - 1)
        PROVE  \E r \in Encrypted : /\ r.handle = h
                                    /\ r.number.chain = sessions[h].chain
                                    /\ r.number.n = n
    <3>1. PICK r \in Encrypted : /\ r.handle = h
                                 /\ r.number = [chain |-> sessions[h].chain, n |-> n]
      BY <2>1, <2>2 DEF SessionsInv
    <3> QED BY <3>1
  <2> QED BY <2>4, <2>5
<1> QED BY <1>1, IInvAlways, PTL

(***************************************************************************)
(* Of two calls of encrypt on a session, the one that began when the other *)
(* had returned has the later message.                                     *)
(***************************************************************************)
THEOREM OrderCorrect ==
    ASSUME MaxCalls <= Handles
    PROVE  Spec => []EncryptInOrder
<1>1. IInv => EncryptInOrder
  BY DEF IInv
<1> QED BY <1>1, IInvAlways, PTL

(***************************************************************************)
(* A handle that destroy_session has answered true for is dead.            *)
(***************************************************************************)
THEOREM DestroyedCorrect ==
    ASSUME MaxCalls <= Handles
    PROVE  Spec => []DestroyedForGood
<1>1. IInv => DestroyedForGood
  BY DEF IInv
<1> QED BY <1>1, IInvAlways, PTL

-----------------------------------------------------------------------------
(* The abstract store *)

Things == [h \in {"app"} \X DOMAIN sessions |-> sessions[h[2]]]

(***************************************************************************)
(* Every step of a thread is one step of the abstract store, or none: the  *)
(* store's creation is the insert under the lock, long after fetch_add     *)
(* chose the handle.                                                       *)
(***************************************************************************)
LEMMA StepImplements ==
    ASSUME IInv, [Next]_vars
    PROVE  Store!Next \/ UNCHANGED Store!vars
<1>0. BaseInv /\ HandlesInv /\ SessionsInv
  BY DEF IInv
<1>1. ASSUME sessions' = sessions, Given' = Given PROVE UNCHANGED Store!vars
  BY <1>1 DEF Store!vars
<1>2. ASSUME NEW t \in Thread, Insert(t) PROVE Store!Next
  <2>0. PICK g : g = call[t].handle
    OBVIOUS
  <2>1. Given' = Given \cup {g} /\ g \notin Given
    BY <1>0, <1>2, <2>0, ResultsStep DEF Step
  <2>2. g \in HandleSet
    BY <1>0, <1>2, <2>0 DEF Insert, BaseInv, CallsInv, Calling
  <2>3. /\ DOMAIN sessions' = DOMAIN sessions \cup {g}
        /\ \A h \in DOMAIN sessions : h # g => sessions'[h] = sessions[h]
    BY <1>2, <2>0 DEF Insert
  <2>4. g \notin DOMAIN sessions
    BY <1>0, <2>1 DEF SessionsInv
  <2>5. <<"app", g>> \in Store!Handle \ ({"app"} \X Given)
    BY <2>1, <2>2 DEF Store!Handle
  <2>6. Store!Create(<<"app", g>>)
    <3>1. {"app"} \X Given' = ({"app"} \X Given) \cup {<<"app", g>>}
      BY <2>1
    <3>2. DOMAIN Things' = DOMAIN Things \cup {<<"app", g>>}
      BY <2>3 DEF Things
    <3>3. \A k \in DOMAIN Things : Things'[k] = Things[k]
      BY <2>3, <2>4 DEF Things
    <3> QED BY <3>1, <3>2, <3>3 DEF Store!Create, Things
  <2> QED BY <2>5, <2>6 DEF Store!Next
<1>3. ASSUME NEW t \in Thread, Advance(t) \/ Decrypt(t) \/ DecryptShortNonce(t)
      PROVE  Store!Next
  <2>0. PICK g : g = call[t].handle
    OBVIOUS
  <2>1. Given' = Given
    <3>1. ~ Insert(t)
      BY <1>3 DEF Advance, Decrypt, DecryptShortNonce, Decrypts, Holds, Insert, Creates
    <3> QED BY <1>0, <1>3, <3>1, ResultsStep DEF Step
  <2>2. g \in DOMAIN sessions /\ g \in Given
    BY <1>0, <1>3, <2>0 DEF Advance, Decrypt, DecryptShortNonce, Decrypts, Known,
                            SessionsInv
  <2>3. /\ DOMAIN sessions' = DOMAIN sessions
        /\ \A h \in DOMAIN sessions : h # g => sessions'[h] = sessions[h]
    BY <1>3, <2>0 DEF Advance, Decrypt, DecryptShortNonce
  <2>4. Store!Update(<<"app", g>>)
    <3>1. DOMAIN Things' = DOMAIN Things /\ <<"app", g>> \in DOMAIN Things
      BY <2>2, <2>3 DEF Things
    <3>2. Things' = [Things EXCEPT ![<<"app", g>>] = Things'[<<"app", g>>]]
      <4>1. \A k \in DOMAIN Things \ {<<"app", g>>} : Things'[k] = Things[k]
        BY <2>3 DEF Things
      <4> QED BY <2>3, <3>1, <4>1 DEF Things
    <3> QED BY <2>1, <3>1, <3>2 DEF Store!Update, Things
  <2> QED BY <2>2, <2>4 DEF Store!Next
<1>4. ASSUME NEW t \in Thread, Destroy(t), Known(t) PROVE Store!Next
  <2>0. PICK g : g = call[t].handle
    OBVIOUS
  <2>1. Given' = Given
    <3>1. ~ Insert(t)
      BY <1>4 DEF Destroy, Holds, Insert, Creates
    <3> QED BY <1>0, <1>4, <3>1, ResultsStep DEF Step
  <2>2. g \in DOMAIN sessions /\ g \in Given
    BY <1>0, <1>4, <2>0 DEF Known, SessionsInv
  <2>3. sessions' = [h \in DOMAIN sessions \ {g} |-> sessions[h]]
    BY <1>4, <2>0 DEF Destroy, Without
  <2>4. Store!Destroy(<<"app", g>>)
    <3>1. Things' = [k \in DOMAIN Things \ {<<"app", g>>} |-> Things[k]]
      BY <2>3 DEF Things
    <3>2. <<"app", g>> \in DOMAIN Things
      BY <2>2 DEF Things
    <3> QED BY <2>1, <3>1, <3>2 DEF Store!Destroy, Things
  <2> QED BY <2>2, <2>4 DEF Store!Next
<1>5. ASSUME NEW t \in Thread,
             \/ Begin(t) \/ FetchAdd(t) \/ Lock(t) \/ LockPoisoned(t) \/ UnknownHandle(t)
             \/ CannotEncrypt(t) \/ CannotDecrypt(t) \/ Number(t) \/ DecryptShortKey(t)
             \/ Destroy(t) /\ ~ Known(t)
      PROVE  UNCHANGED Store!vars
  <2>1. ~ Insert(t)
    BY <1>5 DEF Begin, FetchAdd, Lock, LockPoisoned, UnknownHandle, CannotEncrypt, CannotDecrypt, Number,
                DecryptShortKey, Destroy, Decrypts, Holds, Insert, Creates, BaseInv, LockInv,
                IInv
  <2>2. Given' = Given
    BY <1>0, <1>5, <2>1, ResultsStep DEF Step
  <2>3. CASE \/ Begin(t) \/ FetchAdd(t) \/ Lock(t) \/ LockPoisoned(t) \/ UnknownHandle(t)
             \/ CannotEncrypt(t) \/ CannotDecrypt(t) \/ Number(t) \/ DecryptShortKey(t)
    <3>1. sessions' = sessions
      BY <2>3 DEF Begin, FetchAdd, Lock, LockPoisoned, UnknownHandle, CannotEncrypt, CannotDecrypt,
                        Number, DecryptShortKey, store
    <3> QED BY <1>1, <2>2, <3>1
  <2>4. CASE Destroy(t) /\ ~ Known(t)
    <3>1. /\ DOMAIN sessions' = DOMAIN sessions
          /\ \A h \in DOMAIN sessions : sessions'[h] = sessions[h]
      BY <2>4 DEF Destroy, Without, Known
    <3> QED BY <2>2, <3>1 DEF Store!vars
  <2> QED BY <1>5, <2>3, <2>4
<1>6. CASE UNCHANGED vars
  <2>1. sessions' = sessions /\ Given' = Given
    BY <1>6 DEF vars, Given
  <2> QED BY <1>1, <2>1
<1> QED BY <1>2, <1>3, <1>4, <1>5, <1>6 DEF Next, Step

(***************************************************************************)
(* The store of sessions implements HandleStore.                           *)
(***************************************************************************)
THEOREM StoreImplements ==
    ASSUME MaxCalls <= Handles
    PROVE  Spec => ImplementsStore
<1>1. Init => Store!Init
  <2> SUFFICES ASSUME Init PROVE Store!Init
    OBVIOUS
  <2>1. DOMAIN sessions = {} /\ Given = {}
    BY DEF Init, Given
  <2> QED BY <2>1 DEF Store!Init
<1>2. IInv /\ [Next]_vars => [Store!Next]_(Store!vars)
  BY StepImplements
<1> QED BY <1>1, <1>2, IInvAlways, PTL DEF Spec, ImplementsStore, Store!Spec
=============================================================================
