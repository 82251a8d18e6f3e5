--------------------------- MODULE MlsGroupProofs ---------------------------
(***************************************************************************)
(* Proofs about MLS groups, for any set of clients and any number of       *)
(* commits, messages, handles and restarts, whether or not the clients     *)
(* keep to their latest handles.                                           *)
(*                                                                         *)
(* The first part is about the group's history: what a state's history     *)
(* says of its roster.  The second is about a client that used no handle   *)
(* and no welcome a second time.                                           *)
(***************************************************************************)
EXTENDS MlsGroup, FiniteSetTheorems, TLAPS

-----------------------------------------------------------------------------
(* Histories *)

\* The members at the end of a history
RosterOf(history) ==
    IF history = <<>> THEN {Creator} ELSE commits[history[Len(history)]].roster

GroupState == [me : Client, history : Seq(DOMAIN commits), roster : SUBSET Client,
               sent : Nat, used : SUBSET (Client \X Nat)]

CommitRecord == [author : Client, before : Seq(Nat \ {0}), added : SUBSET Client,
                 removed : SUBSET Client, roster : SUBSET Client]

MessageRecord == [from : Client, history : Seq(Nat \ {0}), generation : Nat,
                  roster : SUBSET Client]

(***************************************************************************)
(* Every client's states are its own, and their roster is the one their    *)
(* history ends with.                                                      *)
(***************************************************************************)
StatesInv ==
    /\ DOMAIN states = Client
    /\ next_id \in [Client -> Nat \ {0}]
    /\ \A c \in Client :
          /\ DOMAIN states[c] \subseteq 1 .. Latest(c)
          /\ \A h \in DOMAIN states[c] :
                /\ states[c][h] \in GroupState
                /\ states[c][h].me = c
                /\ states[c][h].roster = RosterOf(states[c][h].history)

(***************************************************************************)
(* A commit follows earlier ones, and says what it does to the roster they *)
(* ended with; it adds nobody who was in it.                               *)
(***************************************************************************)
CommitsInv ==
    /\ commits \in Seq(CommitRecord)
    /\ \A k \in DOMAIN commits :
          /\ commits[k].before \in Seq(1 .. (k - 1))
          /\ commits[k].added \cap RosterOf(commits[k].before) = {}
          /\ commits[k].roster =
                (RosterOf(commits[k].before) \cup commits[k].added) \ commits[k].removed

(***************************************************************************)
(* A message carries the roster of the epoch it was sent in, and was       *)
(* opened in that epoch by members other than its sender.                  *)
(***************************************************************************)
MessagesInv ==
    /\ messages \in Seq(MessageRecord)
    /\ \A i \in DOMAIN messages :
          /\ messages[i].history \in Seq(DOMAIN commits)
          /\ messages[i].roster = RosterOf(messages[i].history)
    /\ \A o \in opened : o.by \in Client /\ o.message \in DOMAIN messages
    /\ ReadByMembers

GroupInv == StatesInv /\ CommitsInv /\ MessagesInv

-----------------------------------------------------------------------------
(* A client that used nothing twice *)

(***************************************************************************)
(* Where client c's own part of a history starts: at the last commit that  *)
(* added c, or at 0, the creation of the group.                            *)
(***************************************************************************)
IsBase(c, history, b) ==
    \/ b = 0 /\ \A i \in DOMAIN history : c \notin commits[history[i]].added
    \/ \E i \in DOMAIN history :
          /\ history[i] = b /\ c \in commits[b].added
          /\ \A j \in DOMAIN history : j > i => c \notin commits[history[j]].added

\* The epochs in which c sent or opened messages
EpochsUsed(c) ==
    {messages[i].history : i \in {j \in DOMAIN messages : messages[j].from = c}}
    \cup {messages[o.message].history : o \in {p \in opened : p.by = c}}

HasLatest(c) == Latest(c) \in DOMAIN states[c]

LatestState(c) == states[c][Latest(c)]

(***************************************************************************)
(* For a client that used nothing twice: every epoch it was in starts from *)
(* a welcome it has processed, or from the creation; its latest state is   *)
(* at least as far as every epoch it used that started where it did, and   *)
(* remembers what the client did in its own epoch.                         *)
(***************************************************************************)
CleanInv(c) ==
    /\ \A e \in EpochsUsed(c) : \E b \in joined[c] \cup {0} : IsBase(c, e, b)
    /\ HasLatest(c) =>
          LET s == LatestState(c)
          IN  \E b \in joined[c] \cup {0} :
                 /\ IsBase(c, s.history, b)
                 /\ \A e \in EpochsUsed(c) : IsBase(c, e, b) => Len(e) <= Len(s.history)
                 /\ \A i \in DOMAIN messages :
                       messages[i].from = c /\ messages[i].history = s.history
                       => messages[i].generation < s.sent
                 /\ \A o \in opened :
                       o.by = c /\ messages[o.message].history = s.history
                       => <<messages[o.message].from, messages[o.message].generation>>
                              \in s.used

UseInv ==
    /\ joined \in [Client -> SUBSET (Nat \ {0})]
    /\ \A c \in Client : /\ joined[c] \subseteq DOMAIN commits
                         /\ c \notin reused => CleanInv(c)
                         /\ next_id[c] = 1 /\ earlier = <<>> => EpochsUsed(c) = {}

IInv == GroupInv /\ UseInv /\ GenerationsUnique /\ NoReplay

-----------------------------------------------------------------------------
(* Steps on the histories *)

\* Commits are numbered in the order they are made, and stay what they are.
CommitsGrow == /\ DOMAIN commits \subseteq DOMAIN commits'
               /\ \A k \in DOMAIN commits : commits'[k] = commits[k]

(***************************************************************************)
(* A sequence over a set is one over every larger set.                     *)
(***************************************************************************)
LEMMA LargerSeq ==
    ASSUME NEW S, NEW T, S \subseteq T, NEW q \in Seq(S)
    PROVE  q \in Seq(T)
<1>1. Len(q) \in Nat /\ DOMAIN q = 1 .. Len(q) /\ \A j \in 1 .. Len(q) : q[j] \in S
  OBVIOUS
<1>2. q \in [1 .. Len(q) -> T]
  BY <1>1
<1> QED BY <1>1, <1>2

(***************************************************************************)
(* New commits change nothing of what is said about a history.             *)
(***************************************************************************)
LEMMA HistoryKept ==
    ASSUME CommitsGrow, NEW history \in Seq(DOMAIN commits)
    PROVE  /\ history \in Seq(DOMAIN commits')
           /\ RosterOf(history)' = RosterOf(history)
           /\ \A c, b : IsBase(c, history, b)' <=> IsBase(c, history, b)
<1>1. /\ Len(history) \in Nat /\ DOMAIN history = 1 .. Len(history)
      /\ \A i \in DOMAIN history : history[i] \in DOMAIN commits
      /\ history # <<>> => Len(history) \in DOMAIN history
  OBVIOUS
<1>2. history \in Seq(DOMAIN commits')
  BY DEF CommitsGrow
<1>3. RosterOf(history)' = RosterOf(history)
  BY <1>1 DEF RosterOf, CommitsGrow
<1>4. ASSUME NEW c, NEW b PROVE IsBase(c, history, b)' <=> IsBase(c, history, b)
  BY <1>1 DEF IsBase, CommitsGrow
<1> QED BY <1>2, <1>3, <1>4

(***************************************************************************)
(* The state a call files: the caller's own, with the roster that its      *)
(* history ends with.                                                      *)
(***************************************************************************)
Fits(c, s) == /\ s \in GroupState
              /\ s.me = c
              /\ s.roster = RosterOf(s.history)

(***************************************************************************)
(* A state that fits its client and its history is filed under the         *)
(* client's next handle, and the other clients' states stay.               *)
(***************************************************************************)
LEMMA FileStates ==
    ASSUME StatesInv, CommitsGrow, NEW c \in Client, NEW s, File(c, s), Fits(c, s)'
    PROVE  /\ StatesInv'
           /\ next_id' = [next_id EXCEPT ![c] = @ + 1]
           /\ Latest(c)' = next_id[c] /\ HasLatest(c)' /\ LatestState(c)' = s
           /\ \A d \in Client \ {c} : states'[d] = states[d] /\ next_id'[d] = next_id[d]
<1> DEFINE n == next_id[c]
<1>1. /\ states' = [states EXCEPT ![c] =
            [h \in DOMAIN states[c] \cup {n} |-> IF h = n THEN s ELSE states[c][h]]]
      /\ next_id' = [next_id EXCEPT ![c] = n + 1]
      /\ n \in Nat \ {0}
  BY DEF File, StatesInv
<1>2. /\ DOMAIN states' = Client /\ next_id' \in [Client -> Nat \ {0}]
      /\ \A d \in Client \ {c} : states'[d] = states[d] /\ next_id'[d] = next_id[d]
      /\ next_id'[c] = n + 1
      /\ DOMAIN states'[c] = DOMAIN states[c] \cup {n}
      /\ states'[c][n] = s
      /\ \A h \in DOMAIN states[c] : h # n => states'[c][h] = states[c][h]
  BY <1>1 DEF StatesInv
<1>3. \A d \in Client : \A h \in DOMAIN states[d] : Fits(d, states[d][h])
  BY DEF StatesInv, Fits
<1>4. ASSUME NEW d \in Client, NEW t, Fits(d, t) PROVE Fits(d, t)'
  <2>1. t.history \in Seq(DOMAIN commits)
    BY <1>4 DEF Fits, GroupState
  <2>2. t.history \in Seq(DOMAIN commits') /\ RosterOf(t.history)' = RosterOf(t.history)
    BY <2>1, HistoryKept
  <2> QED BY <1>4, <2>2 DEF Fits, GroupState
<1>5. \A d \in Client : \A h \in DOMAIN states'[d] :
         \/ states'[d][h] = s /\ d = c
         \/ h \in DOMAIN states[d] /\ states'[d][h] = states[d][h]
  BY <1>2
<1>6. ASSUME NEW d \in Client, NEW h \in DOMAIN states'[d]
      PROVE  /\ states'[d][h] \in GroupState'
             /\ states'[d][h].me = d
             /\ states'[d][h].roster = RosterOf(states[d][h].history)'
  <2>1. PICK t : t = states'[d][h]
    OBVIOUS
  <2>2. Fits(d, t)'
    BY <1>3, <1>4, <1>5, <2>1
  <2> QED BY <2>1, <2>2 DEF Fits, RosterOf
<1>7. /\ Latest(c)' = n
      /\ \A d \in Client : DOMAIN states'[d] \subseteq 1 .. Latest(d)'
  BY <1>1, <1>2 DEF StatesInv, Latest
<1>8. StatesInv'
  BY <1>2, <1>6, <1>7 DEF StatesInv
<1> QED BY <1>1, <1>2, <1>7, <1>8 DEF HasLatest, LatestState

(***************************************************************************)
(* After the commits of a history, and one more.                           *)
(***************************************************************************)
LEMMA AppendCommit ==
    ASSUME NEW history \in Seq(DOMAIN commits), NEW k \in DOMAIN commits
    PROVE  /\ Append(history, k) \in Seq(DOMAIN commits)
           /\ RosterOf(Append(history, k)) = commits[k].roster
           /\ Len(Append(history, k)) = Len(history) + 1
           /\ Len(history) \in Nat
           /\ \A c, b : c \notin commits[k].added =>
                 (IsBase(c, Append(history, k), b) <=> IsBase(c, history, b))
           /\ \A c : c \in commits[k].added => IsBase(c, Append(history, k), k)
<1> DEFINE new == Append(history, k)
<1>1. /\ new \in Seq(DOMAIN commits) /\ new # <<>>
      /\ Len(new) = Len(history) + 1 /\ Len(history) \in Nat
      /\ DOMAIN new = 1 .. (Len(history) + 1) /\ DOMAIN history = 1 .. Len(history)
      /\ new[Len(new)] = k
      /\ \A i \in DOMAIN history : new[i] = history[i]
  OBVIOUS
<1> HIDE DEF new
<1>2. RosterOf(new) = commits[k].roster
  BY <1>1 DEF RosterOf
<1>3. ASSUME NEW c, NEW b, c \notin commits[k].added
      PROVE  IsBase(c, new, b) <=> IsBase(c, history, b)
  BY <1>1, <1>3 DEF IsBase
<1>4. ASSUME NEW c, c \in commits[k].added PROVE IsBase(c, new, k)
  BY <1>1, <1>4 DEF IsBase
<1> QED BY <1>1, <1>2, <1>3, <1>4 DEF new

(***************************************************************************)
(* The caller merges a commit that does not add it: its own, or one it     *)
(* processes.                                                              *)
(***************************************************************************)
Merges(c, h, s) == \E k \in DOMAIN commits : /\ s.history = Append(states[c][h].history, k)
                                             /\ c \notin commits[k].added

(***************************************************************************)
(* add_member and remove_member make a commit whose roster is right, and   *)
(* file the state after it.                                                *)
(***************************************************************************)
LEMMA OwnCommit ==
    ASSUME GroupInv, NEW c \in Client, NEW h \in DOMAIN states[c],
           NEW added \in SUBSET Client, NEW removed \in SUBSET Client,
           added \cap states[c][h].roster = {},
           Commit(c, h, added, removed)
    PROVE  /\ CommitsGrow /\ CommitsInv'
           /\ \E s : /\ File(c, s) /\ Fits(c, s)'
                     /\ \E k \in DOMAIN commits' :
                           /\ s.history = Append(states[c][h].history, k)
                           /\ c \notin commits'[k].added
                           /\ k = Len(commits')
           /\ UNCHANGED <<earlier, joined, messages, opened>> /\ Reuses(c, h)
<1>1. PICK old : old = states[c][h]
  OBVIOUS
<1>2. /\ old \in GroupState /\ old.me = c /\ old.roster = RosterOf(old.history)
      /\ old.history \in Seq(DOMAIN commits) /\ old.roster \subseteq Client
      /\ commits \in Seq(CommitRecord)
  BY <1>1 DEF GroupInv, StatesInv, CommitsInv, GroupState
<1>3. PICK k : k = Len(commits) + 1
  OBVIOUS
<1>4. PICK commit : commit = [author |-> c, before |-> old.history,
                              added |-> added, removed |-> removed,
                              roster |-> (old.roster \cup added) \ removed]
  OBVIOUS
<1>5. /\ IsActive(old) /\ commits' = Append(commits, commit)
      /\ File(c, AfterOwnCommit(old, k, commit))
      /\ Reuses(c, h) /\ UNCHANGED <<earlier, joined, messages, opened>>
  BY <1>1, <1>3, <1>4 DEF Commit
<1>6. /\ DOMAIN commits = 1 .. Len(commits) /\ Len(commits) \in Nat
      /\ DOMAIN commits' = 1 .. k /\ k \in DOMAIN commits' /\ Len(commits') = k
      /\ commits'[k] = commit
      /\ \A i \in DOMAIN commits : commits'[i] = commits[i]
  BY <1>2, <1>3, <1>5
<1>7. CommitsGrow
  BY <1>3, <1>6 DEF CommitsGrow
<1>8. old.history \in Seq(Nat \ {0})
  BY <1>2, <1>6
<1>9. /\ commit \in CommitRecord
      /\ commit.before = old.history /\ commit.added = added /\ commit.removed = removed
      /\ commit.roster = (old.roster \cup added) \ removed
  BY <1>2, <1>4, <1>8 DEF CommitRecord
<1>10. RosterOf(old.history)' = old.roster /\ old.history \in Seq(DOMAIN commits')
  BY <1>2, <1>7, HistoryKept
<1>11. CommitsInv'
  <2>1. commits' \in Seq(CommitRecord)
    BY <1>2, <1>5, <1>9
  <2>2. ASSUME NEW i \in DOMAIN commits
        PROVE  /\ commits'[i].before \in Seq(1 .. (i - 1))
               /\ commits'[i].added \cap RosterOf(commits[i].before)' = {}
               /\ commits'[i].roster = (RosterOf(commits[i].before)' \cup commits'[i].added)
                                          \ commits'[i].removed
    <3>1. PICK b : b = commits[i].before
      OBVIOUS
    <3>2. b \in Seq(1 .. (i - 1)) /\ b \in Seq(DOMAIN commits)
      <4>1. b \in Seq(1 .. (i - 1))
        BY <3>1 DEF GroupInv, CommitsInv
      <4>2. 1 .. (i - 1) \subseteq DOMAIN commits
        BY <1>6
      <4> QED BY <4>1, <4>2, LargerSeq
    <3>3. RosterOf(b)' = RosterOf(b)
      BY <1>7, <3>2, HistoryKept
    <3>4. RosterOf(commits[i].before)' = RosterOf(commits[i].before)
      BY <1>6, <3>1, <3>3 DEF RosterOf
    <3> QED BY <1>6, <3>1, <3>2, <3>4 DEF GroupInv, CommitsInv
  <2>3. /\ commits'[k].before \in Seq(1 .. (k - 1))
        /\ commits'[k].added \cap RosterOf(commits[k].before)' = {}
        /\ commits'[k].roster = (RosterOf(commits[k].before)' \cup commits'[k].added)
                                   \ commits'[k].removed
    <3>1. RosterOf(commits[k].before)' = old.roster
      BY <1>6, <1>9, <1>10 DEF RosterOf
    <3>2. 1 .. (k - 1) = DOMAIN commits
      BY <1>3, <1>6
    <3> QED BY <1>1, <1>2, <1>6, <1>9, <3>1, <3>2
  <2> QED BY <1>3, <1>6, <2>1, <2>2, <2>3 DEF CommitsInv
<1>12. PICK s : s = AfterOwnCommit(old, k, commit)
  OBVIOUS
<1>13. /\ s.me = c /\ s.history = Append(old.history, k)
       /\ s.roster = commit.roster
       /\ Append(old.history, k) \in Seq(DOMAIN commits') => s \in GroupState'
  BY <1>2, <1>9, <1>12 DEF AfterOwnCommit, NewEpoch, RosterAfter, GroupState
<1>14. /\ Append(old.history, k) \in Seq(DOMAIN commits')
       /\ RosterOf(Append(old.history, k))' = commit.roster
  <2>1. PICK new : new = Append(old.history, k)
    OBVIOUS
  <2>2. /\ new \in Seq(DOMAIN commits') /\ new # <<>> /\ new[Len(new)] = k
    BY <1>6, <1>10, <2>1
  <2>3. RosterOf(new)' = commit.roster
    BY <1>6, <2>2 DEF RosterOf
  <2>4. RosterOf(Append(old.history, k))' = RosterOf(new)'
    BY <2>1 DEF RosterOf
  <2> QED BY <2>1, <2>2, <2>3, <2>4
<1>15. Fits(c, s)'
  <2>1. RosterOf(s.history)' = commit.roster
    BY <1>13, <1>14 DEF RosterOf
  <2> QED BY <1>13, <1>14, <2>1 DEF Fits
<1>16. c \notin added
  BY <1>1, <1>2, <1>5 DEF IsActive
<1> QED BY <1>1, <1>5, <1>6, <1>7, <1>9, <1>11, <1>12, <1>13, <1>15, <1>16

(***************************************************************************)
(* process_commit files the state after a commit that was made in the      *)
(* epoch of the state it starts from.                                      *)
(***************************************************************************)
LEMMA ProcessedCommit ==
    ASSUME GroupInv, NEW c \in Client, NEW h \in DOMAIN states[c],
           NEW k \in DOMAIN commits, ProcessCommit(c, h, k)
    PROVE  \E s : /\ File(c, s) /\ Fits(c, s)
                  /\ s.history = Append(states[c][h].history, k)
                  /\ c \notin commits[k].added
                  /\ commits[k].before = states[c][h].history
<1>1. PICK old : old = states[c][h]
  OBVIOUS
<1>2. /\ old \in GroupState /\ old.me = c /\ old.roster = RosterOf(old.history)
      /\ old.history \in Seq(DOMAIN commits) /\ old.roster \subseteq Client
      /\ commits[k] \in CommitRecord
      /\ commits[k].added \cap RosterOf(commits[k].before) = {}
      /\ commits[k].roster =
                (RosterOf(commits[k].before) \cup commits[k].added) \ commits[k].removed
  BY <1>1 DEF GroupInv, StatesInv, CommitsInv, GroupState
<1>3. /\ Takes(old, commits[k]) /\ File(c, AfterCommit(old, k))
  BY <1>1 DEF ProcessCommit
<1>4. PICK s : s = AfterCommit(old, k)
  OBVIOUS
<1>5. /\ Append(old.history, k) \in Seq(DOMAIN commits)
      /\ RosterOf(Append(old.history, k)) = commits[k].roster
  BY <1>2, AppendCommit
<1>6. commits[k].before = old.history /\ c \in old.roster
  BY <1>2, <1>3 DEF Takes, IsActive
<1>7. RosterAfter(old.roster, commits[k]) = commits[k].roster
  BY <1>2, <1>6 DEF RosterAfter
<1>8. /\ s.me = c /\ s.history = Append(old.history, k) /\ s.roster = commits[k].roster
      /\ s \in GroupState
  BY <1>2, <1>4, <1>5, <1>7 DEF AfterCommit, NewEpoch, GroupState, CommitRecord
<1>9. Fits(c, s)
  BY <1>5, <1>8 DEF Fits
<1> QED BY <1>1, <1>2, <1>3, <1>4, <1>6, <1>8, <1>9

(***************************************************************************)
(* The states of a new group, from a welcome, and after a message.         *)
(***************************************************************************)
LEMMA OtherFiles ==
    ASSUME GroupInv, NEW c \in Client
    PROVE  /\ CreateGroup(c) =>
                 \E s : File(c, s) /\ Fits(c, s) /\ s.history = <<>>
           /\ \A k \in DOMAIN commits : ProcessWelcome(c, k) =>
                 \E s : /\ File(c, s) /\ Fits(c, s)
                        /\ s.history = Append(commits[k].before, k)
           /\ \A h \in DOMAIN states[c] : EncryptMessage(c, h) =>
                 \E s : /\ File(c, s) /\ Fits(c, s)
                        /\ s.history = states[c][h].history
                        /\ s.sent = states[c][h].sent + 1
                        /\ s.used = states[c][h].used
           /\ \A h \in DOMAIN states[c], m \in DOMAIN messages :
                 DecryptMessage(c, h, m) =>
                    \E s : /\ File(c, s) /\ Fits(c, s)
                           /\ s.history = states[c][h].history
                           /\ s.sent = states[c][h].sent
                           /\ s.used = states[c][h].used
                                 \cup {<<messages[m].from, messages[m].generation>>}
<1>1. ASSUME CreateGroup(c)
      PROVE  \E s : File(c, s) /\ Fits(c, s) /\ s.history = <<>>
  <2>1. File(c, CreatedState(c)) /\ c = Creator
    BY <1>1 DEF CreateGroup
  <2>2. Fits(c, CreatedState(c)) /\ CreatedState(c).history = <<>>
    BY <2>1 DEF Fits, CreatedState, GroupState, RosterOf
  <2> QED BY <2>1, <2>2
<1>2. ASSUME NEW k \in DOMAIN commits, ProcessWelcome(c, k)
      PROVE  \E s : File(c, s) /\ Fits(c, s) /\ s.history = Append(commits[k].before, k)
  <2> DEFINE s == [me |-> c, history |-> Append(commits[k].before, k),
                   roster |-> commits[k].roster, sent |-> 0, used |-> {}]
  <2>1. File(c, s)
    BY <1>2 DEF ProcessWelcome
  <2>2. commits[k].before \in Seq(DOMAIN commits) /\ commits[k] \in CommitRecord
    <3>1. /\ commits[k] \in CommitRecord /\ commits[k].before \in Seq(1 .. (k - 1))
          /\ DOMAIN commits = 1 .. Len(commits) /\ Len(commits) \in Nat
      BY DEF GroupInv, CommitsInv
    <3>2. 1 .. (k - 1) \subseteq DOMAIN commits
      BY <3>1
    <3> QED BY <3>1, <3>2
  <2>3. /\ Append(commits[k].before, k) \in Seq(DOMAIN commits)
        /\ RosterOf(Append(commits[k].before, k)) = commits[k].roster
    BY <2>2, AppendCommit
  <2>4. Fits(c, s) /\ s.history = Append(commits[k].before, k)
    BY <2>2, <2>3 DEF Fits, GroupState, CommitRecord
  <2> QED BY <2>1, <2>4
<1>3. ASSUME NEW h \in DOMAIN states[c], EncryptMessage(c, h)
      PROVE  \E s : /\ File(c, s) /\ Fits(c, s)
                    /\ s.history = states[c][h].history
                    /\ s.sent = states[c][h].sent + 1
                    /\ s.used = states[c][h].used
  <2>1. Fits(c, states[c][h])
    BY DEF GroupInv, StatesInv, Fits
  <2>2. PICK old : old = states[c][h]
    OBVIOUS
  <2>3. File(c, AfterEncrypt(old))
    BY <1>3, <2>2 DEF EncryptMessage
  <2>4. /\ AfterEncrypt(old) \in GroupState
        /\ AfterEncrypt(old).me = old.me /\ AfterEncrypt(old).history = old.history
        /\ AfterEncrypt(old).roster = old.roster
        /\ AfterEncrypt(old).sent = old.sent + 1 /\ AfterEncrypt(old).used = old.used
    BY <2>1, <2>2 DEF Fits, AfterEncrypt, GroupState
  <2> QED BY <2>1, <2>2, <2>3, <2>4 DEF Fits
<1>4. ASSUME NEW h \in DOMAIN states[c], NEW m \in DOMAIN messages,
             DecryptMessage(c, h, m)
      PROVE  \E s : /\ File(c, s) /\ Fits(c, s)
                    /\ s.history = states[c][h].history
                    /\ s.sent = states[c][h].sent
                    /\ s.used = states[c][h].used
                          \cup {<<messages[m].from, messages[m].generation>>}
  <2>1. Fits(c, states[c][h])
    BY DEF GroupInv, StatesInv, Fits
  <2>2. PICK old : old = states[c][h]
    OBVIOUS
  <2>3. messages[m].from \in Client /\ messages[m].generation \in Nat
    <3>1. messages[m] \in MessageRecord
      BY DEF GroupInv, MessagesInv
    <3> QED BY <3>1 DEF MessageRecord
  <2>4. File(c, AfterOpen(old, messages[m]))
    BY <1>4, <2>2 DEF DecryptMessage
  <2>5. PICK new : new = AfterOpen(old, messages[m])
    OBVIOUS
  <2>6. /\ new \in GroupState
        /\ new.me = old.me /\ new.history = old.history
        /\ new.roster = old.roster /\ new.sent = old.sent
        /\ new.used = old.used \cup {<<messages[m].from, messages[m].generation>>}
    BY <2>1, <2>2, <2>3, <2>5 DEF Fits, AfterOpen, GroupState
  <2> QED BY <2>1, <2>2, <2>4, <2>5, <2>6 DEF Fits
<1> QED BY <1>1, <1>2, <1>3, <1>4

-----------------------------------------------------------------------------
(* The histories are right *)

(***************************************************************************)
(* Messages do not change, and what is said of their epochs stays true.    *)
(***************************************************************************)
LEMMA MessagesKept ==
    ASSUME GroupInv, CommitsGrow, UNCHANGED <<messages, opened>>
    PROVE  MessagesInv'
<1>1. ASSUME NEW i \in DOMAIN messages
      PROVE  /\ messages[i].history \in Seq(DOMAIN commits')
             /\ messages[i].roster = RosterOf(messages[i].history)'
  <2>1. PICK history : history = messages[i].history
    OBVIOUS
  <2>2. history \in Seq(DOMAIN commits) /\ messages[i].roster = RosterOf(history)
    BY <2>1 DEF GroupInv, MessagesInv
  <2>3. history \in Seq(DOMAIN commits') /\ RosterOf(history)' = RosterOf(history)
    BY <2>2, HistoryKept
  <2> QED BY <2>1, <2>2, <2>3 DEF RosterOf
<1> QED BY <1>1 DEF GroupInv, MessagesInv, ReadByMembers, RosterOf

(***************************************************************************)
(* Where no commit is made, what fits a history goes on fitting it.        *)
(***************************************************************************)
LEMMA UnchangedCommits ==
    ASSUME GroupInv, UNCHANGED commits
    PROVE  CommitsGrow /\ CommitsInv' /\ \A c, s : Fits(c, s)' <=> Fits(c, s)
<1>1. CommitsGrow
  BY DEF CommitsGrow
<1>2. CommitsInv'
  BY DEF GroupInv, CommitsInv, RosterOf
<1>3. \A c, s : Fits(c, s)' <=> Fits(c, s)
  BY DEF Fits, RosterOf, GroupState
<1> QED BY <1>1, <1>2, <1>3

(***************************************************************************)
(* Every client starts without states, and nothing has been sent.          *)
(***************************************************************************)
LEMMA GroupInvInit == Init => GroupInv
<1> SUFFICES ASSUME Init PROVE GroupInv
  OBVIOUS
<1>1. StatesInv
  BY DEF Init, StatesInv
<1>2. CommitsInv /\ MessagesInv
  BY DEF Init, CommitsInv, MessagesInv, ReadByMembers
<1> QED BY <1>1, <1>2 DEF GroupInv

(***************************************************************************)
(* The calls that make a commit.                                           *)
(***************************************************************************)
LEMMA MakesCommit ==
    ASSUME GroupInv, NEW c \in Client, NEW h \in DOMAIN states[c], NEW x \in Client,
           AddMember(c, h, x) \/ RemoveMember(c, h, x)
    PROVE  \E added, removed \in SUBSET Client :
              /\ added \cap states[c][h].roster = {}
              /\ Commit(c, h, added, removed)
<1>1. CASE AddMember(c, h, x)
  BY <1>1 DEF AddMember
<1>2. CASE RemoveMember(c, h, x)
  BY <1>2 DEF RemoveMember
<1> QED BY <1>1, <1>2

(***************************************************************************)
(* encrypt_message puts the roster of its epoch into the message.          *)
(***************************************************************************)
LEMMA EncryptInv ==
    ASSUME GroupInv, NEW c \in Client, NEW h \in DOMAIN states[c], EncryptMessage(c, h)
    PROVE  MessagesInv'
<1>1. PICK s : s = states[c][h]
  OBVIOUS
<1>2. PICK m : m = [from |-> c, history |-> s.history, generation |-> s.sent,
                    roster |-> s.roster]
  OBVIOUS
<1>3. messages' = Append(messages, m) /\ UNCHANGED <<commits, opened>> /\ IsActive(s)
  BY <1>1, <1>2 DEF EncryptMessage
<1>4. s \in GroupState /\ s.roster = RosterOf(s.history) /\ s.me = c
  BY <1>1 DEF GroupInv, StatesInv
<1>5. s.history \in Seq(DOMAIN commits) /\ s.history \in Seq(Nat \ {0})
  <2>1. DOMAIN commits \subseteq Nat \ {0}
    BY DEF GroupInv, CommitsInv
  <2>2. s.history \in Seq(DOMAIN commits)
    BY <1>4 DEF GroupState
  <2> QED BY <2>1, <2>2, LargerSeq
<1>6. m \in MessageRecord /\ m.history = s.history /\ m.roster = s.roster
  BY <1>2, <1>4, <1>5 DEF MessageRecord, GroupState
<1>7. /\ messages \in Seq(MessageRecord) /\ messages' \in Seq(MessageRecord)
      /\ \A i \in DOMAIN messages' :
            messages'[i] = m \/ (i \in DOMAIN messages /\ messages'[i] = messages[i])
      /\ \A i \in DOMAIN messages : i \in DOMAIN messages' /\ messages'[i] = messages[i]
  <2>1. messages \in Seq(MessageRecord)
    BY DEF GroupInv, MessagesInv
  <2> QED BY <1>3, <1>6, <2>1
<1>8. ASSUME NEW i \in DOMAIN messages'
      PROVE  /\ messages'[i].history \in Seq(DOMAIN commits)
             /\ messages'[i].roster = RosterOf(messages'[i].history)
  BY <1>4, <1>5, <1>6, <1>7 DEF GroupInv, MessagesInv
<1>9. ReadByMembers' /\ \A o \in opened : o.by \in Client /\ o.message \in DOMAIN messages'
  BY <1>3, <1>7 DEF GroupInv, MessagesInv, ReadByMembers
<1> QED BY <1>3, <1>7, <1>8, <1>9 DEF MessagesInv, RosterOf

(***************************************************************************)
(* decrypt_message gives a message to a member of its sender's epoch.      *)
(***************************************************************************)
LEMMA DecryptInv ==
    ASSUME GroupInv, NEW c \in Client, NEW h \in DOMAIN states[c],
           NEW m \in DOMAIN messages, DecryptMessage(c, h, m)
    PROVE  MessagesInv'
<1>1. PICK s : s = states[c][h]
  OBVIOUS
<1>2. s \in GroupState /\ s.roster = RosterOf(s.history) /\ s.me = c
  BY <1>1 DEF GroupInv, StatesInv
<1>3. /\ Opens(s, messages[m]) /\ UNCHANGED <<commits, messages>>
      /\ opened' = opened \cup
                      {[by |-> c, message |-> m, times |-> TimesOpened(c, m) + 1]}
  BY <1>1 DEF DecryptMessage
<1>4. c \in messages[m].roster \ {messages[m].from}
  BY <1>2, <1>3 DEF Opens, IsActive, GroupInv, MessagesInv
<1>5. \A o \in opened' : o \in opened \/ (o.by = c /\ o.message = m)
  BY <1>3
<1> QED BY <1>3, <1>4, <1>5 DEF GroupInv, MessagesInv, ReadByMembers, RosterOf

(***************************************************************************)
(* States that go away say nothing of those that stay.                     *)
(***************************************************************************)
LEMMA FewerStates ==
    ASSUME GroupInv, UNCHANGED commits,
           DOMAIN states' = Client, next_id' \in [Client -> Nat \ {0}],
           \A d \in Client : DOMAIN states'[d] \subseteq 1 .. Latest(d)',
           \A d \in Client : \A h \in DOMAIN states'[d] :
              h \in DOMAIN states[d] /\ states'[d][h] = states[d][h]
    PROVE  StatesInv'
<1>1. ASSUME NEW d \in Client, NEW h \in DOMAIN states'[d]
      PROVE  /\ states'[d][h] \in GroupState'
             /\ states'[d][h].me = d
             /\ states'[d][h].roster = RosterOf(states[d][h].history)'
  <2>1. PICK t : t = states'[d][h]
    OBVIOUS
  <2>2. Fits(d, t)
    BY <2>1 DEF GroupInv, StatesInv, Fits
  <2>3. Fits(d, t)'
    BY <2>2, UnchangedCommits
  <2> QED BY <2>1, <2>3 DEF Fits, RosterOf
<1> QED BY <1>1 DEF StatesInv

(***************************************************************************)
(* Handles that go away, by mls_destroy_state or with the program.         *)
(***************************************************************************)
LEMMA DropStates ==
    ASSUME GroupInv, NEW c \in Client,
           Restart(c) \/ \E h \in DOMAIN states[c] : Destroy(c, h)
    PROVE  /\ StatesInv' /\ UNCHANGED <<joined, commits, messages, reused, opened>>
           /\ \A d \in Client \ {c} : states'[d] = states[d] /\ next_id'[d] = next_id[d]
           /\ \A h \in DOMAIN states'[c] : /\ h \in DOMAIN states[c]
                                           /\ states'[c][h] = states[c][h]
                                           /\ next_id' = next_id
           /\ \/ ~ HasLatest(c)' /\ earlier' # <<>>
              \/ next_id' = next_id /\ earlier' = earlier
<1>1. /\ DOMAIN states = Client /\ next_id \in [Client -> Nat \ {0}]
      /\ \A d \in Client : DOMAIN states[d] \subseteq 1 .. Latest(d)
  BY DEF GroupInv, StatesInv
<1>2. CASE \E h \in DOMAIN states[c] : Destroy(c, h)
  <2>1. PICK h \in DOMAIN states[c] : Destroy(c, h)
    BY <1>2
  <2>2. /\ states' = [states EXCEPT ![c] = [x \in DOMAIN states[c] \ {h} |-> states[c][x]]]
        /\ UNCHANGED <<next_id, earlier, joined, commits, messages, reused, opened>>
    BY <2>1 DEF Destroy
  <2>3. /\ DOMAIN states' = Client
        /\ \A d \in Client \ {c} : states'[d] = states[d]
        /\ DOMAIN states'[c] = DOMAIN states[c] \ {h}
        /\ \A x \in DOMAIN states'[c] : states'[c][x] = states[c][x]
    BY <1>1, <2>2
  <2>4. StatesInv'
    <3>1. \A d \in Client : \A x \in DOMAIN states'[d] :
             x \in DOMAIN states[d] /\ states'[d][x] = states[d][x]
      BY <2>3
    <3>2. \A d \in Client : Latest(d)' = Latest(d)
      BY <2>2 DEF Latest
    <3>3. \A d \in Client : DOMAIN states'[d] \subseteq 1 .. Latest(d)'
      BY <1>1, <3>1, <3>2
    <3> QED BY <1>1, <2>2, <2>3, <3>1, <3>3, FewerStates
  <2> QED BY <2>2, <2>3, <2>4
<1>3. CASE Restart(c)
  <2>1. /\ states' = [states EXCEPT ![c] = [h \in {} |-> None]]
        /\ next_id' = [next_id EXCEPT ![c] = 1]
        /\ earlier' = Append(earlier, Latest(c))
        /\ UNCHANGED <<joined, commits, messages, reused, opened>>
    BY <1>3 DEF Restart
  <2>2. /\ DOMAIN states' = Client
        /\ \A d \in Client \ {c} : states'[d] = states[d] /\ next_id'[d] = next_id[d]
        /\ DOMAIN states'[c] = {}
        /\ next_id' \in [Client -> Nat \ {0}]
    BY <1>1, <2>1
  <2>3. StatesInv'
    <3>1. \A d \in Client : DOMAIN states'[d] \subseteq 1 .. Latest(d)'
      BY <1>1, <2>2 DEF Latest
    <3>2. \A d \in Client : \A x \in DOMAIN states'[d] :
             x \in DOMAIN states[d] /\ states'[d][x] = states[d][x]
      BY <2>2
    <3> QED BY <2>1, <2>2, <3>1, <3>2, FewerStates
  <2>4. earlier' # <<>>
    BY <2>1
  <2> QED BY <1>3, <2>1, <2>2, <2>3, <2>4 DEF HasLatest
<1> QED BY <1>2, <1>3

(***************************************************************************)
(* Every step keeps states, commits and messages in agreement.             *)
(***************************************************************************)
LEMMA GroupInvStep == GroupInv /\ [Next]_vars => GroupInv'
<1> SUFFICES ASSUME GroupInv, [Next]_vars PROVE GroupInv'
  OBVIOUS
<1>1. StatesInv
  BY DEF GroupInv
<1>2. ASSUME NEW c \in Client, NEW s, File(c, s), Fits(c, s), UNCHANGED commits
      PROVE  StatesInv' /\ CommitsInv' /\ CommitsGrow
  <2>1. CommitsGrow /\ CommitsInv' /\ Fits(c, s)'
    BY <1>2, UnchangedCommits
  <2> QED BY <1>1, <1>2, <2>1, FileStates
<1>3. ASSUME NEW c \in Client, NEW h \in DOMAIN states[c], NEW x \in Client,
             AddMember(c, h, x) \/ RemoveMember(c, h, x)
      PROVE  GroupInv'
  <2>1. PICK added \in SUBSET Client, removed \in SUBSET Client :
           added \cap states[c][h].roster = {} /\ Commit(c, h, added, removed)
    BY <1>3, MakesCommit
  <2>2. CommitsGrow /\ CommitsInv' /\ UNCHANGED <<messages, opened>>
    BY <2>1, OwnCommit
  <2>3. PICK s : File(c, s) /\ Fits(c, s)'
    BY <2>1, OwnCommit
  <2> QED BY <1>1, <2>2, <2>3, FileStates, MessagesKept DEF GroupInv
<1>4. ASSUME NEW c \in Client,
             \/ CreateGroup(c)
             \/ \E h \in DOMAIN states[c], k \in DOMAIN commits : ProcessCommit(c, h, k)
             \/ \E k \in DOMAIN commits : ProcessWelcome(c, k)
      PROVE  GroupInv'
  <2>1. UNCHANGED <<commits, messages, opened>>
    BY <1>4 DEF CreateGroup, ProcessCommit, ProcessWelcome
  <2>2. PICK s : File(c, s) /\ Fits(c, s)
    BY <1>4, OtherFiles, ProcessedCommit
  <2> QED BY <1>2, <2>1, <2>2, MessagesKept DEF GroupInv
<1>5. ASSUME NEW c \in Client, NEW h \in DOMAIN states[c], EncryptMessage(c, h)
      PROVE  GroupInv'
  <2>1. PICK s : File(c, s) /\ Fits(c, s)
    BY <1>5, OtherFiles
  <2>2. UNCHANGED commits
    BY <1>5 DEF EncryptMessage
  <2> QED BY <1>2, <1>5, <2>1, <2>2, EncryptInv DEF GroupInv
<1>6. ASSUME NEW c \in Client, NEW h \in DOMAIN states[c], NEW m \in DOMAIN messages,
             DecryptMessage(c, h, m)
      PROVE  GroupInv'
  <2>1. PICK s : File(c, s) /\ Fits(c, s)
    BY <1>6, OtherFiles
  <2>2. UNCHANGED commits
    BY <1>6 DEF DecryptMessage
  <2> QED BY <1>2, <1>6, <2>1, <2>2, DecryptInv DEF GroupInv
<1>7. ASSUME NEW c \in Client, Restart(c) \/ \E h \in DOMAIN states[c] : Destroy(c, h)
      PROVE  GroupInv'
  <2>1. StatesInv' /\ UNCHANGED <<commits, messages, opened>>
    BY <1>7, DropStates
  <2> QED BY <2>1, UnchangedCommits, MessagesKept DEF GroupInv
<1>8. ASSUME UNCHANGED <<states, next_id, commits, messages, opened>>
      PROVE  GroupInv'
  <2>1. StatesInv'
    BY <1>1, <1>8, FewerStates DEF StatesInv, Latest
  <2> QED BY <1>8, <2>1, UnchangedCommits, MessagesKept DEF GroupInv
<1>9. CASE UNCHANGED vars \/ \E k \in DOMAIN commits : Accept(k)
  BY <1>8, <1>9 DEF vars, Accept
<1> QED BY <1>3, <1>4, <1>5, <1>6, <1>7, <1>9 DEF Next, Call, Usable

-----------------------------------------------------------------------------
(* Clients that use nothing twice *)

(***************************************************************************)
(* A history has one base at most.                                         *)
(***************************************************************************)
LEMMA BaseUnique ==
    ASSUME GroupInv, NEW history \in Seq(DOMAIN commits), NEW c, NEW b, NEW d,
           IsBase(c, history, b), IsBase(c, history, d)
    PROVE  b = d
<1>1. /\ Len(history) \in Nat /\ DOMAIN history = 1 .. Len(history)
      /\ \A i \in DOMAIN history : history[i] \in DOMAIN commits
  OBVIOUS
<1>2. DOMAIN commits \subseteq Nat \ {0}
  BY DEF GroupInv, CommitsInv
<1> QED BY <1>1, <1>2 DEF IsBase

(***************************************************************************)
(* A commit that does not add a client does not change where the client's  *)
(* part of the history starts.                                             *)
(***************************************************************************)
LEMMA BaseAfterCommit ==
    ASSUME NEW history \in Seq(DOMAIN commits'), NEW k \in DOMAIN commits',
           NEW c, c \notin commits'[k].added, NEW b
    PROVE  IsBase(c, Append(history, k), b)' <=> IsBase(c, history, b)'
<1>1. PICK new : new = Append(history, k)
  OBVIOUS
<1>2. /\ Len(history) \in Nat /\ DOMAIN new = 1 .. (Len(history) + 1)
      /\ DOMAIN history = 1 .. Len(history)
      /\ new[Len(history) + 1] = k
      /\ \A i \in DOMAIN history : new[i] = history[i]
  BY <1>1
<1>3. IsBase(c, new, b)' <=> IsBase(c, history, b)'
  BY <1>2 DEF IsBase
<1> QED BY <1>1, <1>3 DEF IsBase

(***************************************************************************)
(* The epochs a client used, as histories.                                 *)
(***************************************************************************)
LEMMA EpochsAreHistories ==
    ASSUME GroupInv, NEW c
    PROVE  EpochsUsed(c) \subseteq Seq(DOMAIN commits)
BY DEF GroupInv, MessagesInv, EpochsUsed

(***************************************************************************)
(* What is known of a client's use stays true while it does nothing, or    *)
(* only loses states.                                                      *)
(***************************************************************************)
KeepsMessages(c) ==
    /\ \A i \in DOMAIN messages : i \in DOMAIN messages' /\ messages'[i] = messages[i]
    /\ \A i \in DOMAIN messages' : messages'[i].from = c => i \in DOMAIN messages
    /\ opened \subseteq opened'
    /\ \A o \in opened' : o.by = c => o \in opened

(***************************************************************************)
(* A client that neither sends nor opens a message has used the epochs it  *)
(* had used.                                                               *)
(***************************************************************************)
LEMMA KeepsEpochs ==
    ASSUME GroupInv, NEW c, KeepsMessages(c)
    PROVE  EpochsUsed(c)' = EpochsUsed(c)
<1>1. \A o \in opened : o.message \in DOMAIN messages
  BY DEF GroupInv, MessagesInv
<1> QED BY <1>1 DEF KeepsMessages, EpochsUsed

(***************************************************************************)
(* What is right of a client that used nothing twice stays right while it  *)
(* does nothing.                                                           *)
(***************************************************************************)
LEMMA CleanKept ==
    ASSUME GroupInv, CommitsGrow, NEW c \in Client, CleanInv(c), KeepsMessages(c),
           joined'[c] = joined[c],
           HasLatest(c)' => HasLatest(c) /\ LatestState(c)' = LatestState(c)
    PROVE  CleanInv(c)'
<1>1. EpochsUsed(c)' = EpochsUsed(c)
  BY KeepsEpochs
<1>2. \A e \in EpochsUsed(c) : \A b : IsBase(c, e, b)' <=> IsBase(c, e, b)
  BY EpochsAreHistories, HistoryKept
<1>3. \A e \in EpochsUsed(c)' : \E b \in joined'[c] \cup {0} : IsBase(c, e, b)'
  BY <1>1, <1>2 DEF CleanInv
<1>4. ASSUME HasLatest(c)', NEW s, s = LatestState(c)'
      PROVE  \E b \in joined'[c] \cup {0} :
                 /\ IsBase(c, s.history, b)'
                 /\ \A e \in EpochsUsed(c)' : IsBase(c, e, b)' => Len(e) <= Len(s.history)
                 /\ \A i \in DOMAIN messages' :
                       messages'[i].from = c /\ messages'[i].history = s.history
                       => messages'[i].generation < s.sent
                 /\ \A o \in opened' :
                       o.by = c /\ messages'[o.message].history = s.history
                       => <<messages'[o.message].from, messages'[o.message].generation>>
                              \in s.used
  <2>1. HasLatest(c) /\ s = LatestState(c)
    BY <1>4
  <2>2. PICK b \in joined[c] \cup {0} :
                 /\ IsBase(c, s.history, b)
                 /\ \A e \in EpochsUsed(c) : IsBase(c, e, b) => Len(e) <= Len(s.history)
                 /\ \A i \in DOMAIN messages :
                       messages[i].from = c /\ messages[i].history = s.history
                       => messages[i].generation < s.sent
                 /\ \A o \in opened :
                       o.by = c /\ messages[o.message].history = s.history
                       => <<messages[o.message].from, messages[o.message].generation>>
                              \in s.used
    BY <2>1 DEF CleanInv
  <2>3. IsBase(c, s.history, b)'
    <3>1. PICK history : history = s.history
      OBVIOUS
    <3>2. history \in Seq(DOMAIN commits)
      BY <2>1, <3>1 DEF GroupInv, StatesInv, GroupState, HasLatest, LatestState
    <3>3. IsBase(c, history, b)'
      BY <2>2, <3>1, <3>2, HistoryKept
    <3> QED BY <3>1, <3>3 DEF IsBase
  <2>4. \A o \in opened : o.message \in DOMAIN messages
    BY DEF GroupInv, MessagesInv
  <2>5. \A e \in EpochsUsed(c)' : IsBase(c, e, b)' => Len(e) <= Len(s.history)
    BY <1>1, <1>2, <2>2
  <2>6. \A i \in DOMAIN messages' :
           messages'[i].from = c /\ messages'[i].history = s.history
           => messages'[i].generation < s.sent
    BY <2>2 DEF KeepsMessages
  <2>7. \A o \in opened' :
           o.by = c /\ messages'[o.message].history = s.history
           => <<messages'[o.message].from, messages'[o.message].generation>> \in s.used
    BY <2>2, <2>4 DEF KeepsMessages
  <2> WITNESS b \in joined'[c] \cup {0}
  <2> QED BY <2>3, <2>5, <2>6, <2>7
<1> QED BY <1>3, <1>4 DEF CleanInv

(***************************************************************************)
(* The caller merges a commit: it gets past every epoch that it used.      *)
(***************************************************************************)
LEMMA CleanMerges ==
    ASSUME GroupInv, GroupInv', CommitsGrow, NEW c \in Client, CleanInv(c), HasLatest(c),
           NEW s, HasLatest(c)', LatestState(c)' = s,
           NEW k \in DOMAIN commits', c \notin commits'[k].added,
           s.history = Append(LatestState(c).history, k),
           UNCHANGED <<joined, messages, opened>>
    PROVE  CleanInv(c)'
<1>1. PICK old : old = LatestState(c).history
  OBVIOUS
<1>2. old \in Seq(DOMAIN commits) /\ Len(old) \in Nat
  BY <1>1 DEF GroupInv, StatesInv, GroupState, HasLatest, LatestState
<1>3. Len(s.history) = Len(old) + 1
  BY <1>1, <1>2
<1>4. EpochsUsed(c)' = EpochsUsed(c) /\ EpochsUsed(c) \subseteq Seq(DOMAIN commits)
  BY KeepsEpochs, EpochsAreHistories DEF KeepsMessages
<1>5. \A e \in EpochsUsed(c) : \A b : IsBase(c, e, b)' <=> IsBase(c, e, b)
  BY <1>4, HistoryKept
<1>6. PICK b \in joined[c] \cup {0} :
           /\ IsBase(c, old, b)
           /\ \A e \in EpochsUsed(c) : IsBase(c, e, b) => Len(e) <= Len(old)
  BY <1>1 DEF CleanInv
<1>7. IsBase(c, s.history, b)'
  <2>1. IsBase(c, old, b)' /\ old \in Seq(DOMAIN commits')
    BY <1>2, <1>6, HistoryKept
  <2>2. IsBase(c, Append(old, k), b)'
    BY <2>1, BaseAfterCommit
  <2> QED BY <1>1, <2>2 DEF IsBase
<1>8. \A e \in EpochsUsed(c)' : IsBase(c, e, b)' => Len(e) <= Len(s.history) /\ e # s.history
  <2> SUFFICES ASSUME NEW e \in EpochsUsed(c), IsBase(c, e, b)
               PROVE  Len(e) <= Len(s.history) /\ e # s.history
    BY <1>4, <1>5
  <2>1. Len(e) <= Len(old) /\ Len(e) \in Nat
    BY <1>4, <1>6
  <2> QED BY <1>2, <1>3, <2>1
<1>9. s.history \notin EpochsUsed(c)'
  <2> SUFFICES ASSUME s.history \in EpochsUsed(c)' PROVE FALSE
    OBVIOUS
  <2>1. PICK e \in EpochsUsed(c)' : e = s.history
    OBVIOUS
  <2>2. IsBase(c, e, b)'
    BY <1>7, <2>1 DEF IsBase
  <2> QED BY <1>8, <2>1, <2>2
<1>10. \A i \in DOMAIN messages' : ~ (messages'[i].from = c /\ messages'[i].history = s.history)
  BY <1>9 DEF EpochsUsed
<1>11. \A o \in opened' : ~ (o.by = c /\ messages'[o.message].history = s.history)
  BY <1>9 DEF EpochsUsed
<1>12. \A e \in EpochsUsed(c)' : \E d \in joined'[c] \cup {0} : IsBase(c, e, d)'
  BY <1>4, <1>5 DEF CleanInv
<1> QED BY <1>6, <1>7, <1>8, <1>10, <1>11, <1>12 DEF CleanInv

(***************************************************************************)
(* A client that enters the group anew, by its creation or by a welcome    *)
(* that it has not processed yet, used no epoch that started there.        *)
(***************************************************************************)
LEMMA CleanEnters ==
    ASSUME GroupInv, GroupInv', NEW c \in Client, CleanInv(c),
           NEW s, HasLatest(c)', LatestState(c)' = s, UNCHANGED <<commits, messages, opened>>,
           NEW b, IsBase(c, s.history, b), b \in joined'[c] \cup {0},
           joined[c] \subseteq joined'[c], EpochsUsed(c) = {} \/ b \notin joined[c] \cup {0}
    PROVE  CleanInv(c)'
<1>1. EpochsUsed(c)' = EpochsUsed(c)
  BY KeepsEpochs DEF KeepsMessages
<1>2. \A e, d : IsBase(c, e, d)' <=> IsBase(c, e, d)
  BY DEF IsBase
<1>3. \A e \in EpochsUsed(c) : ~ IsBase(c, e, b)
  <2> SUFFICES ASSUME NEW e \in EpochsUsed(c), IsBase(c, e, b) PROVE FALSE
    OBVIOUS
  <2>1. PICK d \in joined[c] \cup {0} : IsBase(c, e, d)
    BY DEF CleanInv
  <2>2. b = d
    BY <2>1, BaseUnique, EpochsAreHistories
  <2> QED BY <2>1, <2>2
<1>4. s.history \notin EpochsUsed(c)'
  <2> SUFFICES ASSUME s.history \in EpochsUsed(c) PROVE FALSE
    BY <1>1
  <2> QED BY <1>3
<1>5. \A i \in DOMAIN messages' : ~ (messages'[i].from = c /\ messages'[i].history = s.history)
  BY <1>4 DEF EpochsUsed
<1>6. \A o \in opened' : ~ (o.by = c /\ messages'[o.message].history = s.history)
  BY <1>4 DEF EpochsUsed
<1>7. \A e \in EpochsUsed(c)' : \E d \in joined'[c] \cup {0} : IsBase(c, e, d)'
  BY <1>1, <1>2 DEF CleanInv
<1>8. IsBase(c, s.history, b)'
  BY DEF IsBase
<1>9. \A e \in EpochsUsed(c)' : ~ IsBase(c, e, b)'
  BY <1>1, <1>2, <1>3
<1> QED BY <1>5, <1>6, <1>7, <1>8, <1>9 DEF CleanInv

(***************************************************************************)
(* The caller sends or opens a message: its latest state has a generation  *)
(* that it did not use in the epoch, and has not opened the message yet.   *)
(***************************************************************************)
LEMMA CleanUses ==
    ASSUME GroupInv, GroupInv', NEW c \in Client, CleanInv(c), HasLatest(c),
           NEW s, HasLatest(c)', LatestState(c)' = s, UNCHANGED <<commits, joined>>,
           s.history = LatestState(c).history,
           EpochsUsed(c)' \subseteq EpochsUsed(c) \cup {s.history},
           \A i \in DOMAIN messages' :
              messages'[i].from = c /\ messages'[i].history = s.history
              => messages'[i].generation < s.sent,
           \A o \in opened' :
              o.by = c /\ messages'[o.message].history = s.history
              => <<messages'[o.message].from, messages'[o.message].generation>> \in s.used
    PROVE  CleanInv(c)'
<1>1. \A e, d : IsBase(c, e, d)' <=> IsBase(c, e, d)
  BY DEF IsBase
<1>2. PICK b \in joined[c] \cup {0} :
           /\ IsBase(c, s.history, b)
           /\ \A e \in EpochsUsed(c) : IsBase(c, e, b) => Len(e) <= Len(s.history)
  BY DEF CleanInv
<1>3. Len(s.history) \in Nat
  BY DEF GroupInv, StatesInv, GroupState, HasLatest, LatestState
<1>4. \A e \in EpochsUsed(c)' : IsBase(c, e, b)' => Len(e) <= Len(s.history)
  BY <1>1, <1>2, <1>3
<1>5. \A e \in EpochsUsed(c)' : \E d \in joined'[c] \cup {0} : IsBase(c, e, d)'
  BY <1>1, <1>2 DEF CleanInv
<1>6. IsBase(c, s.history, b)'
  BY <1>2 DEF IsBase
<1> QED BY <1>2, <1>4, <1>5, <1>6 DEF CleanInv

(***************************************************************************)
(* A call with handle h, by a client that is clean after it, used the      *)
(* client's latest handle.                                                 *)
(***************************************************************************)
LEMMA CleanCaller ==
    ASSUME NEW c \in Client, NEW h \in DOMAIN states[c], Reuses(c, h)
    PROVE  /\ reused \subseteq reused'
           /\ c \notin reused' => c \notin reused /\ h = Latest(c) /\ HasLatest(c)
           /\ \A d \in Client \ {c} : d \in reused' <=> d \in reused
BY DEF Reuses, HasLatest

(***************************************************************************)
(* The other clients' use is what it was.                                  *)
(***************************************************************************)
OthersKept(c) ==
    \A d \in Client \ {c} :
        /\ KeepsMessages(d)
        /\ joined'[d] = joined[d] /\ next_id'[d] = next_id[d] /\ states'[d] = states[d]
        /\ d \in reused' <=> d \in reused

(***************************************************************************)
(* An operation that files a state needs only be looked at for the client  *)
(* that files it.                                                          *)
(***************************************************************************)
LEMMA UseInvFiles ==
    ASSUME GroupInv, UseInv, CommitsGrow, NEW c \in Client, NEW s, File(c, s), Fits(c, s)',
           OthersKept(c), c \notin reused' => CleanInv(c)',
           earlier' = earlier, joined' \in [Client -> SUBSET (Nat \ {0})],
           joined'[c] \subseteq DOMAIN commits'
    PROVE  UseInv'
<1>1. /\ next_id' = [next_id EXCEPT ![c] = @ + 1] /\ next_id \in [Client -> Nat \ {0}]
  BY FileStates DEF GroupInv, StatesInv
<1>2. next_id'[c] # 1
  BY <1>1
<1>3. ASSUME NEW d \in Client \ {c}
      PROVE  /\ joined'[d] \subseteq DOMAIN commits'
             /\ d \notin reused' => CleanInv(d)'
             /\ next_id'[d] = 1 /\ earlier' = <<>> => EpochsUsed(d)' = {}
  <2>1. /\ KeepsMessages(d)
        /\ joined'[d] = joined[d] /\ next_id'[d] = next_id[d] /\ states'[d] = states[d]
        /\ d \in reused' <=> d \in reused
    BY DEF OthersKept
  <2>2. HasLatest(d)' => HasLatest(d) /\ LatestState(d)' = LatestState(d)
    BY <2>1 DEF HasLatest, LatestState, Latest
  <2>3. d \notin reused' => CleanInv(d)'
    BY <2>1, <2>2, CleanKept DEF UseInv
  <2>4. EpochsUsed(d)' = EpochsUsed(d)
    BY <2>1, KeepsEpochs
  <2> QED BY <2>1, <2>3, <2>4 DEF UseInv, CommitsGrow
<1> QED BY <1>2, <1>3 DEF UseInv

(***************************************************************************)
(* A step that leaves the messages leaves those of every client.           *)
(***************************************************************************)
LEMMA KeepsEverything ==
    ASSUME UNCHANGED <<messages, opened>>, NEW c
    PROVE  KeepsMessages(c)
BY DEF KeepsMessages

(***************************************************************************)
(* The steps that merge a commit.                                          *)
(***************************************************************************)
LEMMA MergeUse ==
    ASSUME GroupInv, UseInv, GroupInv', CommitsGrow, NEW c \in Client,
           NEW h \in DOMAIN states[c], NEW s, File(c, s), Fits(c, s)',
           NEW k \in DOMAIN commits', c \notin commits'[k].added,
           s.history = Append(states[c][h].history, k),
           Reuses(c, h), UNCHANGED <<earlier, joined, messages, opened>>
    PROVE  UseInv'
<1>1. /\ HasLatest(c)' /\ LatestState(c)' = s
      /\ \A d \in Client \ {c} : states'[d] = states[d] /\ next_id'[d] = next_id[d]
  BY FileStates DEF GroupInv
<1>2. /\ c \notin reused' => c \notin reused /\ h = Latest(c) /\ HasLatest(c)
      /\ \A d \in Client \ {c} : d \in reused' <=> d \in reused
  BY CleanCaller
<1>3. OthersKept(c)
  BY <1>1, <1>2, KeepsEverything DEF OthersKept
<1>4. ASSUME c \notin reused' PROVE CleanInv(c)'
  <2>1. CleanInv(c) /\ HasLatest(c)
    BY <1>2, <1>4 DEF UseInv
  <2>2. s.history = Append(LatestState(c).history, k)
    BY <1>2, <1>4 DEF LatestState
  <2> QED BY <1>1, <2>1, <2>2, CleanMerges
<1>5. /\ joined' \in [Client -> SUBSET (Nat \ {0})]
      /\ joined'[c] \subseteq DOMAIN commits'
  BY DEF UseInv, CommitsGrow
<1> QED BY <1>3, <1>4, <1>5, UseInvFiles

(***************************************************************************)
(* The steps that enter the group.                                         *)
(***************************************************************************)
LEMMA CreateUse ==
    ASSUME GroupInv, UseInv, GroupInv', NEW c \in Client, CreateGroup(c)
    PROVE  UseInv'
<1>1. /\ c = Creator /\ next_id[c] = 1 /\ earlier = <<>>
      /\ UNCHANGED <<earlier, joined, commits, messages, reused, opened>>
  BY DEF CreateGroup
<1>2. PICK s : File(c, s) /\ Fits(c, s) /\ s.history = <<>>
  BY OtherFiles
<1>3. CommitsGrow /\ Fits(c, s)'
  BY <1>1, <1>2, UnchangedCommits
<1>4. /\ HasLatest(c)' /\ LatestState(c)' = s
      /\ \A d \in Client \ {c} : states'[d] = states[d] /\ next_id'[d] = next_id[d]
  BY <1>2, <1>3, FileStates DEF GroupInv
<1>5. OthersKept(c)
  BY <1>1, <1>4, KeepsEverything DEF OthersKept
<1>6. ASSUME c \notin reused' PROVE CleanInv(c)'
  <2>1. CleanInv(c) /\ EpochsUsed(c) = {}
    BY <1>1, <1>6 DEF UseInv
  <2>2. IsBase(c, s.history, 0)
    BY <1>2 DEF IsBase
  <2> QED BY <1>1, <1>4, <2>1, <2>2, CleanEnters
<1> QED BY <1>1, <1>2, <1>3, <1>5, <1>6, UseInvFiles DEF UseInv

(***************************************************************************)
(* process_welcome gives a client a new start, unless it has processed the *)
(* welcome before.                                                         *)
(***************************************************************************)
LEMMA WelcomeUse ==
    ASSUME GroupInv, UseInv, GroupInv', NEW c \in Client, NEW k \in DOMAIN commits,
           ProcessWelcome(c, k)
    PROVE  UseInv'
<1>1. /\ c \in commits[k].added
      /\ joined' = [joined EXCEPT ![c] = @ \cup {k}]
      /\ reused' = IF k \in joined[c] THEN reused \cup {c} ELSE reused
      /\ UNCHANGED <<earlier, commits, messages, opened>>
  BY DEF ProcessWelcome
<1>2. PICK s : File(c, s) /\ Fits(c, s) /\ s.history = Append(commits[k].before, k)
  BY OtherFiles
<1>3. CommitsGrow /\ Fits(c, s)'
  BY <1>1, <1>2, UnchangedCommits
<1>4. /\ HasLatest(c)' /\ LatestState(c)' = s
      /\ \A d \in Client \ {c} : states'[d] = states[d] /\ next_id'[d] = next_id[d]
  BY <1>2, <1>3, FileStates DEF GroupInv
<1>5. /\ k \in Nat \ {0} /\ joined \in [Client -> SUBSET (Nat \ {0})]
      /\ joined[c] \subseteq DOMAIN commits
      /\ 1 .. (k - 1) \subseteq DOMAIN commits
  BY DEF GroupInv, CommitsInv, UseInv
<1>6. /\ joined' \in [Client -> SUBSET (Nat \ {0})]
      /\ joined'[c] = joined[c] \cup {k} /\ joined'[c] \subseteq DOMAIN commits'
      /\ \A d \in Client \ {c} : joined'[d] = joined[d]
  BY <1>1, <1>5
<1>7. OthersKept(c)
  BY <1>1, <1>4, <1>6, KeepsEverything DEF OthersKept
<1>8. ASSUME c \notin reused' PROVE CleanInv(c)'
  <2>1. CleanInv(c) /\ k \notin joined[c] \cup {0}
    BY <1>1, <1>5, <1>8 DEF UseInv
  <2>2. commits[k].before \in Seq(DOMAIN commits)
    BY <1>5, LargerSeq DEF GroupInv, CommitsInv
  <2>3. IsBase(c, s.history, k)
    BY <1>1, <1>2, <2>2, AppendCommit
  <2> QED BY <1>1, <1>4, <1>6, <2>1, <2>3, CleanEnters
<1> QED BY <1>1, <1>2, <1>3, <1>6, <1>7, <1>8, UseInvFiles

(***************************************************************************)
(* The steps that use an epoch's keys.                                     *)
(***************************************************************************)
LEMMA EncryptUse ==
    ASSUME GroupInv, UseInv, GroupInv', GenerationsUnique, NEW c \in Client,
           NEW h \in DOMAIN states[c], EncryptMessage(c, h)
    PROVE  UseInv' /\ GenerationsUnique'
<1>1. PICK old : old = states[c][h]
  OBVIOUS
<1>2. PICK m : m = [from |-> c, history |-> old.history, generation |-> old.sent,
                    roster |-> old.roster]
  OBVIOUS
<1>3. /\ messages' = Append(messages, m) /\ Reuses(c, h)
      /\ UNCHANGED <<earlier, joined, commits, opened>>
  BY <1>1, <1>2 DEF EncryptMessage
<1>4. m.from = c /\ m.history = old.history /\ m.generation = old.sent
  BY <1>2
<1>5. PICK s : /\ File(c, s) /\ Fits(c, s)
               /\ s.history = old.history /\ s.sent = old.sent + 1 /\ s.used = old.used
  BY <1>1, OtherFiles
<1>6. old.sent \in Nat
  BY <1>1 DEF GroupInv, StatesInv, GroupState
<1>7. PICK n \in DOMAIN messages' :
         /\ n \notin DOMAIN messages /\ messages'[n] = m
         /\ \A i \in DOMAIN messages' : i = n \/ i \in DOMAIN messages
         /\ \A i \in DOMAIN messages : i \in DOMAIN messages' /\ messages'[i] = messages[i]
  <2>1. messages \in Seq(MessageRecord)
    BY DEF GroupInv, MessagesInv
  <2>2. PICK n : n = Len(messages) + 1
    OBVIOUS
  <2>3. DOMAIN messages = 1 .. Len(messages) /\ Len(messages) \in Nat
    BY <2>1
  <2>4. DOMAIN messages' = 1 .. n /\ messages'[n] = m
    BY <1>3, <2>1, <2>2
  <2>5. \A i \in DOMAIN messages : messages'[i] = messages[i]
    BY <1>3, <2>1
  <2> QED BY <2>2, <2>3, <2>4, <2>5
<1>8. CommitsGrow /\ Fits(c, s)'
  BY <1>3, <1>5, UnchangedCommits
<1>9. /\ HasLatest(c)' /\ LatestState(c)' = s
      /\ \A d \in Client \ {c} : states'[d] = states[d] /\ next_id'[d] = next_id[d]
  BY <1>5, <1>8, FileStates DEF GroupInv
<1>10. /\ reused \subseteq reused'
       /\ c \notin reused' => c \notin reused /\ h = Latest(c) /\ HasLatest(c)
       /\ \A d \in Client \ {c} : d \in reused' <=> d \in reused
  BY <1>3, CleanCaller
<1>11. OthersKept(c)
  BY <1>3, <1>4, <1>7, <1>9, <1>10 DEF OthersKept, KeepsMessages
<1>12. \A o \in opened : o.message \in DOMAIN messages
  BY DEF GroupInv, MessagesInv
\* A clean caller has not used its generation in the epoch.
<1>13. ASSUME c \notin reused'
       PROVE  /\ CleanInv(c) /\ HasLatest(c) /\ LatestState(c) = old
              /\ \A i \in DOMAIN messages :
                    messages[i].from = c /\ messages[i].history = old.history
                    => messages[i].generation < old.sent
              /\ \A o \in opened :
                    o.by = c /\ messages[o.message].history = old.history
                    => <<messages[o.message].from, messages[o.message].generation>>
                           \in old.used
  <2>1. CleanInv(c) /\ HasLatest(c) /\ LatestState(c) = old
    BY <1>1, <1>10, <1>13 DEF UseInv, LatestState
  <2> QED BY <2>1 DEF CleanInv
<1>14. ASSUME c \notin reused' PROVE CleanInv(c)'
  <2>1. EpochsUsed(c)' \subseteq EpochsUsed(c) \cup {s.history}
    BY <1>3, <1>4, <1>5, <1>7, <1>12 DEF EpochsUsed
  <2>2. \A i \in DOMAIN messages' :
           messages'[i].from = c /\ messages'[i].history = s.history
           => messages'[i].generation < s.sent
    <3>1. m.generation < s.sent
      BY <1>4, <1>5, <1>6
    <3>2. ASSUME NEW i \in DOMAIN messages, messages[i].from = c,
                 messages[i].history = s.history
          PROVE  messages[i].generation < s.sent
      <4>1. messages[i].generation < old.sent
        BY <1>5, <1>13, <1>14, <3>2
      <4>2. messages[i] \in MessageRecord
        BY DEF GroupInv, MessagesInv
      <4>3. messages[i].generation \in Nat
        BY <4>2 DEF MessageRecord
      <4> QED BY <1>5, <1>6, <4>1, <4>3
    <3> QED BY <1>7, <3>1, <3>2
  <2>3. \A o \in opened' :
           o.by = c /\ messages'[o.message].history = s.history
           => <<messages'[o.message].from, messages'[o.message].generation>> \in s.used
    BY <1>3, <1>5, <1>7, <1>12, <1>13, <1>14
  <2> QED BY <1>3, <1>5, <1>9, <1>13, <1>14, <2>1, <2>2, <2>3, CleanUses
<1>15. UseInv'
  BY <1>3, <1>5, <1>8, <1>11, <1>14, UseInvFiles DEF UseInv
<1>16. GenerationsUnique'
  <2>1. ASSUME NEW i \in DOMAIN messages, messages[i].from = c,
               messages[i].history = m.history, messages[i].generation = m.generation
        PROVE  c \in reused'
    BY <1>4, <1>6, <1>13, <2>1
  <2> QED BY <1>4, <1>7, <1>10, <2>1 DEF GenerationsUnique
<1> QED BY <1>15, <1>16

(***************************************************************************)
(* decrypt_message returns nothing twice to a client that goes on from its *)
(* latest handle, for the state it files remembers the message.            *)
(***************************************************************************)
LEMMA DecryptUse ==
    ASSUME GroupInv, UseInv, GroupInv', NoReplay, NEW c \in Client,
           NEW h \in DOMAIN states[c], NEW m \in DOMAIN messages, DecryptMessage(c, h, m)
    PROVE  UseInv' /\ NoReplay'
<1>1. PICK old : old = states[c][h]
  OBVIOUS
<1>2. PICK o1 : o1 = [by |-> c, message |-> m, times |-> TimesOpened(c, m) + 1]
  OBVIOUS
<1>3. /\ Opens(old, messages[m]) /\ opened' = opened \cup {o1} /\ Reuses(c, h)
      /\ UNCHANGED <<earlier, joined, commits, messages>>
  BY <1>1, <1>2 DEF DecryptMessage
<1>4. o1.by = c /\ o1.message = m /\ o1.times = TimesOpened(c, m) + 1
  BY <1>2
<1>5. PICK s : /\ File(c, s) /\ Fits(c, s)
               /\ s.history = old.history /\ s.sent = old.sent
               /\ s.used = old.used \cup {<<messages[m].from, messages[m].generation>>}
  BY <1>1, OtherFiles
<1>6. messages[m].history = old.history
      /\ <<messages[m].from, messages[m].generation>> \notin old.used
  BY <1>3 DEF Opens
<1>7. CommitsGrow /\ Fits(c, s)'
  BY <1>3, <1>5, UnchangedCommits
<1>8. /\ HasLatest(c)' /\ LatestState(c)' = s
      /\ \A d \in Client \ {c} : states'[d] = states[d] /\ next_id'[d] = next_id[d]
  BY <1>5, <1>7, FileStates DEF GroupInv
<1>9. /\ reused \subseteq reused'
      /\ c \notin reused' => c \notin reused /\ h = Latest(c) /\ HasLatest(c)
      /\ \A d \in Client \ {c} : d \in reused' <=> d \in reused
  BY <1>3, CleanCaller
<1>10. OthersKept(c)
  BY <1>3, <1>4, <1>8, <1>9 DEF OthersKept, KeepsMessages
\* A clean caller's state remembers what it opened in the epoch.
<1>11. ASSUME c \notin reused'
       PROVE  /\ CleanInv(c) /\ HasLatest(c) /\ LatestState(c) = old
              /\ \A i \in DOMAIN messages :
                    messages[i].from = c /\ messages[i].history = old.history
                    => messages[i].generation < old.sent
              /\ \A o \in opened :
                    o.by = c /\ messages[o.message].history = old.history
                    => <<messages[o.message].from, messages[o.message].generation>>
                           \in old.used
  <2>1. CleanInv(c) /\ HasLatest(c) /\ LatestState(c) = old
    BY <1>1, <1>9, <1>11 DEF UseInv, LatestState
  <2> QED BY <2>1 DEF CleanInv
<1>12. ASSUME c \notin reused' PROVE CleanInv(c)'
  <2>1. EpochsUsed(c)' \subseteq EpochsUsed(c) \cup {s.history}
    BY <1>3, <1>4, <1>5, <1>6 DEF EpochsUsed
  <2>2. \A i \in DOMAIN messages' :
           messages'[i].from = c /\ messages'[i].history = s.history
           => messages'[i].generation < s.sent
    BY <1>3, <1>5, <1>11, <1>12
  <2>3. \A o \in opened' :
           o.by = c /\ messages'[o.message].history = s.history
           => <<messages'[o.message].from, messages'[o.message].generation>> \in s.used
    BY <1>3, <1>4, <1>5, <1>11, <1>12
  <2> QED BY <1>3, <1>5, <1>8, <1>11, <1>12, <2>1, <2>2, <2>3, CleanUses
<1>13. UseInv'
  BY <1>3, <1>5, <1>7, <1>10, <1>12, UseInvFiles DEF UseInv
<1>14. NoReplay'
  <2>1. ASSUME c \notin reused' PROVE o1.times = 1
    <3>1. {o \in opened : o.by = c /\ o.message = m} = {}
      BY <1>6, <1>11, <2>1
    <3>2. TimesOpened(c, m) = 0
      BY <3>1, FS_EmptySet DEF TimesOpened
    <3> QED BY <1>4, <3>2
  <2> QED BY <1>3, <1>4, <1>9, <2>1 DEF NoReplay
<1> QED BY <1>13, <1>14

(***************************************************************************)
(* Losing states is no use.                                                *)
(***************************************************************************)
LEMMA DropUse ==
    ASSUME GroupInv, UseInv, NEW c \in Client,
           Restart(c) \/ \E h \in DOMAIN states[c] : Destroy(c, h)
    PROVE  UseInv'
<1>1. /\ UNCHANGED <<joined, commits, messages, reused, opened>>
      /\ \A d \in Client \ {c} : states'[d] = states[d] /\ next_id'[d] = next_id[d]
      /\ \A h \in DOMAIN states'[c] : /\ h \in DOMAIN states[c]
                                      /\ states'[c][h] = states[c][h]
                                      /\ next_id' = next_id
      /\ \/ ~ HasLatest(c)' /\ earlier' # <<>>
         \/ next_id' = next_id /\ earlier' = earlier
  BY DropStates
<1>2. CommitsGrow
  BY <1>1, UnchangedCommits
<1>3. ASSUME NEW d \in Client
      PROVE  HasLatest(d)' => HasLatest(d) /\ LatestState(d)' = LatestState(d)
  <2>1. CASE d = c
    BY <1>1, <2>1 DEF HasLatest, LatestState, Latest
  <2>2. CASE d # c
    BY <1>1, <2>2 DEF HasLatest, LatestState, Latest
  <2> QED BY <2>1, <2>2
<1>4. ASSUME NEW d \in Client, d \notin reused PROVE CleanInv(d)'
  <2>1. CleanInv(d)
    BY <1>4 DEF UseInv
  <2> QED BY <1>1, <1>2, <1>3, <2>1, KeepsEverything, CleanKept
<1>5. \A d \in Client : EpochsUsed(d)' = EpochsUsed(d)
  BY <1>1, KeepsEverything, KeepsEpochs
<1>6. ASSUME NEW d \in Client, next_id'[d] = 1, earlier' = <<>>
      PROVE  next_id[d] = 1 /\ earlier = <<>>
  <2>1. earlier' = earlier /\ next_id' = next_id
    BY <1>1, <1>6
  <2> QED BY <1>6, <2>1
<1> QED BY <1>1, <1>4, <1>5, <1>6 DEF UseInv

-----------------------------------------------------------------------------
(***************************************************************************)
(* The inductive invariant.  CleanInv is what the two properties about     *)
(* clients that use nothing twice need: without it a latest state could    *)
(* have the generations of an epoch ahead of it, or have forgotten them.   *)
(***************************************************************************)
LEMMA IInvInit == Init => IInv
<1> SUFFICES ASSUME Init PROVE IInv
  OBVIOUS
<1>1. GroupInv
  BY GroupInvInit
<1>2. messages = <<>> /\ opened = {} /\ joined = [c \in Client |-> {}]
  BY DEF Init
<1>3. \A c \in Client : EpochsUsed(c) = {} /\ ~ HasLatest(c)
  BY <1>2 DEF Init, EpochsUsed, HasLatest
<1>4. UseInv
  BY <1>2, <1>3 DEF UseInv, CleanInv
<1>5. GenerationsUnique /\ NoReplay
  BY <1>2 DEF GenerationsUnique, NoReplay
<1> QED BY <1>1, <1>4, <1>5 DEF IInv

(***************************************************************************)
(* The invariant is inductive.                                             *)
(***************************************************************************)
LEMMA IInvStep == IInv /\ [Next]_vars => IInv'
<1> SUFFICES ASSUME IInv, [Next]_vars PROVE IInv'
  OBVIOUS
<1>1. GroupInv /\ UseInv /\ GenerationsUnique /\ NoReplay /\ GroupInv'
  BY GroupInvStep DEF IInv
\* Only encrypt_message makes messages, and only decrypt_message opens them.
<1>2. ASSUME messages' = messages, reused \subseteq reused' PROVE GenerationsUnique'
  BY <1>1, <1>2 DEF GenerationsUnique
<1>3. ASSUME opened' = opened, reused \subseteq reused' PROVE NoReplay'
  BY <1>1, <1>3 DEF NoReplay
<1>4. ASSUME NEW c \in Client, NEW h \in DOMAIN states[c], NEW x \in Client,
             AddMember(c, h, x) \/ RemoveMember(c, h, x)
      PROVE  UseInv' /\ GenerationsUnique' /\ NoReplay'
  <2>1. PICK added \in SUBSET Client, removed \in SUBSET Client :
           added \cap states[c][h].roster = {} /\ Commit(c, h, added, removed)
    BY <1>1, <1>4, MakesCommit
  <2>2. /\ CommitsGrow /\ Reuses(c, h)
        /\ UNCHANGED <<earlier, joined, messages, opened>>
    BY <1>1, <2>1, OwnCommit
  <2>3. PICK s : /\ File(c, s) /\ Fits(c, s)'
                 /\ \E k \in DOMAIN commits' :
                       /\ s.history = Append(states[c][h].history, k)
                       /\ c \notin commits'[k].added
    BY <1>1, <2>1, OwnCommit
  <2>4. UseInv'
    BY <1>1, <2>2, <2>3, MergeUse
  <2> QED BY <1>2, <1>3, <2>2, <2>4, CleanCaller
<1>5. ASSUME NEW c \in Client, NEW h \in DOMAIN states[c], NEW k \in DOMAIN commits,
             ProcessCommit(c, h, k)
      PROVE  UseInv' /\ GenerationsUnique' /\ NoReplay'
  <2>1. Reuses(c, h) /\ UNCHANGED <<earlier, joined, commits, messages, opened>>
    BY <1>5 DEF ProcessCommit
  <2>2. PICK s : /\ File(c, s) /\ Fits(c, s)
                 /\ s.history = Append(states[c][h].history, k)
                 /\ c \notin commits[k].added
    BY <1>1, <1>5, ProcessedCommit
  <2>3. CommitsGrow /\ Fits(c, s)'
    BY <1>1, <2>1, <2>2, UnchangedCommits
  <2>4. UseInv'
    BY <1>1, <2>1, <2>2, <2>3, MergeUse
  <2> QED BY <1>2, <1>3, <2>1, <2>4, CleanCaller
<1>6. ASSUME NEW c \in Client, CreateGroup(c)
      PROVE  UseInv' /\ GenerationsUnique' /\ NoReplay'
  BY <1>1, <1>2, <1>3, <1>6, CreateUse DEF CreateGroup
<1>7. ASSUME NEW c \in Client, NEW k \in DOMAIN commits, ProcessWelcome(c, k)
      PROVE  UseInv' /\ GenerationsUnique' /\ NoReplay'
  <2>1. /\ UNCHANGED <<messages, opened>>
        /\ reused' = IF k \in joined[c] THEN reused \cup {c} ELSE reused
    BY <1>7 DEF ProcessWelcome
  <2> QED BY <1>1, <1>2, <1>3, <1>7, <2>1, WelcomeUse
<1>8. ASSUME NEW c \in Client, NEW h \in DOMAIN states[c], EncryptMessage(c, h)
      PROVE  UseInv' /\ GenerationsUnique' /\ NoReplay'
  <2>1. opened' = opened /\ Reuses(c, h)
    BY <1>8 DEF EncryptMessage
  <2> QED BY <1>1, <1>3, <1>8, <2>1, EncryptUse, CleanCaller
<1>9. ASSUME NEW c \in Client, NEW h \in DOMAIN states[c], NEW m \in DOMAIN messages,
             DecryptMessage(c, h, m)
      PROVE  UseInv' /\ GenerationsUnique' /\ NoReplay'
  <2>1. messages' = messages /\ Reuses(c, h)
    BY <1>9 DEF DecryptMessage
  <2> QED BY <1>1, <1>2, <1>9, <2>1, DecryptUse, CleanCaller
<1>10. ASSUME NEW c \in Client, Restart(c) \/ \E h \in DOMAIN states[c] : Destroy(c, h)
       PROVE  UseInv' /\ GenerationsUnique' /\ NoReplay'
  <2>1. UNCHANGED <<messages, opened, reused>>
    BY <1>1, <1>10, DropStates
  <2> QED BY <1>1, <1>2, <1>3, <1>10, <2>1, DropUse
<1>11. CASE UNCHANGED vars \/ \E k \in DOMAIN commits : Accept(k)
  <2>1. UNCHANGED <<states, next_id, earlier, joined, commits, messages, reused, opened>>
    BY <1>11 DEF vars, Accept
  <2>2. CommitsGrow
    BY <2>1 DEF CommitsGrow
  <2>3. ASSUME NEW d \in Client
        PROVE  /\ KeepsMessages(d) /\ joined'[d] = joined[d]
               /\ HasLatest(d)' => HasLatest(d) /\ LatestState(d)' = LatestState(d)
    <3>1. KeepsMessages(d)
      BY <2>1, KeepsEverything
    <3> QED BY <2>1, <3>1 DEF HasLatest, LatestState, Latest
  <2>4. ASSUME NEW d \in Client, d \notin reused PROVE CleanInv(d)'
    <3>1. CleanInv(d)
      BY <1>1, <2>4 DEF UseInv
    <3> QED BY <1>1, <2>2, <2>3, <3>1, CleanKept
  <2>5. \A d \in Client : EpochsUsed(d)' = EpochsUsed(d)
    BY <1>1, <2>3, KeepsEpochs
  <2>6. UseInv'
    BY <1>1, <2>1, <2>4, <2>5 DEF UseInv
  <2> QED BY <1>1, <1>2, <1>3, <2>1, <2>6 DEF IInv
<1> QED BY <1>1, <1>4, <1>5, <1>6, <1>7, <1>8, <1>9, <1>10, <1>11
        DEF IInv, Next, Call, Usable

(***************************************************************************)
(* The invariant holds in every reachable state.                           *)
(***************************************************************************)
LEMMA IInvAlways == Spec => []IInv
BY IInvInit, IInvStep, PTL DEF Spec

(***************************************************************************)
(* The maps of states and the states in them keep their types.             *)
(***************************************************************************)
THEOREM TypeCorrect == Spec => []TypeOK
<1>1. IInv => TypeOK
  BY DEF IInv, GroupInv, StatesInv, GroupState, TypeOK, AllStates
<1> QED BY <1>1, IInvAlways, PTL

(***************************************************************************)
(* Two states in the same epoch, of whatever clients, have one roster:     *)
(* merging one's own commit, processing another's and joining by its       *)
(* welcome come to the same.                                               *)
(***************************************************************************)
THEOREM RostersAgree == Spec => []RosterAgreement
<1>1. IInv => RosterAgreement
  BY DEF IInv, GroupInv, StatesInv, RosterAgreement, AllStates
<1> QED BY <1>1, IInvAlways, PTL

(***************************************************************************)
(* decrypt_message gives a message to nobody but the members its sender    *)
(* saw, also when handles are used again after the member was removed.     *)
(***************************************************************************)
THEOREM ReadersAreMembers == Spec => []ReadByMembers
<1>1. IInv => ReadByMembers
  BY DEF IInv, GroupInv, MessagesInv
<1> QED BY <1>1, IInvAlways, PTL

(***************************************************************************)
(* A client that goes on from its latest handle and uses each welcome once *)
(* never encrypts two messages with one generation.                        *)
(***************************************************************************)
THEOREM GenerationsDiffer == Spec => []GenerationsUnique
<1>1. IInv => GenerationsUnique
  BY DEF IInv
<1> QED BY <1>1, IInvAlways, PTL

(***************************************************************************)
(* Nor does decrypt_message give such a client a message twice.            *)
(***************************************************************************)
THEOREM NothingReplayed == Spec => []NoReplay
<1>1. IInv => NoReplay
  BY DEF IInv
<1> QED BY <1>1, IInvAlways, PTL

-----------------------------------------------------------------------------
(* One history, with branches *)

\* The history of the first n commits that the delivery service took
Leads(history, n) == Len(history) = n /\ \A i \in 1 .. n : history[i] = accepted[i]

\* A history that departs from what the service took by c's own commits only
OwnBranch(c, history, n) ==
    /\ n \in 0 .. Len(history) /\ n <= Len(accepted)
    /\ \A i \in 1 .. n : history[i] = accepted[i]
    /\ \A i \in DOMAIN history : i > n => commits[history[i]].author = c

\* Every commit that was taken was made in the epoch after those before it.
SerialInv == /\ accepted \in Seq(DOMAIN commits)
             /\ \A m \in DOMAIN accepted : Leads(commits[accepted[m]].before, m - 1)
             /\ \A c \in Client : \A h \in DOMAIN states[c] :
                   \E n : OwnBranch(c, states[c][h].history, n)

\* The delivery service forgets nothing.
AcceptedGrow == /\ Len(accepted) <= Len(accepted')
                /\ \A i \in 1 .. Len(accepted) : accepted'[i] = accepted[i]

(***************************************************************************)
(* A branch stays one as commits are made and taken.                       *)
(***************************************************************************)
LEMMA BranchKept ==
    ASSUME CommitsGrow, AcceptedGrow,
           accepted \in Seq(DOMAIN commits), accepted' \in Seq(DOMAIN commits'),
           NEW c, NEW history \in Seq(DOMAIN commits), NEW n, OwnBranch(c, history, n)
    PROVE  OwnBranch(c, history, n)'
<1>1. /\ Len(accepted) \in Nat /\ Len(accepted') \in Nat
      /\ Len(history) \in Nat /\ DOMAIN history = 1 .. Len(history)
      /\ \A i \in DOMAIN history : history[i] \in DOMAIN commits
  OBVIOUS
<1>2. /\ n \in 0 .. Len(history) /\ n <= Len(accepted)
      /\ \A i \in 1 .. n : history[i] = accepted[i]
      /\ \A i \in DOMAIN history : i > n => commits[history[i]].author = c
  BY DEF OwnBranch
<1>3. n \in Nat /\ n <= Len(accepted')
  BY <1>1, <1>2 DEF AcceptedGrow
<1>4. \A i \in 1 .. n : history[i] = accepted'[i]
  BY <1>1, <1>2, <1>3 DEF AcceptedGrow
<1>5. \A i \in DOMAIN history : i > n => commits'[history[i]].author = c
  BY <1>1, <1>2 DEF CommitsGrow
<1> QED BY <1>2, <1>3, <1>4, <1>5 DEF OwnBranch

(***************************************************************************)
(* A commit that the service took leads along the service's history.       *)
(***************************************************************************)
LEMMA BranchEnds ==
    ASSUME accepted \in Seq(DOMAIN commits), NEW c, NEW k \in DOMAIN commits,
           NEW history \in Seq(DOMAIN commits), NEW m \in DOMAIN accepted,
           Leads(history, m - 1), accepted[m] = k
    PROVE  OwnBranch(c, Append(history, k), m)
<1> DEFINE new == Append(history, k)
<1>1. /\ Len(history) \in Nat /\ DOMAIN history = 1 .. Len(history)
      /\ DOMAIN accepted = 1 .. Len(accepted) /\ Len(accepted) \in Nat
      /\ Len(new) = Len(history) + 1 /\ DOMAIN new = 1 .. Len(history) + 1
      /\ new[Len(history) + 1] = k
      /\ \A i \in DOMAIN history : new[i] = history[i]
  OBVIOUS
<1> HIDE DEF new
<1>2. /\ m \in 1 .. Len(accepted) /\ Len(history) = m - 1
      /\ \A i \in 1 .. m - 1 : history[i] = accepted[i]
  BY <1>1 DEF Leads
<1>3. Len(new) = m /\ DOMAIN new = 1 .. m /\ new[m] = k
  BY <1>1, <1>2
<1>4. \A i \in 1 .. m : new[i] = accepted[i]
  BY <1>1, <1>2, <1>3
<1>5. OwnBranch(c, new, m)
  BY <1>2, <1>3, <1>4 DEF OwnBranch
<1> QED BY <1>5 DEF new

(***************************************************************************)
(* The caller's own commit goes on its branch.                             *)
(***************************************************************************)
LEMMA BranchGoesOn ==
    ASSUME accepted' \in Seq(DOMAIN commits'), NEW c, NEW k \in DOMAIN commits',
           NEW history \in Seq(DOMAIN commits'), NEW n, OwnBranch(c, history, n)',
           commits'[k].author = c
    PROVE  OwnBranch(c, Append(history, k), n)'
<1> DEFINE new == Append(history, k)
<1>1. /\ Len(history) \in Nat /\ DOMAIN history = 1 .. Len(history)
      /\ Len(new) = Len(history) + 1 /\ DOMAIN new = 1 .. Len(history) + 1
      /\ new[Len(history) + 1] = k
      /\ \A i \in DOMAIN history : new[i] = history[i]
  OBVIOUS
<1> HIDE DEF new
<1>2. /\ n \in 0 .. Len(history) /\ n <= Len(accepted')
      /\ \A i \in 1 .. n : history[i] = accepted'[i]
      /\ \A i \in DOMAIN history : i > n => commits'[history[i]].author = c
  BY DEF OwnBranch
<1>3. n \in 0 .. Len(new) /\ \A i \in 1 .. n : new[i] = accepted'[i]
  BY <1>1, <1>2
<1>4. ASSUME NEW i \in DOMAIN new, i > n PROVE commits'[new[i]].author = c
  <2>1. CASE i = Len(history) + 1
    BY <1>1, <2>1
  <2>2. CASE i # Len(history) + 1
    BY <1>1, <1>2, <1>4, <2>2
  <2> QED BY <2>1, <2>2
<1>5. OwnBranch(c, new, n)'
  BY <1>2, <1>3, <1>4 DEF OwnBranch
<1> QED BY <1>5 DEF new

(***************************************************************************)
(* Behind a delivery service that takes one commit for each epoch, clients *)
(* are on its history or on branches of their own.                         *)
(***************************************************************************)
LEMMA SerialInvStep ==
    ASSUME Serial, GroupInv, GroupInv', SerialInv, [Next]_vars
    PROVE  SerialInv'
<1>1. /\ StatesInv /\ accepted \in Seq(DOMAIN commits)
      /\ \A m \in DOMAIN accepted : Leads(commits[accepted[m]].before, m - 1)
  BY DEF GroupInv, SerialInv
<1>2. ASSUME NEW c \in Client, NEW h \in DOMAIN states[c]
      PROVE  /\ states[c][h].history \in Seq(DOMAIN commits)
             /\ \E n : OwnBranch(c, states[c][h].history, n)
  BY <1>1 DEF StatesInv, GroupState, SerialInv
<1>3. /\ CommitsGrow => accepted \in Seq(DOMAIN commits')
      /\ UNCHANGED accepted => AcceptedGrow
  <2>1. CommitsGrow => accepted \in Seq(DOMAIN commits')
    BY <1>1, LargerSeq DEF CommitsGrow
  <2> QED BY <1>1, <2>1 DEF AcceptedGrow
<1>4. ASSUME CommitsGrow, UNCHANGED accepted,
             \A c \in Client : \A h \in DOMAIN states'[c] :
                \/ h \in DOMAIN states[c] /\ states'[c][h] = states[c][h]
                \/ \E n : OwnBranch(c, states[c][h].history, n)'
      PROVE  SerialInv'
  <2>1. accepted' \in Seq(DOMAIN commits')
    BY <1>3, <1>4
  <2>2. ASSUME NEW m \in DOMAIN accepted' PROVE Leads(commits[accepted[m]].before, m - 1)'
    <3>1. m \in DOMAIN accepted /\ accepted[m] \in DOMAIN commits
      BY <1>1, <1>4, <2>2
    <3>2. commits'[accepted[m]] = commits[accepted[m]]
      BY <1>4, <3>1 DEF CommitsGrow
    <3> QED BY <1>1, <1>4, <3>1, <3>2 DEF Leads
  <2>3. ASSUME NEW c \in Client, NEW h \in DOMAIN states'[c]
        PROVE  \E n : OwnBranch(c, states[c][h].history, n)'
    <3>1. CASE h \in DOMAIN states[c] /\ states'[c][h] = states[c][h]
      <4>1. PICK history : history = states[c][h].history
        OBVIOUS
      <4>2. PICK n : OwnBranch(c, history, n)
        BY <1>2, <3>1, <4>1
      <4>3. OwnBranch(c, history, n)'
        BY <1>1, <1>2, <1>3, <1>4, <2>1, <3>1, <4>1, <4>2, BranchKept
      <4> QED BY <3>1, <4>1, <4>3 DEF OwnBranch
    <3> QED BY <1>4, <3>1
  <2> QED BY <2>1, <2>2, <2>3 DEF SerialInv
<1>5. ASSUME NEW c \in Client, NEW s, File(c, s), CommitsGrow, UNCHANGED accepted,
             NEW n, OwnBranch(c, s.history, n)'
      PROVE  SerialInv'
  <2>1. /\ states' = [states EXCEPT ![c] =
              [h \in DOMAIN states[c] \cup {next_id[c]} |->
                  IF h = next_id[c] THEN s ELSE states[c][h]]]
        /\ DOMAIN states = Client
    BY <1>1, <1>5 DEF File, StatesInv
  <2>2. \A d \in Client : \A h \in DOMAIN states'[d] :
           \/ d = c /\ states'[d][h] = s
           \/ h \in DOMAIN states[d] /\ states'[d][h] = states[d][h]
    BY <2>1
  <2>3. ASSUME NEW d \in Client, NEW h \in DOMAIN states'[d], d = c, states'[d][h] = s
        PROVE  OwnBranch(d, states[d][h].history, n)'
    BY <1>5, <2>3 DEF OwnBranch
  <2> QED BY <1>4, <1>5, <2>2, <2>3
<1>6. ASSUME UNCHANGED commits PROVE CommitsGrow
  BY <1>6 DEF CommitsGrow
<1>7. ASSUME NEW c \in Client, NEW h \in Usable(c), NEW x \in Client,
             AddMember(c, h, x) \/ RemoveMember(c, h, x)
      PROVE  SerialInv'
  <2>1. PICK added \in SUBSET Client, removed \in SUBSET Client :
           added \cap states[c][h].roster = {} /\ Commit(c, h, added, removed)
    BY <1>7, MakesCommit DEF Usable
  <2>2. PICK history : history = states[c][h].history
    OBVIOUS
  <2>3. CommitsGrow /\ UNCHANGED accepted
    BY <2>1, OwnCommit DEF Commit, Usable
  <2>4. PICK k \in DOMAIN commits' :
           k = Len(commits') /\ \E s : File(c, s) /\ s.history = Append(history, k)
    BY <2>1, <2>2, OwnCommit DEF Usable
  <2>5. commits'[k].author = c
    <3>1. PICK commit : commits' = Append(commits, commit) /\ commit.author = c
      BY <2>1 DEF Commit
    <3>2. commits \in Seq(CommitRecord)
      BY DEF GroupInv, CommitsInv
    <3> QED BY <2>4, <3>1, <3>2
  <2>6. PICK n : OwnBranch(c, history, n)
    BY <1>2, <2>2 DEF Usable
  <2>7. history \in Seq(DOMAIN commits) /\ accepted' \in Seq(DOMAIN commits')
    BY <1>2, <1>3, <2>2, <2>3 DEF Usable
  <2>8. OwnBranch(c, history, n)' /\ history \in Seq(DOMAIN commits')
    BY <1>1, <1>3, <2>3, <2>6, <2>7, BranchKept, HistoryKept
  <2>9. OwnBranch(c, Append(history, k), n)'
    BY <2>4, <2>5, <2>7, <2>8, BranchGoesOn
  <2>10. PICK s : File(c, s) /\ s.history = Append(history, k)
    BY <2>4
  <2>11. OwnBranch(c, s.history, n)'
    BY <2>9, <2>10 DEF OwnBranch
  <2> QED BY <1>5, <2>3, <2>10, <2>11
<1>8. ASSUME NEW c \in Client, NEW k \in DOMAIN commits,
             ProcessWelcome(c, k) \/ \E h \in Usable(c) : ProcessCommit(c, h, k)
      PROVE  SerialInv'
  <2>1. PICK s : File(c, s) /\ s.history = Append(commits[k].before, k)
    BY <1>8, OtherFiles, ProcessedCommit DEF Usable
  <2>2. UNCHANGED <<commits, accepted>>
    BY <1>8 DEF ProcessWelcome, ProcessCommit
  <2>3. PICK m \in DOMAIN accepted : accepted[m] = k
    BY <1>8 DEF ProcessWelcome, ProcessCommit, Distributed
  <2>4. PICK before : before = commits[k].before
    OBVIOUS
  <2>5. before \in Seq(DOMAIN commits) /\ Leads(before, m - 1)
    <3>1. before \in Seq(1 .. (k - 1)) /\ 1 .. (k - 1) \subseteq DOMAIN commits
      BY <2>4 DEF GroupInv, CommitsInv
    <3> QED BY <1>1, <2>3, <2>4, <3>1, LargerSeq
  <2>6. OwnBranch(c, Append(before, k), m)
    BY <1>1, <2>3, <2>5, BranchEnds
  <2>7. OwnBranch(c, s.history, m)'
    BY <2>1, <2>2, <2>4, <2>6 DEF OwnBranch
  <2> QED BY <1>5, <1>6, <2>1, <2>2, <2>7
<1>9. ASSUME NEW c \in Client,
             \/ CreateGroup(c)
             \/ \E h \in Usable(c) : EncryptMessage(c, h)
             \/ \E h \in Usable(c), m \in DOMAIN messages : DecryptMessage(c, h, m)
      PROVE  SerialInv'
  <2>1. PICK s : /\ File(c, s)
                 /\ \/ s.history = <<>>
                    \/ \E h \in DOMAIN states[c] : s.history = states[c][h].history
    BY <1>9, OtherFiles DEF Usable
  <2>2. UNCHANGED <<commits, accepted>>
    BY <1>9 DEF CreateGroup, EncryptMessage, DecryptMessage
  <2>3. OwnBranch(c, <<>>, 0)
    BY <1>1 DEF OwnBranch
  <2>4. PICK n : OwnBranch(c, s.history, n)
    BY <1>2, <2>1, <2>3
  <2>5. OwnBranch(c, s.history, n)'
    BY <2>2, <2>4 DEF OwnBranch
  <2> QED BY <1>5, <1>6, <2>1, <2>2, <2>5
<1>10. ASSUME NEW c \in Client, Restart(c) \/ \E h \in DOMAIN states[c] : Destroy(c, h)
       PROVE  SerialInv'
  <2>1. UNCHANGED <<commits, accepted>>
    BY <1>10, DropStates DEF Restart, Destroy
  <2>2. \A d \in Client : \A h \in DOMAIN states'[d] :
           h \in DOMAIN states[d] /\ states'[d][h] = states[d][h]
    BY <1>10, DropStates
  <2> QED BY <1>4, <1>6, <2>1, <2>2
<1>11. ASSUME NEW k \in DOMAIN commits, Accept(k) PROVE SerialInv'
  <2>1. /\ UNCHANGED <<states, commits>> /\ accepted' = Append(accepted, k)
        /\ commits[k].before = accepted
    BY <1>11 DEF Accept
  <2>2. PICK l \in Nat : l = Len(accepted) /\ DOMAIN accepted = 1 .. l
    BY <1>1
  <2>3. /\ accepted' \in Seq(DOMAIN commits) /\ Len(accepted') = l + 1
        /\ DOMAIN accepted' = 1 .. l + 1 /\ accepted'[l + 1] = k
        /\ \A i \in 1 .. l : accepted'[i] = accepted[i]
    BY <1>1, <2>1, <2>2
  <2>4. AcceptedGrow /\ CommitsGrow
    BY <2>1, <2>2, <2>3 DEF AcceptedGrow, CommitsGrow
  <2>5. ASSUME NEW m \in DOMAIN accepted' PROVE Leads(commits[accepted[m]].before, m - 1)'
    <3>1. CASE m = l + 1
      <4>1. commits'[accepted'[m]].before = accepted /\ m - 1 = l
        BY <2>1, <2>3, <3>1
      <4> QED BY <2>2, <2>3, <4>1 DEF Leads
    <3>2. CASE m # l + 1
      <4>1. m \in 1 .. l /\ accepted'[m] = accepted[m]
        BY <2>3, <2>5, <3>2
      <4>2. PICK before : before = commits[accepted[m]].before
        OBVIOUS
      <4>3. Len(before) = m - 1 /\ \A i \in 1 .. m - 1 : before[i] = accepted[i]
        BY <1>1, <2>2, <4>1, <4>2 DEF Leads
      <4>4. \A i \in 1 .. m - 1 : before[i] = accepted'[i]
        BY <2>3, <4>1, <4>3
      <4> QED BY <2>1, <4>1, <4>2, <4>3, <4>4 DEF Leads
    <3> QED BY <3>1, <3>2
  <2>6. ASSUME NEW c \in Client, NEW h \in DOMAIN states'[c]
        PROVE  \E n : OwnBranch(c, states[c][h].history, n)'
    <3>1. PICK history : history = states[c][h].history
      OBVIOUS
    <3>2. PICK n : OwnBranch(c, history, n) /\ history \in Seq(DOMAIN commits)
      BY <1>2, <2>1, <3>1
    <3>3. OwnBranch(c, history, n)'
      BY <1>1, <2>1, <2>3, <2>4, <3>2, BranchKept
    <3> QED BY <2>1, <3>1, <3>3 DEF OwnBranch
  <2> QED BY <2>1, <2>3, <2>5, <2>6 DEF SerialInv
<1>12. CASE UNCHANGED vars
  BY <1>4, <1>6, <1>12 DEF vars
<1> QED BY <1>7, <1>8, <1>9, <1>10, <1>11, <1>12 DEF Next, Call

(***************************************************************************)
(* Behind a delivery service that takes one commit for each epoch, clients *)
(* have merged what it took, in order, and after that only what is their   *)
(* own: whoever merges a commit of another merges the one that won.        *)
(***************************************************************************)
THEOREM BranchesAreOwn == Spec => []OwnBranchesOnly
<1> DEFINE SInv == Serial => SerialInv
<1>1. Init => SInv
  BY DEF Init, SerialInv
<1>2. (GroupInv /\ SInv) /\ [Next]_vars => (GroupInv /\ SInv)'
  BY GroupInvStep, SerialInvStep
<1>3. GroupInv /\ SInv => OwnBranchesOnly
  <2> SUFFICES ASSUME GroupInv, Serial, SerialInv, NEW c \in Client, NEW h \in DOMAIN states[c]
               PROVE  \E n \in 0 .. Len(states[c][h].history) :
                         /\ n <= Len(accepted)
                         /\ \A i \in 1 .. n : states[c][h].history[i] = accepted[i]
                         /\ \A i \in DOMAIN states[c][h].history :
                               i > n => commits[states[c][h].history[i]].author
                                           = states[c][h].me
    BY DEF OwnBranchesOnly, AllStates
  <2>1. PICK n : OwnBranch(c, states[c][h].history, n)
    BY DEF SerialInv
  <2>2. states[c][h].me = c
    BY DEF GroupInv, StatesInv
  <2> QED BY <2>1, <2>2 DEF OwnBranch
<1> HIDE DEF SInv
<1> QED BY <1>1, <1>2, <1>3, GroupInvInit, PTL DEF Spec
=============================================================================
