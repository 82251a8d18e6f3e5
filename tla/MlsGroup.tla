------------------------------ MODULE MlsGroup ------------------------------
(***************************************************************************)
(* One MLS group: the stateless wrapper of src/src/mls/mod.rs, and each    *)
(* client's map from handles to group states in src/src/api.rs.  A call    *)
(* reads the state under a handle, works on a copy, and files the state it *)
(* ends with under a new handle; the old handle keeps the old state.  So a *)
(* call is atomic here: between its read and its insert, other calls can   *)
(* do no more than they can to a handle that is used twice.  A call that   *)
(* returns an error files nothing, and has no action.                      *)
(*                                                                         *)
(* OpenMLS is outside the repository and modelled by what the wrapper uses *)
(* of it.  The epoch's secrets are named by the history, the sequence of   *)
(* commits merged so far.  A message is opened in the epoch it was sent in *)
(* (no past epochs are kept) and its key is then deleted.                  *)
(*                                                                         *)
(* The map of states is all there is of them: neither binding gives a      *)
(* state out.  A program that starts again has none, and counts its        *)
(* handles from 1; the secrets of its key package, which the application   *)
(* keeps, are enough to process its welcomes once more.                    *)
(*                                                                         *)
(* A client here is a signature key: that of a key package, or the one     *)
(* that create_group generates for the creator.  The creator's own key     *)
(* package has another key and can be added like everybody's; it is one of *)
(* the other clients, whose states in the code are in the creator's map.   *)
(***************************************************************************)
EXTENDS Integers, Sequences, FiniteSets
LOCAL INSTANCE FiniteSetsExt

CONSTANTS Client,       \* the signature keys of Creator and of key packages
          Creator,      \* the one of create_group, which is in no key package
          None,
          MaxCommits,   \* bound: commits
          MaxMessages,  \* bound: application messages
          MaxHandles,   \* bound: handles issued by all clients together
          MaxDestroyed, \* bound: handles destroyed by clients since they started
          MaxRestarts,  \* bound: restarts of the clients together
          Serial        \* does a delivery service take one commit for each epoch
                        \* and give out only those, to clients that keep to them?

ASSUME MlsAssumption == /\ Creator \in Client
                        /\ {MaxCommits, MaxMessages, MaxHandles,
                            MaxDestroyed, MaxRestarts} \subseteq Nat
                        /\ Serial \in BOOLEAN

VARIABLES states,    \* MLS_STATES of each client: from handles to states
          next_id,   \* NEXT_MLS_ID of each client
          earlier,   \* for each restart of a client, the handles issued before
          joined,    \* the welcomes each client has processed
          commits,   \* the commits made: the first n of them are 1 .. n
          accepted,  \* the commits the delivery service has taken, in order
          messages,  \* the application messages made, likewise numbered
          reused,    \* the clients that used a handle or a welcome again
          opened     \* the messages decrypt_message returned: by whom, how often

vars == <<states, next_id, earlier, joined, commits, accepted, messages, reused, opened>>

-----------------------------------------------------------------------------
(* Group states *)

CreatedState(c) ==
    [me |-> c, history |-> <<>>, roster |-> {c}, sent |-> 0, used |-> {}]

\* Mutant: the epoch is named after the commit to come.
NewEpochAhead(s, commit, roster) ==
    [s EXCEPT !.history = Append(@, commit + 1), !.roster = roster,
              !.sent = 0, !.used = {}]

\* What is left of an epoch's keys when the next one starts: nothing.
NewEpoch(s, commit, roster) ==
    [s EXCEPT !.history = Append(@, commit), !.roster = roster,
              !.sent = 0, !.used = {}]

RosterAfter(roster, commit) == (roster \cup commit.added) \ commit.removed

\* Mutant: those who merge another's commit keep their roster.
AfterCommitOldRoster(s, k) == NewEpoch(s, k, s.roster)

\* merge_pending_commit, merge_staged_commit
AfterCommit(s, k) == NewEpoch(s, k, RosterAfter(s.roster, commits[k]))

\* A member that was removed keeps a state with which nothing can be done.
IsActive(s) == s.me \in s.roster

\* Mutant: create_message works, and the state it ends with is not saved.
EncryptUnsaved(s) == s

AfterEncrypt(s) == [s EXCEPT !.sent = @ + 1]

\* Mutant: the key is not deleted.
OpenKeeping(s, m) == s

AfterOpen(s, m) == [s EXCEPT !.used = @ \cup {<<m.from, m.generation>>}]

\* Mutant: a removed member can still open messages.
OpensEvicted(s, m) ==
    /\ m.history = s.history
    /\ m.from # s.me
    /\ <<m.from, m.generation>> \notin s.used

\* process_message on an application message
Opens(s, m) ==
    /\ IsActive(s)
    /\ m.history = s.history
    /\ m.from # s.me
    /\ <<m.from, m.generation>> \notin s.used

\* Mutant: a commit of any epoch is taken.
TakesAny(s, commit) == IsActive(s) /\ commit.author # s.me

\* process_message on a commit: another member's, made in this epoch
Takes(s, commit) ==
    /\ IsActive(s)
    /\ commit.before = s.history
    /\ commit.author # s.me

-----------------------------------------------------------------------------
Init == /\ states = [c \in Client |-> [h \in {} |-> None]]
        /\ next_id = [c \in Client |-> 1]
        /\ earlier = <<>>
        /\ joined = [c \in Client |-> {}]
        /\ commits = <<>>
        /\ accepted = <<>>
        /\ messages = <<>>
        /\ reused = {}
        /\ opened = {}

Latest(c) == next_id[c] - 1

\* The client's handles of states on the history the delivery service took
OnCourse(c) ==
    {h \in DOMAIN states[c] :
        LET history == states[c][h].history
        IN  /\ Len(history) <= Len(accepted)
            /\ \A i \in DOMAIN history : history[i] = accepted[i]}

\* A commit of the client's latest state lost to another of the same epoch.
HasLost(c) ==
    \E h \in DOMAIN states[c], i \in DOMAIN accepted :
        /\ h = Latest(c)
        /\ i <= Len(states[c][h].history) /\ states[c][h].history[i] # accepted[i]

(***************************************************************************)
(* The handles a client calls with.  Under Serial a client goes on from    *)
(* its latest handle, and once a commit of its own has lost it may go back *)
(* to the last one from before, which it has kept.                         *)
(***************************************************************************)
Usable(c) ==
    {h \in DOMAIN states[c] :
        Serial => h = Latest(c) \/ (HasLost(c) /\ h = Max(OnCourse(c)))}

\* The call used handle h, and there is a later one that it should have used.
Reuses(c, h) == reused' = IF h = Latest(c) THEN reused ELSE reused \cup {c}

Issued == MapThenSumSet(Latest, Client)
          + MapThenSumSet(LAMBDA i : earlier[i], DOMAIN earlier)

Destroyed == MapThenSumSet(LAMBDA c : Latest(c) - Cardinality(DOMAIN states[c]), Client)

\* The result is filed under a new handle.
File(c, s) ==
    /\ Issued < MaxHandles                                   \* bound
    /\ states' = [states EXCEPT ![c] =
          [h \in DOMAIN @ \cup {next_id[c]} |-> IF h = next_id[c] THEN s ELSE @[h]]]
    /\ next_id' = [next_id EXCEPT ![c] = @ + 1]

CreateGroup(c) ==
    /\ c = Creator /\ next_id[c] = 1 /\ earlier = <<>>       \* one group
    /\ File(c, CreatedState(c))
    /\ UNCHANGED <<earlier, joined, commits, accepted, messages, reused, opened>>

-----------------------------------------------------------------------------
(* Commits *)

\* Mutant: the commit is made and stays pending.
OwnCommitPending(s, k, commit) == s

\* add_member and remove_member merge their commit before they return it.
AfterOwnCommit(s, k, commit) == NewEpoch(s, k, RosterAfter(s.roster, commit))

Commit(c, h, added, removed) ==
    LET s == states[c][h]
        k == Len(commits) + 1
        commit == [author |-> c, before |-> s.history,
                   added |-> added, removed |-> removed,
                   roster |-> (s.roster \cup added) \ removed]
    IN  /\ k <= MaxCommits                                   \* bound
        /\ IsActive(s)
        /\ commits' = Append(commits, commit)
        /\ File(c, AfterOwnCommit(s, k, commit))
        /\ Reuses(c, h)
        /\ UNCHANGED <<earlier, joined, accepted, messages, opened>>

\* OpenMLS refuses a member's key package, ...
AddMember(c, h, x) ==
    /\ x # Creator
    /\ x \notin states[c][h].roster
    /\ Commit(c, h, {x}, {})

\* ... and to remove what is not a member, or the caller.
RemoveMember(c, h, x) ==
    /\ x \in states[c][h].roster \ {c}
    /\ Commit(c, h, {}, {x})

(***************************************************************************)
(* The delivery service takes a commit, which its author has merged when   *)
(* it made it; the other commits of that epoch have lost.                  *)
(***************************************************************************)
Accept(k) ==
    /\ Serial
    /\ commits[k].before = accepted
    /\ accepted' = Append(accepted, k)
    /\ UNCHANGED <<states, next_id, earlier, joined, commits, messages, reused, opened>>

\* Commits and welcomes that are given out
Distributed(k) == Serial => \E i \in DOMAIN accepted : accepted[i] = k

\* process_commit; decrypt_message does the same when it is given a commit.
ProcessCommit(c, h, k) ==
    /\ Distributed(k)
    /\ Takes(states[c][h], commits[k])
    /\ File(c, AfterCommit(states[c][h], k))
    /\ Reuses(c, h)
    /\ UNCHANGED <<earlier, joined, commits, accepted, messages, opened>>

\* The welcome that add_member returned with commit k
ProcessWelcome(c, k) ==
    /\ c \in commits[k].added
    /\ Distributed(k)
    /\ Serial => /\ k \notin joined[c]
                 /\ \A h \in OnCourse(c) : Len(states[c][h].history) <= Len(commits[k].before)
    /\ File(c, [me |-> c, history |-> Append(commits[k].before, k),
                roster |-> commits[k].roster, sent |-> 0, used |-> {}])
    /\ joined' = [joined EXCEPT ![c] = @ \cup {k}]
    /\ reused' = IF k \in joined[c] THEN reused \cup {c} ELSE reused
    /\ UNCHANGED <<earlier, commits, accepted, messages, opened>>

-----------------------------------------------------------------------------
(* Application messages *)

EncryptMessage(c, h) ==
    LET s == states[c][h]
    IN  /\ Len(messages) < MaxMessages                       \* bound
        /\ IsActive(s)
        /\ messages' = Append(messages,
              [from |-> c, history |-> s.history, generation |-> s.sent,
               roster |-> s.roster])
        /\ File(c, AfterEncrypt(s))
        /\ Reuses(c, h)
        /\ UNCHANGED <<earlier, joined, commits, accepted, opened>>

TimesOpened(c, m) == Cardinality({o \in opened : o.by = c /\ o.message = m})

DecryptMessage(c, h, m) ==
    /\ Opens(states[c][h], messages[m])
    /\ File(c, AfterOpen(states[c][h], messages[m]))
    /\ opened' = opened \cup
                    {[by |-> c, message |-> m, times |-> TimesOpened(c, m) + 1]}
    /\ Reuses(c, h)
    /\ UNCHANGED <<earlier, joined, commits, accepted, messages>>

\* mls_destroy_state; a client that may have to go back keeps what it needs.
Destroy(c, h) ==
    /\ Destroyed < MaxDestroyed                              \* bound
    /\ h \in DOMAIN states[c]
    /\ Serial => h < Max(OnCourse(c))
    /\ states' = [states EXCEPT ![c] = [x \in DOMAIN @ \ {h} |-> @[x]]]
    /\ UNCHANGED <<next_id, earlier, joined, commits, accepted, messages, reused, opened>>

\* The program is started again.
Restart(c) ==
    /\ Len(earlier) < MaxRestarts                            \* bound
    /\ earlier' = Append(earlier, Latest(c))
    /\ states' = [states EXCEPT ![c] = [h \in {} |-> None]]
    /\ next_id' = [next_id EXCEPT ![c] = 1]
    /\ UNCHANGED <<joined, commits, accepted, messages, reused, opened>>

Call(c) ==
    \/ CreateGroup(c)
    \/ \E h \in Usable(c), x \in Client : AddMember(c, h, x) \/ RemoveMember(c, h, x)
    \/ \E h \in Usable(c), k \in DOMAIN commits :
          ProcessCommit(c, h, k)
    \/ \E k \in DOMAIN commits : ProcessWelcome(c, k)
    \/ \E h \in Usable(c) : EncryptMessage(c, h)
    \/ \E h \in Usable(c), m \in DOMAIN messages : DecryptMessage(c, h, m)
    \/ \E h \in DOMAIN states[c] : Destroy(c, h)

Next == \/ \E c \in Client : Call(c) \/ Restart(c)
        \/ \E k \in DOMAIN commits : Accept(k)

Spec == Init /\ [][Next]_vars

\* A client does not leave commits and welcomes unread forever.
CatchesUp(c) == \/ \E h \in Usable(c), k \in DOMAIN commits : ProcessCommit(c, h, k)
                \/ \E k \in DOMAIN commits : ProcessWelcome(c, k)

FairSpec == Spec /\ \A c \in Client : WF_vars(CatchesUp(c))

-----------------------------------------------------------------------------
(* Safety *)

AllStates == UNION {{states[c][h] : h \in DOMAIN states[c]} : c \in Client}

\* The types of the maps and of the group states.
TypeOK == /\ DOMAIN states = Client
          /\ next_id \in [Client -> Nat \ {0}]
          /\ \A c \in Client : DOMAIN states[c] \subseteq 1 .. Latest(c)
          /\ \A s \in AllStates : /\ s.me \in Client
                                  /\ s.history \in Seq(DOMAIN commits)
                                  /\ s.roster \subseteq Client
                                  /\ s.sent \in Nat

(***************************************************************************)
(* Whoever is in an epoch knows the same members: the author of a commit   *)
(* (which merged it at once), those who processed it, and those it added.  *)
(***************************************************************************)
RosterAgreement ==
    \A s, t \in AllStates : s.history = t.history => s.roster = t.roster

(***************************************************************************)
(* A message is only read by members of the group as its sender saw it,    *)
(* whatever handles, old ones included, the clients use.                   *)
(***************************************************************************)
ReadByMembers ==
    \A o \in opened :
        o.by \in messages[o.message].roster \ {messages[o.message].from}

(***************************************************************************)
(* A client encrypts two messages with one generation of its sender        *)
(* ratchet only if it went back to an old handle or welcome: forks of the  *)
(* group, and what the others do, are no reason for it.                    *)
(***************************************************************************)
GenerationsUnique ==
    \A i, j \in DOMAIN messages :
        /\ messages[i].from = messages[j].from
        /\ messages[i].history = messages[j].history
        /\ messages[i].generation = messages[j].generation
        => i = j \/ messages[i].from \in reused

(***************************************************************************)
(* decrypt_message returns a message a second time only to a client that   *)
(* went back to an old handle or welcome.                                  *)
(***************************************************************************)
NoReplay == \A o \in opened : o.times > 1 => o.by \in reused

(***************************************************************************)
(* With a delivery service that takes one commit for each epoch there is   *)
(* one history, that of the commits it took, and a client departs from it  *)
(* only by commits of its own, which it had merged before they were taken: *)
(* nobody is in a branch that another client has made.                     *)
(***************************************************************************)
OwnBranchesOnly ==
    Serial =>
    \A s \in AllStates : \E n \in 0 .. Len(s.history) :
        /\ n <= Len(accepted)
        /\ \A i \in 1 .. n : s.history[i] = accepted[i]
        /\ \A i \in DOMAIN s.history : i > n => commits[s.history[i]].author = s.me

-----------------------------------------------------------------------------
(* Liveness *)

InLatestEpoch(c) == \E h \in DOMAIN states[c] : states[c][h].history = accepted

IsMember(c) == accepted # <<>> /\ c \in commits[accepted[Len(accepted)]].roster

(***************************************************************************)
(* Every member gets to the latest epoch the delivery service took, or is  *)
(* removed: the author of a commit by having merged it, the others by      *)
(* processing it, and those whose own commit lost to it by going back to   *)
(* the handle from before.                                                 *)
(***************************************************************************)
MembersCatchUp == \A c \in Client : IsMember(c) ~> (InLatestEpoch(c) \/ ~ IsMember(c))
=============================================================================
