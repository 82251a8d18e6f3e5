---------------------------- MODULE HandleStore ----------------------------
(***************************************************************************)
(* What applications may rely on when a binding layer keeps their secrets  *)
(* and gives them handles: a handle is for one thing, from the call that   *)
(* returned it to the one that destroys it, and is never for another.      *)
(* When a program starts again its things are gone, and its handles start  *)
(* over.                                                                   *)
(***************************************************************************)
EXTENDS Naturals

CONSTANTS Program,   \* the programs, each with a store of its own
          Name       \* the values a handle can have

VARIABLES things,    \* what each handle of each program is for
          issued     \* the handles the programs have been given

vars == <<things, issued>>

Handle == Program \X Name

Init == /\ things = [h \in {} |-> h]
        /\ issued = {}

Create(h) == /\ issued' = issued \cup {h}
             /\ DOMAIN things' = DOMAIN things \cup {h}
             /\ \A k \in DOMAIN things : things'[k] = things[k]

\* A call on h works on no other thing.
Update(h) == /\ UNCHANGED issued
             /\ h \in DOMAIN things
             /\ DOMAIN things' = DOMAIN things
             /\ things' = [things EXCEPT ![h] = things'[h]]

Destroy(h) == /\ UNCHANGED issued
              /\ h \in DOMAIN things
              /\ things' = [k \in DOMAIN things \ {h} |-> things[k]]

Restart(p) ==
    LET own == {p} \X Name
    IN  /\ issued' = issued \ own
        /\ things' = [h \in DOMAIN things \ own |-> things[h]]

Next == \/ \E h \in Handle \ issued : Create(h)
        \/ \E h \in issued : Update(h) \/ Destroy(h)
        \/ \E p \in Program : Restart(p)

Spec == Init /\ [][Next]_vars
=============================================================================
