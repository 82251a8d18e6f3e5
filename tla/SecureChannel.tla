---------------------------- MODULE SecureChannel ----------------------------
(***************************************************************************)
(* What two applications that talk through Double Ratchet sessions are     *)
(* promised: a message that was never sent is never handed over, and a     *)
(* message that was sent is handed over at most once.  Order is not        *)
(* promised, and neither is arrival.                                       *)
(***************************************************************************)
EXTENDS Naturals

CONSTANT Message      \* the messages an application can send

VARIABLE handed       \* how often each message sent was handed over

Init == handed = [m \in {} |-> 0]

Send == \E m \in DOMAIN handed' \ DOMAIN handed :
            /\ m \in Message
            /\ handed' = [x \in DOMAIN handed \cup {m} |->
                              IF x = m THEN 0 ELSE handed[x]]

Receive == \E m \in DOMAIN handed :
               /\ handed[m] = 0
               /\ handed' = [handed EXCEPT ![m] = 1]

Next == Send \/ Receive

Spec == Init /\ [][Next]_handed
==============================================================================
