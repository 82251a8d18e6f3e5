------------------------------ MODULE SkipLoop ------------------------------
(***************************************************************************)
(* The skipping loop of Session::decrypt and of                            *)
(* skip_current_receiving_chain, one iteration at a time, to compare with  *)
(* the closed form RatchetSession!Skip that the other modules use.         *)
(***************************************************************************)
EXTENDS RatchetSession

\* Derive a key, store it, look at the size of the map.
OneIteration(s, dh) ==
    LET name == <<dh, s.receiving_chain.index>>
        keys == [k \in DOMAIN s.skipped_keys \cup {name} |->
                    IF k = name THEN NextMessageKey(s.receiving_chain)
                                ELSE s.skipped_keys[k]]
    IN  [session |-> [s EXCEPT !.receiving_chain = Advanced(@),
                               !.skipped_keys = keys],
         refused |-> Cardinality(DOMAIN keys) > MaxSkip]

\* The loop: the session it leaves behind, and whether it returned an error
Loop(s, dh, until) ==
    LET after[i \in 0 .. until] ==
            IF i = 0
            THEN [session |-> s, refused |-> FALSE]
            ELSE LET now == after[i - 1]
                 IN  IF now.refused \/ now.session.receiving_chain.index >= until
                     THEN now
                     ELSE OneIteration(now.session, dh)
    IN  after[until]
=============================================================================
