-------------------------- MODULE MCSessionStore ---------------------------
(***************************************************************************)
(* SessionStore for TLC, with a claim of api.rs that the code does not     *)
(* keep.                                                                   *)
(***************************************************************************)
EXTENDS SessionStore

(***************************************************************************)
(* "All fallible operations return `Result<T, String>`" (api.rs:11): no    *)
(* call panics.                                                            *)
(***************************************************************************)
NoCallPanics == \A r \in returned : r.outcome # "panic"
=============================================================================
