---------------------------- MODULE MCWasmStore ----------------------------
(***************************************************************************)
(* WasmStore for TLC.                                                      *)
(***************************************************************************)
EXTENDS WasmStore
=============================================================================
