----------------------------- MODULE MCRuntime ------------------------------
(* Small instances of the supervisor for TLC. *)
EXTENDS Runtime
==============================================================================
