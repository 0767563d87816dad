------------------------------- MODULE MCApc --------------------------------
(* A small connection for TLC. *)
EXTENDS Apc
=============================================================================
