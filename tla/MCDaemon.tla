------------------------------ MODULE MCDaemon -------------------------------
(* Small instances of the daemon host for TLC. *)
EXTENDS Daemon
==============================================================================
