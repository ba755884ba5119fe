---------------------------- MODULE MCPrivsepDaemon ----------------------------
(* PrivsepDaemon with the constants of MCDaemon, for TLC. *)
EXTENDS MCDaemon, PrivsepDaemon
=============================================================================
