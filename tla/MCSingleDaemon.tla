---------------------------- MODULE MCSingleDaemon ----------------------------
(* SingleDaemon with the constants of MCDaemon, for TLC. *)
EXTENDS MCDaemon, SingleDaemon
=============================================================================
