------------------------------ MODULE MCDaemon ------------------------------
(***************************************************************************)
(* Instances of Daemon for TLC: the names of its configurations say which  *)
(* half of it each looks at, and their constants are its bounds.           *)
(***************************************************************************)
EXTENDS Daemon
=============================================================================
