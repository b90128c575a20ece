---------------------------- MODULE MCRetryClient ----------------------------
(***************************************************************************)
(* Instances of RetryClient for TLC: up to four attempts, the default, and *)
(* waits short enough that their ceiling is reached.                       *)
(***************************************************************************)
EXTENDS RetryClient
=============================================================================
