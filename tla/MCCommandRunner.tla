-------------------------- MODULE MCCommandRunner --------------------------
(* A small instance of CommandRunner. *)
EXTENDS CommandRunner, TLC

CONSTANTS leader, p, q
============================================================================
