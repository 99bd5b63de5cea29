-------------------------- MODULE MCListenerGates --------------------------
(* A small instance of ListenerGates. *)
EXTENDS ListenerGates

CONSTANTS r1, r2, s1, s2
============================================================================
