-------------------------- MODULE MCNativeHandoff --------------------------
(* A small instance of NativeHandoff. *)
EXTENDS NativeHandoff

CONSTANTS c1, c2
============================================================================
