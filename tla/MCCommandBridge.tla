--------------------------- MODULE MCCommandBridge ---------------------------
(* A small instance of CommandBridge. *)
EXTENDS CommandBridge
==============================================================================
