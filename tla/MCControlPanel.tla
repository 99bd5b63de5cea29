--------------------------- MODULE MCControlPanel ---------------------------
(* A small instance of ControlPanel. *)
EXTENDS ControlPanel

CONSTANTS c1, c2, account, l1, l2, d1
=============================================================================
