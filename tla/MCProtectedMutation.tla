------------------------ MODULE MCProtectedMutation ------------------------
(* Small instances of ProtectedMutation. *)
EXTENDS ProtectedMutation, TLC

CONSTANTS p1, p2, p3, k1, k2, route, delete

\* Process slots and keys are interchangeable: nothing compares them.
Interchangeable == Permutations(Procs) \cup Permutations(Keys)
=============================================================================
