---------------------------- MODULE MCGuidedAuth ----------------------------
(* Two small instances of GuidedAuth over the same variables.  In the first,   *)
(* of the constants' own values, challenges are started, reused and cancelled  *)
(* and a request can die; in the second, requests race to end one challenge,   *)
(* and both of the audit records it could leave are kept.                      *)
EXTENDS GuidedAuth, TLC

CONSTANTS p1, p2, add, reauth

VARIABLE instance

Ending == INSTANCE GuidedAuth WITH
  Keys <- {reauth}, ReauthKeys <- {reauth}, ProofResults <- {"completed"},
  MaxRecords <- 2, MaxChallenges <- 1, MaxCrashes <- 0

MCInit ==
  \/ instance = "starting" /\ Init
  \/ instance = "ending" /\ Ending!Init

MCNext ==
  /\ UNCHANGED instance
  /\ \/ instance = "starting" /\ Next
     \/ instance = "ending" /\ Ending!Next

MCSpec == MCInit /\ [][MCNext]_<<vars, instance>>

\* Requests are interchangeable: nothing compares them.
Interchangeable == Permutations(Procs)

(* No append to the audit log overwrites another, and it loses its oldest      *)
(* record only when it is full (KeepsNewest, of AuditStore.append).            *)
AuditKeepsNewest == [][KeepsNewest(IF instance = "ending" THEN 2 ELSE MaxRecords)]_vars
=============================================================================
