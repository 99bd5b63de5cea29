-------------------------- MODULE MCRuntimeAdapters --------------------------
(* Small instances of the two adapters that decide on a status somebody wrote: *)
(* OpenClaw's, which changes routes and accounts, and Hermes', which gates     *)
(* scheduled work.  A behavior is one of one of them; the other does not move. *)
EXTENDS MCOpenClawAdapter, AutomationCapacity

VARIABLE adapter

MCInit ==
  /\ adapter \in {"openclaw", "hermes"}
  /\ Init /\ (adapter # "openclaw" => snapshot = NoStatus)
  /\ CapacityInit
  /\ adapter # "hermes" =>
       up /\ account = "has" /\ pairing = "paired" /\ file.dated = "usage"

MCNext ==
  /\ UNCHANGED adapter
  /\ \/ adapter = "openclaw" /\ Next /\ UNCHANGED capacityVars
     \/ adapter = "hermes" /\ CapacityNext /\ UNCHANGED vars

MCSpec == MCInit /\ [][MCNext]_<<adapter, vars, capacityVars>>
==============================================================================
