--------------------------- MODULE MCLocalServices ---------------------------
(* Small instances of five components that share no state: the preferences,    *)
(* the panel's page, the paging of histories, the bridges to the command line, *)
(* and the update executor.  A behavior is one of one of them; the others do   *)
(* not move.                                                                   *)
EXTENDS AccountPreferences, CommandBridge, UpdateExecutor, ControlPanel, HistoryPaging, TLC

CONSTANTS
  p1, p2, s1, s2, a1, a2,                                   \* preferences
  c1, c2, account, l1, l2, d1,                              \* panel
  all, few, filter                                          \* paging

VARIABLE component

MCInit ==
  /\ component \in {"preferences", "panel", "paging", "bridge", "update"}
  /\ Init /\ (component # "preferences" => file.schema = "absent")
  /\ PanelInit
  /\ PagingInit /\ (component # "paging" => form = all)
  /\ BridgeInit /\ (component # "bridge" => surface = "mcp" /\ ~allow /\ ~loaded)
  /\ UpdateInit /\ (component # "update" => artifact = "release")

MCNext ==
  /\ UNCHANGED component
  /\ \/ component = "preferences" /\ Next
        /\ UNCHANGED <<panelVars, pagingVars, bridgeVars, updateVars>>
     \/ component = "panel" /\ PanelNext
        /\ UNCHANGED <<vars, pagingVars, bridgeVars, updateVars>>
     \/ component = "paging" /\ PagingNext
        /\ UNCHANGED <<vars, panelVars, bridgeVars, updateVars>>
     \/ component = "bridge" /\ BridgeNext
        /\ UNCHANGED <<vars, panelVars, pagingVars, updateVars>>
     \/ component = "update" /\ UpdateNext
        /\ UNCHANGED <<vars, panelVars, pagingVars, bridgeVars>>

MCSpec ==
  MCInit /\ [][MCNext]_<<component, vars, panelVars, pagingVars, bridgeVars, updateVars>>

\* Nothing compares requests or loads.
Interchangeable == Permutations(Procs) \cup Permutations({l1, l2})
==============================================================================
