---------------------------- MODULE OpenClawAdapter ----------------------------
(***************************************************************************)
(* One mutation through the OpenClaw runtime adapter: read a status, decide *)
(* on a target, run the native command, and prove what it did.             *)
(*                                                                         *)
(* The adapter keeps no state.  Everything it learns is a status somebody  *)
(* published: a snapshot file that may be old, or what a command prints    *)
(* now, about whichever agent it prints it.  Meanwhile other surfaces      *)
(* reroute agents and connect accounts, and the native command may do      *)
(* nothing, do it to another agent, or name another profile.               *)
(***************************************************************************)
EXTENDS Integers, Sequences, SequencesExt, FiniteSets

CONSTANTS
  Accounts,    \* the ids of the runtime's credential records
  Canon,       \* their canonical profile ids (provider-family aliases folded)
  Email,       \* the e-mail address a credential record is connected with
  Agents,
  None,
  FirstAccounts, FirstOrder,   \* what the runtime starts with
  MaxChanges   \* bound: changes other surfaces make

Profiles == {Canon[r] : r \in Accounts}

ASSUME OpenClawAdapterAssumption ==
  /\ DOMAIN Canon = Accounts /\ DOMAIN Email = Accounts
  /\ \A r \in Accounts \cap Profiles : Canon[r] = r
  /\ None \notin Accounts \cup Profiles \cup Agents \cup {Email[r] : r \in Accounts}
  /\ FirstAccounts \in Seq(Accounts)
  /\ MaxChanges \in Nat

VARIABLES
  accounts,   \* the connected credential records, in the runtime's order
  route,      \* per agent, the published order and the published active profile
  snapshot,   \* CODEX-ACCOUNT-STATUS.json
  pc, op,     \* the mutation and where it is
  before,     \* the status it read first
  arg,        \* the profile its native command was given
  acted,      \* history: the native command has had an effect
  deleted,    \* history: the credential record the native delete removed
  held,       \* history: the route was as confirmed when the fresh status was printed
  result, changes

vars == <<accounts, route, snapshot, pc, op, before, arg, acted, deleted, held,
          result, changes>>
world == <<accounts, route>>
call == <<pc, op, before, arg, acted, deleted, held, result>>

RouteActions == {"route.auto", "route.use", "route.remove"}
Targets == Profiles \cup {Email[r] : r \in Accounts}

-------------------------------------------------------------------------------
(* Statuses.                                                                  *)

(* What the runtime publishes about an agent, labelled with its scope or not. *)
View(g, scope) == [accounts |-> accounts, order |-> route[g].order,
                   lead |-> route[g].lead, scope |-> scope]
Views == {View(g, g) : g \in Agents} \cup {View(g, None) : g \in Agents}
NoStatus == [accounts |-> <<>>, order |-> <<>>, lead |-> None, scope |-> None]

(* Per canonical id, the first record that claims it. *)
Claims(raw) ==
  {raw.accounts[i] : i \in {k \in DOMAIN raw.accounts : \A j \in 1 .. k - 1 :
     Canon[raw.accounts[j]] = Canon[raw.accounts[k]] =>
       raw.accounts[j] = raw.accounts[k]}}
Ids(records) == [i \in DOMAIN records |-> Canon[records[i]]]

(* The first of the listed ids that is in a set. *)
Leads(ids, S) == {i \in DOMAIN ids : ids[i] \in S /\ \A j \in 1 .. i - 1 : ids[j] \notin S}
First(ids, S) ==
  IF Leads(ids, S) = {} THEN None ELSE ids[CHOOSE i \in Leads(ids, S) : TRUE]

(* The route's order is what it lists of the profiles; an empty list falls    *)
(* back to the accounts, and the active profile to the order, then to them.   *)
Normalize(raw) ==
  LET ids == Ids(raw.accounts)
      profiles == ToSet(ids)
      listed == IF raw.order = <<>> THEN ids ELSE Ids(raw.order)
      first == First(listed, profiles)
  IN [profiles |-> profiles, order |-> ToSet(listed) \cap profiles, first |-> first,
      scope |-> raw.scope,
      active |-> IF raw.lead # None /\ Canon[raw.lead] \in profiles THEN Canon[raw.lead]
                 ELSE IF first # None THEN first ELSE First(ids, profiles)]

(* The snapshot if it lists accounts, else the routing CLI if it does, else   *)
(* the snapshot anyway, else the sentinel's state file.                       *)
Readable ==
  IF snapshot # NoStatus /\ snapshot.accounts # <<>> THEN {snapshot}
  ELSE {v \in Views : v.accounts # <<>>}
         \cup (IF snapshot # NoStatus THEN {snapshot} ELSE Views)

(* Mutant: a snapshot is as good as a fresh status. *)
FreshMutant == Readable
Fresh == Views

-------------------------------------------------------------------------------
(* Targets and proofs.                                                        *)

RouteTarget(raw, t) == IF t \in Normalize(raw).profiles THEN t ELSE None

(* Mutant: of several matches, the first is as good as any. *)
ExactMutant(matches) == matches # {}
Exact(matches) == Cardinality(matches) = 1

(* The one listed profile whose id or connected e-mail is the target. *)
DeleteTarget(raw, t) ==
  LET matches == {r \in Claims(raw) : t \in {Canon[r], Email[r]}}
  IN IF Exact(matches) THEN Canon[CHOOSE r \in matches : TRUE] ELSE None

(* The profile the native command is given, if the adapter lets it run. *)
Argument(raw, action, t) ==
  CASE action = "route.auto" -> None
    [] action = "account.delete" -> DeleteTarget(raw, t)
    [] OTHER -> RouteTarget(raw, t)

(* The event names the action, the agent and the profile. *)
Events == [action : RouteActions, agent : Agents, profile : Profiles]
          \cup [action : {"none", "account.delete"}, agent : {None}, profile : Profiles]

(* The native selector's own choice counts only if it is the reviewed one. *)
Proves(event) ==
  /\ event.action = op.action /\ event.agent = op.agent
  /\ RouteTarget(before, event.profile) # None
  /\ op.action = "route.auto" => event.profile = op.target
  /\ op.action # "route.auto" => event.profile = arg

Verified(raw, profile) ==
  LET status == Normalize(raw)
  IN /\ status.scope = op.agent
     /\ IF op.action = "route.remove"
        THEN profile \notin status.order /\ status.active # profile
        ELSE status.first = profile /\ status.active = profile

-------------------------------------------------------------------------------
(* The mutation.                                                              *)

Init ==
  /\ accounts = FirstAccounts
  /\ route = [g \in Agents |-> [order |-> FirstOrder[g], lead |-> None]]
  /\ snapshot \in {NoStatus} \cup Views
  /\ pc = "idle" /\ op = [action |-> "none", target |-> None, agent |-> None]
  /\ before = NoStatus /\ arg = None
  /\ acted = FALSE /\ deleted = None /\ held = FALSE
  /\ result = "none" /\ changes = 0

Answer(r) == pc' = "done" /\ result' = r

Begin(action, t, g) ==
  /\ pc = "idle"
  /\ op' = [action |-> action, target |-> t, agent |-> g]
  /\ UNCHANGED <<acted, deleted, held, snapshot, changes, world>>

(* The status cannot be read, or a file is not JSON: the call throws. *)
Unreadable(action, t, g) ==
  /\ Begin(action, t, g)
  /\ Answer("threw") /\ UNCHANGED <<before, arg>>

(* No capability, scope, routing script or canonical target; for a delete, a  *)
(* script that is missing or not trusted is told apart from a target that is  *)
(* not exactly one account's.                                                 *)
Refuse(action, t, g) ==
  /\ Begin(action, t, g)
  /\ before' \in Readable /\ UNCHANGED arg
  /\ \/ Answer("blocked")
     \/ action = "account.delete" /\ DeleteTarget(before', t) # None /\ Answer("unproven")

Invoke(action, t, g) ==
  /\ Begin(action, t, g)
  /\ before' \in Readable
  /\ arg' = Argument(before', action, t)
  /\ action = "route.auto" \/ arg' # None
  /\ pc' = "run" /\ UNCHANGED result

Without(order, id) == SelectSeq(order, LAMBDA r : Canon[r] # id)

(* Outside src: the native scripts.  They act once, at any moment, on the     *)
(* agent they were given or on another one.                                   *)
NativeRoutes ==
  /\ pc = "run" /\ op.action \in RouteActions /\ ~acted
  /\ acted' = TRUE
  /\ \E g \in Agents, r \in ToSet(accounts) :
       /\ op.action = "route.auto" \/ Canon[r] = arg
       /\ route' = [route EXCEPT ![g].order =
            IF op.action = "route.remove" THEN Without(@, Canon[r])
            ELSE <<r>> \o Without(@, Canon[r]),
          ![g].lead = None]
  /\ UNCHANGED <<accounts, snapshot, pc, op, before, arg, deleted, held, result, changes>>

(* The record of exactly that id, or the one whose alias it is. *)
NativeDeletes ==
  /\ pc = "run" /\ op.action = "account.delete" /\ ~acted
  /\ \E i \in DOMAIN accounts :
       /\ IF arg \in ToSet(accounts) THEN accounts[i] = arg ELSE Canon[accounts[i]] = arg
       /\ accounts' = RemoveAt(accounts, i)
       /\ deleted' = accounts[i]
  /\ acted' = TRUE
  /\ UNCHANGED <<route, snapshot, pc, op, before, arg, held, result, changes>>

(* Mutant: a failed command is answered as if it had not run. *)
RouteFailureMutant == Answer("blocked")
RouteFailure == Answer("unproven")

(* Another exit code, a timeout, too much output, or no command at all. *)
NativeFails ==
  /\ pc = "run"
  /\ RouteFailure
  /\ UNCHANGED <<op, before, arg, acted, deleted, held, snapshot, changes, world>>

(* The owned delete is trusted code: it claims only what it did. *)
NativeEnds ==
  /\ pc = "run"
  /\ \E event \in Events :
       IF op.action = "account.delete"
       THEN /\ event.action = op.action /\ event.profile = arg
            /\ UNCHANGED arg
            /\ IF acted THEN Answer("applied") ELSE RouteFailure
       ELSE IF Proves(event)
       THEN pc' = "fresh" /\ arg' = event.profile /\ UNCHANGED result
       ELSE RouteFailure /\ UNCHANGED arg
  /\ UNCHANGED <<op, before, acted, deleted, held, snapshot, changes, world>>

(* Of the connected profiles, the agent's route leads with the target; or, for *)
(* a removal, has no use for it.                                              *)
AsConfirmed ==
  LET connected == {Canon[r] : r \in ToSet(accounts)}
      listed == Ids(IF route[op.agent].order = <<>> THEN accounts
                    ELSE route[op.agent].order)
      lead == route[op.agent].lead
      pinned == lead # None /\ Canon[lead] \in connected
  IN IF op.action = "route.remove"
     THEN op.target \in connected =>
            op.target \notin ToSet(listed) /\ (pinned => Canon[lead] # op.target)
     ELSE /\ pinned => Canon[lead] = op.target
          /\ \E i \in DOMAIN listed : /\ listed[i] = op.target
                                      /\ op.target \in connected
                                      /\ \A j \in 1 .. i - 1 : listed[j] \notin connected

(* The sentinel prints a status of some agent, now. *)
FreshRead ==
  /\ pc = "fresh"
  /\ held' = AsConfirmed
  /\ \E raw \in Fresh :
       IF Verified(raw, arg) THEN Answer("applied") ELSE RouteFailure
  /\ UNCHANGED <<op, before, arg, acted, deleted, snapshot, changes, world>>

(* It is missing, fails, or prints nothing that parses. *)
FreshReadFails ==
  /\ pc = "fresh"
  /\ RouteFailure
  /\ UNCHANGED <<op, before, arg, acted, deleted, held, snapshot, changes, world>>

-------------------------------------------------------------------------------
(* Outside src: other surfaces of the same runtime.                           *)

Change == changes < MaxChanges /\ changes' = changes + 1 /\ UNCHANGED <<snapshot, call>>

Reroute(g, r) ==
  /\ Change
  /\ route' \in {[route EXCEPT ![g].order = <<r>> \o Without(@, Canon[r])],
                 [route EXCEPT ![g].order = Without(@, Canon[r])],
                 [route EXCEPT ![g].lead = r]}
  /\ UNCHANGED accounts

Connect(r) ==
  /\ Change /\ r \notin ToSet(accounts)
  /\ accounts' \in {Append(accounts, r), <<r>> \o accounts}
  /\ UNCHANGED route

Disconnect(r) ==
  /\ Change
  /\ \E i \in DOMAIN accounts : accounts[i] = r /\ accounts' = RemoveAt(accounts, i)
  /\ UNCHANGED route

(* The sentinel rewrites its snapshot whenever it likes. *)
PublishSnapshot ==
  /\ snapshot' \in Views
  /\ UNCHANGED <<world, call, changes>>

Next ==
  \/ \E t \in Targets :
       \/ \E g \in Agents, action \in RouteActions :
            Unreadable(action, t, g) \/ Refuse(action, t, g) \/ Invoke(action, t, g)
       \/ Unreadable("account.delete", t, None) \/ Refuse("account.delete", t, None)
       \/ Invoke("account.delete", t, None)
  \/ NativeRoutes \/ NativeDeletes \/ NativeFails \/ NativeEnds
  \/ FreshRead \/ FreshReadFails
  \/ \E g \in Agents, r \in Accounts : Reroute(g, r)
  \/ \E r \in Accounts : Connect(r) \/ Disconnect(r)
  \/ PublishSnapshot

Spec == Init /\ [][Next]_vars

-------------------------------------------------------------------------------
(* Properties.                                                                *)

(* An applied receipt of a route action speaks of the reviewed profile, the   *)
(* confirmed agent and the present: when the fresh status was printed, that   *)
(* agent's route was as confirmed, whatever the script did, claimed or chose, *)
(* and whoever else was rerouting (applyRoute, routeMutationVerified).        *)
AppliedHeld ==
  result = "applied" /\ op.action \in RouteActions => held

(* A result that says no live mutation was attempted, and an exception, mean  *)
(* that the native command never ran (blocked, routeFailure, deleteFailure).  *)
QuietResultsRanNothing ==
  result \in {"threw", "blocked"} => ~acted

(* The native delete never removes a record that the target does not name, or *)
(* a target several listed records answer to (resolveExactDeleteTarget), as   *)
(* long as no two records share a canonical id.                               *)
DeletesTheNamed ==
  deleted # None =>
    /\ op.target \in {Canon[deleted], Email[deleted]}
    /\ \A r \in ToSet(before.accounts) :
         op.target \in {Canon[r], Email[r]} => Canon[r] = Canon[deleted]

(* What canonicalAccounts says of itself: an alias collision is ambiguous,     *)
(* both records are omitted, and so nothing runs against their shared id.     *)
CollisionsFailClosed ==
  arg # None =>
    Cardinality({r \in ToSet(before.accounts) : Canon[r] = arg}) <= 1
===============================================================================
