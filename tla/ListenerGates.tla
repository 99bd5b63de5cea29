---------------------------- MODULE ListenerGates ----------------------------
(***************************************************************************)
(* The listener's protected reads: requests on sockets of their own share  *)
(* three gates (runtime status, agent discovery, routing pool), each of    *)
(* which owns at most one native probe.                                    *)
(*                                                                         *)
(* A gate's generation is joined by whoever asks while it is in flight.    *)
(* The status and pool gates answer "unavailable" at a deadline and yet    *)
(* keep the generation until the probe itself settles; the agents gate has *)
(* no deadline of its own and relies on the command runner's limit.  A     *)
(* socket is destroyed when its allowance runs out; its handler goes on.   *)
(*                                                                         *)
(* What one task of the event loop resolves, every waiter sees before the  *)
(* next task: Arrive, Settle, the timers and Tick wait for Quiet.          *)
(***************************************************************************)
EXTENDS Naturals

CONSTANTS
  Reqs,           \* request slots, each with a socket; a slot is reused
  Scopes,         \* public agent scopes a pool can be asked for
  OpenClaw,       \* whether the listener's source is openclaw
  None,           \* no scope
  StatusDeadline, PoolDeadline,   \* listener deadlines, in ticks
  AgentsLimit,    \* the command runner's limit on agent discovery
  PhaseAllowance, StatusAllowance, PoolsAllowance   \* socket allowances

ASSUME ListenerGatesAssumption ==
  /\ OpenClaw \in BOOLEAN
  /\ None \notin Scopes
  /\ {StatusDeadline, PoolDeadline, AgentsLimit, PhaseAllowance,
      StatusAllowance, PoolsAllowance} \subseteq Nat \ {0}
  \* A socket is given what its stages may take, and some headroom.
  /\ OpenClaw => /\ StatusDeadline < StatusAllowance
                 /\ StatusDeadline + AgentsLimit + PoolDeadline < PoolsAllowance
  /\ ~OpenClaw => StatusDeadline < PhaseAllowance

VARIABLES
  gate,      \* gate[g]: the generation callers of g are given
  age,       \* age[g]: ticks since its probe started, up to its limit
  running,   \* running[g]: native probes of g in flight
  pc, kind, scope,   \* one request each: the gate it awaits, what it asks for
  got,       \* what the awaited generation resolved to, or waiting
  left,      \* ticks until its socket times out
  lost       \* history: kinds of request whose socket timed out unanswered

request == <<pc, kind, scope, got, left>>
vars == <<gate, age, running, request, lost>>

Gates == {"status", "agents", "pool"}
Kinds == {"status", "scopes", "pools", "plain"}
Outcomes == {"ok", "unavailable"}
(* No generation; otherwise what it resolved to, and a pool's scope. *)
NoGeneration == [outcome |-> "none", scope |-> None]

Limit(g) == IF g = "status" THEN StatusDeadline
            ELSE IF g = "agents" THEN AgentsLimit
            ELSE PoolDeadline

(* Mutant: every validated read gets the allowance of a status read. *)
AllowanceMutant(k) == IF OpenClaw /\ k # "plain" THEN StatusAllowance ELSE PhaseAllowance
Allowance(k) ==
  IF OpenClaw /\ k = "pools" THEN PoolsAllowance
  ELSE IF OpenClaw /\ k \in {"status", "scopes"} THEN StatusAllowance
  ELSE PhaseAllowance

Init ==
  /\ gate = [g \in Gates |-> NoGeneration]
  /\ age = [g \in Gates |-> 0]
  /\ running = [g \in Gates |-> 0]
  /\ pc = [r \in Reqs |-> "idle"] /\ kind = [r \in Reqs |-> "plain"]
  /\ scope = [r \in Reqs |-> None] /\ got = [r \in Reqs |-> "waiting"]
  /\ left = [r \in Reqs |-> 0]
  /\ lost = {}

(* A socket is open until its request is answered, aborted or timed out.      *)
Open(r) == pc[r] # "idle" /\ left[r] # 0
Quiet == \A r \in Reqs : pc[r] # "idle" => got[r] = "waiting"

-------------------------------------------------------------------------------
(* Asking a gate.                                                             *)

(* Mutant: the generation in flight is joined whatever scope it reads.        *)
SharesMutant(g, s) == TRUE
Shares(g, s) == gate[g].scope = s

(* The handler of r awaits gate g for scope s: it starts a probe if the gate  *)
(* has none, and otherwise gets whatever the present generation resolves to.  *)
Ask(r, g, s) ==
  /\ pc' = [pc EXCEPT ![r] = g]
  /\ IF gate[g] = NoGeneration
     THEN /\ gate' = [gate EXCEPT ![g] = [outcome |-> "waiting", scope |-> s]]
          /\ running' = [running EXCEPT ![g] = @ + 1]
          /\ age' = [age EXCEPT ![g] = 0]
          /\ got' = [got EXCEPT ![r] = "waiting"]
     ELSE /\ got' = [got EXCEPT ![r] = IF Shares(g, s) THEN gate[g].outcome
                                       ELSE "unavailable"]
          /\ UNCHANGED <<gate, running, age>>

(* The handler has returned; an open socket got its response. *)
Finish(r) ==
  /\ pc' = [pc EXCEPT ![r] = "idle"] /\ kind' = [kind EXCEPT ![r] = "plain"]
  /\ scope' = [scope EXCEPT ![r] = None] /\ got' = [got EXCEPT ![r] = "waiting"]
  /\ left' = [left EXCEPT ![r] = 0]

(* A validated read is parsed: it takes its allowance and asks for the status. *)
(* A pool read from another source is answered without asking anything.       *)
Arrive(r, k, s) ==
  /\ Quiet /\ pc[r] = "idle"
  /\ k = "pools" => OpenClaw
  /\ (k = "pools") = (s # None)
  /\ kind' = [kind EXCEPT ![r] = k] /\ scope' = [scope EXCEPT ![r] = s]
  /\ left' = [left EXCEPT ![r] = Allowance(k)]
  /\ Ask(r, "status", None)
  /\ UNCHANGED lost

-------------------------------------------------------------------------------
(* Handlers resume with what their generation resolved to.                    *)

Goes(r) == pc[r] # "idle" /\ got[r] = "ok"

(* Status proven: scopes and pools of openclaw go on to agent discovery. *)
ResumeToAgents(r) ==
  /\ Goes(r) /\ pc[r] = "status"
  /\ OpenClaw /\ kind[r] \in {"scopes", "pools"}
  /\ Ask(r, "agents", None)
  /\ UNCHANGED <<kind, scope, left, lost>>

(* The requested agent is among the discovered ones: its pool is read. *)
ResumeToPool(r) ==
  /\ Goes(r) /\ pc[r] = "agents" /\ kind[r] = "pools"
  /\ Ask(r, "pool", scope[r])
  /\ UNCHANGED <<kind, scope, left, lost>>

(* Everything else is answered: the last stage, an unknown runtime or agent,  *)
(* or a fixed 503.  Scopes survive a failed discovery without agent scopes.   *)
ResumeToAnswer(r) ==
  /\ pc[r] # "idle" /\ got[r] # "waiting"
  /\ got[r] = "ok" /\ pc[r] = "status" => kind[r] # "scopes" \/ ~OpenClaw
  /\ Finish(r)
  /\ UNCHANGED <<gate, age, running, lost>>

-------------------------------------------------------------------------------
(* Probes and timers.                                                         *)

(* Everyone awaiting this generation of g gets its outcome; a pool reader that *)
(* was turned away has resumed already.                                       *)
Resolve(g, outcome) ==
  got' = [r \in Reqs |-> IF pc[r] = g /\ got[r] = "waiting" THEN outcome ELSE got[r]]

(* Mutant: a settled generation keeps answering. *)
SettledMutant(g, outcome) == [gate[g] EXCEPT !.outcome = outcome]
Settled(g, outcome) == NoGeneration

(* The probe of the generation settles, in time or late; a gate starts none    *)
(* beside it.  Nobody awaits a generation that its deadline has resolved.     *)
Settle(g, outcome) ==
  /\ Quiet /\ gate[g] # NoGeneration
  /\ running' = [running EXCEPT ![g] = @ - 1]
  /\ gate' = [gate EXCEPT ![g] = Settled(g, outcome)]
  /\ age' = [age EXCEPT ![g] = 0]
  /\ Resolve(g, outcome)
  /\ UNCHANGED <<pc, kind, scope, left, lost>>

(* Mutant: the deadline releases the generation along with its callers. *)
TimedOutMutant(g) == NoGeneration
TimedOut(g) == [gate[g] EXCEPT !.outcome = "unavailable"]

(* Mutant: the race against the timer is left out. *)
DeadlineDueMutant(g) == FALSE
DeadlineDue(g) ==
  /\ g # "agents"
  /\ gate[g] # NoGeneration /\ gate[g].outcome = "waiting"
  /\ age[g] = Limit(g)

Deadline(g) ==
  /\ Quiet /\ DeadlineDue(g)
  /\ gate' = [gate EXCEPT ![g] = TimedOut(g)]
  /\ Resolve(g, "unavailable")
  /\ UNCHANGED <<age, running, pc, kind, scope, left, lost>>

(* The command runner ends an agent discovery that exceeds its limit. *)
RunnerDue == gate["agents"] # NoGeneration /\ age["agents"] = AgentsLimit

(* A socket with no time left is destroyed; the handler finds out by itself. *)
Expiring(r) == pc[r] # "idle" /\ left[r] = 1
Tick ==
  /\ Quiet /\ ~RunnerDue /\ \A g \in Gates : ~DeadlineDue(g)
  /\ age' = [g \in Gates |-> IF gate[g] # NoGeneration /\ age[g] < Limit(g)
                             THEN age[g] + 1 ELSE age[g]]
  /\ left' = [r \in Reqs |-> IF left[r] > 0 THEN left[r] - 1 ELSE 0]
  /\ lost' = lost \cup {kind[r] : r \in {q \in Reqs : Expiring(q)}}
  /\ UNCHANGED <<gate, running, pc, kind, scope, got>>

(* The peer goes away. *)
Abort(r) ==
  /\ Quiet /\ Open(r)
  /\ left' = [left EXCEPT ![r] = 0]
  /\ UNCHANGED <<gate, age, running, pc, kind, scope, got, lost>>

Resume(r) == ResumeToAgents(r) \/ ResumeToPool(r) \/ ResumeToAnswer(r)

Next ==
  \/ Tick
  \/ \E r \in Reqs :
       \/ \E k \in Kinds, s \in Scopes \cup {None} : Arrive(r, k, s)
       \/ Resume(r)
       \/ Abort(r)
  \/ \E g \in Gates :
       \/ Deadline(g)
       \/ \E outcome \in Outcomes : Settle(g, outcome)

Spec == Init /\ [][Next]_vars

(* Resolved handlers run, and however many requests keep arriving the event    *)
(* loop comes back to its clock, its timers and the runner's exit events.     *)
(* Nothing makes a status or a pool probe settle.                             *)
FairSpec ==
  /\ Spec
  /\ SF_vars(Tick)
  /\ \A g \in Gates : SF_vars(Deadline(g))
  /\ \A r \in Reqs : WF_vars(Resume(r))
  /\ SF_vars(\E outcome \in Outcomes : Settle("agents", outcome))

-------------------------------------------------------------------------------
(* Properties.                                                                *)

(* However many requests ask, give up and ask again, each gate owns at most    *)
(* one native probe, its generation's ("repeated requests cannot start an     *)
(* unbounded number of hung probes").                                         *)
OneProbePerGate ==
  \A g \in Gates : running[g] <= 1

(* A read succeeds only at the instant the probe it waits for settles: never   *)
(* on asking, from a probe that had settled before, and never after its       *)
(* generation's deadline (statusGeneration cleared by the probe's finally).    *)
NoStaleAnswer ==
  [][\A r \in Reqs :
       /\ pc'[r] # pc[r] => got'[r] # "ok"
       /\ got[r] = "waiting" /\ got'[r] = "ok" =>
            pc[r] # "idle" /\ running'[pc[r]] # running[pc[r]]
              /\ gate[pc[r]].outcome = "waiting"]_vars

(* Two pool reads of different scopes never share a pool (serverRoutingPool's  *)
(* scope comparison): whoever waits for the pool gate asked for its scope.     *)
PoolsAreOfTheirScope ==
  \A r \in Reqs : pc[r] = "pool" /\ got[r] # "unavailable" =>
    \A q \in Reqs : pc[q] = "pool" /\ got[q] # "unavailable" => scope[q] = scope[r]

(* Status and pool reads are answered before their socket's allowance runs     *)
(* out, even behind a hung probe; with any other source, every read is        *)
(* (statusResponseDeadlineMs, routingPoolResponseDeadlineMs).                  *)
AnswersHaveHeadroom ==
  lost \cap (IF OpenClaw THEN {"status", "pools"} ELSE Kinds) = {}

(* Every handler returns, whether or not the status and pool probes do.        *)
HandlersReturn == \A r \in Reqs : pc[r] # "idle" ~> pc[r] = "idle"
===============================================================================
