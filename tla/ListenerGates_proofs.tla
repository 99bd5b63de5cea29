-------------------------- MODULE ListenerGates_proofs --------------------------
(***************************************************************************)
(* Proofs about ListenerGates, for any number of requests and scopes, any  *)
(* deadlines, and any allowances that leave headroom over them.            *)
(***************************************************************************)
EXTENDS ListenerGates, TLAPS

Generations ==
  {NoGeneration} \cup [outcome : {"waiting", "unavailable"}, scope : Scopes \cup {None}]

Types ==
  /\ gate \in [Gates -> Generations]
  /\ age \in [Gates -> Nat] /\ running \in [Gates -> Nat]
  /\ pc \in [Reqs -> {"idle"} \cup Gates]
  /\ kind \in [Reqs -> Kinds]
  /\ scope \in [Reqs -> Scopes \cup {None}]
  /\ got \in [Reqs -> {"waiting"} \cup Outcomes]
  /\ left \in [Reqs -> Nat]
  /\ lost \subseteq Kinds

(* A gate has a probe in flight exactly as long as it has a generation.       *)
ProbeOfGeneration ==
  \A g \in Gates : running[g] = IF gate[g] = NoGeneration THEN 0 ELSE 1

(* Whoever waits, waits for a generation that is still to be resolved.        *)
WaitersAreServed ==
  \A r \in Reqs : pc[r] # "idle" /\ got[r] = "waiting" => gate[pc[r]].outcome = "waiting"

(* Whoever waits for the pool waits for a read of its own scope.              *)
PoolWaiters ==
  \A r \in Reqs : pc[r] = "pool" /\ got[r] = "waiting" => gate["pool"].scope = scope[r]

(* While a pool that was read is being answered, there is no next one, and    *)
(* nobody else goes on to ask for it.                                         *)
PoolAnswers ==
  \A r \in Reqs : pc[r] = "pool" /\ got[r] = "ok" =>
    /\ gate["pool"] = NoGeneration
    /\ \A q \in Reqs : pc[q] # "idle" /\ got[q] = "ok" =>
         pc[q] = "pool" /\ scope[q] = scope[r]

(* A generation to be resolved is within its deadline.                        *)
AgesAreBounded ==
  \A g \in Gates : age[g] <= Limit(g)

(* The reads that are promised an answer; and the stages each can be at.      *)
Promised == IF OpenClaw THEN {"status", "pools"} ELSE Kinds
StagesOfKinds ==
  \A r \in Reqs :
    /\ pc[r] \in {"agents", "pool"} => OpenClaw /\ kind[r] \in {"scopes", "pools"}
    /\ kind[r] = "pools" => OpenClaw

(* The time that the stages after g may still take.                           *)
After(k, g) ==
  IF k # "pools" THEN 0
  ELSE IF g = "status" THEN AgentsLimit + PoolDeadline
  ELSE IF g = "agents" THEN PoolDeadline
  ELSE 0

(* An open socket outlives everything its handler may still wait for.         *)
Headroom ==
  \A r \in Reqs : pc[r] # "idle" /\ left[r] # 0 /\ kind[r] \in Promised =>
    left[r] > After(kind[r], pc[r])
              + IF got[r] = "waiting" THEN Limit(pc[r]) - age[pc[r]] ELSE 0

IInv ==
  /\ Types /\ ProbeOfGeneration /\ WaitersAreServed
  /\ PoolWaiters /\ PoolAnswers
  /\ AgesAreBounded /\ StagesOfKinds /\ Headroom /\ AnswersHaveHeadroom
-------------------------------------------------------------------------------
LEMMA InitInv == Init => IInv
<1> SUFFICES ASSUME Init PROVE IInv
  OBVIOUS
<1> USE ListenerGatesAssumption DEF Init
<1>1. Types
  BY DEF Types, Generations, Kinds
<1>2. ProbeOfGeneration /\ WaitersAreServed /\ PoolWaiters /\ PoolAnswers
  BY DEF ProbeOfGeneration, WaitersAreServed, PoolWaiters, PoolAnswers
<1>3. AgesAreBounded
  BY DEF AgesAreBounded, Limit, Gates
<1>4. StagesOfKinds /\ Headroom /\ AnswersHaveHeadroom
  BY DEF StagesOfKinds, Headroom, AnswersHaveHeadroom
<1> QED
  BY <1>1, <1>2, <1>3, <1>4 DEF IInv

(* Asking a gate changes nothing of the others, answers nobody else, and puts *)
(* the request behind the generation in flight, a new one, or none.           *)
Asked(r, g, s) ==
  /\ gate' \in [Gates -> Generations] /\ age' \in [Gates -> Nat]
  /\ running' \in [Gates -> Nat]
  /\ pc' = [pc EXCEPT ![r] = g]
  /\ got' \in [Reqs -> {"waiting"} \cup Outcomes]
  /\ \A q \in Reqs \ {r} : got'[q] = got[q] /\ pc'[q] = pc[q]
  /\ got'[r] \in {"waiting", "unavailable"} /\ pc'[r] = g
  /\ got'[r] = "waiting" => gate'[g] = [outcome |-> "waiting", scope |-> s]
  /\ \A h \in Gates : gate[h] # NoGeneration \/ h # g =>
       gate'[h] = gate[h] /\ age'[h] = age[h]
LEMMA Asking ==
  ASSUME Types, ProbeOfGeneration, AgesAreBounded,
         NEW r \in Reqs, NEW g \in Gates, NEW s \in Scopes \cup {None}, Ask(r, g, s)
  PROVE  Asked(r, g, s) /\ ProbeOfGeneration' /\ AgesAreBounded'
<1> USE DEF Ask
<1>1. CASE gate[g] = NoGeneration
  <2>1. gate'[g] # NoGeneration /\ gate'[g] \in Generations
    BY <1>1 DEF Types, NoGeneration, Generations
  <2>2. AgesAreBounded'
    BY <1>1, ListenerGatesAssumption DEF Types, AgesAreBounded, Limit, Gates
  <2>3. ProbeOfGeneration'
    BY <1>1, <2>1 DEF Types, ProbeOfGeneration
  <2> QED
    BY <1>1, <2>1, <2>2, <2>3 DEF Types, Asked
<1>2. CASE gate[g] # NoGeneration
  <2>1. gate[g] \in [outcome : {"waiting", "unavailable"}, scope : Scopes \cup {None}]
    BY <1>2 DEF Types, Generations
  <2>2. gate[g] = [outcome |-> gate[g].outcome, scope |-> gate[g].scope]
    BY <2>1
  <2>3. got'[r] \in {"waiting", "unavailable"}
    BY <1>2, <2>1 DEF Types
  <2>4. got'[r] = "waiting" => gate[g] = [outcome |-> "waiting", scope |-> s]
    BY <1>2, <2>2 DEF Types, Shares
  <2>5. ProbeOfGeneration' /\ AgesAreBounded'
    BY <1>2 DEF ProbeOfGeneration, AgesAreBounded, Limit
  <2> QED
    BY <1>2, <2>3, <2>4, <2>5 DEF Types, Outcomes, Asked
<1> QED
  BY <1>1, <1>2

(* The three limits, and what the stages after a gate may take.               *)
LEMMA Limits ==
  /\ Limit("status") = StatusDeadline /\ Limit("agents") = AgentsLimit
  /\ Limit("pool") = PoolDeadline
  /\ \A g \in Gates : Limit(g) \in Nat \ {0}
<1>1. Limit("status") = StatusDeadline
  BY DEF Limit
<1>2. Limit("agents") = AgentsLimit
  BY DEF Limit
<1>3. Limit("pool") = PoolDeadline
  BY DEF Limit
<1> QED
  BY <1>1, <1>2, <1>3, ListenerGatesAssumption DEF Gates

LEMMA Afterwards ==
  /\ \A k \in Kinds \ {"pools"}, g \in Gates : After(k, g) = 0
  /\ After("pools", "status") = AgentsLimit + PoolDeadline
  /\ After("pools", "agents") = PoolDeadline
  /\ After("pools", "pool") = 0
<1>1. After("pools", "status") = AgentsLimit + PoolDeadline
  BY DEF After
<1>2. After("pools", "agents") = PoolDeadline
  BY DEF After
<1>3. After("pools", "pool") = 0
  BY DEF After
<1> QED
  BY <1>1, <1>2, <1>3 DEF After

(* A request that asks a gate, while nobody who waits there is left without   *)
(* a generation, leaves everyone served.                                      *)
LEMMA AskingServes ==
  ASSUME IInv, NEW r \in Reqs, NEW g \in Gates, NEW s \in Scopes \cup {None}, Ask(r, g, s),
         got[r] # "waiting" \/ pc[r] = "idle"
  PROVE  WaitersAreServed'
<1>1. Asked(r, g, s)
  BY Asking DEF IInv
<1>2. SUFFICES ASSUME NEW q \in Reqs, pc'[q] # "idle", got'[q] = "waiting"
               PROVE  gate'[pc'[q]].outcome = "waiting"
  BY DEF WaitersAreServed
<1>3. CASE q = r
  BY <1>1, <1>2, <1>3 DEF Asked
<1>4. CASE q # r
  <2>1. gate[pc[q]].outcome = "waiting" /\ pc[q] \in Gates
    BY <1>1, <1>2, <1>4 DEF IInv, Types, WaitersAreServed, Asked
  <2>2. gate[pc[q]] # NoGeneration
    BY <2>1 DEF NoGeneration
  <2> QED
    BY <1>1, <1>4, <2>1, <2>2 DEF Asked
<1> QED
  BY <1>3, <1>4

LEMMA ArriveInv ==
  ASSUME IInv, NEW r \in Reqs, NEW k \in Kinds, NEW s \in Scopes \cup {None}, Arrive(r, k, s)
  PROVE  IInv'
<1>0. Ask(r, "status", None) /\ pc[r] = "idle" /\ "status" \in Gates
  BY DEF Arrive, Gates
<1>1. Asked(r, "status", None) /\ ProbeOfGeneration' /\ AgesAreBounded'
  BY <1>0, Asking DEF IInv
<1>2. \A q \in Reqs : pc[q] # "idle" => got[q] = "waiting"
  BY DEF Arrive, Quiet
<1>3. /\ kind' = [kind EXCEPT ![r] = k] /\ scope' = [scope EXCEPT ![r] = s]
      /\ left' = [left EXCEPT ![r] = Allowance(k)] /\ lost' = lost
      /\ (k = "pools" => OpenClaw)
  BY DEF Arrive
<1>4. Allowance(k) \in Nat
  BY ListenerGatesAssumption DEF Allowance
<1>5. \A q \in Reqs \ {r} : /\ pc'[q] = pc[q] /\ got'[q] = got[q] /\ left'[q] = left[q]
                            /\ kind'[q] = kind[q] /\ scope'[q] = scope[q]
  BY <1>1, <1>3 DEF IInv, Types, Asked
<1>6. Types'
  BY <1>0, <1>1, <1>3, <1>4 DEF IInv, Types, Asked
<1>7. ProbeOfGeneration' /\ AgesAreBounded' /\ WaitersAreServed'
  BY <1>0, <1>1, AskingServes
<1>8. \A g \in Gates \ {"status"} : gate'[g] = gate[g] /\ age'[g] = age[g]
  BY <1>1 DEF Asked
<1>9. pc'[r] = "status"
  BY <1>1 DEF Asked
<1>10. PoolWaiters' /\ PoolAnswers'
  BY <1>2, <1>5, <1>8, <1>9 DEF IInv, Types, PoolWaiters, PoolAnswers, Gates
<1>11. StagesOfKinds'
  BY <1>3, <1>5, <1>9 DEF IInv, Types, StagesOfKinds
<1>12. AnswersHaveHeadroom'
  BY <1>3 DEF IInv, AnswersHaveHeadroom, Kinds
<1>13. Headroom'
  <2>1. SUFFICES ASSUME NEW q \in Reqs, pc'[q] # "idle", left'[q] # 0, kind'[q] \in Promised
                 PROVE  left'[q] > After(kind'[q], pc'[q])
                          + IF got'[q] = "waiting" THEN Limit(pc'[q]) - age'[pc'[q]] ELSE 0
    BY DEF Headroom, Promised, Limit, After
  <2>2. CASE q # r
    <3>1. pc[q] \in Gates /\ gate[pc[q]].outcome = "waiting"
      BY <1>2, <1>5, <2>1, <2>2 DEF IInv, Types, WaitersAreServed
    <3>2. gate[pc[q]] # NoGeneration
      BY <3>1 DEF NoGeneration
    <3>3. age'[pc[q]] = age[pc[q]]
      BY <1>1, <3>1, <3>2 DEF Asked
    <3> QED
      BY <1>5, <2>1, <2>2, <3>3 DEF IInv, Headroom
  <2>3. CASE q = r
    <3>1. /\ left'[q] = Allowance(k) /\ kind'[q] = k /\ k \in Promised
          /\ age'["status"] \in Nat
      BY <1>3, <1>6, <2>1, <2>3 DEF IInv, Types, Gates
    <3>2. Allowance(k) > After(k, "status") + StatusDeadline
      <4>1. CASE k = "pools"
        <5>1. OpenClaw /\ Allowance(k) = PoolsAllowance
          BY <1>3, <4>1 DEF Allowance
        <5> QED
          BY <4>1, <5>1, Afterwards, ListenerGatesAssumption
      <4>2. CASE k # "pools" /\ OpenClaw
        <5>1. k = "status" /\ Allowance(k) = StatusAllowance
          BY <3>1, <4>2 DEF Promised, Allowance
        <5> QED
          BY <4>2, <5>1, Afterwards, ListenerGatesAssumption DEF Gates, Kinds
      <4>3. CASE k # "pools" /\ ~OpenClaw
        <5>1. Allowance(k) = PhaseAllowance
          BY <4>3 DEF Allowance
        <5> QED
          BY <4>3, <5>1, Afterwards, ListenerGatesAssumption DEF Gates, Kinds
      <4> QED
        BY <4>1, <4>2, <4>3, ListenerGatesAssumption
    <3>3. After(k, "status") \in Nat
      BY Afterwards, ListenerGatesAssumption DEF Gates, Kinds
    <3> QED
      BY <1>4, <1>9, <2>3, <3>1, <3>2, <3>3, Limits, ListenerGatesAssumption
  <2> QED
    BY <2>2, <2>3
<1> QED
  BY <1>6, <1>7, <1>10, <1>11, <1>12, <1>13 DEF IInv

(* Nobody who asks disturbs the time that others have.                        *)
LEMMA OthersKeepHeadroom ==
  ASSUME IInv, NEW r \in Reqs, NEW g \in Gates, NEW s \in Scopes \cup {None}, Asked(r, g, s),
         NEW q \in Reqs \ {r}, pc'[q] # "idle", left'[q] # 0, kind'[q] \in Promised,
         left'[q] = left[q], kind'[q] = kind[q]
  PROVE  left'[q] > After(kind'[q], pc'[q])
                      + IF got'[q] = "waiting" THEN Limit(pc'[q]) - age'[pc'[q]] ELSE 0
<1>1. q \in Reqs /\ pc[q] \in Gates /\ pc'[q] = pc[q] /\ got'[q] = got[q]
  BY DEF IInv, Types, Asked
<1>2. CASE got[q] = "waiting"
  <2>1. gate[pc[q]].outcome = "waiting"
    BY <1>1, <1>2 DEF IInv, Types, WaitersAreServed, Gates
  <2>2. gate[pc[q]] # NoGeneration
    BY <2>1 DEF NoGeneration
  <2>3. age'[pc[q]] = age[pc[q]]
    BY <1>1, <2>2 DEF Asked
  <2> QED
    BY <1>1, <2>3 DEF IInv, Headroom
<1>3. CASE got[q] # "waiting"
  BY <1>1, <1>3 DEF IInv, Headroom
<1> QED
  BY <1>2, <1>3

(* A resumed handler that asks the next gate takes the next stage's time out  *)
(* of what the stages after its own may take.                                 *)
LEMMA GoesOn ==
  ASSUME IInv, NEW r \in Reqs, NEW g \in {"agents", "pool"}, NEW s \in Scopes \cup {None},
         Goes(r), pc[r] # "pool", Ask(r, g, s), g = "pool" => s = scope[r],
         OpenClaw, kind[r] \in {"scopes", "pools"},
         kind[r] = "pools" => After("pools", pc[r]) = After("pools", g) + Limit(g),
         UNCHANGED <<kind, scope, left, lost>>
  PROVE  IInv'
<1>1. g \in Gates /\ pc[r] \in Gates /\ got[r] = "ok"
  BY DEF Goes, IInv, Types, Gates
<1>2. Asked(r, g, s) /\ ProbeOfGeneration' /\ AgesAreBounded'
  BY <1>1, Asking DEF IInv
<1>3. Types'
  BY <1>1, <1>2 DEF IInv, Types, Asked
<1>4. WaitersAreServed'
  BY <1>1, AskingServes
<1>5. \A q \in Reqs : ~(pc'[q] = "pool" /\ got'[q] = "ok")
  <2>1. \A q \in Reqs : ~(pc[q] = "pool" /\ got[q] = "ok")
    BY <1>1 DEF IInv, PoolAnswers, Gates
  <2> QED
    BY <1>2, <2>1 DEF Asked
<1>6. PoolAnswers'
  BY <1>5 DEF PoolAnswers
<1>7. PoolWaiters'
  <2>1. SUFFICES ASSUME NEW q \in Reqs, pc'[q] = "pool", got'[q] = "waiting"
                 PROVE  gate'["pool"].scope = scope[q]
    BY DEF PoolWaiters
  <2>2. CASE q = r
    BY <1>2, <2>1, <2>2 DEF Asked
  <2>3. CASE q # r
    <3>1. pc[q] = "pool" /\ got[q] = "waiting"
      BY <1>2, <2>1, <2>3 DEF Asked
    <3>2. gate["pool"].outcome = "waiting" /\ gate["pool"].scope = scope[q]
      BY <3>1 DEF IInv, WaitersAreServed, PoolWaiters
    <3>3. gate["pool"] # NoGeneration
      BY <3>2 DEF NoGeneration
    <3> QED
      BY <1>2, <3>2, <3>3 DEF Asked, Gates
  <2> QED
    BY <2>2, <2>3
<1>8. StagesOfKinds'
  BY <1>2 DEF IInv, StagesOfKinds, Asked
<1>9. AnswersHaveHeadroom'
  BY DEF IInv, AnswersHaveHeadroom
<1>10. Headroom'
  <2>1. SUFFICES ASSUME NEW q \in Reqs, pc'[q] # "idle", left'[q] # 0, kind'[q] \in Promised
                 PROVE  left'[q] > After(kind'[q], pc'[q])
                          + IF got'[q] = "waiting" THEN Limit(pc'[q]) - age'[pc'[q]] ELSE 0
    BY DEF Headroom, Promised, Limit, After
  <2>2. CASE q # r
    BY <1>1, <1>2, <2>1, <2>2, OthersKeepHeadroom
  <2>3. CASE q = r
    <3>1. kind[r] = "pools" /\ left'[r] = left[r] /\ kind'[r] = "pools"
      BY <2>1, <2>3 DEF Promised
    <3>2. left[r] \in Nat /\ left[r] > After("pools", pc[r])
      <4>1. After("pools", pc[r]) \in Nat
        BY <1>1, Afterwards, ListenerGatesAssumption DEF Gates
      <4>2. pc[r] # "idle" /\ got[r] # "waiting" /\ left[r] # 0 /\ kind[r] \in Promised
        BY <1>1, <2>1, <2>3, <3>1 DEF Gates
      <4> QED
        BY <3>1, <4>1, <4>2 DEF IInv, Types, Headroom
    <3>3. pc'[r] = g /\ age'[g] \in Nat /\ Limit(g) \in Nat /\ After("pools", g) \in Nat
      BY <1>1, <1>2, Limits, Afterwards, ListenerGatesAssumption DEF Asked, Gates
    <3> QED
      BY <2>3, <3>1, <3>2, <3>3
  <2> QED
    BY <2>2, <2>3
<1> QED
  BY <1>2, <1>3, <1>4, <1>6, <1>7, <1>8, <1>9, <1>10 DEF IInv

LEMMA ResumeToAgentsInv ==
  ASSUME IInv, NEW r \in Reqs, ResumeToAgents(r)
  PROVE  IInv'
<1>1. After("pools", "status") = After("pools", "agents") + Limit("agents")
  BY Limits, Afterwards, ListenerGatesAssumption
<1> QED
  BY <1>1, GoesOn DEF ResumeToAgents

LEMMA ResumeToPoolInv ==
  ASSUME IInv, NEW r \in Reqs, ResumeToPool(r)
  PROVE  IInv'
<1>1. After("pools", "agents") = After("pools", "pool") + Limit("pool")
  BY Limits, Afterwards, ListenerGatesAssumption
<1>2. OpenClaw /\ kind[r] = "pools" /\ scope[r] \in Scopes \cup {None} /\ pc[r] = "agents"
  BY DEF ResumeToPool, IInv, Types, StagesOfKinds
<1> QED
  BY <1>1, <1>2, GoesOn DEF ResumeToPool

LEMMA ResumeToAnswerInv ==
  ASSUME IInv, NEW r \in Reqs, ResumeToAnswer(r)
  PROVE  IInv'
<1>1. /\ pc' = [pc EXCEPT ![r] = "idle"] /\ kind' = [kind EXCEPT ![r] = "plain"]
      /\ scope' = [scope EXCEPT ![r] = None] /\ got' = [got EXCEPT ![r] = "waiting"]
      /\ left' = [left EXCEPT ![r] = 0] /\ UNCHANGED <<gate, age, running, lost>>
  BY DEF ResumeToAnswer, Finish
<1>2. Types'
  BY <1>1 DEF IInv, Types, Kinds
<1>3. \A q \in Reqs : pc'[q] # "idle" =>
        /\ pc[q] # "idle" /\ pc'[q] = pc[q] /\ kind'[q] = kind[q] /\ scope'[q] = scope[q]
        /\ got'[q] = got[q] /\ left'[q] = left[q]
  BY <1>1 DEF IInv, Types
<1>4. ProbeOfGeneration' /\ AgesAreBounded' /\ AnswersHaveHeadroom'
  BY <1>1 DEF IInv, ProbeOfGeneration, AgesAreBounded, AnswersHaveHeadroom, Limit
<1>5. WaitersAreServed' /\ PoolWaiters'
  BY <1>1, <1>3 DEF IInv, WaitersAreServed, PoolWaiters
<1>6. PoolAnswers'
  BY <1>1, <1>3 DEF IInv, PoolAnswers
<1>7. StagesOfKinds'
  BY <1>1, <1>3 DEF IInv, Types, StagesOfKinds
<1>8. Headroom'
  <2>1. SUFFICES ASSUME NEW q \in Reqs, pc'[q] # "idle", left'[q] # 0, kind'[q] \in Promised
                 PROVE  left'[q] > After(kind'[q], pc'[q])
                          + IF got'[q] = "waiting" THEN Limit(pc'[q]) - age'[pc'[q]] ELSE 0
    BY DEF Headroom, Promised, Limit, After
  <2> QED
    BY <1>1, <1>3, <2>1 DEF IInv, Headroom
<1> QED
  BY <1>2, <1>4, <1>5, <1>6, <1>7, <1>8 DEF IInv

-------------------------------------------------------------------------------
(* Resolving a generation answers those who wait for it, and nobody else.     *)
Resolved(g, outcome) ==
  /\ got' \in [Reqs -> {"waiting"} \cup Outcomes]
  /\ \A q \in Reqs : pc[q] # "idle" =>
       /\ pc[q] \in Gates /\ got[q] = "waiting"
       /\ got'[q] = IF pc[q] = g THEN outcome ELSE "waiting"
LEMMA Resolving ==
  ASSUME Types, Quiet, NEW g \in Gates, NEW outcome \in Outcomes, Resolve(g, outcome)
  PROVE  Resolved(g, outcome)
BY DEF Types, Quiet, Resolve, Resolved, Outcomes, Gates

(* A generation that is resolved, by its probe or by its deadline, leaves the  *)
(* invariant as it was: those who waited for it no longer need its time.      *)
LEMMA ResolveInv ==
  ASSUME IInv, NEW g \in Gates, NEW outcome \in Outcomes, Resolved(g, outcome),
         NEW gen \in Generations, gate' = [gate EXCEPT ![g] = gen],
         outcome = "ok" => gen = NoGeneration,
         age' \in [Gates -> Nat], \A h \in Gates \ {g} : age'[h] = age[h],
         AgesAreBounded', running' \in [Gates -> Nat], ProbeOfGeneration',
         UNCHANGED <<pc, kind, scope, left, lost>>
  PROVE  IInv'
<1>1. Types'
  BY DEF IInv, Types, Resolved
<1>2. \A q \in Reqs : pc[q] # "idle" =>
        /\ pc[q] \in Gates /\ got[q] = "waiting" /\ gate[pc[q]].outcome = "waiting"
        /\ got'[q] = IF pc[q] = g THEN outcome ELSE "waiting"
  BY DEF IInv, WaitersAreServed, Resolved
<1>3. \A q \in Reqs : pc[q] # "idle" /\ got'[q] = "waiting" =>
        pc[q] # g /\ gate'[pc[q]] = gate[pc[q]] /\ age'[pc[q]] = age[pc[q]]
  BY <1>2 DEF IInv, Types, Outcomes
<1>4. WaitersAreServed'
  BY <1>2, <1>3 DEF WaitersAreServed
<1>5. PoolWaiters'
  <2>1. SUFFICES ASSUME NEW q \in Reqs, pc[q] = "pool", got'[q] = "waiting"
                 PROVE  gate'["pool"].scope = scope[q]
    BY DEF PoolWaiters
  <2> QED
    BY <1>2, <1>3, <2>1 DEF IInv, PoolWaiters
<1>6. PoolAnswers'
  <2>1. SUFFICES ASSUME NEW r \in Reqs, pc[r] = "pool", got'[r] = "ok"
                 PROVE  /\ gate'["pool"] = NoGeneration
                        /\ \A q \in Reqs : pc[q] # "idle" /\ got'[q] = "ok" =>
                             pc[q] = "pool" /\ scope[q] = scope[r]
    BY DEF PoolAnswers
  <2>2. g = "pool" /\ outcome = "ok" /\ gen = NoGeneration
    BY <1>2, <2>1
  <2>3. gate'["pool"] = NoGeneration
    BY <2>2 DEF IInv, Types
  <2>4. ASSUME NEW q \in Reqs, pc[q] # "idle", got'[q] = "ok"
        PROVE  pc[q] = "pool" /\ scope[q] = scope[r]
    <3>1. pc[q] = "pool"
      BY <1>2, <2>2, <2>4
    <3> QED
      BY <1>2, <2>1, <2>4, <3>1 DEF IInv, PoolWaiters
  <2> QED
    BY <2>3, <2>4
<1>7. StagesOfKinds' /\ AnswersHaveHeadroom'
  BY DEF IInv, StagesOfKinds, AnswersHaveHeadroom
<1>8. Headroom'
  <2>1. SUFFICES ASSUME NEW q \in Reqs, pc[q] # "idle", left[q] # 0, kind[q] \in Promised
                 PROVE  left[q] > After(kind[q], pc[q])
                          + IF got'[q] = "waiting" THEN Limit(pc[q]) - age'[pc[q]] ELSE 0
    BY DEF Headroom, Promised, Limit, After
  <2>2. pc[q] \in Gates /\ left[q] > After(kind[q], pc[q]) + (Limit(pc[q]) - age[pc[q]])
    BY <1>2, <2>1 DEF IInv, Headroom
  <2>3. CASE got'[q] = "waiting"
    BY <1>3, <2>1, <2>2, <2>3
  <2>4. CASE got'[q] # "waiting"
    <3>1. /\ After(kind[q], pc[q]) \in Nat /\ Limit(pc[q]) \in Nat /\ left[q] \in Nat
          /\ age[pc[q]] \in Nat /\ age[pc[q]] <= Limit(pc[q])
      BY <2>2, Afterwards, Limits, ListenerGatesAssumption
      DEF IInv, Types, AgesAreBounded, Gates
    <3> QED
      BY <2>2, <2>4, <3>1
  <2> QED
    BY <2>3, <2>4
<1> QED
  BY <1>1, <1>4, <1>5, <1>6, <1>7, <1>8 DEF IInv

LEMMA SettleInv ==
  ASSUME IInv, NEW g \in Gates, NEW outcome \in Outcomes, Settle(g, outcome)
  PROVE  IInv'
<1>1. /\ running' = [running EXCEPT ![g] = @ - 1] /\ age' = [age EXCEPT ![g] = 0]
      /\ gate' = [gate EXCEPT ![g] = NoGeneration]
      /\ gate[g] # NoGeneration /\ Resolved(g, outcome)
      /\ UNCHANGED <<pc, kind, scope, left, lost>>
  BY Resolving DEF Settle, Settled, IInv
<1>2. running[g] = 1
  BY <1>1 DEF IInv, ProbeOfGeneration
<1>3. running' \in [Gates -> Nat] /\ ProbeOfGeneration'
  BY <1>1, <1>2 DEF IInv, Types, ProbeOfGeneration
<1>4. AgesAreBounded'
  BY <1>1, Limits, ListenerGatesAssumption DEF IInv, Types, AgesAreBounded, Limit
<1>5. NoGeneration \in Generations
  BY DEF Generations
<1>6. age' \in [Gates -> Nat] /\ \A h \in Gates \ {g} : age'[h] = age[h]
  BY <1>1 DEF IInv, Types
<1> QED
  BY <1>1, <1>3, <1>4, <1>5, <1>6, ResolveInv

LEMMA DeadlineInv ==
  ASSUME IInv, NEW g \in Gates, Deadline(g)
  PROVE  IInv'
<1>1. /\ gate' = [gate EXCEPT ![g] = TimedOut(g)]
      /\ gate[g] # NoGeneration /\ Resolved(g, "unavailable")
      /\ UNCHANGED <<age, running, pc, kind, scope, left, lost>>
  BY Resolving DEF Deadline, DeadlineDue, IInv, Outcomes
<1>2. gate[g] \in [outcome : {"waiting", "unavailable"}, scope : Scopes \cup {None}]
  BY <1>1 DEF IInv, Types, Generations
<1>3. TimedOut(g) \in Generations
  BY <1>2 DEF TimedOut, Generations
<1>4. TimedOut(g) # NoGeneration
  BY <1>2 DEF TimedOut, NoGeneration
<1>5. running' \in [Gates -> Nat] /\ ProbeOfGeneration'
  BY <1>1, <1>4 DEF IInv, Types, ProbeOfGeneration
<1>6. age' \in [Gates -> Nat] /\ AgesAreBounded' /\ \A h \in Gates \ {g} : age'[h] = age[h]
  BY <1>1 DEF IInv, Types, AgesAreBounded, Limit
<1> QED
  BY <1>1, <1>3, <1>5, <1>6, ResolveInv DEF Outcomes

LEMMA TickInv ==
  ASSUME IInv, Tick
  PROVE  IInv'
<1>1. /\ age' = [g \in Gates |-> IF gate[g] # NoGeneration /\ age[g] < Limit(g)
                                 THEN age[g] + 1 ELSE age[g]]
      /\ left' = [r \in Reqs |-> IF left[r] > 0 THEN left[r] - 1 ELSE 0]
      /\ lost' = lost \cup {kind[r] : r \in {q \in Reqs : Expiring(q)}}
      /\ UNCHANGED <<gate, running, pc, kind, scope, got>>
  BY DEF Tick
<1>2. Types'
  BY <1>1 DEF IInv, Types
(* Nobody's stage is over, or its deadline would be due.                      *)
<1>3. ASSUME NEW q \in Reqs, pc[q] # "idle"
      PROVE  /\ pc[q] \in Gates /\ got[q] = "waiting"
             /\ age[pc[q]] < Limit(pc[q]) /\ age'[pc[q]] = age[pc[q]] + 1
  <2>1. pc[q] \in Gates /\ got[q] = "waiting" /\ gate[pc[q]].outcome = "waiting"
    BY <1>3 DEF Tick, Quiet, IInv, Types, WaitersAreServed
  <2>2. gate[pc[q]] # NoGeneration
    BY <2>1 DEF NoGeneration
  <2>3. age[pc[q]] # Limit(pc[q])
    <3>1. CASE pc[q] = "agents"
      BY <2>2, <3>1, Limits DEF Tick, RunnerDue
    <3>2. CASE pc[q] # "agents"
      BY <2>1, <2>2, <3>2 DEF Tick, DeadlineDue
    <3> QED
      BY <3>1, <3>2
  <2>4. age[pc[q]] \in Nat /\ Limit(pc[q]) \in Nat /\ age[pc[q]] <= Limit(pc[q])
    BY <2>1, Limits DEF IInv, Types, AgesAreBounded
  <2> QED
    BY <1>1, <2>1, <2>2, <2>3, <2>4
<1>4. AgesAreBounded'
  <2>1. \A g \in Gates : Limit(g) \in Nat /\ age[g] \in Nat /\ age[g] <= Limit(g)
    BY Limits DEF IInv, Types, AgesAreBounded
  <2>2. \A g \in Gates : age'[g] <= Limit(g)
    BY <1>1, <2>1
  <2> QED
    BY <2>2 DEF AgesAreBounded, Limit
<1>5. ASSUME NEW q \in Reqs, pc[q] # "idle", left[q] # 0, kind[q] \in Promised
      PROVE  left[q] > 1 /\ left[q] - 1 > After(kind[q], pc[q]) + (Limit(pc[q]) - age'[pc[q]])
  <2>1. /\ pc[q] \in Gates /\ got[q] = "waiting"
        /\ age[pc[q]] < Limit(pc[q]) /\ age'[pc[q]] = age[pc[q]] + 1
    BY <1>3, <1>5
  <2>2. left[q] > After(kind[q], pc[q]) + (Limit(pc[q]) - age[pc[q]])
    BY <1>5, <2>1 DEF IInv, Headroom
  <2>3. /\ After(kind[q], pc[q]) \in Nat /\ Limit(pc[q]) \in Nat
        /\ left[q] \in Nat /\ age[pc[q]] \in Nat
    BY <2>1, Afterwards, Limits, ListenerGatesAssumption DEF IInv, Types, Gates
  <2> QED
    BY <2>1, <2>2, <2>3
<1>6. Headroom'
  <2>1. SUFFICES ASSUME NEW q \in Reqs, pc[q] # "idle", left'[q] # 0, kind[q] \in Promised
                 PROVE  left'[q] > After(kind[q], pc[q])
                          + IF got[q] = "waiting" THEN Limit(pc[q]) - age'[pc[q]] ELSE 0
    BY <1>1 DEF Headroom, Promised, Limit, After
  <2>2. left[q] # 0 /\ left'[q] = left[q] - 1
    BY <1>1, <2>1 DEF IInv, Types
  <2>3. got[q] = "waiting"
    BY <1>3, <2>1
  <2> QED
    BY <1>5, <2>1, <2>2, <2>3
<1>7. AnswersHaveHeadroom'
  <2>1. ASSUME NEW q \in Reqs, Expiring(q) PROVE kind[q] \notin Promised
    BY <1>5, <2>1 DEF Expiring
  <2> QED
    BY <1>1, <2>1 DEF IInv, AnswersHaveHeadroom, Promised
<1>8. ProbeOfGeneration' /\ WaitersAreServed' /\ PoolWaiters' /\ PoolAnswers' /\ StagesOfKinds'
  BY <1>1
  DEF IInv, ProbeOfGeneration, WaitersAreServed, PoolWaiters, PoolAnswers, StagesOfKinds
<1> QED
  BY <1>2, <1>4, <1>6, <1>7, <1>8 DEF IInv

LEMMA AbortInv ==
  ASSUME IInv, NEW r \in Reqs, Abort(r)
  PROVE  IInv'
<1>1. left' = [left EXCEPT ![r] = 0] /\ UNCHANGED <<gate, age, running, pc, kind, scope, got, lost>>
  BY DEF Abort
<1>2. Types' /\ ProbeOfGeneration' /\ WaitersAreServed' /\ PoolWaiters' /\ PoolAnswers'
  BY <1>1 DEF IInv, Types, ProbeOfGeneration, WaitersAreServed, PoolWaiters, PoolAnswers
<1>3. AgesAreBounded' /\ StagesOfKinds' /\ AnswersHaveHeadroom'
  BY <1>1 DEF IInv, AgesAreBounded, StagesOfKinds, AnswersHaveHeadroom, Limit
<1>4. Headroom'
  <2>1. \A q \in Reqs : left'[q] = left[q] \/ left'[q] = 0
    BY <1>1 DEF IInv, Types
  <2> QED
    BY <1>1, <2>1 DEF IInv, Headroom, Promised, Limit, After
<1> QED
  BY <1>2, <1>3, <1>4 DEF IInv

LEMMA NextInv == IInv /\ [Next]_vars => IInv'
<1> SUFFICES ASSUME IInv, [Next]_vars PROVE IInv'
  OBVIOUS
<1>1. CASE Tick
  BY <1>1, TickInv
<1>2. ASSUME NEW r \in Reqs, NEW k \in Kinds, NEW s \in Scopes \cup {None}, Arrive(r, k, s)
      PROVE  IInv'
  BY <1>2, ArriveInv
<1>3. ASSUME NEW r \in Reqs, Resume(r) PROVE IInv'
  BY <1>3, ResumeToAgentsInv, ResumeToPoolInv, ResumeToAnswerInv DEF Resume
<1>4. ASSUME NEW r \in Reqs, Abort(r) PROVE IInv'
  BY <1>4, AbortInv
<1>5. ASSUME NEW g \in Gates, Deadline(g) PROVE IInv'
  BY <1>5, DeadlineInv
<1>6. ASSUME NEW g \in Gates, NEW outcome \in Outcomes, Settle(g, outcome) PROVE IInv'
  BY <1>6, SettleInv
<1>7. CASE UNCHANGED vars
  BY <1>7 DEF vars, request, IInv, Types, ProbeOfGeneration, WaitersAreServed, PoolWaiters,
     PoolAnswers, AgesAreBounded, StagesOfKinds, Headroom, AnswersHaveHeadroom, Promised,
     Limit, After
<1> QED
  BY <1>1, <1>2, <1>3, <1>4, <1>5, <1>6, <1>7 DEF Next

THEOREM Inductive == Spec => []IInv
BY InitInv, NextInv, PTL DEF Spec
-------------------------------------------------------------------------------
(* However many requests ask, give up and ask again, no gate ever has more    *)
(* than one native probe in flight (server.ts statusGeneration, agents and    *)
(* serverRoutingPool).                                                        *)
THEOREM OneProbe == Spec => []OneProbePerGate
<1>1. IInv => OneProbePerGate
  BY DEF IInv, ProbeOfGeneration, OneProbePerGate
<1> QED
  BY <1>1, Inductive, PTL

(* A pool is only ever read for, and answered to, those who asked for its     *)
(* scope.                                                                     *)
THEOREM PoolsOfTheirScope == Spec => []PoolsAreOfTheirScope
<1>1. IInv => PoolsAreOfTheirScope
  <2>1. SUFFICES ASSUME IInv, NEW r \in Reqs, pc[r] = "pool", got[r] # "unavailable",
                        NEW q \in Reqs, pc[q] = "pool", got[q] # "unavailable"
                 PROVE  scope[q] = scope[r]
    BY DEF PoolsAreOfTheirScope
  <2>2. {got[r], got[q]} \subseteq {"waiting", "ok"}
    BY <2>1 DEF IInv, Types, Outcomes
  <2>3. CASE got[r] = "ok"
    <3>1. gate["pool"] = NoGeneration
      BY <2>1, <2>3 DEF IInv, PoolAnswers
    <3>2. got[q] # "waiting"
      BY <2>1, <3>1 DEF IInv, WaitersAreServed, NoGeneration
    <3> QED
      BY <2>1, <2>2, <2>3, <3>2 DEF IInv, PoolAnswers
  <2>4. CASE got[r] = "waiting"
    <3>1. gate["pool"] # NoGeneration
      BY <2>1, <2>4 DEF IInv, WaitersAreServed, NoGeneration
    <3>2. got[q] = "waiting"
      BY <2>1, <2>2, <3>1 DEF IInv, PoolAnswers
    <3> QED
      BY <2>1, <2>4, <3>2 DEF IInv, PoolWaiters
  <2> QED
    BY <2>2, <2>3, <2>4
<1> QED
  BY <1>1, Inductive, PTL

(* Whatever the probes do, no status read, no pool read of openclaw, and no    *)
(* read of another source loses its socket before it is answered.              *)
THEOREM Headrooms == Spec => []AnswersHaveHeadroom
<1>1. IInv => AnswersHaveHeadroom
  BY DEF IInv
<1> QED
  BY <1>1, Inductive, PTL

(* Asking is never answered with success: what a gate still has in flight has *)
(* not succeeded, and what has is not there to be joined.                     *)
LEMMA AskingIsNotOk ==
  ASSUME IInv, Next, NEW r \in Reqs, pc'[r] # pc[r]
  PROVE  got'[r] # "ok"
<1>1. ASSUME NEW q \in Reqs, NEW g \in Gates, NEW s \in Scopes \cup {None}, Ask(q, g, s)
      PROVE  got'[r] # "ok"
  <2>1. Asked(q, g, s)
    BY <1>1, Asking DEF IInv
  <2> QED
    BY <2>1 DEF Asked
<1>2. ASSUME NEW q \in Reqs, Resume(q) PROVE got'[r] # "ok"
  <2>1. scope[q] \in Scopes \cup {None} /\ None \in Scopes \cup {None}
        /\ {"agents", "pool"} \subseteq Gates
    BY DEF IInv, Types, Gates
  <2>2. CASE ResumeToAgents(q)
    BY <1>1, <2>1, <2>2 DEF ResumeToAgents
  <2>3. CASE ResumeToPool(q)
    BY <1>1, <2>1, <2>3 DEF ResumeToPool
  <2>4. CASE ResumeToAnswer(q)
    BY <2>4 DEF ResumeToAnswer, Finish, IInv, Types
  <2> QED
    BY <1>2, <2>2, <2>3, <2>4 DEF Resume
<1>3. ASSUME NEW q \in Reqs, NEW k \in Kinds, NEW s \in Scopes \cup {None}, Arrive(q, k, s)
      PROVE  got'[r] # "ok"
  BY <1>1, <1>3 DEF Arrive, Gates
<1>4. ~Tick /\ (\A q \in Reqs : ~Abort(q)) /\ (\A g \in Gates : ~Deadline(g))
  BY DEF Tick, Abort, Deadline
<1>5. \A g \in Gates, outcome \in Outcomes : ~Settle(g, outcome)
  BY DEF Settle
<1> QED
  BY <1>2, <1>3, <1>4, <1>5 DEF Next

(* A read succeeds only in the step in which the probe it waited for settles,  *)
(* only while its generation has not passed its deadline, and at no gate in   *)
(* the step in which it asks.                                                 *)
THEOREM NoStale == Spec => NoStaleAnswer
<1>1. IInv /\ [Next]_vars =>
        [\A r \in Reqs :
           /\ pc'[r] # pc[r] => got'[r] # "ok"
           /\ got[r] = "waiting" /\ got'[r] = "ok" =>
                pc[r] # "idle" /\ running'[pc[r]] # running[pc[r]]
                  /\ gate[pc[r]].outcome = "waiting"]_vars
  <2>1. SUFFICES ASSUME IInv, Next, NEW r \in Reqs, got[r] = "waiting", got'[r] = "ok"
                 PROVE  /\ pc[r] # "idle" /\ running'[pc[r]] # running[pc[r]]
                        /\ gate[pc[r]].outcome = "waiting"
    BY AskingIsNotOk
  <2>2. Types /\ ProbeOfGeneration /\ AgesAreBounded
    BY <2>1 DEF IInv
  <2>3. ASSUME NEW q \in Reqs, NEW g \in Gates, NEW s \in Scopes \cup {None}, Ask(q, g, s)
        PROVE  FALSE
    <3>1. Asked(q, g, s)
      BY <2>2, <2>3, Asking
    <3> QED
      BY <2>1, <3>1 DEF Asked
  <2>4. ASSUME NEW q \in Reqs, Resume(q) PROVE FALSE
    <3>1. scope[q] \in Scopes \cup {None} /\ None \in Scopes \cup {None}
          /\ {"agents", "pool"} \subseteq Gates
      BY <2>2 DEF Types, Gates
    <3>2. ~ResumeToAgents(q)
      BY <2>3, <3>1 DEF ResumeToAgents
    <3>3. ~ResumeToPool(q)
      BY <2>3, <3>1 DEF ResumeToPool
    <3>4. ~ResumeToAnswer(q)
      BY <2>1, <2>2 DEF ResumeToAnswer, Finish, Types
    <3> QED
      BY <2>4, <3>2, <3>3, <3>4 DEF Resume
  <2>5. ASSUME NEW q \in Reqs, NEW k \in Kinds, NEW s \in Scopes \cup {None}, Arrive(q, k, s)
        PROVE  FALSE
    BY <2>3, <2>5 DEF Arrive, Gates
  <2>6. ~Tick /\ \A q \in Reqs : ~Abort(q)
    BY <2>1 DEF Tick, Abort
  <2>7. \A g \in Gates : ~Deadline(g)
    BY <2>1, <2>2 DEF Types, Deadline, Resolve
  <2>8. PICK g \in Gates, outcome \in Outcomes : Settle(g, outcome)
    BY <2>1, <2>4, <2>5, <2>6, <2>7 DEF Next
  <2>9. pc[r] = g
    BY <2>1, <2>8 DEF Settle, Resolve
  <2>10. running[g] = 1 /\ running' = [running EXCEPT ![g] = @ - 1] /\ g # "idle"
    BY <2>2, <2>8 DEF Settle, ProbeOfGeneration, Gates
  <2>11. running'[g] # running[g]
    BY <2>2, <2>10 DEF Types
  <2> QED
    BY <2>1, <2>9, <2>10, <2>11 DEF IInv, WaitersAreServed
<1> QED
  BY <1>1, Inductive, PTL DEF Spec, NoStaleAnswer
================================================================================
