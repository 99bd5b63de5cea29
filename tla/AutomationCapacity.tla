--------------------------- MODULE AutomationCapacity ---------------------------
(***************************************************************************)
(* The two-proof capacity gate of Hermes scheduled work.                   *)
(*                                                                         *)
(* A scheduled export asks Hermes whether its runtime is connected, reads  *)
(* the published status for the one account paired with the scope, and     *)
(* decides: workers run or pause, and whether to alert.  The gate that     *)
(* schedules it sends the alert and keeps the decision for the next export. *)
(* Runtime, account and pairing change at any time.  The status is a file  *)
(* somebody wrote before: its own stamp is not read, so that it counts as  *)
(* of the moment it is read, and so does each account's record that does   *)
(* not say when it was measured.                                           *)
(***************************************************************************)
EXTENDS Naturals

CONSTANTS
  StaleAfter,     \* policy.staleAfterSeconds
  MaxTime,        \* bound: the clock
  MaxTurns,       \* bound: changes of the runtime, the account or the pairing
  MaxRepairs      \* bound: times the kept state is lost and set aside

ASSUME AutomationCapacityAssumption ==
  {StaleAfter, MaxTime, MaxTurns, MaxRepairs} \subseteq Nat

VARIABLES
  now, turns, repairs,
  up, account, pairing,  \* the runtime, the account's week, the scope's pairing
  file,       \* the status file: the account's record in it, and the pairing
  saved,      \* the state the gate keeps, and passes as --previous-state
  stage, previous, proof, got,  \* the export in progress and what it has read
  decision,   \* what it decided
  last,       \* history: the state the gate accepted last
  wasUp,      \* history: the runtime was up at some moment of this export
  hadAt,      \* history: when the account last had capacity
  alerts      \* history: the last two alerts sent

capacityVars == <<now, turns, repairs, up, account, pairing, file, saved, stage, previous,
                  proof, got, decision, last, wasUp, hadAt, alerts>>
conditions == <<up, account, pairing>>
export == <<stage, previous, proof, got, decision>>
kept == <<saved, last, alerts, repairs>>
history == <<wasUp, hadAt>>

(* A week with capacity, one below the minimum, none with a valid figure or    *)
(* date (or an account in error), and one unreadable, disabled or logged out. *)
Account == {"has", "spent", "unknown", "unreadable"}

(* One connected connection with one verified account; anything else: none, a *)
(* second one, needs-auth, no or two verified accounts.                       *)
Pairing == {"paired", "unmapped"}

(* What dates an account's record: its usage figures, else its health check,   *)
(* else nothing.                                                              *)
Dating == {"usage", "health", "none"}

(* The opaque reference of the connection, or of the stand-in for its absence. *)
Refs == {"connection", "stand-in"}
NoState == [ref |-> "none", state |-> "none"]
Malformed == [ref |-> "malformed", state |-> "none"]
NoDecision == [ref |-> "none", state |-> "none", alert |-> "none"]
Unavailable(t) == [at |-> t, usageAt |-> t, dated |-> "none",
                   account |-> "unreadable", pairing |-> "unmapped"]
NothingRead == Unavailable(0)

(* The file as it is written with the account just measured. *)
Measured(dated) ==
  [dated |-> dated, observedAt |-> IF dated = "none" THEN 0 ELSE now,
   account |-> account, pairing |-> pairing]

CapacityInit ==
  /\ now = 0 /\ turns = 0 /\ repairs = 0
  /\ up \in BOOLEAN /\ account \in Account /\ pairing \in Pairing
  /\ file \in {Measured(dated) : dated \in Dating}
  /\ saved = NoState
  /\ stage = "idle" /\ previous = NoState /\ proof = "waiting" /\ got = NothingRead
  /\ decision = NoDecision /\ last = "none"
  /\ wasUp = FALSE /\ hadAt = 0 /\ alerts = <<"none", "none">>

Apart(x, y) == IF x > y THEN x - y ELSE y - x

-------------------------------------------------------------------------------
(* Outside src: the runtime, the account, and who writes the status file.     *)

Turn ==
  /\ turns < MaxTurns /\ turns' = turns + 1
  /\ \/ up' = ~up /\ UNCHANGED <<account, pairing>>
     \/ account' \in Account \ {account} /\ UNCHANGED <<up, pairing>>
     \/ pairing' \in Pairing \ {pairing} /\ UNCHANGED <<up, account>>
  /\ wasUp' = (wasUp \/ (stage \in {"reading", "deciding"} /\ up'))
  /\ hadAt' = IF account' = "has" THEN now ELSE hadAt
  /\ UNCHANGED <<now, file, export, kept>>

(* The file is written anew: with the account measured again; as it was       *)
(* measured last; or so, but with a new health check, whose date stands in    *)
(* for the one that the usage figures do not have.                            *)
Publish ==
  /\ \/ \E dated \in Dating : file' = Measured(dated)
     \/ file' = [file EXCEPT !.pairing = pairing]
     \/ /\ file.dated # "usage"
        /\ file' = [file EXCEPT !.dated = "health", !.observedAt = now, !.pairing = pairing]
  /\ UNCHANGED <<now, turns, conditions, export, kept, history>>

Tick ==
  /\ now < MaxTime /\ now' = now + 1
  /\ hadAt' = IF account = "has" THEN now' ELSE hadAt
  /\ UNCHANGED <<turns, conditions, file, export, kept, wasUp>>

-------------------------------------------------------------------------------
(* The export.                                                                *)

(* The previous state is read before anything is asked.  One that does not    *)
(* parse ends in a pause without a transition, which the gate does not keep.  *)
Start ==
  /\ stage = "idle" /\ saved # Malformed
  /\ stage' = "reading" /\ previous' = saved
  /\ wasUp' = up
  /\ UNCHANGED <<now, turns, conditions, file, proof, got, decision, kept, hadAt>>

(* Hermes proves its runtime; a failure, a timeout or too much output do not. *)
ReadRuntime ==
  /\ stage \in {"reading", "deciding"} /\ proof = "waiting"
  /\ proof' \in {"unproven"} \cup (IF up THEN {"verified"} ELSE {})
  /\ UNCHANGED <<now, turns, conditions, file, stage, previous, got, decision, kept, history>>

(* A status is dated when it is read, whatever stamp the file bears, and so    *)
(* is an account's record without a date.                                     *)
Normalized(raw) ==
  [at |-> now, usageAt |-> IF raw.dated = "none" THEN now ELSE raw.observedAt,
   dated |-> raw.dated, account |-> raw.account, pairing |-> raw.pairing]

(* Beside it, the file is read; or it cannot be, or is not the runtime's. *)
ReadStatus ==
  /\ stage = "reading"
  /\ stage' = "deciding"
  /\ got' \in {Normalized(file), NothingRead}
  /\ UNCHANGED <<now, turns, conditions, file, previous, proof, decision, kept, history>>

Mapped(s) == s.pairing = "paired"

(* Mutant: a proof counts whenever it was observed. *)
FreshAtMutant(observedAt, s) == TRUE
FreshAt(observedAt, s) == Apart(observedAt, s.at) <= StaleAfter

ProviderCapacity(s) ==
  IF ~Mapped(s) \/ ~FreshAt(s.usageAt, s) \/ s.account \in {"unknown", "unreadable"}
  THEN "unproven"
  ELSE IF s.account = "spent" THEN "blocked" ELSE "available"

(* The first proof that is missing names the reason. *)
Reason(s, verified) ==
  IF ~Mapped(s) \/ s.account = "unreadable" THEN "needs-auth"
  ELSE IF ~verified THEN "runtime-unproven"
  ELSE IF ProviderCapacity(s) = "unproven" THEN "provider-unproven"
  ELSE IF ProviderCapacity(s) = "blocked" THEN "provider-unavailable"
  ELSE "verified-capacity"

(* What the previous state says of this reference. *)
Prior(ref) == IF previous.ref = ref THEN previous.state ELSE "none"

(* Mutant: any step to available is a recovery. *)
AlertMutant(prior, state) ==
  IF prior = state THEN "none"
  ELSE IF state = "blocked" THEN "automation-blocked" ELSE "automation-resumed"
Alert(prior, state) ==
  IF prior = state THEN "none"
  ELSE IF state = "blocked" THEN "automation-blocked"
  ELSE IF prior = "blocked" THEN "automation-resumed"
  ELSE "none"

(* Both answers are there: the runtime's proof is dated now, and so is the    *)
(* empty status that stands in for an unreadable one.                         *)
Decide ==
  /\ stage = "deciding" /\ proof # "waiting"
  /\ LET s == IF got = NothingRead THEN Unavailable(now) ELSE got
         verified == proof = "verified" /\ FreshAt(now, s)
         reason == Reason(s, verified)
         state == IF reason = "verified-capacity" THEN "available" ELSE "blocked"
         ref == IF Mapped(s) THEN "connection" ELSE "stand-in"
     IN decision' = [ref |-> ref, state |-> state, alert |-> Alert(Prior(ref), state)]
  /\ stage' = "decided"
  /\ previous' = NoState /\ proof' = "waiting" /\ got' = NothingRead /\ wasUp' = FALSE
  /\ UNCHANGED <<now, turns, conditions, file, kept, hadAt>>

-------------------------------------------------------------------------------
(* Outside src: the scheduled gate.                                           *)

(* It acts on the decision, sends its alert and keeps its state. *)
Accept ==
  /\ stage = "decided" /\ stage' = "idle"
  /\ saved' = [ref |-> decision.ref, state |-> decision.state]
  /\ last' = decision.state
  /\ alerts' = IF decision.alert = "none" THEN alerts
               ELSE <<alerts[2], decision.alert>>
  /\ decision' = NoDecision
  /\ UNCHANGED <<now, turns, repairs, conditions, file, previous, proof, got, history>>

(* The export dies, or the gate drops its decision. *)
Drop ==
  /\ stage # "idle" /\ stage' = "idle" /\ decision' = NoDecision
  /\ previous' = NoState /\ proof' = "waiting" /\ got' = NothingRead /\ wasUp' = FALSE
  /\ UNCHANGED <<now, turns, conditions, file, kept, hadAt>>

(* The kept file is damaged; somebody sets it aside. *)
Damage ==
  /\ saved # Malformed /\ repairs < MaxRepairs
  /\ saved' = Malformed /\ repairs' = repairs + 1
  /\ UNCHANGED <<now, turns, conditions, file, export, last, alerts, history>>

Repair ==
  /\ saved = Malformed /\ saved' = NoState
  /\ UNCHANGED <<now, turns, repairs, conditions, file, export, last, alerts, history>>

CapacityNext ==
  \/ Turn \/ Publish \/ Tick
  \/ Start \/ ReadRuntime \/ ReadStatus \/ Decide
  \/ Accept \/ Drop \/ Damage \/ Repair

CapacitySpec == CapacityInit /\ [][CapacityNext]_capacityVars

-------------------------------------------------------------------------------
(* Properties.                                                                *)

(* Work runs only on evidence: when an export decides that capacity is         *)
(* available, the runtime was up while it ran and, if the account's record    *)
(* dates its usage figures, the account had capacity at most twice StaleAfter *)
(* ago, however old the file is and whatever changed since it was written     *)
(* (freshAt, canonicalProviderCapacity).                                      *)
DatedEvidenceIsRecent ==
  [][stage = "deciding" /\ decision'.state = "available" =>
       /\ wasUp
       /\ got.dated = "usage" => now - hadAt <= 2 * StaleAfter]_capacityVars

(* A recovery is announced only after the outage was, and only once: between    *)
(* two recovery alerts there is a blocked one, through lost decisions, damaged *)
(* state files and references that come and go.                               *)
ResumedAfterBlocked ==
  alerts[2] = "automation-resumed" => alerts[1] = "automation-blocked"

(* What the documentation promises of the gate: workers that resume do so with *)
(* one recovery notification.                                                 *)
RecoveryIsAnnounced ==
  [][last = "blocked" /\ last' = "available" =>
       decision.alert = "automation-resumed"]_capacityVars

(* What the documentation and automationCapacityExport itself promise: stale   *)
(* capacity data never make work available, whether or not they are dated.    *)
StaleCapacityBlocks ==
  [][stage = "deciding" /\ decision'.state = "available" =>
       now - hadAt <= 2 * StaleAfter]_capacityVars
===============================================================================
