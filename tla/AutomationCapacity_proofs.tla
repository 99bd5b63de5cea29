---------------------- MODULE AutomationCapacity_proofs ----------------------
(***************************************************************************)
(* Proofs about AutomationCapacity, for any staleness limit and any number *)
(* of changes, exports and damaged state files.                            *)
(***************************************************************************)
EXTENDS AutomationCapacity, TLAPS

(* Statuses as they are written, and as they are read. *)
Files == [dated : Dating, observedAt : Nat, account : Account, pairing : Pairing]
Statuses == [at : Nat, usageAt : Nat, dated : Dating, account : Account, pairing : Pairing]
Exporting == {"reading", "deciding"}

(* What the proof needs of the types. *)
Types ==
  /\ now \in Nat /\ hadAt \in Nat /\ hadAt <= now
  /\ account \in Account /\ pairing \in Pairing
  /\ file \in Files /\ got \in Statuses

(* Before its decision and after its end an export has decided nothing, and   *)
(* outside of it no proof is on the table.                                    *)
Phases ==
  /\ stage # "decided" => decision = NoDecision
  /\ stage \notin Exporting => proof = "waiting"

(* A proof that is on the table was obtained while the runtime was up. *)
ProofIsOfThisExport ==
  /\ stage \in Exporting /\ up => wasUp
  /\ proof = "verified" => wasUp

(* The history is of now while what it remembers still lasts. *)
HistoryFollows == account = "has" => hadAt = now

(* Capacity in a record that dates its usage figures was there at that time,   *)
(* or since; and a status that was read was so by now.                        *)
Backed(s, t) == s.dated = "usage" /\ s.account = "has" => t <= hadAt
FileIsBacked == Backed(file, file.observedAt)
ReadIsBacked == got.at <= now /\ Backed(got, got.usageAt)

(* An outage that is kept, read, or decided upon without an alert is the one  *)
(* the last alert was about, and so is the one a recovery answers.            *)
OutageWasAnnounced ==
  /\ stage \notin Exporting => previous = NoState
  /\ saved.state = "blocked" => alerts[2] = "automation-blocked"
  /\ previous.state = "blocked" => alerts[2] = "automation-blocked"
  /\ decision.alert = "automation-resumed" => alerts[2] = "automation-blocked"
  /\ decision.state = "blocked" =>
       decision.alert \in {"automation-blocked", "none"}
  /\ decision.state = "blocked" /\ decision.alert = "none" =>
       alerts[2] = "automation-blocked"

(* The inductive invariants behind the two properties. *)
EvidenceInv ==
  /\ Types /\ Phases /\ ProofIsOfThisExport /\ HistoryFollows
  /\ FileIsBacked /\ ReadIsBacked
AlertInv == OutageWasAnnounced /\ ResumedAfterBlocked

--------------------------------------------------------------------------------
(* Alerts.                                                                    *)

LEMMA AlertsInitially == CapacityInit => AlertInv
BY DEF CapacityInit, AlertInv, OutageWasAnnounced, ResumedAfterBlocked, NoState, NoDecision

LEMMA AlertStep ==
  ASSUME AlertInv, [CapacityNext]_capacityVars
  PROVE  AlertInv'
<1> USE DEF AlertInv, OutageWasAnnounced, ResumedAfterBlocked, Exporting
<1>1. CASE UNCHANGED capacityVars
  BY <1>1 DEF capacityVars, export, kept
<1>2. CASE Turn \/ Publish \/ Tick \/ ReadRuntime \/ ReadStatus
  BY <1>2 DEF Turn, Publish, Tick, ReadRuntime, ReadStatus, export, kept
<1>3. CASE Start
  BY <1>3 DEF Start, kept
<1>4. CASE Decide
  <2>1. /\ decision'.state \in {"available", "blocked"}
        /\ decision'.alert = Alert(Prior(decision'.ref), decision'.state)
    BY <1>4 DEF Decide
  <2>2. Prior(decision'.ref) = "blocked" => alerts[2] = "automation-blocked"
    BY DEF Prior
  <2>3. /\ decision'.alert = "automation-resumed" => alerts[2] = "automation-blocked"
        /\ decision'.state = "blocked" =>
             decision'.alert \in {"automation-blocked", "none"}
        /\ decision'.state = "blocked" /\ decision'.alert = "none" =>
             alerts[2] = "automation-blocked"
    BY <2>1, <2>2 DEF Alert
  <2>4. UNCHANGED <<saved, alerts>> /\ previous' = NoState
    BY <1>4 DEF Decide, kept
  <2>5. NoState.state # "blocked"
    BY DEF NoState
  <2> QED
    BY <2>3, <2>4, <2>5
<1>5. CASE Accept
  BY <1>5 DEF Accept, NoDecision, NoState
<1>6. CASE Drop \/ Damage \/ Repair
  BY <1>6 DEF Drop, Damage, Repair, NoState, NoDecision, Malformed, export, kept
<1> QED
  BY <1>1, <1>2, <1>3, <1>4, <1>5, <1>6 DEF CapacityNext

(* A recovery is announced only after the outage was, and only once: in any    *)
(* order of exports, lost decisions and damaged state files, the alert before *)
(* a recovery's is the outage's (automationCapacityExport).               *)
THEOREM RecoveryFollowsOutage == CapacitySpec => []ResumedAfterBlocked
<1>1. AlertInv /\ [CapacityNext]_capacityVars => AlertInv'
  BY AlertStep
<1>2. AlertInv => ResumedAfterBlocked
  BY DEF AlertInv
<1> QED
  BY AlertsInitially, <1>1, <1>2, PTL DEF CapacitySpec

--------------------------------------------------------------------------------
(* Evidence.                                                                  *)

LEMMA EvidenceInitially == CapacityInit => EvidenceInv
<1> SUFFICES ASSUME CapacityInit PROVE EvidenceInv
  OBVIOUS
<1>1. PICK dated \in Dating : file = Measured(dated)
  BY DEF CapacityInit
<1>2. now = 0 /\ hadAt = 0 /\ account \in Account /\ pairing \in Pairing
  BY DEF CapacityInit
<1>3. file \in Files /\ file.observedAt = 0
  BY <1>1, <1>2 DEF Measured, Files
<1>4. got = NothingRead /\ got \in Statuses /\ got.at = 0 /\ got.dated = "none"
  BY DEF CapacityInit, Statuses, NothingRead, Unavailable, Account, Pairing, Dating
<1>5. Types
  BY <1>2, <1>3, <1>4 DEF Types
<1>6. Phases /\ ProofIsOfThisExport /\ HistoryFollows
  BY <1>2 DEF CapacityInit, Phases, ProofIsOfThisExport, HistoryFollows, Exporting
<1>7. FileIsBacked /\ ReadIsBacked
  BY <1>2, <1>3, <1>4 DEF FileIsBacked, ReadIsBacked, Backed
<1> QED
  BY <1>5, <1>6, <1>7 DEF EvidenceInv

(* The status that stands for an unreadable one claims nothing. *)
LEMMA NothingClaimed ==
  NothingRead \in Statuses /\ NothingRead.at = 0 /\ NothingRead.dated # "usage"
BY DEF NothingRead, Unavailable, Statuses, Account, Pairing, Dating

(* What a measurement of this moment claims is so. *)
LEMMA MeasuredIsBacked ==
  ASSUME EvidenceInv, NEW dated \in Dating
  PROVE  Measured(dated) \in Files /\ Backed(Measured(dated), Measured(dated).observedAt)
BY DEF EvidenceInv, Types, HistoryFollows, Measured, Files, Backed

(* Reading changes neither a dated measurement nor what it claims. *)
LEMMA NormalizedIsBacked ==
  ASSUME EvidenceInv
  PROVE  /\ Normalized(file) \in Statuses
         /\ Normalized(file).at = now
         /\ Backed(Normalized(file), Normalized(file).usageAt)
BY DEF EvidenceInv, Types, FileIsBacked, Normalized, Files, Statuses, Backed, Dating

(* As time passes and the history moves on, file and status stay backed. *)
LEMMA BackingLasts ==
  ASSUME EvidenceInv,
         now' \in Nat, hadAt' \in Nat, now <= now', hadAt <= hadAt',
         file' = file, got' \in {got, NothingRead}
  PROVE  /\ file' \in Files /\ got' \in Statuses
         /\ FileIsBacked' /\ ReadIsBacked'
<1>1. /\ file \in Files /\ got \in Statuses /\ now \in Nat /\ hadAt \in Nat
      /\ FileIsBacked /\ ReadIsBacked
  BY DEF EvidenceInv, Types
<1>2. FileIsBacked'
  BY <1>1 DEF FileIsBacked, Backed, Files
<1>3. CASE got' = got
  BY <1>1, <1>2, <1>3 DEF ReadIsBacked, Backed, Statuses
<1>4. CASE got' = NothingRead
  BY <1>1, <1>2, <1>4, NothingClaimed DEF ReadIsBacked, Backed
<1> QED
  BY <1>3, <1>4

LEMMA EvidenceStep ==
  ASSUME EvidenceInv, [CapacityNext]_capacityVars
  PROVE  EvidenceInv'
<1> USE DEF EvidenceInv
<1>1. CASE UNCHANGED capacityVars
  BY <1>1 DEF capacityVars, Types, Phases, ProofIsOfThisExport, HistoryFollows, Exporting,
     FileIsBacked, ReadIsBacked, Backed
<1>2. CASE Turn
  <2>1. /\ now' = now /\ account' \in Account /\ pairing' \in Pairing
        /\ hadAt' = IF account' = "has" THEN now ELSE hadAt
    BY <1>2 DEF Turn, Types
  <2>2. UNCHANGED <<file, got, stage, proof, decision>>
    BY <1>2 DEF Turn, export
  <2>3. wasUp' = (wasUp \/ (stage \in Exporting /\ up'))
    BY <1>2 DEF Turn, Exporting
  <2>4. hadAt' \in Nat /\ hadAt <= hadAt' /\ hadAt' <= now'
    BY <2>1 DEF Types
  <2>5. /\ file' \in Files /\ got' \in Statuses
        /\ FileIsBacked' /\ ReadIsBacked'
    BY <2>1, <2>2, <2>4, BackingLasts DEF Types
  <2>6. Types'
    BY <2>1, <2>4, <2>5 DEF Types
  <2>7. ProofIsOfThisExport'
    BY <2>2, <2>3 DEF ProofIsOfThisExport
  <2> QED
    BY <2>1, <2>2, <2>5, <2>6, <2>7 DEF Phases, HistoryFollows
<1>3. CASE Publish
  <2>1. UNCHANGED <<now, up, account, pairing, stage, proof, got, decision, wasUp, hadAt>>
    BY <1>3 DEF Publish, conditions, export, history
  <2>2. /\ file \in Files /\ now \in Nat /\ pairing \in Pairing
        /\ Backed(file, file.observedAt)
    BY DEF Types, FileIsBacked
  <2>3. file' \in Files /\ Backed(file', file'.observedAt)
    <3>1. ASSUME NEW dated \in Dating, file' = Measured(dated)
          PROVE  file' \in Files /\ Backed(file', file'.observedAt)
      BY <3>1, MeasuredIsBacked
    <3>2. CASE file' = [file EXCEPT !.pairing = pairing]
      BY <2>2, <3>2 DEF Files, Backed
    <3>3. CASE file' = [file EXCEPT !.dated = "health", !.observedAt = now,
                                    !.pairing = pairing]
      BY <2>2, <3>3 DEF Files, Dating, Backed
    <3> QED
      BY <1>3, <3>1, <3>2, <3>3 DEF Publish
  <2>4. FileIsBacked'
    BY <2>1, <2>3 DEF FileIsBacked, Backed
  <2> QED
    BY <2>1, <2>3, <2>4
       DEF Types, Phases, ProofIsOfThisExport, HistoryFollows, Exporting, ReadIsBacked, Backed
<1>4. CASE Tick
  <2>1. /\ now' = now + 1
        /\ hadAt' = IF account = "has" THEN now' ELSE hadAt
        /\ UNCHANGED <<up, account, pairing, file, stage, proof, got, decision, wasUp>>
    BY <1>4 DEF Tick, conditions, export
  <2>2. /\ now' \in Nat /\ hadAt' \in Nat
        /\ now <= now' /\ hadAt <= hadAt' /\ hadAt' <= now'
    BY <2>1 DEF Types
  <2>3. /\ file' \in Files /\ got' \in Statuses
        /\ FileIsBacked' /\ ReadIsBacked'
    BY <2>1, <2>2, BackingLasts
  <2>4. Types'
    BY <2>1, <2>2, <2>3 DEF Types
  <2>5. HistoryFollows'
    BY <2>1 DEF HistoryFollows
  <2> QED
    BY <2>1, <2>3, <2>4, <2>5 DEF Phases, ProofIsOfThisExport, Exporting
<1>5. CASE Start
  <2>1. /\ stage = "idle" /\ stage' = "reading" /\ wasUp' = up
        /\ UNCHANGED <<now, up, account, pairing, file, proof, got, decision, hadAt>>
    BY <1>5 DEF Start, conditions
  <2>2. proof = "waiting"
    BY <2>1 DEF Phases, Exporting
  <2> QED
    BY <2>1, <2>2
       DEF Types, Phases, ProofIsOfThisExport, HistoryFollows, Exporting,
           FileIsBacked, ReadIsBacked, Backed
<1>6. CASE ReadRuntime
  <2>1. /\ stage \in Exporting
        /\ proof' = "verified" => up
        /\ UNCHANGED <<now, up, account, pairing, file, stage, got, decision, wasUp, hadAt>>
    BY <1>6 DEF ReadRuntime, conditions, history, Exporting
  <2> QED
    BY <2>1 DEF Types, Phases, ProofIsOfThisExport, HistoryFollows, Exporting,
       FileIsBacked, ReadIsBacked, Backed
<1>7. CASE ReadStatus
  <2>1. /\ stage = "reading" /\ stage' = "deciding"
        /\ got' \in {Normalized(file), NothingRead}
        /\ UNCHANGED <<now, up, account, pairing, file, proof, decision, wasUp, hadAt>>
    BY <1>7 DEF ReadStatus, conditions, history
  <2>2. /\ got' \in Statuses /\ got'.at <= now
        /\ Backed(got', got'.usageAt)
    <3>1. CASE got' = Normalized(file)
      BY <3>1, NormalizedIsBacked DEF Types
    <3>2. CASE got' = NothingRead
      BY <3>2, NothingClaimed DEF Types, Backed
    <3> QED
      BY <2>1, <3>1, <3>2
  <2>3. ReadIsBacked' /\ FileIsBacked'
    BY <2>1, <2>2 DEF ReadIsBacked, FileIsBacked, Backed
  <2>4. Types'
    BY <2>1, <2>2 DEF Types
  <2> QED
    BY <2>1, <2>3, <2>4 DEF Phases, ProofIsOfThisExport, HistoryFollows, Exporting
<1>8. CASE Decide \/ Drop
  <2>1. /\ stage' \in {"decided", "idle"}
        /\ stage' = "idle" => decision' = NoDecision
        /\ proof' = "waiting" /\ got' = NothingRead /\ wasUp' = FALSE
        /\ UNCHANGED <<now, up, account, pairing, file, hadAt>>
    <3>1. CASE Decide
      BY <3>1 DEF Decide, conditions
    <3>2. CASE Drop
      BY <3>2 DEF Drop, conditions
    <3> QED
      BY <1>8, <3>1, <3>2
  <2>2. /\ file' \in Files /\ got' \in Statuses
        /\ FileIsBacked' /\ ReadIsBacked'
    BY <2>1, BackingLasts DEF Types
  <2>3. Types'
    BY <2>1, <2>2 DEF Types
  <2> QED
    BY <2>1, <2>2, <2>3 DEF Phases, ProofIsOfThisExport, HistoryFollows, Exporting
<1>9. CASE Accept
  <2>1. /\ stage = "decided" /\ stage' = "idle" /\ decision' = NoDecision
        /\ UNCHANGED <<now, up, account, pairing, file, proof, got, wasUp, hadAt>>
    BY <1>9 DEF Accept, conditions, history
  <2> QED
    BY <2>1 DEF Types, Phases, ProofIsOfThisExport, HistoryFollows, Exporting,
       FileIsBacked, ReadIsBacked, Backed
<1>10. CASE Damage \/ Repair
  <2>1. UNCHANGED <<now, up, account, pairing, file, stage, proof, got, decision, wasUp, hadAt>>
    BY <1>10 DEF Damage, Repair, conditions, export, history
  <2> QED
    BY <2>1 DEF Types, Phases, ProofIsOfThisExport, HistoryFollows, Exporting,
       FileIsBacked, ReadIsBacked, Backed
<1> QED
  BY <1>1, <1>2, <1>3, <1>4, <1>5, <1>6, <1>7, <1>8, <1>9, <1>10 DEF CapacityNext

(* A decision for available rests on a proof of this export and on a status    *)
(* that has an account paired and its capacity dated within the limit.        *)
LEMMA DecideOnEvidence ==
  ASSUME EvidenceInv, Decide, decision'.state = "available"
  PROVE  wasUp /\ (got.dated = "usage" => now - hadAt <= 2 * StaleAfter)
<1> DEFINE s == IF got = NothingRead THEN Unavailable(now) ELSE got
           verified == proof = "verified" /\ FreshAt(now, s)
<1>1. decision'.state = IF Reason(s, verified) = "verified-capacity"
                        THEN "available" ELSE "blocked"
  BY DEF Decide
<1>2. Reason(s, verified) = "verified-capacity"
  BY <1>1
<1>3. /\ Mapped(s) /\ verified /\ s.account # "unreadable"
      /\ ProviderCapacity(s) \notin {"unproven", "blocked"}
  BY <1>2 DEF Reason
<1>4. FreshAt(s.usageAt, s) /\ s.account \notin {"unknown", "unreadable", "spent"}
  BY <1>3 DEF ProviderCapacity
<1>5. s = got
  BY <1>3 DEF Mapped, Unavailable
<1>6. /\ got \in Statuses /\ got.account \in Account
      /\ got.at <= now /\ Backed(got, got.usageAt)
  BY DEF EvidenceInv, Types, Statuses, ReadIsBacked
<1>7. got.account = "has"
  BY <1>4, <1>5, <1>6 DEF Account
<1>8. /\ now \in Nat /\ hadAt \in Nat /\ StaleAfter \in Nat
      /\ got.at \in Nat /\ got.usageAt \in Nat
  BY <1>6, AutomationCapacityAssumption DEF EvidenceInv, Types, Statuses
<1>9. Apart(now, got.at) <= StaleAfter /\ Apart(got.usageAt, got.at) <= StaleAfter
  BY <1>3, <1>4, <1>5 DEF FreshAt
<1>10. now - got.at <= StaleAfter /\ got.at - got.usageAt <= StaleAfter
  BY <1>6, <1>8, <1>9 DEF Apart
<1>11. got.dated = "usage" => got.usageAt <= hadAt
  BY <1>6, <1>7 DEF Backed
<1>12. wasUp
  BY <1>3 DEF EvidenceInv, ProofIsOfThisExport
<1> QED
  BY <1>8, <1>10, <1>11, <1>12

(* What a step must satisfy for DatedEvidenceIsRecent. *)
Recent ==
  stage = "deciding" /\ decision'.state = "available" =>
    /\ wasUp
    /\ got.dated = "usage" => now - hadAt <= 2 * StaleAfter

LEMMA StepIsRecent ==
  ASSUME EvidenceInv, [CapacityNext]_capacityVars
  PROVE  Recent
<1> SUFFICES ASSUME stage = "deciding", decision'.state = "available"
             PROVE  wasUp /\ (got.dated = "usage" => now - hadAt <= 2 * StaleAfter)
  BY DEF Recent
<1>1. decision = NoDecision /\ NoDecision.state = "none"
  BY DEF EvidenceInv, Phases, NoDecision
<1>2. decision' # NoDecision
  BY <1>1
<1>3. Decide
  BY <1>1, <1>2 DEF CapacityNext, capacityVars, Turn, Publish, Tick, Start, ReadRuntime,
     ReadStatus, Accept, Drop, Damage, Repair, export
<1> QED
  BY <1>3, DecideOnEvidence

(* Work runs only on evidence: whatever the staleness limit and however the    *)
(* world changes between measurement, writing, reading and decision, an export *)
(* that decides available saw the runtime up and, of a record that dates its   *)
(* usage figures, capacity that was there at most twice StaleAfter ago        *)
(* (freshAt, canonicalProviderCapacity).                                      *)
THEOREM DecisionsAreRecent == CapacitySpec => DatedEvidenceIsRecent
<1>1. EvidenceInv /\ [CapacityNext]_capacityVars => EvidenceInv'
  BY EvidenceStep
<1>2. EvidenceInv /\ [CapacityNext]_capacityVars => Recent
  BY StepIsRecent
<1>3. CapacitySpec => []EvidenceInv
  BY EvidenceInitially, <1>1, PTL DEF CapacitySpec
<1>4. CapacitySpec => [][Recent]_capacityVars
  BY <1>2, <1>3, PTL DEF CapacitySpec
<1> QED
  BY <1>4 DEF DatedEvidenceIsRecent, Recent
===============================================================================
