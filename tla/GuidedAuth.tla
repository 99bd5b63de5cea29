----------------------------- MODULE GuidedAuth -----------------------------
(***************************************************************************)
(* Guided-auth challenges and their audit log: requests of servers and     *)
(* commands over two files, each guarded by a lock directory of its own.   *)
(*                                                                         *)
(* A request polls for the challenge lock, reads the file, writes back the *)
(* challenges it finds elapsed, decides, writes, and releases.  A request  *)
(* that ends a challenge (cancel, or a reauth proof) first probes the      *)
(* audit log and afterwards, under the audit lock, appends a record.  A    *)
(* poll gives up after a bounded number of attempts; a dead process leaves *)
(* its lock directories behind.                                            *)
(***************************************************************************)
EXTENDS Naturals, Sequences, FiniteSets

CONSTANTS
  Procs,          \* request slots; a slot is reused by later requests
  Keys,           \* challenge keys: mode, provider, runtime, target, scope
  ReauthKeys,     \* those whose mode is reauth
  Expiries,       \* the expiry times a start may carry
  ProofResults,   \* the results reauth proofs carry: completed, failed, or both
  Never,          \* no expiresAt; also: no id
  Free, Stale,    \* lock values: no directory; a dead process's directory
  Attempts,       \* polls of a lock before a request gives up
  MaxProofAge,    \* age limit of a reauth proof, in ticks
  MaxRecords,     \* records the audit log keeps
  MaxChallenges,  \* bound: challenges created in a behavior
  MaxTime,        \* bound: last tick of the clock
  MaxCrashes      \* bound: process deaths in a behavior

ASSUME GuidedAuthAssumption ==
  /\ ReauthKeys \subseteq Keys
  /\ ProofResults \subseteq {"completed", "failed"}
  /\ Never \notin Nat /\ Expiries \subseteq Nat \cup {Never}
  /\ Free \notin Procs /\ Stale \notin Procs /\ Free # Stale
  /\ {Attempts, MaxRecords} \subseteq Nat \ {0}
  /\ {MaxProofAge, MaxChallenges, MaxTime, MaxCrashes} \subseteq Nat

VARIABLES
  now, crashes,
  challenges,   \* the challenge file
  nextId,       \* source of fresh challenge ids
  chLock,       \* <challenge file>.lock
  audits,       \* the audit file: its records, oldest first
  auditLock,    \* <audit file>.lock
  pc, call, arrived, tries, snap, log, due, answer   \* one request each

request == <<pc, call, arrived, tries, snap, log, due, answer>>
vars == <<now, crashes, challenges, nextId, chLock, audits, auditLock, request>>

Ids == 0 .. MaxChallenges + Cardinality(Procs)
(* A reauth proof, well-formed and bound to the challenge it is sent for; any  *)
(* other evidence is NoProof.                                                 *)
NoProof == [result |-> "none", observed |-> 0]
Proofs == {NoProof} \cup [result : ProofResults, observed : 0 .. MaxTime]
NoRecord == [action |-> "none", id |-> Never, says |-> "none"]
(* What a caller was told, as far as it commits the service; everything else  *)
(* (created, reused, unchanged, not found, an error) is NoAnswer.             *)
NoAnswer == [says |-> "none", id |-> Never]

List == [op |-> "list"]
Calls ==
  {List} \cup [op : {"start"}, key : Keys, exp : Expiries]
         \cup [op : {"cancel"}, id : Ids]
         \cup [op : {"terminal"}, id : Ids, proof : Proofs]

Goto(p, label) == pc' = [pc EXCEPT ![p] = label]
Reply(p, says, id) == answer' = [answer EXCEPT ![p] = [says |-> says, id |-> id]]
Throw(p) == answer' = [answer EXCEPT ![p] = NoAnswer]
(* The request is over; its slot forgets everything but the answer it gave. *)
Exit(p) ==
  /\ Goto(p, "idle")
  /\ call' = [call EXCEPT ![p] = List] /\ arrived' = [arrived EXCEPT ![p] = 0]
  /\ tries' = [tries EXCEPT ![p] = 0] /\ snap' = [snap EXCEPT ![p] = {}]
  /\ log' = [log EXCEPT ![p] = <<>>] /\ due' = [due EXCEPT ![p] = NoRecord]

Init ==
  /\ now = 0 /\ crashes = 0
  /\ challenges = {} /\ nextId = 0 /\ chLock = Free
  /\ audits = <<>> /\ auditLock = Free
  /\ pc = [p \in Procs |-> "idle"] /\ call = [p \in Procs |-> List]
  /\ arrived = [p \in Procs |-> 0] /\ tries = [p \in Procs |-> 0]
  /\ snap = [p \in Procs |-> {}] /\ log = [p \in Procs |-> <<>>]
  /\ due = [p \in Procs |-> NoRecord] /\ answer = [p \in Procs |-> NoAnswer]

-------------------------------------------------------------------------------
(* Challenges: pure operations.                                               *)

Elapsed(c, t) == c.status = "pending" /\ c.exp # Never /\ c.exp <= t
(* Mutant: a terminal challenge past its expiry is relabelled too. *)
ExpiredMutant(c, t) ==
  IF c.exp # Never /\ c.exp <= t THEN [c EXCEPT !.status = "expired"] ELSE c
Expired(c, t) == IF Elapsed(c, t) THEN [c EXCEPT !.status = "expired"] ELSE c

(* Mutant: the pending check is left to the caller. *)
CancelledMutant(c, t) ==
  IF c.status \in {"pending", "completed"} THEN [c EXCEPT !.status = "cancelled"] ELSE c
Cancelled(c, t) ==
  IF Expired(c, t).status = "pending" THEN [c EXCEPT !.status = "cancelled"]
  ELSE Expired(c, t)

(* The pending challenges a start with this key would reuse.  Mutant: none is. *)
ActiveMutant(set, key, t) == {}
Active(set, key, t) == {c \in set : Expired(c, t).status = "pending" /\ c.key = key}

(* Fresh evidence bound to one pending reauth challenge (verifyReauthProof). *)
ProofVerifies(c, proof, t) ==
  /\ c.key \in ReauthKeys /\ c.status = "pending"
  /\ proof # NoProof
  /\ proof.observed <= t /\ t - proof.observed <= MaxProofAge

(* append keeps the newest MaxRecords records.  Mutant: the oldest are kept.   *)
TrimmedMutant(s) == IF Len(s) > MaxRecords THEN SubSeq(s, 1, MaxRecords) ELSE s
Trimmed(s) == IF Len(s) > MaxRecords THEN SubSeq(s, Len(s) - MaxRecords + 1, Len(s)) ELSE s

-------------------------------------------------------------------------------
(* Requests arrive; a read-only view is one read of the file and no lock.     *)

Begin(p, c) ==
  /\ pc[p] = "idle"
  /\ c.op = "start" => nextId < MaxChallenges
  /\ call' = [call EXCEPT ![p] = c]
  /\ arrived' = [arrived EXCEPT ![p] = IF c.op = "terminal" THEN now ELSE 0]
  /\ Goto(p, IF c.op \in {"cancel", "terminal"} THEN "probe" ELSE "lock")
  /\ answer' = [answer EXCEPT ![p] = NoAnswer]
  /\ UNCHANGED <<now, crashes, challenges, nextId, chLock, audits, auditLock,
                 tries, snap, log, due>>

ViewReadOnly(p, c) ==
  /\ pc[p] = "idle"
  /\ c \in challenges
  /\ answer' = [answer EXCEPT ![p] = IF Expired(c, now).status = "expired"
                                     THEN [says |-> "shown_expired", id |-> c.id]
                                     ELSE NoAnswer]
  /\ UNCHANGED <<now, crashes, challenges, nextId, chLock, audits, auditLock,
                 pc, call, arrived, tries, snap, log, due>>

(* The audit log is read before anything is changed. *)
ProbeAudit(p) ==
  /\ pc[p] = "probe"
  /\ Goto(p, "lock")
  /\ UNCHANGED <<now, crashes, challenges, nextId, chLock, audits, auditLock,
                 call, arrived, tries, snap, log, due, answer>>

ProbeFails(p) ==
  /\ pc[p] = "probe"
  /\ Exit(p)
  /\ UNCHANGED <<now, crashes, challenges, nextId, chLock, audits, auditLock,
                 answer>>

-------------------------------------------------------------------------------
(* Under the challenge lock.                                                  *)

(* Mutant: mkdir with recursive: true does not fail on an existing directory.  *)
LockIsFreeMutant(lock) == TRUE
LockIsFree(lock) == lock = Free

TakeLock(p) ==
  /\ pc[p] = "lock" /\ LockIsFree(chLock)
  /\ chLock' = p
  /\ tries' = [tries EXCEPT ![p] = 0]
  /\ Goto(p, "read")
  /\ UNCHANGED <<now, crashes, challenges, nextId, audits, auditLock, call,
                 arrived, snap, log, due, answer>>

Tried(p) == tries' = [tries EXCEPT ![p] = @ + 1]

PollLock(p) ==
  /\ \/ pc[p] = "lock" /\ ~LockIsFree(chLock)
     \/ pc[p] = "audit_lock" /\ ~LockIsFree(auditLock)
  /\ tries[p] + 1 < Attempts
  /\ Tried(p)
  /\ UNCHANGED <<now, crashes, challenges, nextId, chLock, audits, auditLock,
                 pc, call, arrived, snap, log, due, answer>>

(* challenge_store_locked, or audit_store_lock_timeout. *)
GiveUp(p) ==
  /\ \/ pc[p] = "lock" /\ ~LockIsFree(chLock)
     \/ pc[p] = "audit_lock" /\ ~LockIsFree(auditLock)
  /\ tries[p] + 1 >= Attempts
  /\ Throw(p)
  /\ Exit(p)
  /\ UNCHANGED <<now, crashes, challenges, nextId, chLock, audits, auditLock>>

(* listUnsafe: read, project expiry; write back only if that changed a status. *)
ReadChallenges(p) ==
  /\ pc[p] = "read"
  /\ LET found == {Expired(c, now) : c \in challenges}
     IN /\ snap' = [snap EXCEPT ![p] = found]
        /\ Goto(p, IF found = challenges THEN "decide" ELSE "sweep")
  /\ UNCHANGED <<now, crashes, challenges, nextId, chLock, audits, auditLock,
                 call, arrived, tries, log, due, answer>>

SweepExpired(p) ==
  /\ pc[p] = "sweep"
  /\ challenges' = snap[p]
  /\ Goto(p, "decide")
  /\ UNCHANGED <<now, crashes, nextId, chLock, audits, auditLock, call,
                 arrived, tries, snap, log, due, answer>>

(* The decision is taken: of its input, a request keeps what it will write.    *)
Settle(p, file) ==
  /\ snap' = [snap EXCEPT ![p] = file]
  /\ call' = [call EXCEPT ![p] = List] /\ arrived' = [arrived EXCEPT ![p] = 0]

(* Nothing to write: a list, a reused or absent challenge, one that has ended. *)
Decline(p) ==
  /\ Settle(p, {})
  /\ Goto(p, "release")
  /\ UNCHANGED <<now, crashes, challenges, nextId, chLock, audits, auditLock,
                 tries, log, due, answer>>

DecideList(p) ==
  /\ pc[p] = "decide" /\ call[p].op = "list"
  /\ Decline(p)

StartReuses(p) ==
  /\ pc[p] = "decide" /\ call[p].op = "start"
  /\ \E c \in Active(snap[p], call[p].key, now) : Decline(p)

StartCreates(p) ==
  /\ pc[p] = "decide" /\ call[p].op = "start"
  /\ Active(snap[p], call[p].key, now) = {}
  /\ Settle(p, snap[p] \cup {[id |-> nextId, key |-> call[p].key,
                              status |-> "pending", exp |-> call[p].exp]})
  /\ nextId' = nextId + 1
  /\ Goto(p, "write")
  /\ UNCHANGED <<now, crashes, challenges, chLock, audits, auditLock, tries,
                 log, due, answer>>

NotFound(p) ==
  /\ pc[p] = "decide" /\ call[p].op \in {"cancel", "terminal"}
  /\ ~ \E c \in snap[p] : c.id = call[p].id
  /\ Decline(p)

CancelUnchanged(p) ==
  /\ pc[p] = "decide" /\ call[p].op = "cancel"
  /\ \E c \in snap[p] : /\ c.id = call[p].id
                        /\ Cancelled(c, now).status = c.status
                        /\ Decline(p)

(* Whatever Cancelled made of it, a changed challenge counts as cancelled. *)
CancelChanges(p) ==
  /\ pc[p] = "decide" /\ call[p].op = "cancel"
  /\ \E c \in snap[p] :
       /\ c.id = call[p].id
       /\ Cancelled(c, now).status # c.status
       /\ Settle(p, (snap[p] \ {c}) \cup {Cancelled(c, now)})
       /\ Reply(p, "cancelled", c.id)
       /\ due' = [due EXCEPT ![p] = [action |-> "cancel", id |-> c.id, says |-> "cancelled"]]
  /\ Goto(p, "write")
  /\ UNCHANGED <<now, crashes, challenges, nextId, chLock, audits, auditLock,
                 tries, log>>

(* completeReauthWithProof uses the time at which the request arrived. *)
TerminalUnchanged(p) ==
  /\ pc[p] = "decide" /\ call[p].op = "terminal"
  /\ \E c \in snap[p] : /\ c.id = call[p].id
                        /\ ~ProofVerifies(Expired(c, arrived[p]), call[p].proof, arrived[p])
                        /\ Decline(p)

TerminalChanges(p) ==
  /\ pc[p] = "decide" /\ call[p].op = "terminal"
  /\ \E c \in snap[p] :
       /\ c.id = call[p].id
       /\ ProofVerifies(Expired(c, arrived[p]), call[p].proof, arrived[p])
       /\ Settle(p, (snap[p] \ {c}) \cup {[c EXCEPT !.status = call[p].proof.result]})
       /\ Reply(p, call[p].proof.result, c.id)
       /\ due' = [due EXCEPT ![p] = [action |-> "reauth", id |-> c.id,
                                     says |-> call[p].proof.result]]
  /\ Goto(p, "write")
  /\ UNCHANGED <<now, crashes, challenges, nextId, chLock, audits, auditLock,
                 tries, log>>

(* writeUnsafe: a temporary file, renamed over the old one. *)
WriteChallenges(p) ==
  /\ pc[p] = "write"
  /\ challenges' = snap[p]
  /\ snap' = [snap EXCEPT ![p] = {}]
  /\ Goto(p, "release")
  /\ UNCHANGED <<now, crashes, nextId, chLock, audits, auditLock, call,
                 arrived, tries, log, due, answer>>

(* A write fails: nothing is changed, the lock is released, the request throws. *)
WriteFails(p) ==
  /\ pc[p] \in {"sweep", "write"}
  /\ due' = [due EXCEPT ![p] = NoRecord]
  /\ Settle(p, {})
  /\ Throw(p)
  /\ Goto(p, "release")
  /\ UNCHANGED <<now, crashes, challenges, nextId, chLock, audits, auditLock,
                 tries, log>>

Release(p) ==
  /\ pc[p] = "release"
  /\ chLock' = Free
  /\ IF due[p] = NoRecord THEN Exit(p)
     ELSE /\ Goto(p, "audit_lock")
          /\ UNCHANGED <<call, arrived, tries, snap, log, due>>
  /\ UNCHANGED <<now, crashes, challenges, nextId, audits, auditLock, answer>>

-------------------------------------------------------------------------------
(* Under the audit lock.                                                      *)

TakeAuditLock(p) ==
  /\ pc[p] = "audit_lock" /\ LockIsFree(auditLock)
  /\ auditLock' = p
  /\ Goto(p, "audit_read")
  /\ UNCHANGED <<now, crashes, challenges, nextId, chLock, audits, call,
                 arrived, tries, snap, log, due, answer>>

ReadAudits(p) ==
  /\ pc[p] = "audit_read"
  /\ log' = [log EXCEPT ![p] = audits]
  /\ Goto(p, "audit_write")
  /\ UNCHANGED <<now, crashes, challenges, nextId, chLock, audits, auditLock,
                 call, arrived, tries, snap, due, answer>>

WriteAudits(p) ==
  /\ pc[p] = "audit_write"
  /\ audits' = Trimmed(Append(log[p], due[p]))
  /\ log' = [log EXCEPT ![p] = <<>>]
  /\ due' = [due EXCEPT ![p] = NoRecord]
  /\ Goto(p, "audit_release")
  /\ UNCHANGED <<now, crashes, challenges, nextId, chLock, auditLock, call,
                 arrived, tries, snap, answer>>

(* The read or the write throws; the challenge stays ended, with no record. *)
AuditFails(p) ==
  /\ pc[p] \in {"audit_read", "audit_write"}
  /\ log' = [log EXCEPT ![p] = <<>>]
  /\ due' = [due EXCEPT ![p] = NoRecord]
  /\ Throw(p)
  /\ Goto(p, "audit_release")
  /\ UNCHANGED <<now, crashes, challenges, nextId, chLock, audits, auditLock,
                 call, arrived, tries, snap>>

ReleaseAudit(p) ==
  /\ pc[p] = "audit_release"
  /\ auditLock' = Free
  /\ Exit(p)
  /\ UNCHANGED <<now, crashes, challenges, nextId, chLock, audits, answer>>

-------------------------------------------------------------------------------

Crash(p) ==
  /\ pc[p] # "idle" /\ crashes < MaxCrashes
  /\ crashes' = crashes + 1
  /\ chLock' = IF chLock = p THEN Stale ELSE chLock
  /\ auditLock' = IF auditLock = p THEN Stale ELSE auditLock
  /\ Throw(p)
  /\ Exit(p)
  /\ UNCHANGED <<now, challenges, nextId, audits>>

Tick ==
  /\ now < MaxTime
  /\ now' = now + 1
  /\ UNCHANGED <<crashes, challenges, nextId, chLock, audits, auditLock, request>>

Step(p) ==
  \/ ProbeAudit(p) \/ ProbeFails(p)
  \/ TakeLock(p) \/ PollLock(p) \/ GiveUp(p)
  \/ ReadChallenges(p) \/ SweepExpired(p)
  \/ DecideList(p) \/ StartReuses(p) \/ StartCreates(p) \/ NotFound(p)
  \/ CancelUnchanged(p) \/ CancelChanges(p)
  \/ TerminalUnchanged(p) \/ TerminalChanges(p)
  \/ WriteChallenges(p) \/ WriteFails(p) \/ Release(p)
  \/ TakeAuditLock(p) \/ ReadAudits(p) \/ WriteAudits(p)
  \/ AuditFails(p) \/ ReleaseAudit(p)

(* The ids a caller can hold: of challenges whose creation was decided. *)
Offered == {c \in Calls : c.op \in {"cancel", "terminal"} => c.id < nextId}

Next ==
  \/ Tick
  \/ \E p \in Procs :
       \/ \E c \in Offered : Begin(p, c)
       \/ \E c \in challenges : ViewReadOnly(p, c)
       \/ Step(p)
       \/ Crash(p)

Spec == Init /\ [][Next]_vars

-------------------------------------------------------------------------------
(* Properties.                                                                *)

(* However starts, expiries and ends interleave, at most one challenge of a   *)
(* key is live: pending and not past its expiry (createWithResult's reuse     *)
(* under the lock).                                                           *)
OneLiveChallengePerKey ==
  \A a, b \in challenges :
    /\ a.key = b.key
    /\ Expired(a, now).status = "pending" /\ Expired(b, now).status = "pending"
    => a = b

(* No request drops a challenge another one created, and none changes a       *)
(* challenge that has ended (cancelAuthChallenge, completeReauthWithProof,    *)
(* expireAuthChallenge, all written back whole).                              *)
EndedChallengesStay ==
  [][\A c \in challenges : \E d \in challenges' :
       /\ d.id = c.id /\ d.key = c.key /\ d.exp = c.exp
       /\ c.status # "pending" => d = c]_vars

(* Two requests are never both told that they ended the same challenge        *)
(* (cancelWithResult's changed, completeReauthWithProof's kind).              *)
OneRequestEndsAChallenge ==
  \A p, q \in Procs :
    /\ answer[p].says \in {"cancelled", "completed", "failed"}
    /\ answer[q].says \in {"cancelled", "completed", "failed"}
    /\ answer[p].id = answer[q].id
    => p = q

(* The audit log never names a challenge twice, and a reauth record says what *)
(* the challenge file says (executeGuidedAuthReauthTerminal).                 *)
AuditsAgree ==
  /\ \A i, j \in DOMAIN audits : audits[i].id = audits[j].id => i = j
  /\ \A i \in DOMAIN audits : audits[i].action = "reauth" =>
       \E c \in challenges : c.id = audits[i].id /\ c.status = audits[i].says

(* The audit log only ever gains a record at its end, losing the oldest one   *)
(* once it holds limit records: no append overwrites another, and a request   *)
(* that keeps its answer has made one (AuditStore.append).                    *)
KeepsNewest(limit) ==
  \/ \E p \in Procs : pc[p] = "audit_write" /\
       LET longer == Append(audits, due[p])
       IN audits' = IF Len(longer) > limit THEN Tail(longer) ELSE longer
  \/ /\ audits' = audits
     /\ \A p \in Procs : pc[p] = "audit_write" /\ pc'[p] = "audit_release"
          => answer'[p] = NoAnswer
===============================================================================
