-------------------------- MODULE ProtectedMutation --------------------------
(***************************************************************************)
(* The protected-mutation lifecycle: command processes of the CLI (and     *)
(* the history reads of the server) over one mutation repository.          *)
(*                                                                         *)
(* A command reads the runtime status, previews (minting a signed review,  *)
(* and a warning for a route), or applies: it verifies what the operator   *)
(* confirmed, claims the idempotency key in the durable repository,        *)
(* invokes the native runtime, and completes the operation.  Every         *)
(* repository call takes the directory lock without waiting, reads the     *)
(* whole file, and replaces the whole file.  A process can die anywhere;   *)
(* a lock directory it held stays behind, since nothing removes it.        *)
(***************************************************************************)
EXTENDS Naturals, Sequences, FiniteSets

CONSTANTS
  Procs,           \* process slots; a slot is reused by later invocations
  Keys,            \* idempotency keys callers use
  Requests,        \* request digests: action, provider, runtime, scope, target
  RouteRequests,   \* those whose action is a route action
  Nothing,         \* stands for no key and for no request
  Free, Stale,     \* lock values: no directory; a dead process's directory
  ReviewTtl,       \* lifetime of a review, in ticks
  MaxTime,         \* bound: last tick of the clock
  MaxCrashes       \* bound: process deaths in a behavior

ASSUME ProtectedMutationAssumption ==
  /\ RouteRequests \subseteq Requests
  /\ Nothing \notin Requests /\ Nothing \notin Keys
  /\ Free \notin Procs /\ Stale \notin Procs /\ Free # Stale
  /\ ReviewTtl \in Nat \ {0}
  /\ MaxTime \in Nat
  /\ MaxCrashes \in Nat

VARIABLES
  now,      \* the clock
  crashes,  \* process deaths so far
  issued,   \* every review and warning signed so far
  lock,     \* the write.lock directory: Free, Stale, or its holder
  ops,      \* the operations in the repository file
  nextId,   \* source of fresh operation ids
  pc, call, snap, opId, result, answer,   \* one command process each
  ran,      \* history: native invocations under each key
  proven    \* history: keys whose invocation was verified applied

locals == <<pc, call, snap, opId, result, answer>>
vars == <<now, crashes, issued, lock, ops, nextId, locals, ran, proven>>

Outcomes == {"applied", "failed"}
HistoryRead == [mode |-> "list", key |-> Nothing, req |-> Nothing]
Calls == {HistoryRead}
  \cup [mode : {"preview"}, key : {Nothing}, req : Requests]
  \cup [mode : {"apply"}, key : Keys, req : Requests]
Tokens == [kind : {"review", "warning"}, req : Requests, exp : Nat]
Operations == [id : Nat, key : Keys, req : Requests,
               state : {"pending", "applied", "failed"}, live : BOOLEAN]
Results == [outcome : Outcomes, live : BOOLEAN]
NoResult == [outcome |-> "failed", live |-> FALSE]
(* What a command told its caller about a key; NoAnswer for a command that     *)
(* was refused, found the lock, died, or never asked.                         *)
Answers == [key : Keys, req : Requests, replayed : BOOLEAN,
            says : {"reused", "unknown", "applied", "failed"}]
NoAnswer == [key |-> Nothing, req |-> Nothing, replayed |-> FALSE, says |-> "nothing"]
Labels == {"idle", "status", "authorize", "claim_lock", "claim_read",
           "claim_decide", "release_run", "mutate", "native", "complete_lock",
           "complete_read", "complete_write", "list_lock", "list_read",
           "release_end"}

(* The labels between a successful mkdir and the rm of the lock directory. *)
Critical == {"claim_read", "claim_decide", "release_run", "complete_read",
             "complete_write", "list_read", "release_end"}
(* The labels of a process that has claimed an operation and not completed it. *)
Owning == {"release_run", "mutate", "native", "complete_lock",
           "complete_read", "complete_write"}

Goto(p, label) == pc' = [pc EXCEPT ![p] = label]
Tell(p, said, again) ==
  answer' = [answer EXCEPT ![p] = [key |-> call[p].key, req |-> call[p].req,
                                   replayed |-> again, says |-> said]]
(* The process is gone, and with it all it remembered. *)
Exit(p) ==
  /\ Goto(p, "idle")
  /\ call' = [call EXCEPT ![p] = HistoryRead]
  /\ snap' = [snap EXCEPT ![p] = {}]
  /\ opId' = [opId EXCEPT ![p] = 0]
  /\ result' = [result EXCEPT ![p] = NoResult]

Init ==
  /\ now = 0 /\ crashes = 0 /\ issued = {}
  /\ lock = Free /\ ops = {} /\ nextId = 0
  /\ pc = [p \in Procs |-> "idle"]
  /\ call = [p \in Procs |-> HistoryRead]
  /\ snap = [p \in Procs |-> {}]
  /\ opId = [p \in Procs |-> 0]
  /\ result = [p \in Procs |-> NoResult]
  /\ answer = [p \in Procs |-> NoAnswer]
  /\ ran = [k \in Keys |-> <<>>]
  /\ proven = {}

-------------------------------------------------------------------------------
(* Before the repository: status, preview, authorization.                     *)

(* A command is invoked; a history read goes straight to the repository. *)
Invoke(p, c) ==
  /\ pc[p] = "idle"
  /\ call' = [call EXCEPT ![p] = c]
  /\ Goto(p, IF c.mode = "list" THEN "list_lock" ELSE "status")
  /\ answer' = [answer EXCEPT ![p] = NoAnswer]
  /\ UNCHANGED <<now, crashes, issued, lock, ops, nextId, snap, opId, result,
                 ran, proven>>

(* readStatus failed, or the status does not support the request (target,     *)
(* provider and runtime, default or observed agent scope), or the             *)
(* confirmation presented was missing, altered, expired or for another        *)
(* request: the command ends before it reaches the repository.                *)
Refuse(p) ==
  /\ pc[p] \in {"status", "authorize"}
  /\ Exit(p)
  /\ UNCHANGED <<now, crashes, issued, lock, ops, nextId, answer, ran, proven>>

Minted(r) ==
  {[kind |-> "review", req |-> r, exp |-> now + ReviewTtl]} \cup
  (IF r \in RouteRequests
   THEN {[kind |-> "warning", req |-> r, exp |-> now + ReviewTtl]} ELSE {})

Preview(p) ==
  /\ pc[p] = "status" /\ call[p].mode = "preview"
  /\ issued' = issued \cup Minted(call[p].req)
  /\ Exit(p)
  /\ UNCHANGED <<now, crashes, lock, ops, nextId, answer, ran, proven>>

Admit(p) ==
  /\ pc[p] = "status" /\ call[p].mode = "apply"
  /\ Goto(p, "authorize")
  /\ UNCHANGED <<now, crashes, issued, lock, ops, nextId, call, snap, opId,
                 result, answer, ran, proven>>

(* What an operator can paste: a token that was printed, or an edited one.    *)
Presented ==
  issued \cup [kind : {"review", "warning"}, req : Requests, exp : {MaxTime + 1}]

(* Mutant: expiresAt is not compared. *)
VerifiesForever(t, kind, r) == t.kind = kind /\ t \in issued /\ t.req = r

Verifies(t, kind, r) ==
  /\ t.kind = kind
  /\ now < t.exp
  /\ t \in issued          \* its HMAC is the one of this signed content
  /\ t.req = r

Authorize(p) ==
  /\ pc[p] = "authorize"
  /\ call[p].req \in RouteRequests =>
       \E t \in Presented : Verifies(t, "warning", call[p].req)
  /\ \E t \in Presented : Verifies(t, "review", call[p].req)
  /\ Goto(p, "claim_lock")
  /\ UNCHANGED <<now, crashes, issued, lock, ops, nextId, call, snap, opId,
                 result, answer, ran, proven>>

-------------------------------------------------------------------------------
(* The repository: withLock, read, write.                                     *)

(* Mutant: mkdir with recursive: true does not fail on an existing directory. *)
LockAbsentMutant == TRUE
LockAbsent == lock = Free

AfterLock(label) ==
  CASE label = "claim_lock" -> "claim_read"
    [] label = "complete_lock" -> "complete_read"
    [] label = "list_lock" -> "list_read"

LockLabels == {"claim_lock", "complete_lock", "list_lock"}

TakeLock(p) ==
  /\ pc[p] \in LockLabels
  /\ LockAbsent
  /\ lock' = p
  /\ Goto(p, AfterLock(pc[p]))
  /\ UNCHANGED <<now, crashes, issued, ops, nextId, call, snap, opId, result,
                 answer, ran, proven>>

(* Mutant: the call waits for the directory to go away. *)
FindLockedMutant(p) == pc[p] \in LockLabels /\ ~LockAbsent /\ UNCHANGED vars
(* mkdir found the directory: the call throws repository_locked at once, and  *)
(* nothing above it catches the error.                                        *)
FindLocked(p) ==
  /\ pc[p] \in LockLabels
  /\ ~LockAbsent
  /\ Exit(p)
  /\ UNCHANGED <<now, crashes, issued, lock, ops, nextId, answer, ran, proven>>

(* Mutant: a failed read is taken for a missing file. *)
OnDiskMutant == {}
OnDisk == ops

ReadRepository(p) ==
  /\ pc[p] \in {"claim_read", "complete_read", "list_read"}
  /\ snap' = [snap EXCEPT ![p] = OnDisk]
  /\ Goto(p, CASE pc[p] = "claim_read" -> "claim_decide"
               [] pc[p] = "complete_read" -> "complete_write"
               [] pc[p] = "list_read" -> "release_end")
  /\ UNCHANGED <<now, crashes, issued, lock, ops, nextId, call, opId, result,
                 answer, ran, proven>>

(* The file is corrupt, or a read or a write of it fails: the file is as it   *)
(* was, the lock is released, and the command throws.                         *)
RepositoryFails(p) ==
  /\ pc[p] \in {"claim_read", "claim_decide", "complete_read", "complete_write",
               "list_read"}
  /\ Goto(p, "release_end")
  /\ UNCHANGED <<now, crashes, issued, lock, ops, nextId, call, snap, opId,
                 result, answer, ran, proven>>

(* rm of the lock directory in the finally block. *)
ReleaseToRun(p) ==
  /\ pc[p] = "release_run"
  /\ lock' = Free
  /\ Goto(p, "mutate")
  /\ snap' = [snap EXCEPT ![p] = {}]
  /\ UNCHANGED <<now, crashes, issued, ops, nextId, call, opId, result, answer,
                 ran, proven>>

ReleaseAndEnd(p) ==
  /\ pc[p] = "release_end"
  /\ lock' = Free
  /\ Exit(p)
  /\ UNCHANGED <<now, crashes, issued, ops, nextId, answer, ran, proven>>

(* Mutant: operations are looked up by key and digest together. *)
ExistingByDigest(p) == {o \in snap[p] : o.key = call[p].key /\ o.req = call[p].req}
Existing(p) == {o \in snap[p] : o.key = call[p].key}

(* Mutant: the digest is not compared before a receipt is replayed. *)
ReplyMutant(o, r) == IF o.state = "pending" THEN "unknown" ELSE o.state
Reply(o, r) ==
  IF o.req # r THEN "reused" ELSE IF o.state = "pending" THEN "unknown" ELSE o.state

(* claim finds the key: reused for another request, replayed, or unknown. *)
ClaimExisting(p) ==
  /\ pc[p] = "claim_decide"
  /\ \E o \in Existing(p) :
       LET reply == Reply(o, call[p].req)
       IN Tell(p, reply, reply \in Outcomes)
  /\ Goto(p, "release_end")
  /\ UNCHANGED <<now, crashes, issued, lock, ops, nextId, call, snap, opId,
                 result, ran, proven>>

Pending(p) ==
  [id |-> nextId, key |-> call[p].key, req |-> call[p].req,
   state |-> "pending", live |-> FALSE]

ClaimNew(p) ==
  /\ pc[p] = "claim_decide"
  /\ Existing(p) = {}
  /\ ops' = snap[p] \cup {Pending(p)}
  /\ opId' = [opId EXCEPT ![p] = nextId]
  /\ nextId' = nextId + 1
  /\ Goto(p, "release_run")
  /\ UNCHANGED <<now, crashes, issued, lock, call, snap, result, answer, ran,
                 proven>>

(* complete rewrites the pending operation as an immutable receipt. *)
Complete(p) ==
  /\ pc[p] = "complete_write"
  /\ \E o \in snap[p] :
       /\ o.id = opId[p] /\ o.state = "pending"
       /\ ops' = (snap[p] \ {o}) \cup
            {[o EXCEPT !.state = result[p].outcome, !.live = result[p].live]}
  /\ Tell(p, result[p].outcome, FALSE)
  /\ Goto(p, "release_end")
  /\ UNCHANGED <<now, crashes, issued, lock, nextId, call, snap, opId, result,
                 ran, proven>>

-------------------------------------------------------------------------------
(* The native runtime.                                                        *)

(* Mutant: applied alone, without a verification, counts as applied. *)
UnprovenMutant == [outcome |-> "applied", live |-> TRUE]
Unproven == [outcome |-> "failed", live |-> TRUE]
(* Mutant: a blocked payload counts as applied. *)
BlockedMutant == [outcome |-> "applied", live |-> FALSE]
Blocked == [outcome |-> "failed", live |-> FALSE]

(* The adapter returns a blocked payload without invoking the runtime. *)
AdapterBlocks(p) ==
  /\ pc[p] = "mutate"
  /\ result' = [result EXCEPT ![p] = Blocked]
  /\ Goto(p, "complete_lock")
  /\ UNCHANGED <<now, crashes, issued, lock, ops, nextId, call, snap, opId,
                 answer, ran, proven>>

(* The adapter reads the status again before anything else; that read throws, *)
(* and the command ends with its operation still pending.                     *)
AdapterThrows(p) ==
  /\ pc[p] = "mutate"
  /\ Exit(p)
  /\ UNCHANGED <<now, crashes, issued, lock, ops, nextId, answer, ran, proven>>

(* The owned delete script is missing or not trusted: nothing is invoked, and *)
(* the failure is reported as a live one.                                     *)
OwnedDeleteUnavailable(p) ==
  /\ pc[p] = "mutate" /\ call[p].req \notin RouteRequests
  /\ result' = [result EXCEPT ![p] = Unproven]
  /\ Goto(p, "complete_lock")
  /\ UNCHANGED <<now, crashes, issued, lock, ops, nextId, call, snap, opId,
                 answer, ran, proven>>

NativeStart(p) ==
  /\ pc[p] = "mutate"
  /\ ran' = [ran EXCEPT ![call[p].key] = Append(@, call[p].req)]
  /\ Goto(p, "native")
  /\ UNCHANGED <<now, crashes, issued, lock, ops, nextId, call, snap, opId,
                 result, answer, proven>>

(* The invocation ends verified by a fresh read, or ends unproven. *)
NativeVerified(p) ==
  /\ pc[p] = "native"
  /\ proven' = proven \cup {call[p].key}
  /\ result' = [result EXCEPT ![p] = [outcome |-> "applied", live |-> TRUE]]
  /\ Goto(p, "complete_lock")
  /\ UNCHANGED <<now, crashes, issued, lock, ops, nextId, call, snap, opId,
                 answer, ran>>

NativeUnproven(p) ==
  /\ pc[p] = "native"
  /\ result' = [result EXCEPT ![p] = Unproven]
  /\ Goto(p, "complete_lock")
  /\ UNCHANGED <<now, crashes, issued, lock, ops, nextId, call, snap, opId,
                 answer, ran, proven>>

-------------------------------------------------------------------------------

Crash(p) ==
  /\ pc[p] # "idle" /\ crashes < MaxCrashes
  /\ crashes' = crashes + 1
  /\ lock' = IF lock = p THEN Stale ELSE lock
  /\ Exit(p)
  /\ UNCHANGED <<now, issued, ops, nextId, answer, ran, proven>>

Tick ==
  /\ now < MaxTime
  /\ now' = now + 1
  /\ UNCHANGED <<crashes, issued, lock, ops, nextId, locals, ran, proven>>

(* The steps a running process takes by itself. *)
Step(p) ==
  \/ Refuse(p) \/ Preview(p) \/ Admit(p) \/ Authorize(p)
  \/ TakeLock(p) \/ FindLocked(p) \/ ReadRepository(p) \/ RepositoryFails(p)
  \/ ReleaseToRun(p) \/ ReleaseAndEnd(p)
  \/ ClaimExisting(p) \/ ClaimNew(p) \/ Complete(p)
  \/ AdapterBlocks(p) \/ AdapterThrows(p) \/ OwnedDeleteUnavailable(p)
  \/ NativeStart(p) \/ NativeVerified(p) \/ NativeUnproven(p)

Next ==
  \/ Tick
  \/ \E p \in Procs :
       \/ \E c \in Calls : Invoke(p, c)
       \/ Step(p)
       \/ Crash(p)

Spec == Init /\ [][Next]_vars

(* A running process is scheduled; nobody is obliged to invoke a command.     *)
FairSpec == Spec /\ \A p \in Procs : WF_vars(Step(p))

-------------------------------------------------------------------------------
(* Properties.                                                                *)

(* Every variable keeps its type: the repository file holds well-formed       *)
(* operations with ids already drawn, and the lock names a process, a dead    *)
(* one's directory, or nothing (MutationRepository, executeAccountCenterCommand). *)
TypeOK ==
  /\ now \in Nat /\ crashes \in Nat /\ nextId \in Nat
  /\ issued \subseteq Tokens
  /\ lock \in Procs \cup {Free, Stale}
  /\ ops \subseteq Operations
  /\ pc \in [Procs -> Labels]
  /\ call \in [Procs -> Calls]
  /\ snap \in [Procs -> SUBSET Operations]
  /\ opId \in [Procs -> Nat]
  /\ result \in [Procs -> Results]
  /\ answer \in [Procs -> Answers \cup {NoAnswer}]
  /\ ran \in [Keys -> Seq(Requests)]
  /\ proven \subseteq Keys

(* Whatever a process read under the lock is still the repository when it     *)
(* replaces the file, so no update by another process is lost                 *)
(* (withLock around read and write).                                          *)
NoLostUpdate ==
  \A p \in Procs : pc[p] \in {"claim_decide", "complete_write"} => snap[p] = ops

(* One key never names two operations, whatever the interleaving of claims    *)
(* (claim's find before its push).                                            *)
OneOperationPerKey ==
  \A a, b \in ops : a.key = b.key => a = b

(* Over all processes, retries and crashes, the runtime is invoked at most    *)
(* once under a key, and then for the request the repository has bound to it  *)
(* (claim, then adapter.mutate).                                              *)
RunsAtMostOnce ==
  \A k \in Keys :
    /\ Len(ran[k]) <= 1
    /\ ran[k] # <<>> => \E o \in ops : o.key = k /\ o.req = ran[k][1]

(* A receipt says applied only for an invocation a fresh read verified, and   *)
(* one that followed an invocation never denies it                            *)
(* (isVerifiedApplied, redactedEvidence).                                     *)
ReceiptsAreTruthful ==
  \A o \in ops :
    /\ o.state = "applied" => o.key \in proven
    /\ o.state # "pending" /\ ran[o.key] # <<>> => o.live

(* An answer an operator saw stays backed by the durable receipt: the first   *)
(* answer and every replay of a key agree with it (complete, replayMutation). *)
AnswersMatchReceipts ==
  \A p \in Procs :
    answer[p].says \in Outcomes =>
      \E o \in ops : /\ o.key = answer[p].key /\ o.req = answer[p].req
                     /\ o.state = answer[p].says

(* An operation is never dropped or rebound, and a receipt never changes: the *)
(* only thing that happens to an operation is that a pending one is completed *)
(* (complete's immutable receipt).                                            *)
ReceiptsAreImmutable ==
  [][\A o \in ops : \E n \in ops' :
       /\ n.id = o.id /\ n.key = o.key /\ n.req = o.req
       /\ o.state # "pending" => n = o]_vars

(* A process goes on to claim a key only while a review of exactly its request *)
(* and, for a route, an active-scope warning of it are within their five      *)
(* minutes (expiresAt in verifyMutationApply, protectedAuthorization).        *)
InWindow(kind, r) ==
  \E t \in issued : t.kind = kind /\ t.req = r /\ t.exp - ReviewTtl <= now /\ now < t.exp
ConfirmationWindow ==
  [][\A p \in Procs : pc[p] = "authorize" /\ pc'[p] = "claim_lock" =>
       /\ InWindow("review", call[p].req)
       /\ call[p].req \in RouteRequests => InWindow("warning", call[p].req)]_vars

(* Every command that is invoked ends: nothing in the lifecycle waits for     *)
(* another process, not even the lock.                                        *)
CommandsEnd == \A p \in Procs : pc[p] # "idle" ~> pc[p] = "idle"

(* The lifecycle implements the abstract at-most-once mutation.               *)
OpOf(k) == {o \in ops : o.key = k}
Abstract == INSTANCE AtMostOnceMutation WITH
  Unbound <- Nothing,
  phase <- [k \in Keys |-> IF OpOf(k) = {} THEN "none"
                            ELSE (CHOOSE o \in OpOf(k) : TRUE).state],
  bound <- [k \in Keys |-> IF OpOf(k) = {} THEN Nothing
                            ELSE (CHOOSE o \in OpOf(k) : TRUE).req]
ImplementsAtMostOnce == Abstract!Spec
===============================================================================
