----------------------- MODULE ProtectedMutation_proofs -----------------------
(***************************************************************************)
(* Proofs about ProtectedMutation, for any sets of processes, keys and     *)
(* requests, any clock bound and any number of crashes.                    *)
(*                                                                         *)
(* In three parts: what the lock and the journal exclude (IInv); what      *)
(* operators are told can be relied upon (RInv, on top of IInv); and that  *)
(* what is durable about a key goes through the steps of                   *)
(* AtMostOnceMutation and no others.                                       *)
(***************************************************************************)
EXTENDS ProtectedMutation, TLAPS

(* The labels of a process that applies, from its authorization on. *)
Applying == {"authorize", "claim_lock", "claim_read", "claim_decide"} \cup Owning

(* Whoever is between mkdir and rm is the one the lock directory names. *)
LockHeld == \A p \in Procs : pc[p] \in Critical => lock = p

(* A process past admission has a key and a request. *)
CallIsApply ==
  \A p \in Procs : pc[p] \in Applying => call[p].key \in Keys /\ call[p].req \in Requests

(* Operation ids were drawn, and no two operations share one. *)
FreshIds ==
  /\ \A o \in ops : o.id < nextId
  /\ \A a, b \in ops : a.id = b.id => a = b

(* A process at work on an operation finds it pending in the repository. *)
OwnsPending ==
  \A p \in Procs : pc[p] \in Owning =>
    \E o \in ops : /\ o.id = opId[p] /\ o.state = "pending"
                   /\ o.key = call[p].key /\ o.req = call[p].req

(* No two processes are at work under one key. *)
OneOwner ==
  \A p, q \in Procs :
    pc[p] \in Owning /\ pc[q] \in Owning /\ call[p].key = call[q].key => p = q

(* A process that has claimed and not yet invoked the runtime is the first to *)
(* do so under its key.                                                       *)
NotYetRun ==
  \A p \in Procs : pc[p] \in {"release_run", "mutate"} => ran[call[p].key] = <<>>

(* The inductive invariant: what the properties need of the lock, the file    *)
(* and the processes.                                                         *)
IInv ==
  /\ TypeOK
  /\ LockHeld /\ CallIsApply /\ NoLostUpdate
  /\ FreshIds /\ OneOperationPerKey /\ OwnsPending /\ OneOwner
  /\ NotYetRun /\ RunsAtMostOnce

(* A step to a known label keeps the type of pc. *)
LEMMA GotoType ==
  ASSUME NEW p \in Procs, NEW label \in Labels, pc \in [Procs -> Labels],
         Goto(p, label)
  PROVE  pc' \in [Procs -> Labels]
BY DEF Goto

(* An exit keeps the types of what it resets. *)
LEMMA ExitType ==
  ASSUME TypeOK, NEW p \in Procs, Exit(p)
  PROVE  /\ pc' \in [Procs -> Labels] /\ call' \in [Procs -> Calls]
         /\ snap' \in [Procs -> SUBSET Operations]
         /\ opId' \in [Procs -> Nat] /\ result' \in [Procs -> Results]
<1>1. "idle" \in Labels
  BY DEF Labels
<1>2. HistoryRead \in Calls
  BY DEF Calls
<1>3. NoResult \in Results
  BY DEF NoResult, Results, Outcomes
<1> QED
  BY <1>1, <1>2, <1>3, GotoType DEF Exit, TypeOK

(* An answer about the key of a call is an answer. *)
LEMMA TellType ==
  ASSUME TypeOK, NEW p \in Procs, call[p].key \in Keys, call[p].req \in Requests,
         NEW said \in {"reused", "unknown", "applied", "failed"},
         NEW again \in BOOLEAN, Tell(p, said, again)
  PROVE  answer' \in [Procs -> Answers \cup {NoAnswer}]
<1>1. [key |-> call[p].key, req |-> call[p].req, replayed |-> again, says |-> said]
        \in Answers
  BY DEF Answers
<1> QED
  BY <1>1 DEF Tell, TypeOK

(* What the parts of a step put into the file, a snapshot or a result.        *)
LEMMA ValueTypes ==
  ASSUME TypeOK, CallIsApply, NEW p \in Procs
  PROVE  /\ pc[p] \in Applying => Pending(p) \in Operations
         /\ Unproven \in Results /\ Blocked \in Results
         /\ [outcome |-> "applied", live |-> TRUE] \in Results
         /\ call[p].req \in Requests => Minted(call[p].req) \subseteq Tokens
<1>1. Unproven \in Results /\ Blocked \in Results
      /\ [outcome |-> "applied", live |-> TRUE] \in Results
  BY DEF Unproven, Blocked, Results, Outcomes
<1>2. ASSUME pc[p] \in Applying PROVE Pending(p) \in Operations
  BY <1>2 DEF Pending, Operations, TypeOK, CallIsApply
<1>3. ASSUME call[p].req \in Requests PROVE Minted(call[p].req) \subseteq Tokens
  <2>1. now + ReviewTtl \in Nat
    BY ProtectedMutationAssumption DEF TypeOK
  <2> QED
    BY <1>3, <2>1 DEF Minted, Tokens
<1> QED
  BY <1>1, <1>2, <1>3

(* What the three kinds of call carry. *)
LEMMA CallTypes ==
  ASSUME NEW c \in Calls
  PROVE  /\ c.mode \in {"list", "preview", "apply"}
         /\ c.mode # "list" => c.req \in Requests
         /\ c.mode = "apply" => c.key \in Keys
BY DEF Calls, HistoryRead

(* Types are kept by every step. *)
LEMMA TypeStep ==
  ASSUME TypeOK, CallIsApply, [Next]_vars
  PROVE  TypeOK'
<1>1. CASE UNCHANGED vars
  BY <1>1 DEF vars, locals, TypeOK
<1>2. CASE Tick
  BY <1>2 DEF Tick, locals, TypeOK
<1>3. ASSUME NEW p \in Procs, NEW c \in Calls, Invoke(p, c) PROVE TypeOK'
  <2>1. pc' \in [Procs -> Labels]
    BY <1>3, GotoType DEF Invoke, Labels, TypeOK
  <2> QED
    BY <1>3, <2>1 DEF Invoke, TypeOK
<1>4. ASSUME NEW p \in Procs, Refuse(p) PROVE TypeOK'
  BY <1>4, ExitType DEF Refuse, TypeOK
<1>5. ASSUME NEW p \in Procs, Preview(p) PROVE TypeOK'
  <2>1. call[p].req \in Requests
    BY <1>5, CallTypes DEF Preview, TypeOK
  <2> QED
    BY <1>5, <2>1, ExitType, ValueTypes DEF Preview, TypeOK
<1>6. ASSUME NEW p \in Procs, Admit(p) PROVE TypeOK'
  <2>1. pc' \in [Procs -> Labels]
    BY <1>6, GotoType DEF Admit, Labels, TypeOK
  <2> QED
    BY <1>6, <2>1 DEF Admit, TypeOK
<1>7. ASSUME NEW p \in Procs, Authorize(p) PROVE TypeOK'
  <2>1. pc' \in [Procs -> Labels]
    BY <1>7, GotoType DEF Authorize, Labels, TypeOK
  <2> QED
    BY <1>7, <2>1 DEF Authorize, TypeOK
<1>8. ASSUME NEW p \in Procs, TakeLock(p) PROVE TypeOK'
  <2>1. AfterLock(pc[p]) \in Labels
    BY <1>8 DEF TakeLock, LockLabels, AfterLock, Labels
  <2>2. pc' \in [Procs -> Labels]
    BY <1>8, <2>1, GotoType DEF TakeLock, TypeOK
  <2> QED
    BY <1>8, <2>2 DEF TakeLock, TypeOK
<1>9. ASSUME NEW p \in Procs, FindLocked(p) PROVE TypeOK'
  BY <1>9, ExitType DEF FindLocked, TypeOK
<1>10. ASSUME NEW p \in Procs, ReadRepository(p) PROVE TypeOK'
  <2>1. pc' \in [Procs -> Labels]
    BY <1>10 DEF ReadRepository, Goto, Labels, TypeOK
  <2> QED
    BY <1>10, <2>1 DEF ReadRepository, OnDisk, TypeOK
<1>11. ASSUME NEW p \in Procs, ReleaseToRun(p) PROVE TypeOK'
  <2>1. pc' \in [Procs -> Labels]
    BY <1>11, GotoType DEF ReleaseToRun, Labels, TypeOK
  <2> QED
    BY <1>11, <2>1 DEF ReleaseToRun, TypeOK
<1>12. ASSUME NEW p \in Procs, ReleaseAndEnd(p) PROVE TypeOK'
  BY <1>12, ExitType DEF ReleaseAndEnd, TypeOK
<1>13. ASSUME NEW p \in Procs, ClaimExisting(p) PROVE TypeOK'
  <2>1. pc' \in [Procs -> Labels]
    BY <1>13, GotoType DEF ClaimExisting, Labels, TypeOK
  <2>2. PICK o \in Existing(p) :
          Tell(p, Reply(o, call[p].req), Reply(o, call[p].req) \in Outcomes)
    BY <1>13 DEF ClaimExisting
  <2>3. Reply(o, call[p].req) \in {"reused", "unknown", "applied", "failed"}
    BY DEF Existing, Reply, TypeOK, Operations
  <2>4. call[p].key \in Keys /\ call[p].req \in Requests
    BY <1>13 DEF ClaimExisting, CallIsApply, Applying
  <2>5. (Reply(o, call[p].req) \in Outcomes) \in BOOLEAN
    OBVIOUS
  <2>6. answer' \in [Procs -> Answers \cup {NoAnswer}]
    BY <2>2, <2>3, <2>4, <2>5, TellType
  <2> QED
    BY <1>13, <2>1, <2>6 DEF ClaimExisting, TypeOK
<1>14. ASSUME NEW p \in Procs, ClaimNew(p) PROVE TypeOK'
  <2>1. pc' \in [Procs -> Labels]
    BY <1>14, GotoType DEF ClaimNew, Labels, TypeOK
  <2>2. Pending(p) \in Operations
    BY <1>14, ValueTypes DEF ClaimNew, Applying
  <2>3. ops' \subseteq Operations
    BY <1>14, <2>2 DEF ClaimNew, TypeOK
  <2>4. nextId' \in Nat /\ opId' \in [Procs -> Nat]
    BY <1>14 DEF ClaimNew, TypeOK
  <2> QED
    BY <1>14, <2>1, <2>3, <2>4 DEF ClaimNew, TypeOK
<1>15. ASSUME NEW p \in Procs, Complete(p) PROVE TypeOK'
  <2>1. pc' \in [Procs -> Labels]
    BY <1>15, GotoType DEF Complete, Labels, TypeOK
  <2>2. ops' \subseteq Operations
    <3>1. PICK o \in snap[p] :
            ops' = (snap[p] \ {o}) \cup
              {[o EXCEPT !.state = result[p].outcome, !.live = result[p].live]}
      BY <1>15 DEF Complete
    <3>2. snap[p] \subseteq Operations /\ result[p] \in Results
      BY DEF TypeOK
    <3>3. [o EXCEPT !.state = result[p].outcome, !.live = result[p].live] \in Operations
      BY <3>2 DEF Operations, Results, Outcomes
    <3> QED
      BY <3>1, <3>2, <3>3
  <2>3. result[p].outcome \in {"reused", "unknown", "applied", "failed"}
    BY DEF TypeOK, Results, Outcomes
  <2>4. answer' \in [Procs -> Answers \cup {NoAnswer}]
    BY <1>15, <2>3, TellType DEF Complete, CallIsApply, Applying, Owning
  <2> QED
    BY <1>15, <2>1, <2>2, <2>4 DEF Complete, TypeOK
<1>16. ASSUME NEW p \in Procs, AdapterBlocks(p) PROVE TypeOK'
  <2>1. pc' \in [Procs -> Labels]
    BY <1>16, GotoType DEF AdapterBlocks, Labels, TypeOK
  <2> QED
    BY <1>16, <2>1, ValueTypes DEF AdapterBlocks, TypeOK
<1>17. ASSUME NEW p \in Procs, AdapterThrows(p) PROVE TypeOK'
  BY <1>17, ExitType DEF AdapterThrows, TypeOK
<1>18. ASSUME NEW p \in Procs, OwnedDeleteUnavailable(p) PROVE TypeOK'
  <2>1. pc' \in [Procs -> Labels]
    BY <1>18, GotoType DEF OwnedDeleteUnavailable, Labels, TypeOK
  <2> QED
    BY <1>18, <2>1, ValueTypes DEF OwnedDeleteUnavailable, TypeOK
<1>19. ASSUME NEW p \in Procs, NativeStart(p) PROVE TypeOK'
  <2>1. pc' \in [Procs -> Labels]
    BY <1>19, GotoType DEF NativeStart, Labels, TypeOK
  <2>2. call[p].key \in Keys /\ call[p].req \in Requests
    BY <1>19 DEF NativeStart, CallIsApply, Applying, Owning
  <2>3. ran' \in [Keys -> Seq(Requests)]
    BY <1>19, <2>2 DEF NativeStart, TypeOK
  <2> QED
    BY <1>19, <2>1, <2>3 DEF NativeStart, TypeOK
<1>20. ASSUME NEW p \in Procs, NativeVerified(p) PROVE TypeOK'
  <2>1. pc' \in [Procs -> Labels]
    BY <1>20, GotoType DEF NativeVerified, Labels, TypeOK
  <2>2. call[p].key \in Keys
    BY <1>20 DEF NativeVerified, CallIsApply, Applying, Owning
  <2> QED
    BY <1>20, <2>1, <2>2, ValueTypes DEF NativeVerified, TypeOK
<1>21. ASSUME NEW p \in Procs, NativeUnproven(p) PROVE TypeOK'
  <2>1. pc' \in [Procs -> Labels]
    BY <1>21, GotoType DEF NativeUnproven, Labels, TypeOK
  <2> QED
    BY <1>21, <2>1, ValueTypes DEF NativeUnproven, TypeOK
<1>22. ASSUME NEW p \in Procs, Crash(p) PROVE TypeOK'
  BY <1>22, ExitType DEF Crash, TypeOK
<1>23. ASSUME NEW p \in Procs, RepositoryFails(p) PROVE TypeOK'
  <2>1. pc' \in [Procs -> Labels]
    BY <1>23, GotoType DEF RepositoryFails, Labels, TypeOK
  <2> QED
    BY <1>23, <2>1 DEF RepositoryFails, TypeOK
<1> QED
  BY <1>1, <1>2, <1>3, <1>4, <1>5, <1>6, <1>7, <1>8, <1>9, <1>10, <1>11, <1>12,
     <1>13, <1>14, <1>15, <1>16, <1>17, <1>18, <1>19, <1>20, <1>21, <1>22,
     <1>23 DEF Next, Step

(* The lock directory keeps naming whoever is between mkdir and rm. *)
LEMMA LockStep ==
  ASSUME TypeOK, LockHeld, [Next]_vars
  PROVE  LockHeld'
<1>1. CASE UNCHANGED vars
  BY <1>1 DEF vars, locals, TypeOK, LockHeld, Goto, Critical
<1>2. CASE Tick
  BY <1>2 DEF Tick, locals, TypeOK, LockHeld, Goto, Critical
<1>3. ASSUME NEW p \in Procs, NEW c \in Calls, Invoke(p, c) PROVE LockHeld'
  BY <1>3 DEF Invoke, TypeOK, LockHeld, Goto, Critical
<1>4. ASSUME NEW p \in Procs, Refuse(p) PROVE LockHeld'
  BY <1>4 DEF Refuse, TypeOK, LockHeld, Goto, Critical, Exit
<1>5. ASSUME NEW p \in Procs, Preview(p) PROVE LockHeld'
  BY <1>5 DEF Preview, TypeOK, LockHeld, Goto, Critical, Exit
<1>6. ASSUME NEW p \in Procs, Admit(p) PROVE LockHeld'
  BY <1>6 DEF Admit, TypeOK, LockHeld, Goto, Critical
<1>7. ASSUME NEW p \in Procs, Authorize(p) PROVE LockHeld'
  BY <1>7 DEF Authorize, TypeOK, LockHeld, Goto, Critical
<1>8. ASSUME NEW p \in Procs, TakeLock(p) PROVE LockHeld'
  <2>1. lock = Free /\ lock' = p
    BY <1>8 DEF TakeLock, LockAbsent
  <2>2. \A q \in Procs : pc[q] \notin Critical
    BY <2>1, ProtectedMutationAssumption DEF LockHeld
  <2>3. \A q \in Procs : q # p => pc'[q] = pc[q]
    BY <1>8 DEF TakeLock, Goto, TypeOK
  <2> QED
    BY <2>1, <2>2, <2>3 DEF LockHeld
<1>9. ASSUME NEW p \in Procs, FindLocked(p) PROVE LockHeld'
  BY <1>9 DEF FindLocked, TypeOK, LockHeld, Goto, Critical, Exit, LockLabels
<1>10. ASSUME NEW p \in Procs, ReadRepository(p) PROVE LockHeld'
  BY <1>10 DEF ReadRepository, TypeOK, LockHeld, Goto, Critical
<1>11. ASSUME NEW p \in Procs, ReleaseToRun(p) PROVE LockHeld'
  BY <1>11 DEF ReleaseToRun, TypeOK, LockHeld, Goto, Critical
<1>12. ASSUME NEW p \in Procs, ReleaseAndEnd(p) PROVE LockHeld'
  BY <1>12 DEF ReleaseAndEnd, TypeOK, LockHeld, Goto, Critical, Exit
<1>13. ASSUME NEW p \in Procs, ClaimExisting(p) PROVE LockHeld'
  BY <1>13 DEF ClaimExisting, TypeOK, LockHeld, Goto, Critical
<1>14. ASSUME NEW p \in Procs, ClaimNew(p) PROVE LockHeld'
  BY <1>14 DEF ClaimNew, TypeOK, LockHeld, Goto, Critical
<1>15. ASSUME NEW p \in Procs, Complete(p) PROVE LockHeld'
  BY <1>15 DEF Complete, TypeOK, LockHeld, Goto, Critical
<1>16. ASSUME NEW p \in Procs, AdapterBlocks(p) PROVE LockHeld'
  BY <1>16 DEF AdapterBlocks, TypeOK, LockHeld, Goto, Critical
<1>17. ASSUME NEW p \in Procs, AdapterThrows(p) PROVE LockHeld'
  BY <1>17 DEF AdapterThrows, TypeOK, LockHeld, Goto, Critical, Exit
<1>18. ASSUME NEW p \in Procs, OwnedDeleteUnavailable(p) PROVE LockHeld'
  BY <1>18 DEF OwnedDeleteUnavailable, TypeOK, LockHeld, Goto, Critical
<1>19. ASSUME NEW p \in Procs, NativeStart(p) PROVE LockHeld'
  BY <1>19 DEF NativeStart, TypeOK, LockHeld, Goto, Critical
<1>20. ASSUME NEW p \in Procs, NativeVerified(p) PROVE LockHeld'
  BY <1>20 DEF NativeVerified, TypeOK, LockHeld, Goto, Critical
<1>21. ASSUME NEW p \in Procs, NativeUnproven(p) PROVE LockHeld'
  BY <1>21 DEF NativeUnproven, TypeOK, LockHeld, Goto, Critical
<1>22. ASSUME NEW p \in Procs, Crash(p) PROVE LockHeld'
  BY <1>22 DEF Crash, TypeOK, LockHeld, Goto, Critical, Exit
<1>23. ASSUME NEW p \in Procs, RepositoryFails(p) PROVE LockHeld'
  BY <1>23 DEF RepositoryFails, TypeOK, LockHeld, Goto, Critical
<1> QED
  BY <1>1, <1>2, <1>3, <1>4, <1>5, <1>6, <1>7, <1>8, <1>9, <1>10, <1>11, <1>12,
     <1>13, <1>14, <1>15, <1>16, <1>17, <1>18, <1>19, <1>20, <1>21, <1>22,
     <1>23 DEF Next, Step

(* A process past admission keeps the call it was invoked with. *)
LEMMA CallStep ==
  ASSUME TypeOK, CallIsApply, [Next]_vars
  PROVE  CallIsApply'
<1>1. CASE UNCHANGED vars
  BY <1>1 DEF vars, locals, TypeOK, CallIsApply, Goto, Applying, Owning
<1>2. CASE Tick
  BY <1>2 DEF Tick, locals, TypeOK, CallIsApply, Goto, Applying, Owning
<1>3. ASSUME NEW p \in Procs, NEW c \in Calls, Invoke(p, c) PROVE CallIsApply'
  BY <1>3 DEF Invoke, TypeOK, CallIsApply, Goto, Applying, Owning
<1>4. ASSUME NEW p \in Procs, Refuse(p) PROVE CallIsApply'
  BY <1>4 DEF Refuse, TypeOK, CallIsApply, Goto, Applying, Owning, Exit
<1>5. ASSUME NEW p \in Procs, Preview(p) PROVE CallIsApply'
  BY <1>5 DEF Preview, TypeOK, CallIsApply, Goto, Applying, Owning, Exit
<1>6. ASSUME NEW p \in Procs, Admit(p) PROVE CallIsApply'
  <2>1. call[p].key \in Keys /\ call[p].req \in Requests
    BY <1>6, CallTypes DEF Admit, TypeOK
  <2> QED
    BY <1>6, <2>1 DEF Admit, TypeOK, CallIsApply, Goto, Applying, Owning
<1>7. ASSUME NEW p \in Procs, Authorize(p) PROVE CallIsApply'
  BY <1>7 DEF Authorize, TypeOK, CallIsApply, Goto, Applying, Owning
<1>8. ASSUME NEW p \in Procs, TakeLock(p) PROVE CallIsApply'
  BY <1>8 DEF TakeLock, TypeOK, CallIsApply, Goto, Applying, Owning, LockLabels, AfterLock, Labels
<1>9. ASSUME NEW p \in Procs, FindLocked(p) PROVE CallIsApply'
  BY <1>9 DEF FindLocked, TypeOK, CallIsApply, Goto, Applying, Owning, Exit, LockLabels
<1>10. ASSUME NEW p \in Procs, ReadRepository(p) PROVE CallIsApply'
  BY <1>10 DEF ReadRepository, TypeOK, CallIsApply, Goto, Applying, Owning
<1>11. ASSUME NEW p \in Procs, ReleaseToRun(p) PROVE CallIsApply'
  BY <1>11 DEF ReleaseToRun, TypeOK, CallIsApply, Goto, Applying, Owning
<1>12. ASSUME NEW p \in Procs, ReleaseAndEnd(p) PROVE CallIsApply'
  BY <1>12 DEF ReleaseAndEnd, TypeOK, CallIsApply, Goto, Applying, Owning, Exit
<1>13. ASSUME NEW p \in Procs, ClaimExisting(p) PROVE CallIsApply'
  BY <1>13 DEF ClaimExisting, TypeOK, CallIsApply, Goto, Applying, Owning
<1>14. ASSUME NEW p \in Procs, ClaimNew(p) PROVE CallIsApply'
  BY <1>14 DEF ClaimNew, TypeOK, CallIsApply, Goto, Applying, Owning
<1>15. ASSUME NEW p \in Procs, Complete(p) PROVE CallIsApply'
  BY <1>15 DEF Complete, TypeOK, CallIsApply, Goto, Applying, Owning
<1>16. ASSUME NEW p \in Procs, AdapterBlocks(p) PROVE CallIsApply'
  BY <1>16 DEF AdapterBlocks, TypeOK, CallIsApply, Goto, Applying, Owning
<1>17. ASSUME NEW p \in Procs, AdapterThrows(p) PROVE CallIsApply'
  BY <1>17 DEF AdapterThrows, TypeOK, CallIsApply, Goto, Applying, Owning, Exit
<1>18. ASSUME NEW p \in Procs, OwnedDeleteUnavailable(p) PROVE CallIsApply'
  BY <1>18 DEF OwnedDeleteUnavailable, TypeOK, CallIsApply, Goto, Applying, Owning
<1>19. ASSUME NEW p \in Procs, NativeStart(p) PROVE CallIsApply'
  BY <1>19 DEF NativeStart, TypeOK, CallIsApply, Goto, Applying, Owning
<1>20. ASSUME NEW p \in Procs, NativeVerified(p) PROVE CallIsApply'
  BY <1>20 DEF NativeVerified, TypeOK, CallIsApply, Goto, Applying, Owning
<1>21. ASSUME NEW p \in Procs, NativeUnproven(p) PROVE CallIsApply'
  BY <1>21 DEF NativeUnproven, TypeOK, CallIsApply, Goto, Applying, Owning
<1>22. ASSUME NEW p \in Procs, Crash(p) PROVE CallIsApply'
  BY <1>22 DEF Crash, TypeOK, CallIsApply, Goto, Applying, Owning, Exit
<1>23. ASSUME NEW p \in Procs, RepositoryFails(p) PROVE CallIsApply'
  BY <1>23 DEF RepositoryFails, TypeOK, CallIsApply, Goto, Applying, Owning
<1> QED
  BY <1>1, <1>2, <1>3, <1>4, <1>5, <1>6, <1>7, <1>8, <1>9, <1>10, <1>11, <1>12,
     <1>13, <1>14, <1>15, <1>16, <1>17, <1>18, <1>19, <1>20, <1>21, <1>22,
     <1>23 DEF Next, Step

(* How the two writes change the repository, given that nothing was lost:     *)
(* a claim adds one operation under a new key, a completion replaces the      *)
(* process's own operation and keeps its id, key and request.                 *)
LEMMA ClaimEffect ==
  ASSUME TypeOK, NoLostUpdate, NEW p \in Procs, ClaimNew(p)
  PROVE  /\ ops' = ops \cup {Pending(p)}
         /\ \A o \in ops : o.key # call[p].key
BY DEF ClaimNew, NoLostUpdate, Existing

(* A completion replaces one pending operation by its receipt. *)
LEMMA CompleteEffect ==
  ASSUME TypeOK, NoLostUpdate, NEW p \in Procs, Complete(p)
  PROVE  \E o \in ops, n \in Operations :
           /\ o.id = opId[p] /\ o.state = "pending"
           /\ n.id = o.id /\ n.key = o.key /\ n.req = o.req
           /\ ops' = (ops \ {o}) \cup {n}
<1>1. PICK o \in ops :
        /\ o.id = opId[p] /\ o.state = "pending"
        /\ ops' = (ops \ {o}) \cup
             {[o EXCEPT !.state = result[p].outcome, !.live = result[p].live]}
  BY DEF Complete, NoLostUpdate
<1> DEFINE n == [o EXCEPT !.state = result[p].outcome, !.live = result[p].live]
<1>2. ops \subseteq Operations /\ result[p] \in Results
  BY DEF TypeOK
<1>3. n \in Operations /\ n.id = o.id /\ n.key = o.key /\ n.req = o.req
  BY <1>2 DEF Operations, Results, Outcomes
<1> QED
  BY <1>1, <1>3

(* Only the two writes change the repository. *)
LEMMA OthersKeepRepository ==
  ASSUME [Next]_vars, ~ \E p \in Procs : ClaimNew(p) \/ Complete(p)
  PROVE  ops' = ops
BY DEF Next, Step, vars, locals, Tick, Invoke, Refuse, Preview, Admit, Authorize,
   TakeLock, FindLocked, ReadRepository, ReleaseToRun, ReleaseAndEnd,
   ClaimExisting, AdapterBlocks, AdapterThrows, OwnedDeleteUnavailable,
   NativeStart, NativeVerified, NativeUnproven, Crash,
   RepositoryFails

(* What was read under the lock stays the repository until it is replaced. *)
LEMMA LostUpdateStep ==
  ASSUME TypeOK, LockHeld, NoLostUpdate, [Next]_vars
  PROVE  NoLostUpdate'
<1>1. CASE UNCHANGED vars
  BY <1>1 DEF vars, locals, TypeOK, LockHeld, NoLostUpdate, Goto, Critical
<1>2. CASE Tick
  BY <1>2 DEF Tick, locals, TypeOK, LockHeld, NoLostUpdate, Goto, Critical
<1>3. ASSUME NEW p \in Procs, NEW c \in Calls, Invoke(p, c) PROVE NoLostUpdate'
  BY <1>3 DEF Invoke, TypeOK, LockHeld, NoLostUpdate, Goto, Critical
<1>4. ASSUME NEW p \in Procs, Refuse(p) PROVE NoLostUpdate'
  BY <1>4 DEF Refuse, TypeOK, LockHeld, NoLostUpdate, Goto, Critical, Exit
<1>5. ASSUME NEW p \in Procs, Preview(p) PROVE NoLostUpdate'
  BY <1>5 DEF Preview, TypeOK, LockHeld, NoLostUpdate, Goto, Critical, Exit
<1>6. ASSUME NEW p \in Procs, Admit(p) PROVE NoLostUpdate'
  BY <1>6 DEF Admit, TypeOK, LockHeld, NoLostUpdate, Goto, Critical
<1>7. ASSUME NEW p \in Procs, Authorize(p) PROVE NoLostUpdate'
  BY <1>7 DEF Authorize, TypeOK, LockHeld, NoLostUpdate, Goto, Critical
<1>8. ASSUME NEW p \in Procs, TakeLock(p) PROVE NoLostUpdate'
  BY <1>8 DEF TakeLock, TypeOK, LockHeld, NoLostUpdate, Goto, Critical, LockLabels, AfterLock, Labels
<1>9. ASSUME NEW p \in Procs, FindLocked(p) PROVE NoLostUpdate'
  BY <1>9 DEF FindLocked, TypeOK, LockHeld, NoLostUpdate, Goto, Critical, Exit, LockLabels
<1>10. ASSUME NEW p \in Procs, ReadRepository(p) PROVE NoLostUpdate'
  BY <1>10 DEF ReadRepository, TypeOK, LockHeld, NoLostUpdate, Goto, Critical, OnDisk
<1>11. ASSUME NEW p \in Procs, ReleaseToRun(p) PROVE NoLostUpdate'
  BY <1>11 DEF ReleaseToRun, TypeOK, LockHeld, NoLostUpdate, Goto, Critical
<1>12. ASSUME NEW p \in Procs, ReleaseAndEnd(p) PROVE NoLostUpdate'
  BY <1>12 DEF ReleaseAndEnd, TypeOK, LockHeld, NoLostUpdate, Goto, Critical, Exit
<1>13. ASSUME NEW p \in Procs, ClaimExisting(p) PROVE NoLostUpdate'
  BY <1>13 DEF ClaimExisting, TypeOK, LockHeld, NoLostUpdate, Goto, Critical
<1>14. ASSUME NEW p \in Procs, ClaimNew(p) PROVE NoLostUpdate'
  BY <1>14 DEF ClaimNew, TypeOK, LockHeld, NoLostUpdate, Goto, Critical
<1>15. ASSUME NEW p \in Procs, Complete(p) PROVE NoLostUpdate'
  BY <1>15 DEF Complete, TypeOK, LockHeld, NoLostUpdate, Goto, Critical
<1>16. ASSUME NEW p \in Procs, AdapterBlocks(p) PROVE NoLostUpdate'
  BY <1>16 DEF AdapterBlocks, TypeOK, LockHeld, NoLostUpdate, Goto, Critical
<1>17. ASSUME NEW p \in Procs, AdapterThrows(p) PROVE NoLostUpdate'
  BY <1>17 DEF AdapterThrows, TypeOK, LockHeld, NoLostUpdate, Goto, Critical, Exit
<1>18. ASSUME NEW p \in Procs, OwnedDeleteUnavailable(p) PROVE NoLostUpdate'
  BY <1>18 DEF OwnedDeleteUnavailable, TypeOK, LockHeld, NoLostUpdate, Goto, Critical
<1>19. ASSUME NEW p \in Procs, NativeStart(p) PROVE NoLostUpdate'
  BY <1>19 DEF NativeStart, TypeOK, LockHeld, NoLostUpdate, Goto, Critical
<1>20. ASSUME NEW p \in Procs, NativeVerified(p) PROVE NoLostUpdate'
  BY <1>20 DEF NativeVerified, TypeOK, LockHeld, NoLostUpdate, Goto, Critical
<1>21. ASSUME NEW p \in Procs, NativeUnproven(p) PROVE NoLostUpdate'
  BY <1>21 DEF NativeUnproven, TypeOK, LockHeld, NoLostUpdate, Goto, Critical
<1>22. ASSUME NEW p \in Procs, Crash(p) PROVE NoLostUpdate'
  BY <1>22 DEF Crash, TypeOK, LockHeld, NoLostUpdate, Goto, Critical, Exit
<1>23. ASSUME NEW p \in Procs, RepositoryFails(p) PROVE NoLostUpdate'
  BY <1>23 DEF RepositoryFails, TypeOK, LockHeld, NoLostUpdate, Goto, Critical
<1> QED
  BY <1>1, <1>2, <1>3, <1>4, <1>5, <1>6, <1>7, <1>8, <1>9, <1>10, <1>11, <1>12,
     <1>13, <1>14, <1>15, <1>16, <1>17, <1>18, <1>19, <1>20, <1>21, <1>22,
     <1>23 DEF Next, Step

(* Operations keep distinct ids, and only drawn ones. *)
LEMMA IdsStep ==
  ASSUME TypeOK, NoLostUpdate, FreshIds, [Next]_vars
  PROVE  FreshIds'
<1>1. ASSUME NEW p \in Procs, ClaimNew(p) PROVE FreshIds'
  <2>1. ops' = ops \cup {Pending(p)} /\ nextId' = nextId + 1
    BY <1>1, ClaimEffect DEF ClaimNew
  <2>2. Pending(p).id = nextId
    BY DEF Pending
  <2>3. \A o \in ops : o.id \in Nat
    BY DEF TypeOK, Operations
  <2> QED
    BY <2>1, <2>2, <2>3 DEF FreshIds, TypeOK
<1>2. ASSUME NEW p \in Procs, Complete(p) PROVE FreshIds'
  <2>1. PICK o \in ops, n \in Operations :
          o.id = opId[p] /\ n.id = o.id /\ ops' = (ops \ {o}) \cup {n}
    BY <1>2, CompleteEffect
  <2>2. nextId' = nextId
    BY <1>2 DEF Complete
  <2> QED
    BY <2>1, <2>2 DEF FreshIds
<1>3. ASSUME ~ \E p \in Procs : ClaimNew(p) \/ Complete(p) PROVE FreshIds'
  <2>1. ops' = ops
    BY <1>3, OthersKeepRepository
  <2>2. nextId' = nextId
    BY <1>3 DEF Next, Step, vars, locals, Tick, Invoke, Refuse, Preview, Admit,
       Authorize, TakeLock, FindLocked, ReadRepository, ReleaseToRun,
       ReleaseAndEnd, ClaimExisting, AdapterBlocks, AdapterThrows,
       OwnedDeleteUnavailable, NativeStart, NativeVerified, NativeUnproven, Crash,
   RepositoryFails
  <2> QED
    BY <2>1, <2>2 DEF FreshIds
<1> QED
  BY <1>1, <1>2, <1>3

(* A key keeps naming one operation. *)
LEMMA KeyStep ==
  ASSUME TypeOK, NoLostUpdate, OneOperationPerKey, [Next]_vars
  PROVE  OneOperationPerKey'
<1>1. ASSUME NEW p \in Procs, ClaimNew(p) PROVE OneOperationPerKey'
  <2>1. ops' = ops \cup {Pending(p)} /\ \A o \in ops : o.key # call[p].key
    BY <1>1, ClaimEffect
  <2>2. Pending(p).key = call[p].key
    BY DEF Pending
  <2> QED
    BY <2>1, <2>2 DEF OneOperationPerKey
<1>2. ASSUME NEW p \in Procs, Complete(p) PROVE OneOperationPerKey'
  BY <1>2, CompleteEffect DEF OneOperationPerKey
<1>3. ASSUME ~ \E p \in Procs : ClaimNew(p) \/ Complete(p) PROVE OneOperationPerKey'
  BY <1>3, OthersKeepRepository DEF OneOperationPerKey
<1> QED
  BY <1>1, <1>2, <1>3

(* What q has claimed, and whether it has invoked the runtime, was so before   *)
(* the step.                                                                   *)
SameClaim(q) ==
  /\ pc'[q] \in Owning => pc[q] \in Owning /\ opId'[q] = opId[q] /\ call'[q] = call[q]
  /\ pc'[q] \in {"release_run", "mutate"} => pc[q] \in {"release_run", "mutate"}

(* Only a new claim makes a process an owner. *)
LEMMA OwnersKeep ==
  ASSUME TypeOK, [Next]_vars, \A p \in Procs : ~ ClaimNew(p)
  PROVE  \A q \in Procs : SameClaim(q)
<1>1. CASE UNCHANGED vars
  BY <1>1 DEF vars, locals, TypeOK, SameClaim, Goto, Owning
<1>2. CASE Tick
  BY <1>2 DEF Tick, locals, TypeOK, SameClaim, Goto, Owning
<1>3. ASSUME NEW p \in Procs, NEW c \in Calls, Invoke(p, c) PROVE \A q \in Procs : SameClaim(q)
  BY <1>3 DEF Invoke, TypeOK, SameClaim, Goto, Owning
<1>4. ASSUME NEW p \in Procs, Refuse(p) PROVE \A q \in Procs : SameClaim(q)
  BY <1>4 DEF Refuse, TypeOK, SameClaim, Goto, Owning, Exit
<1>5. ASSUME NEW p \in Procs, Preview(p) PROVE \A q \in Procs : SameClaim(q)
  BY <1>5 DEF Preview, TypeOK, SameClaim, Goto, Owning, Exit
<1>6. ASSUME NEW p \in Procs, Admit(p) PROVE \A q \in Procs : SameClaim(q)
  BY <1>6 DEF Admit, TypeOK, SameClaim, Goto, Owning
<1>7. ASSUME NEW p \in Procs, Authorize(p) PROVE \A q \in Procs : SameClaim(q)
  BY <1>7 DEF Authorize, TypeOK, SameClaim, Goto, Owning
<1>8. ASSUME NEW p \in Procs, TakeLock(p) PROVE \A q \in Procs : SameClaim(q)
  BY <1>8 DEF TakeLock, TypeOK, SameClaim, Goto, Owning, LockLabels, AfterLock, Labels
<1>9. ASSUME NEW p \in Procs, FindLocked(p) PROVE \A q \in Procs : SameClaim(q)
  BY <1>9 DEF FindLocked, TypeOK, SameClaim, Goto, Owning, Exit, LockLabels
<1>10. ASSUME NEW p \in Procs, ReadRepository(p) PROVE \A q \in Procs : SameClaim(q)
  BY <1>10 DEF ReadRepository, TypeOK, SameClaim, Goto, Owning
<1>11. ASSUME NEW p \in Procs, ReleaseToRun(p) PROVE \A q \in Procs : SameClaim(q)
  BY <1>11 DEF ReleaseToRun, TypeOK, SameClaim, Goto, Owning
<1>12. ASSUME NEW p \in Procs, ReleaseAndEnd(p) PROVE \A q \in Procs : SameClaim(q)
  BY <1>12 DEF ReleaseAndEnd, TypeOK, SameClaim, Goto, Owning, Exit
<1>13. ASSUME NEW p \in Procs, ClaimExisting(p) PROVE \A q \in Procs : SameClaim(q)
  BY <1>13 DEF ClaimExisting, TypeOK, SameClaim, Goto, Owning
<1>14. ASSUME NEW p \in Procs, ClaimNew(p) PROVE \A q \in Procs : SameClaim(q)
  BY <1>14
<1>15. ASSUME NEW p \in Procs, Complete(p) PROVE \A q \in Procs : SameClaim(q)
  BY <1>15 DEF Complete, TypeOK, SameClaim, Goto, Owning
<1>16. ASSUME NEW p \in Procs, AdapterBlocks(p) PROVE \A q \in Procs : SameClaim(q)
  BY <1>16 DEF AdapterBlocks, TypeOK, SameClaim, Goto, Owning
<1>17. ASSUME NEW p \in Procs, AdapterThrows(p) PROVE \A q \in Procs : SameClaim(q)
  BY <1>17 DEF AdapterThrows, TypeOK, SameClaim, Goto, Owning, Exit
<1>18. ASSUME NEW p \in Procs, OwnedDeleteUnavailable(p) PROVE \A q \in Procs : SameClaim(q)
  BY <1>18 DEF OwnedDeleteUnavailable, TypeOK, SameClaim, Goto, Owning
<1>19. ASSUME NEW p \in Procs, NativeStart(p) PROVE \A q \in Procs : SameClaim(q)
  BY <1>19 DEF NativeStart, TypeOK, SameClaim, Goto, Owning
<1>20. ASSUME NEW p \in Procs, NativeVerified(p) PROVE \A q \in Procs : SameClaim(q)
  BY <1>20 DEF NativeVerified, TypeOK, SameClaim, Goto, Owning
<1>21. ASSUME NEW p \in Procs, NativeUnproven(p) PROVE \A q \in Procs : SameClaim(q)
  BY <1>21 DEF NativeUnproven, TypeOK, SameClaim, Goto, Owning
<1>22. ASSUME NEW p \in Procs, Crash(p) PROVE \A q \in Procs : SameClaim(q)
  BY <1>22 DEF Crash, TypeOK, SameClaim, Goto, Owning, Exit
<1>23. ASSUME NEW p \in Procs, RepositoryFails(p) PROVE \A q \in Procs : SameClaim(q)
  BY <1>23 DEF RepositoryFails, TypeOK, SameClaim, Goto, Owning
<1> QED
  BY <1>1, <1>2, <1>3, <1>4, <1>5, <1>6, <1>7, <1>8, <1>9, <1>10, <1>11, <1>12,
     <1>13, <1>14, <1>15, <1>16, <1>17, <1>18, <1>19, <1>20, <1>21, <1>22,
     <1>23 DEF Next, Step

(* A claim makes p an owner of its new operation, and leaves the others alone. *)
LEMMA NewOwner ==
  ASSUME TypeOK, NEW p \in Procs, ClaimNew(p)
  PROVE  /\ pc'[p] = "release_run" /\ opId'[p] = nextId
         /\ call' = call /\ ran' = ran
         /\ \A q \in Procs : q # p => SameClaim(q)
BY DEF ClaimNew, Goto, TypeOK, SameClaim

(* Whoever is at work on an operation still finds it pending, alone. *)
LEMMA OwnsStep ==
  ASSUME TypeOK, CallIsApply, NoLostUpdate, FreshIds, OneOperationPerKey,
         OwnsPending, OneOwner, [Next]_vars
  PROVE  OwnsPending' /\ OneOwner'
<1>1. ASSUME NEW p \in Procs, ClaimNew(p) PROVE OwnsPending' /\ OneOwner'
  <2>1. ops' = ops \cup {Pending(p)} /\ \A o \in ops : o.key # call[p].key
    BY <1>1, ClaimEffect
  <2>2. /\ pc'[p] = "release_run" /\ opId'[p] = nextId /\ call' = call
        /\ \A q \in Procs : q # p => SameClaim(q)
    BY <1>1, NewOwner
  <2>3. /\ Pending(p).id = nextId /\ Pending(p).state = "pending"
        /\ Pending(p).key = call[p].key /\ Pending(p).req = call[p].req
    BY DEF Pending
  <2>4. OwnsPending'
    <3> SUFFICES ASSUME NEW q \in Procs, pc'[q] \in Owning
                 PROVE  \E o \in ops' : /\ o.id = opId'[q] /\ o.state = "pending"
                                       /\ o.key = call'[q].key /\ o.req = call'[q].req
      BY DEF OwnsPending
    <3>1. CASE q = p
      BY <3>1, <2>1, <2>2, <2>3
    <3>2. CASE q # p
      BY <3>2, <2>1, <2>2 DEF SameClaim, OwnsPending
    <3> QED
      BY <3>1, <3>2
  <2>5. \A q \in Procs : q # p /\ pc'[q] \in Owning => call'[q].key # call'[p].key
    BY <2>1, <2>2 DEF SameClaim, OwnsPending
  <2>6. OneOwner'
    BY <2>2, <2>5 DEF OneOwner, SameClaim
  <2> QED
    BY <2>4, <2>6
<1>2. ASSUME \A p \in Procs : ~ ClaimNew(p) PROVE OwnsPending' /\ OneOwner'
  <2>1. \A q \in Procs : SameClaim(q)
    BY <1>2, OwnersKeep
  <2>2. OneOwner'
    BY <2>1 DEF OneOwner, SameClaim
  <2>3. ASSUME NEW p \in Procs, Complete(p) PROVE OwnsPending'
    <3>1. PICK o \in ops, n \in Operations :
            o.id = opId[p] /\ ops' = (ops \ {o}) \cup {n}
      BY <2>3, CompleteEffect
    <3>2. pc[p] \in Owning /\ pc'[p] \notin Owning
      BY <2>3 DEF Complete, Owning, Goto, TypeOK
    <3>3. o.key = call[p].key
      BY <3>1, <3>2 DEF OwnsPending, FreshIds
    <3> SUFFICES ASSUME NEW q \in Procs, pc'[q] \in Owning
                 PROVE  \E w \in ops' : /\ w.id = opId'[q] /\ w.state = "pending"
                                       /\ w.key = call'[q].key /\ w.req = call'[q].req
      BY DEF OwnsPending
    <3>4. q # p /\ pc[q] \in Owning /\ opId'[q] = opId[q] /\ call'[q] = call[q]
      BY <2>1, <3>2 DEF SameClaim
    <3>5. PICK w \in ops : /\ w.id = opId[q] /\ w.state = "pending"
                           /\ w.key = call[q].key /\ w.req = call[q].req
      BY <3>4 DEF OwnsPending
    <3>6. w # o
      BY <3>2, <3>3, <3>4, <3>5 DEF OneOwner
    <3> QED
      BY <3>1, <3>4, <3>5, <3>6
  <2>4. ASSUME \A p \in Procs : ~ Complete(p) PROVE OwnsPending'
    <3>1. ops' = ops
      BY <1>2, <2>4, OthersKeepRepository
    <3> QED
      BY <2>1, <3>1 DEF OwnsPending, SameClaim
  <2> QED
    BY <2>2, <2>3, <2>4
<1> QED
  BY <1>1, <1>2

(* Every operation stays, bound as it was; a receipt stays as it is.           *)
LEMMA OperationsStay ==
  ASSUME TypeOK, NoLostUpdate, [Next]_vars
  PROVE  \A o \in ops : \E n \in ops' :
           /\ n.id = o.id /\ n.key = o.key /\ n.req = o.req
           /\ o.state # "pending" => n = o
<1>1. ASSUME NEW p \in Procs, ClaimNew(p) PROVE ops \subseteq ops'
  BY <1>1, ClaimEffect
<1>2. ASSUME NEW p \in Procs, Complete(p)
      PROVE  \A o \in ops : \E n \in ops' :
               /\ n.id = o.id /\ n.key = o.key /\ n.req = o.req
               /\ o.state # "pending" => n = o
  BY <1>2, CompleteEffect
<1>3. ASSUME ~ \E p \in Procs : ClaimNew(p) \/ Complete(p) PROVE ops' = ops
  BY <1>3, OthersKeepRepository
<1> QED
  BY <1>1, <1>2, <1>3

(* The runtime is invoked only by NativeStart. *)
LEMMA OnlyNativeStartRuns ==
  ASSUME [Next]_vars, \A p \in Procs : ~ NativeStart(p)
  PROVE  ran' = ran
BY DEF Next, Step, vars, locals, Tick, Invoke, Refuse, Preview, Admit, Authorize,
   TakeLock, FindLocked, ReadRepository, ReleaseToRun, ReleaseAndEnd,
   ClaimExisting, ClaimNew, Complete, AdapterBlocks, AdapterThrows,
   OwnedDeleteUnavailable, NativeVerified, NativeUnproven, Crash,
   RepositoryFails

(* An invocation is the first under its key, and stays the only one. *)
LEMMA RunStep ==
  ASSUME TypeOK, CallIsApply, NoLostUpdate, OwnsPending, OneOwner, NotYetRun,
         RunsAtMostOnce, [Next]_vars
  PROVE  RunsAtMostOnce' /\ NotYetRun'
<1>1. ASSUME NEW p \in Procs, NativeStart(p) PROVE RunsAtMostOnce' /\ NotYetRun'
  <2>1. /\ pc[p] \in Owning /\ pc'[p] = "native" /\ call' = call /\ ops' = ops
        /\ \A q \in Procs : q # p => pc'[q] = pc[q]
    BY <1>1 DEF NativeStart, Owning, Goto, TypeOK
  <2>2. call[p].key \in Keys /\ call[p].req \in Requests
    BY <2>1 DEF CallIsApply, Applying
  <2>3. ran[call[p].key] = <<>>
    BY <1>1 DEF NativeStart, NotYetRun
  <2>4. \A k \in Keys : ran'[k] = IF k = call[p].key THEN <<call[p].req>> ELSE ran[k]
    BY <1>1, <2>2, <2>3 DEF NativeStart, TypeOK
  <2>5. PICK o \in ops : o.key = call[p].key /\ o.req = call[p].req
    BY <2>1 DEF OwnsPending
  <2>6. RunsAtMostOnce'
    <3> SUFFICES ASSUME NEW k \in Keys
                 PROVE  /\ Len(ran'[k]) <= 1
                        /\ ran'[k] # <<>> => \E w \in ops' : w.key = k /\ w.req = ran'[k][1]
      BY DEF RunsAtMostOnce
    <3>1. CASE k = call[p].key
      <4>1. ran'[k] = <<call[p].req>>
        BY <3>1, <2>4
      <4>2. Len(ran'[k]) = 1 /\ ran'[k][1] = call[p].req
        BY <4>1
      <4> QED
        BY <4>2, <3>1, <2>1, <2>5
    <3>2. CASE k # call[p].key
      BY <3>2, <2>4, <2>1 DEF RunsAtMostOnce
    <3> QED
      BY <3>1, <3>2
  <2>7. NotYetRun'
    <3> SUFFICES ASSUME NEW q \in Procs, pc'[q] \in {"release_run", "mutate"}
                 PROVE  ran'[call'[q].key] = <<>>
      BY DEF NotYetRun
    <3>1. q # p /\ pc[q] \in {"release_run", "mutate"}
      BY <2>1
    <3>2. pc[q] \in Owning /\ call[q].key \in Keys
      BY <3>1 DEF Owning, CallIsApply, Applying
    <3>3. call[q].key # call[p].key
      BY <2>1, <3>1, <3>2 DEF OneOwner
    <3> QED
      BY <2>1, <2>4, <3>1, <3>2, <3>3 DEF NotYetRun
  <2> QED
    BY <2>6, <2>7
<1>2. ASSUME \A p \in Procs : ~ NativeStart(p) PROVE RunsAtMostOnce' /\ NotYetRun'
  <2>1. ran' = ran
    BY <1>2, OnlyNativeStartRuns
  <2>2. RunsAtMostOnce'
    BY <2>1, OperationsStay DEF RunsAtMostOnce
  <2>3. ASSUME NEW p \in Procs, ClaimNew(p) PROVE NotYetRun'
    <3>1. call[p].key \in Keys /\ \A o \in ops : o.key # call[p].key
      BY <2>3, ClaimEffect DEF ClaimNew, CallIsApply, Applying
    <3>2. ran[call[p].key] = <<>>
      BY <3>1 DEF RunsAtMostOnce
    <3>3. call' = call /\ \A q \in Procs : q # p => SameClaim(q)
      BY <2>3, NewOwner
    <3> QED
      BY <2>1, <3>2, <3>3 DEF NotYetRun, SameClaim
  <2>4. ASSUME \A p \in Procs : ~ ClaimNew(p) PROVE NotYetRun'
    BY <2>1, <2>4, OwnersKeep DEF NotYetRun, SameClaim, Owning
  <2> QED
    BY <2>2, <2>3, <2>4
<1> QED
  BY <1>1, <1>2

-------------------------------------------------------------------------------
(* The inductive invariant holds at first and is kept. *)
LEMMA InitInvariant == Init => IInv
<1> SUFFICES ASSUME Init PROVE IInv
  OBVIOUS
<1>1. /\ HistoryRead \in Calls /\ NoResult \in Results
      /\ "idle" \in Labels /\ <<>> \in Seq(Requests)
  BY DEF Calls, NoResult, Results, Outcomes, Labels
<1>2. TypeOK
  BY <1>1 DEF Init, TypeOK
<1>3. LockHeld /\ CallIsApply /\ NoLostUpdate /\ OwnsPending /\ OneOwner /\ NotYetRun
  BY DEF Init, LockHeld, Critical, CallIsApply, Applying, Owning, NoLostUpdate,
     OwnsPending, OneOwner, NotYetRun
<1>4. FreshIds /\ OneOperationPerKey /\ RunsAtMostOnce
  BY DEF Init, FreshIds, OneOperationPerKey, RunsAtMostOnce
<1> QED
  BY <1>2, <1>3, <1>4 DEF IInv

(* Each part of the invariant is kept by a lemma of its own. *)
LEMMA StepInvariant == IInv /\ [Next]_vars => IInv'
BY TypeStep, LockStep, CallStep, LostUpdateStep, IdsStep, KeyStep, OwnsStep, RunStep
   DEF IInv

(* The inductive invariant holds in every reachable state. *)
LEMMA Invariant == Spec => []IInv
BY InitInvariant, StepInvariant, PTL DEF Spec

(* Every variable of the lifecycle keeps its type, whatever the number of      *)
(* processes, keys and requests.                                               *)
THEOREM TypeCorrectness == Spec => []TypeOK
<1>1. IInv => TypeOK
  BY DEF IInv
<1> QED
  BY Invariant, <1>1, PTL

(* The directory lock is enough: no process ever writes back a repository that *)
(* another has changed since it was read (withLock, complete, claim).          *)
THEOREM UpdatesAreNotLost == Spec => []NoLostUpdate
<1>1. IInv => NoLostUpdate
  BY DEF IInv
<1> QED
  BY Invariant, <1>1, PTL

(* No interleaving of claims binds one key to two operations (claim).          *)
THEOREM KeysAreUnique == Spec => []OneOperationPerKey
<1>1. IInv => OneOperationPerKey
  BY DEF IInv
<1> QED
  BY Invariant, <1>1, PTL

(* Over any number of processes, retries and crashes the native runtime is     *)
(* invoked at most once under a key, and for the request the key is bound to   *)
(* (claim before adapter.mutate).                                              *)
THEOREM AtMostOnce == Spec => []RunsAtMostOnce
<1>1. IInv => RunsAtMostOnce
  BY DEF IInv
<1> QED
  BY Invariant, <1>1, PTL

(* No step drops or rebinds an operation or alters a receipt (complete).       *)
THEOREM ImmutableReceipts == Spec => ReceiptsAreImmutable
<1>1. IInv /\ [Next]_vars =>
        [\A o \in ops : \E n \in ops' :
           /\ n.id = o.id /\ n.key = o.key /\ n.req = o.req
           /\ o.state # "pending" => n = o]_vars
  BY OperationsStay DEF IInv
<1> QED
  BY Invariant, <1>1, PTL DEF Spec, ReceiptsAreImmutable

--------------------------------------------------------------------------------
(* Receipts, answers and confirmations.                                       *)

(* The labels of a process that has the adapter's result and has not stored it. *)
Completing == {"complete_lock", "complete_read", "complete_write"}

(* A result in hand is of the one invocation under the key, or of none. *)
ResultIsOfRun ==
  \A p \in Procs :
    /\ pc[p] = "native" => ran[call[p].key] # <<>>
    /\ pc[p] \in Completing =>
         /\ result[p].outcome = "applied" => call[p].key \in proven
         /\ ran[call[p].key] # <<>> => result[p].live

(* What was verified was invoked. *)
ProvenRan == \A k \in proven : ran[k] # <<>>

(* A token lives no longer than a review does from now. *)
TokensAreRecent == \A t \in issued : t.exp <= now + ReviewTtl

(* The inductive invariant for what operators are told. *)
RInv ==
  /\ IInv
  /\ ResultIsOfRun /\ ProvenRan /\ ReceiptsAreTruthful
  /\ AnswersMatchReceipts /\ TokensAreRecent

--------------------------------------------------------------------------------
(* Frames.                                                                    *)

(* What q holds of an invocation, it held before the step. *)
SameResult(q) ==
  /\ pc'[q] = "native" => pc[q] = "native" /\ call'[q] = call[q]
  /\ pc'[q] \in Completing =>
       pc[q] \in Completing /\ call'[q] = call[q] /\ result'[q] = result[q]

(* The steps that give p something to hold. *)
Obtains(p) ==
  NativeStart(p) \/ AdapterBlocks(p) \/ OwnedDeleteUnavailable(p)
    \/ NativeVerified(p) \/ NativeUnproven(p)

(* They do so for p alone. *)
LEMMA ObtainsForOne ==
  ASSUME TypeOK, NEW p \in Procs, Obtains(p)
  PROVE  \A q \in Procs : q # p => SameResult(q)
BY DEF Obtains, NativeStart, AdapterBlocks, OwnedDeleteUnavailable, NativeVerified,
   NativeUnproven, Goto, TypeOK, SameResult, Completing

(* Every other step gives nothing to anybody. *)
LEMMA OthersObtainNothing ==
  ASSUME TypeOK, [Next]_vars, \A p \in Procs : ~ Obtains(p)
  PROVE  \A q \in Procs : SameResult(q)
<1> USE DEF SameResult, Completing
<1>1. CASE UNCHANGED vars \/ Tick
  BY <1>1 DEF vars, locals, Tick
<1>2. ASSUME NEW p \in Procs, NEW c \in Calls, Invoke(p, c)
      PROVE  \A q \in Procs : SameResult(q)
  BY <1>2 DEF Invoke, TypeOK, Goto
<1>3. ASSUME NEW p \in Procs,
             \/ Refuse(p) \/ Preview(p) \/ FindLocked(p) \/ ReleaseAndEnd(p)
             \/ AdapterThrows(p) \/ Crash(p)
      PROVE  \A q \in Procs : SameResult(q)
  <2>1. Exit(p)
    BY <1>3 DEF Refuse, Preview, FindLocked, ReleaseAndEnd, AdapterThrows, Crash
  <2> QED
    BY <2>1 DEF Exit, Goto, TypeOK
<1>4. ASSUME NEW p \in Procs, Admit(p) \/ Authorize(p) \/ ReleaseToRun(p)
      PROVE  \A q \in Procs : SameResult(q)
  BY <1>4 DEF Admit, Authorize, ReleaseToRun, Goto, TypeOK
<1>5. ASSUME NEW p \in Procs, TakeLock(p) PROVE \A q \in Procs : SameResult(q)
  BY <1>5 DEF TakeLock, LockLabels, AfterLock, Goto, TypeOK
<1>6. ASSUME NEW p \in Procs, ReadRepository(p) PROVE \A q \in Procs : SameResult(q)
  BY <1>6 DEF ReadRepository, Goto, TypeOK
<1>7. ASSUME NEW p \in Procs, RepositoryFails(p) \/ ClaimExisting(p) \/ ClaimNew(p)
                              \/ Complete(p)
      PROVE  \A q \in Procs : SameResult(q)
  BY <1>7 DEF RepositoryFails, ClaimExisting, ClaimNew, Complete, Goto, TypeOK
<1> QED
  BY <1>1, <1>2, <1>3, <1>4, <1>5, <1>6, <1>7 DEF Next, Step, Obtains

(* Only a verified invocation adds to what is proven. *)
LEMMA OnlyVerifiedProves ==
  ASSUME [Next]_vars, \A p \in Procs : ~ NativeVerified(p)
  PROVE  proven' = proven
BY DEF Next, Step, vars, locals, Tick, Invoke, Refuse, Preview, Admit, Authorize,
   TakeLock, FindLocked, ReadRepository, ReleaseToRun, ReleaseAndEnd,
   ClaimExisting, ClaimNew, Complete, AdapterBlocks, AdapterThrows,
   OwnedDeleteUnavailable, NativeStart, NativeUnproven, Crash, RepositoryFails

(* An invocation adds to the history of its key, and to nothing else.         *)
LEMMA StartEffect ==
  ASSUME TypeOK, CallIsApply, NotYetRun, NEW p \in Procs, NativeStart(p)
  PROVE  /\ call[p].key \in Keys /\ pc[p] \in Owning
         /\ ran'[call[p].key] # <<>>
         /\ \A k \in Keys : k # call[p].key => ran'[k] = ran[k]
         /\ ops' = ops /\ call' = call /\ proven' = proven /\ pc'[p] = "native"
<1>1. pc[p] \in Owning /\ call[p].key \in Keys /\ ran[call[p].key] = <<>>
  BY DEF NativeStart, CallIsApply, Applying, Owning, NotYetRun
<1>2. ran' = [ran EXCEPT ![call[p].key] = <<call[p].req>>]
  BY <1>1 DEF NativeStart
<1>3. <<call[p].req>> # <<>>
  OBVIOUS
<1> QED
  BY <1>1, <1>2, <1>3 DEF NativeStart, TypeOK, Goto

(* A key under which the runtime was invoked stays one. *)
LEMMA RanStays ==
  ASSUME TypeOK, CallIsApply, NotYetRun, [Next]_vars
  PROVE  \A k \in Keys : ran[k] # <<>> => ran'[k] # <<>>
<1>1. ASSUME NEW p \in Procs, NativeStart(p)
      PROVE  \A k \in Keys : ran[k] # <<>> => ran'[k] # <<>>
  BY <1>1, StartEffect
<1> QED
  BY <1>1, OnlyNativeStartRuns

(* What is proven stays proven. *)
LEMMA ProvenStays ==
  ASSUME [Next]_vars
  PROVE  proven \subseteq proven'
<1>1. ASSUME NEW p \in Procs, NativeVerified(p) PROVE proven \subseteq proven'
  BY <1>1 DEF NativeVerified
<1> QED
  BY <1>1, OnlyVerifiedProves

--------------------------------------------------------------------------------
(* Results and receipts.                                                      *)

(* A result keeps being of the one invocation under its key.                  *)
LEMMA ResultStep ==
  ASSUME RInv, [Next]_vars
  PROVE  ResultIsOfRun'
<1> USE DEF RInv, IInv
<1> SUFFICES ASSUME NEW q \in Procs
             PROVE  /\ pc'[q] = "native" => ran'[call'[q].key] # <<>>
                    /\ pc'[q] \in Completing =>
                         /\ result'[q].outcome = "applied" => call'[q].key \in proven'
                         /\ ran'[call'[q].key] # <<>> => result'[q].live
  BY DEF ResultIsOfRun
<1>1. pc[q] \in Completing \cup {"native"} => call[q].key \in Keys /\ pc[q] \in Owning
  BY DEF CallIsApply, Applying, Owning, Completing
<1>2. CASE \E p \in Procs : NativeStart(p)
  <2>1. PICK p \in Procs : NativeStart(p)
    BY <1>2
  <2>2. CASE q = p
    BY <2>1, <2>2, StartEffect DEF Completing
  <2>3. CASE q # p
    <3>1. SameResult(q)
      BY <2>1, <2>3, ObtainsForOne DEF Obtains
    <3>2. pc[q] \in Completing => call[q].key # call[p].key
      BY <1>1, <2>1, <2>3, StartEffect DEF OneOwner
    <3> QED
      BY <1>1, <2>1, <3>1, <3>2, StartEffect, RanStays DEF SameResult, ResultIsOfRun
  <2> QED
    BY <2>2, <2>3
<1>3. CASE \E p \in Procs : Obtains(p) /\ ~ NativeStart(p)
  <2>1. PICK p \in Procs : Obtains(p) /\ ~ NativeStart(p)
    BY <1>3
  <2>2. ran' = ran /\ call' = call /\ pc'[p] = "complete_lock"
    BY <2>1 DEF Obtains, AdapterBlocks, OwnedDeleteUnavailable, NativeVerified,
       NativeUnproven, Goto, TypeOK
  <2>3. ASSUME q = p
        PROVE  /\ result'[p].outcome = "applied" => call'[p].key \in proven'
               /\ ran'[call'[p].key] # <<>> => result'[p].live
    <3>1. CASE AdapterBlocks(p)
      <4>1. ran[call[p].key] = <<>>
        BY <3>1 DEF AdapterBlocks, NotYetRun
      <4>2. result'[p].outcome = "failed"
        BY <3>1 DEF AdapterBlocks, Blocked, TypeOK
      <4> QED
        BY <4>1, <4>2, <2>2
    <3>2. CASE OwnedDeleteUnavailable(p) \/ NativeUnproven(p)
      BY <3>2, <2>2 DEF OwnedDeleteUnavailable, NativeUnproven, Unproven, TypeOK
    <3>3. CASE NativeVerified(p)
      BY <3>3, <2>2 DEF NativeVerified, TypeOK
    <3> QED
      BY <2>1, <3>1, <3>2, <3>3 DEF Obtains
  <2>4. CASE q = p
    BY <2>2, <2>3, <2>4
  <2>5. CASE q # p
    <3>1. SameResult(q)
      BY <2>1, <2>5, ObtainsForOne
    <3> QED
      BY <2>2, <3>1, ProvenStays DEF SameResult, ResultIsOfRun
  <2> QED
    BY <2>4, <2>5
<1>4. CASE \A p \in Procs : ~ Obtains(p)
  <2>1. SameResult(q) /\ ran' = ran
    BY <1>4, OthersObtainNothing, OnlyNativeStartRuns DEF Obtains
  <2> QED
    BY <2>1, ProvenStays DEF SameResult, ResultIsOfRun
<1> QED
  BY <1>2, <1>3, <1>4

(* What is verified was invoked. *)
LEMMA ProvenStep ==
  ASSUME RInv, [Next]_vars
  PROVE  ProvenRan'
<1> USE DEF RInv, IInv
<1>1. \A k \in proven : k \in Keys /\ ran'[k] # <<>>
  BY RanStays DEF ProvenRan, TypeOK
<1>2. ASSUME NEW p \in Procs, NativeVerified(p) PROVE ProvenRan'
  <2>1. ran[call[p].key] # <<>> /\ ran' = ran /\ proven' = proven \cup {call[p].key}
    BY <1>2 DEF NativeVerified, ResultIsOfRun
  <2> QED
    BY <1>1, <2>1 DEF ProvenRan
<1>3. ASSUME \A p \in Procs : ~ NativeVerified(p) PROVE ProvenRan'
  BY <1>1, <1>3, OnlyVerifiedProves DEF ProvenRan
<1> QED
  BY <1>2, <1>3

(* A completion writes exactly the result in hand, over the process's own     *)
(* operation.                                                                 *)
LEMMA ReceiptEffect ==
  ASSUME IInv, NEW p \in Procs, Complete(p)
  PROVE  \E o \in ops, n \in Operations :
           /\ o.state = "pending" /\ o.key = call[p].key /\ o.req = call[p].req
           /\ n.id = o.id /\ n.key = o.key /\ n.req = o.req
           /\ n.state = result[p].outcome /\ n.live = result[p].live
           /\ ops' = (ops \ {o}) \cup {n}
<1> USE DEF IInv
<1>1. PICK o \in ops :
        /\ o.id = opId[p] /\ o.state = "pending"
        /\ ops' = (ops \ {o}) \cup
             {[o EXCEPT !.state = result[p].outcome, !.live = result[p].live]}
  BY DEF Complete, NoLostUpdate
<1> DEFINE n == [o EXCEPT !.state = result[p].outcome, !.live = result[p].live]
<1>2. ops \subseteq Operations /\ result[p] \in Results
  BY DEF TypeOK
<1>3. /\ n \in Operations /\ n.id = o.id /\ n.key = o.key /\ n.req = o.req
      /\ n.state = result[p].outcome /\ n.live = result[p].live
  BY <1>2 DEF Operations, Results, Outcomes
<1>4. PICK w \in ops : w.id = opId[p] /\ w.key = call[p].key /\ w.req = call[p].req
  BY DEF Complete, OwnsPending, Owning
<1>5. w = o
  BY <1>1, <1>4 DEF FreshIds
<1> HIDE DEF n
<1> QED
  BY <1>1, <1>3, <1>4, <1>5 DEF n

(* Receipts keep telling the truth. *)
LEMMA ReceiptStep ==
  ASSUME RInv, [Next]_vars
  PROVE  ReceiptsAreTruthful'
<1> USE DEF RInv, IInv
<1> DEFINE True(o) == /\ o.state = "applied" => o.key \in proven'
                      /\ o.state # "pending" /\ ran'[o.key] # <<>> => o.live
<1>1. ASSUME NEW o \in ops, ran' = ran PROVE True(o)
  BY <1>1, ProvenStays DEF ReceiptsAreTruthful
<1>2. ASSUME NEW p \in Procs, Complete(p) PROVE \A o \in ops' : True(o)
  <2>1. PICK o \in ops, n \in Operations :
          /\ o.key = call[p].key /\ n.key = o.key
          /\ n.state = result[p].outcome /\ n.live = result[p].live
          /\ ops' = (ops \ {o}) \cup {n}
    BY <1>2, ReceiptEffect
  <2>2. ran' = ran /\ proven' = proven /\ pc[p] \in Completing
    BY <1>2 DEF Complete, Completing
  <2>3. True(n)
    BY <2>1, <2>2 DEF ResultIsOfRun
  <2> QED
    BY <1>1, <2>1, <2>2, <2>3
<1>3. ASSUME NEW p \in Procs, ClaimNew(p) PROVE \A o \in ops' : True(o)
  <2>1. ops' = ops \cup {Pending(p)} /\ ran' = ran
    BY <1>3, ClaimEffect DEF ClaimNew
  <2>2. True(Pending(p))
    BY DEF Pending
  <2> QED
    BY <1>1, <2>1, <2>2
<1>4. ASSUME NEW p \in Procs, NativeStart(p) PROVE \A o \in ops' : True(o)
  <2>1. PICK w \in ops : w.state = "pending" /\ w.key = call[p].key
    BY <1>4, StartEffect DEF OwnsPending
  <2>2. \A o \in ops : o.state # "pending" => o.key # call[p].key
    BY <2>1 DEF OneOperationPerKey
  <2>3. \A o \in ops : o.key \in Keys
    BY DEF TypeOK, Operations
  <2> QED
    BY <1>4, <2>2, <2>3, StartEffect DEF ReceiptsAreTruthful
<1>5. ASSUME \A p \in Procs : ~ (Complete(p) \/ ClaimNew(p) \/ NativeStart(p))
      PROVE  \A o \in ops' : True(o)
  BY <1>1, <1>5, OthersKeepRepository, OnlyNativeStartRuns
<1> QED
  BY <1>2, <1>3, <1>4, <1>5 DEF ReceiptsAreTruthful

--------------------------------------------------------------------------------
(* Answers and confirmations.                                                 *)

(* Only the two decisions about a key tell a caller something. *)
LEMMA OthersTellNothing ==
  ASSUME TypeOK, [Next]_vars, ~ \E p \in Procs : ClaimExisting(p) \/ Complete(p)
  PROVE  \A q \in Procs : answer'[q] \in {answer[q], NoAnswer}
<1>1. ASSUME NEW p \in Procs, NEW c \in Calls, Invoke(p, c)
      PROVE  \A q \in Procs : answer'[q] \in {answer[q], NoAnswer}
  BY <1>1 DEF Invoke, TypeOK
<1>2. ASSUME ~ \E p \in Procs, c \in Calls : Invoke(p, c)
      PROVE  answer' = answer
  BY <1>2 DEF Next, Step, vars, locals, Tick, Refuse, Preview, Admit, Authorize,
     TakeLock, FindLocked, ReadRepository, ReleaseToRun, ReleaseAndEnd,
     ClaimNew, AdapterBlocks, AdapterThrows, OwnedDeleteUnavailable,
     NativeStart, NativeVerified, NativeUnproven, Crash, RepositoryFails
<1> QED
  BY <1>1, <1>2

(* The receipt an answer is backed by. *)
Backed(q) ==
  answer[q].says \in Outcomes =>
    \E o \in ops : /\ o.key = answer[q].key /\ o.req = answer[q].req
                   /\ o.state = answer[q].says

(* An answer that stays as it is stays backed: receipts are immutable.        *)
LEMMA BackingStays ==
  ASSUME RInv, [Next]_vars, NEW q \in Procs, answer'[q] \in {answer[q], NoAnswer}
  PROVE  Backed(q)'
<1>1. NoAnswer.says \notin Outcomes
  BY DEF NoAnswer, Outcomes
<1>2. CASE answer'[q] = answer[q]
  <2> SUFFICES ASSUME answer[q].says \in Outcomes
               PROVE  \E o \in ops' : /\ o.key = answer[q].key /\ o.req = answer[q].req
                                     /\ o.state = answer[q].says
    BY <1>2 DEF Backed
  <2>1. PICK o \in ops : /\ o.key = answer[q].key /\ o.req = answer[q].req
                         /\ o.state = answer[q].says
    BY DEF RInv, AnswersMatchReceipts
  <2>2. o.state # "pending"
    BY <2>1 DEF Outcomes
  <2>3. o \in ops'
    BY <2>1, <2>2, OperationsStay DEF RInv, IInv
  <2> QED
    BY <2>1, <2>3
<1> QED
  BY <1>1, <1>2 DEF Backed

(* Answers keep agreeing with receipts. *)
LEMMA AnswerStep ==
  ASSUME RInv, [Next]_vars
  PROVE  AnswersMatchReceipts'
<1> SUFFICES ASSUME NEW q \in Procs PROVE Backed(q)'
  BY DEF AnswersMatchReceipts, Backed
<1>1. ASSUME NEW p \in Procs, Complete(p) PROVE Backed(q)'
  <2>1. PICK o \in ops, n \in Operations :
          /\ o.key = call[p].key /\ o.req = call[p].req
          /\ n.key = o.key /\ n.req = o.req /\ n.state = result[p].outcome
          /\ ops' = (ops \ {o}) \cup {n}
    BY <1>1, ReceiptEffect DEF RInv
  <2>2. /\ answer'[p] = [key |-> call[p].key, req |-> call[p].req, replayed |-> FALSE,
                         says |-> result[p].outcome]
        /\ q # p => answer'[q] = answer[q]
    BY <1>1 DEF Complete, Tell, RInv, IInv, TypeOK
  <2>3. CASE q = p
    BY <2>1, <2>2, <2>3 DEF Backed
  <2>4. CASE q # p
    BY <2>2, <2>4, BackingStays
  <2> QED
    BY <2>3, <2>4
<1>2. ASSUME NEW p \in Procs, ClaimExisting(p) PROVE Backed(q)'
  <2>1. PICK o \in Existing(p) :
          Tell(p, Reply(o, call[p].req), Reply(o, call[p].req) \in Outcomes)
    BY <1>2 DEF ClaimExisting
  <2>2. o \in ops /\ o.key = call[p].key /\ ops' = ops
    BY <1>2, <2>1 DEF ClaimExisting, Existing, RInv, IInv, NoLostUpdate
  <2>3. /\ answer'[p].key = call[p].key /\ answer'[p].req = call[p].req
        /\ answer'[p].says = Reply(o, call[p].req)
        /\ q # p => answer'[q] = answer[q]
    BY <2>1 DEF Tell, RInv, IInv, TypeOK
  <2>4. Reply(o, call[p].req) \in Outcomes =>
          o.req = call[p].req /\ o.state = Reply(o, call[p].req)
    BY DEF Reply, Outcomes
  <2>5. CASE q = p
    BY <2>2, <2>3, <2>4, <2>5 DEF Backed
  <2>6. CASE q # p
    BY <2>3, <2>6, BackingStays
  <2> QED
    BY <2>5, <2>6
<1>3. ASSUME ~ \E p \in Procs : ClaimExisting(p) \/ Complete(p) PROVE Backed(q)'
  BY <1>3, OthersTellNothing, BackingStays DEF RInv, IInv
<1> QED
  BY <1>1, <1>2, <1>3

(* Tokens are signed for a lifetime from now, and the clock does not go back.  *)
LEMMA TokenStep ==
  ASSUME TypeOK, TokensAreRecent, [Next]_vars
  PROVE  TokensAreRecent'
<1>1. /\ now \in Nat /\ ReviewTtl \in Nat
      /\ \A t \in issued : t.exp \in Nat
  BY ProtectedMutationAssumption DEF TypeOK, Tokens
<1>2. CASE Tick
  BY <1>1, <1>2 DEF Tick, TokensAreRecent
<1>3. ASSUME NEW p \in Procs, Preview(p) PROVE TokensAreRecent'
  <2>1. \A t \in Minted(call[p].req) : t.exp = now + ReviewTtl
    BY DEF Minted
  <2>2. now' = now /\ issued' = issued \cup Minted(call[p].req)
    BY <1>3 DEF Preview
  <2> QED
    BY <1>1, <2>1, <2>2 DEF TokensAreRecent
<1>4. ASSUME ~ Tick, ~ \E p \in Procs : Preview(p) PROVE now' = now /\ issued' = issued
  BY <1>4 DEF Next, Step, vars, locals, Invoke, Refuse, Admit, Authorize,
     TakeLock, FindLocked, ReadRepository, ReleaseToRun, ReleaseAndEnd,
     ClaimExisting, ClaimNew, Complete, AdapterBlocks, AdapterThrows,
     OwnedDeleteUnavailable, NativeStart, NativeVerified, NativeUnproven, Crash,
     RepositoryFails
<1> QED
  BY <1>2, <1>3, <1>4 DEF TokensAreRecent

(* Only an authorization leads from authorize to the claim. *)
LEMMA OnlyAuthorizeGoesOn ==
  ASSUME TypeOK, [Next]_vars, NEW q \in Procs, pc[q] = "authorize", pc'[q] = "claim_lock"
  PROVE  Authorize(q)
<1>1. pc' # pc
  OBVIOUS
<1>3. ASSUME NEW p \in Procs, Exit(p) PROVE FALSE
  BY <1>3 DEF Exit, Goto, TypeOK
<1>4. ASSUME NEW p \in Procs, NEW c \in Calls PROVE ~ Invoke(p, c)
  BY DEF Invoke, Goto, TypeOK
<1>5. ASSUME NEW p \in Procs
      PROVE  ~ (Refuse(p) \/ Preview(p) \/ FindLocked(p) \/ ReleaseAndEnd(p)
                  \/ AdapterThrows(p) \/ Crash(p))
  BY <1>3 DEF Refuse, Preview, FindLocked, ReleaseAndEnd, AdapterThrows, Crash
<1>6. ASSUME NEW p \in Procs
      PROVE  ~ (Admit(p) \/ ReleaseToRun(p) \/ RepositoryFails(p) \/ ClaimExisting(p)
                  \/ ClaimNew(p) \/ Complete(p) \/ Obtains(p))
  BY DEF Admit, ReleaseToRun, RepositoryFails, ClaimExisting, ClaimNew, Complete,
     Obtains, NativeStart, AdapterBlocks, OwnedDeleteUnavailable, NativeVerified,
     NativeUnproven, Goto, TypeOK
<1>7. ASSUME NEW p \in Procs PROVE ~ (TakeLock(p) \/ ReadRepository(p))
  BY DEF TakeLock, LockLabels, AfterLock, ReadRepository, Goto, TypeOK
<1>8. ASSUME NEW p \in Procs, Authorize(p) PROVE p = q
  BY <1>8 DEF Authorize, Goto, TypeOK
<1>9. ~ Tick /\ ~ UNCHANGED vars
  BY <1>1 DEF Tick, vars, locals
<1> QED
  BY <1>4, <1>5, <1>6, <1>7, <1>8, <1>9 DEF Next, Step, Obtains

(* Whoever goes on to claim has a review, and a warning, in their window.      *)
LEMMA ConfirmedStep ==
  ASSUME RInv, [Next]_vars, NEW q \in Procs, pc[q] = "authorize", pc'[q] = "claim_lock"
  PROVE  /\ InWindow("review", call[q].req)
         /\ call[q].req \in RouteRequests => InWindow("warning", call[q].req)
<1>1. Authorize(q)
  BY OnlyAuthorizeGoesOn DEF RInv, IInv
<1>2. /\ now \in Nat /\ ReviewTtl \in Nat
      /\ \A t \in issued : t.exp \in Nat /\ t.exp <= now + ReviewTtl
  BY ProtectedMutationAssumption DEF RInv, IInv, TypeOK, Tokens, TokensAreRecent
<1>3. ASSUME NEW kind, NEW t, Verifies(t, kind, call[q].req)
      PROVE  InWindow(kind, call[q].req)
  BY <1>2, <1>3 DEF Verifies, InWindow
<1> QED
  BY <1>1, <1>3 DEF Authorize

--------------------------------------------------------------------------------
(* Theorems.                                                                  *)

(* RInv holds at first. *)
LEMMA RInitially == Init => RInv
<1> SUFFICES ASSUME Init PROVE RInv
  OBVIOUS
<1>1. NoAnswer.says \notin Outcomes
  BY DEF NoAnswer, Outcomes
<1>2. ResultIsOfRun /\ ProvenRan /\ ReceiptsAreTruthful /\ TokensAreRecent
  BY DEF Init, ResultIsOfRun, Completing, ProvenRan, ReceiptsAreTruthful, TokensAreRecent
<1>3. AnswersMatchReceipts
  BY <1>1 DEF Init, AnswersMatchReceipts
<1> QED
  BY <1>2, <1>3, InitInvariant DEF RInv

(* It is kept by every step. *)
LEMMA RStep == RInv /\ [Next]_vars => RInv'
<1> SUFFICES ASSUME RInv, [Next]_vars PROVE RInv'
  OBVIOUS
<1>1. IInv' /\ TokensAreRecent'
  BY StepInvariant, TokenStep DEF RInv, IInv
<1> QED
  BY <1>1, ResultStep, ProvenStep, ReceiptStep, AnswerStep DEF RInv

(* It holds in every reachable state. *)
LEMMA RInvariant == Spec => []RInv
BY RInitially, RStep, PTL DEF Spec

(* A receipt says applied only for an invocation that a fresh read verified,   *)
(* and never denies an invocation, over any number of processes, retries and   *)
(* crashes (isVerifiedApplied, complete).                                      *)
THEOREM TruthfulReceipts == Spec => []ReceiptsAreTruthful
<1>1. RInv => ReceiptsAreTruthful
  BY DEF RInv
<1> QED
  BY RInvariant, <1>1, PTL

(* What an operator was told of an outcome, at first or by a replay, stays     *)
(* what the repository says of that key and request (complete, claim).         *)
THEOREM AnswersAreBacked == Spec => []AnswersMatchReceipts
<1>1. RInv => AnswersMatchReceipts
  BY DEF RInv
<1> QED
  BY RInvariant, <1>1, PTL

(* Nobody goes on to claim a key without a review of exactly this request and, *)
(* for a route, a warning, each printed at most its lifetime ago               *)
(* (verifyMutationApply, protectedAuthorization).                              *)
THEOREM ConfirmedInWindow == Spec => ConfirmationWindow
<1>1. RInv /\ [Next]_vars =>
        [\A p \in Procs : pc[p] = "authorize" /\ pc'[p] = "claim_lock" =>
           /\ InWindow("review", call[p].req)
           /\ call[p].req \in RouteRequests => InWindow("warning", call[p].req)]_vars
  BY ConfirmedStep
<1> QED
  BY RInvariant, <1>1, PTL DEF Spec, ConfirmationWindow

--------------------------------------------------------------------------------
(* The refinement of AtMostOnceMutation.                                      *)

(* The abstract state of a key, as the refinement mapping reads it off the    *)
(* repository file.                                                           *)
Phases == [k \in Keys |-> IF OpOf(k) = {} THEN "none"
                          ELSE (CHOOSE o \in OpOf(k) : TRUE).state]
Bindings == [k \in Keys |-> IF OpOf(k) = {} THEN Nothing
                            ELSE (CHOOSE o \in OpOf(k) : TRUE).req]

(* A key with an operation has its state and its request. *)
LEMMA MappedBound ==
  ASSUME OneOperationPerKey, NEW o \in ops, o.key \in Keys
  PROVE  Phases[o.key] = o.state /\ Bindings[o.key] = o.req
<1>1. OpOf(o.key) = {o}
  BY DEF OpOf, OneOperationPerKey
<1> QED
  BY <1>1 DEF Phases, Bindings

(* A key without one is unbound. *)
LEMMA MappedUnbound ==
  ASSUME NEW k \in Keys, \A o \in ops : o.key # k
  PROVE  Phases[k] = "none" /\ Bindings[k] = Nothing
<1>1. OpOf(k) = {}
  BY DEF OpOf
<1> QED
  BY <1>1 DEF Phases, Bindings

(* The mapping is a function of the repository file. *)
LEMMA MappedFrame ==
  ASSUME ops' = ops
  PROVE  Phases' = Phases /\ Bindings' = Bindings
BY DEF Phases, Bindings, OpOf

(* The mapping after a step that leaves key k with the one operation n, and   *)
(* the other keys with what they had.                                         *)
LEMMA MappedStep ==
  ASSUME NEW k \in Keys, NEW n,
         \A j \in Keys : OpOf(j)' = IF j = k THEN {n} ELSE OpOf(j)
  PROVE  /\ Phases' = [Phases EXCEPT ![k] = n.state]
         /\ Bindings' = [Bindings EXCEPT ![k] = n.req]
<1> DEFINE State(set) == IF set = {} THEN "none" ELSE (CHOOSE o \in set : TRUE).state
           Request(set) == IF set = {} THEN Nothing ELSE (CHOOSE o \in set : TRUE).req
<1>1. State({n}) = n.state /\ Request({n}) = n.req
  OBVIOUS
<1>2. /\ Phases = [j \in Keys |-> State(OpOf(j))]
      /\ Bindings = [j \in Keys |-> Request(OpOf(j))]
  BY DEF Phases, Bindings
<1>3. /\ Phases' = [j \in Keys |-> State(OpOf(j)')]
      /\ Bindings' = [j \in Keys |-> Request(OpOf(j)')]
  BY DEF Phases, Bindings
<1> HIDE DEF State, Request
<1>4. /\ Phases' = [j \in Keys |-> IF j = k THEN n.state ELSE State(OpOf(j))]
      /\ Bindings' = [j \in Keys |-> IF j = k THEN n.req ELSE Request(OpOf(j))]
  BY <1>1, <1>3
<1> QED
  BY <1>2, <1>4

(* The claim of a new key is the abstract acceptance. *)
LEMMA ClaimAccepts ==
  ASSUME RInv, NEW p \in Procs, ClaimNew(p)
  PROVE  Abstract!Accept(call[p].key, call[p].req)
<1> USE DEF RInv, IInv
<1> DEFINE k == call[p].key
<1>1. ops' = ops \cup {Pending(p)} /\ (\A o \in ops : o.key # k) /\ ran' = ran
  BY ClaimEffect DEF ClaimNew
<1>2. k \in Keys
  BY DEF ClaimNew, CallIsApply, Applying
<1>3. Pending(p).key = k /\ Pending(p).state = "pending" /\ Pending(p).req = call[p].req
  BY DEF Pending
<1>4. Phases[k] = "none"
  BY <1>1, <1>2, MappedUnbound
<1>5. \A j \in Keys : OpOf(j)' = IF j = k THEN {Pending(p)} ELSE OpOf(j)
  BY <1>1, <1>3 DEF OpOf
<1>6. /\ Phases' = [Phases EXCEPT ![k] = "pending"]
      /\ Bindings' = [Bindings EXCEPT ![k] = call[p].req]
  BY <1>2, <1>3, <1>5, MappedStep
<1> QED
  BY <1>1, <1>4, <1>6 DEF Abstract!Accept, Phases, Bindings

(* A completion is the abstract finish, applied only if the runtime ran. *)
LEMMA CompleteFinishes ==
  ASSUME RInv, NEW p \in Procs, Complete(p)
  PROVE  Abstract!Finish(call[p].key, result[p].outcome)
<1> USE DEF RInv, IInv
<1> DEFINE k == call[p].key
<1>1. PICK o \in ops, n \in Operations :
        /\ o.state = "pending" /\ o.key = k /\ o.req = call[p].req
        /\ n.key = o.key /\ n.req = o.req /\ n.state = result[p].outcome
        /\ ops' = (ops \ {o}) \cup {n}
  BY ReceiptEffect
<1>2. k \in Keys /\ pc[p] \in Completing /\ ran' = ran
  BY DEF Complete, CallIsApply, Applying, Owning, Completing
<1>3. Phases[k] = "pending" /\ Bindings[k] = o.req
  BY <1>1, <1>2, MappedBound
<1>4. \A j \in Keys : OpOf(j)' = IF j = k THEN {n} ELSE OpOf(j)
  BY <1>1 DEF OpOf, OneOperationPerKey
<1>5. /\ Phases' = [Phases EXCEPT ![k] = result[p].outcome]
      /\ Bindings' = [Bindings EXCEPT ![k] = o.req]
  <2>1. k \in Keys
    BY <1>2
  <2>2. /\ Phases' = [Phases EXCEPT ![k] = n.state]
        /\ Bindings' = [Bindings EXCEPT ![k] = n.req]
    BY <1>4, <2>1, MappedStep
  <2> QED
    BY <1>1, <2>2
<1>6. Bindings' = Bindings
  BY <1>2, <1>3, <1>5 DEF Bindings
<1>7. result[p].outcome = "applied" => ran[k] # <<>>
  BY <1>2 DEF ResultIsOfRun, ProvenRan
<1> QED
  BY <1>2, <1>3, <1>5, <1>6, <1>7 DEF Abstract!Finish, Phases, Bindings

(* A native invocation is the abstract one, of the request the key is bound to. *)
LEMMA StartInvokes ==
  ASSUME RInv, NEW p \in Procs, NativeStart(p)
  PROVE  Abstract!Invoke(call[p].key)
<1> USE DEF RInv, IInv
<1> DEFINE k == call[p].key
<1>1. k \in Keys /\ pc[p] \in Owning /\ ops' = ops
  BY StartEffect
<1>2. PICK o \in ops : o.state = "pending" /\ o.key = k /\ o.req = call[p].req
  BY <1>1 DEF OwnsPending
<1>3. Phases[k] = "pending" /\ Bindings[k] = call[p].req
  BY <1>1, <1>2, MappedBound
<1>4. ran[k] = <<>>
  BY DEF NativeStart, NotYetRun
<1>5. ran' = [ran EXCEPT ![k] = <<Bindings[k]>>]
  BY <1>3, <1>4 DEF NativeStart
<1>6. Phases' = Phases /\ Bindings' = Bindings
  BY <1>1, MappedFrame
<1> QED
  BY <1>3, <1>4, <1>5, <1>6 DEF Abstract!Invoke, Phases, Bindings

(* Every other step leaves the abstract state alone. *)
LEMMA OthersStutter ==
  ASSUME [Next]_vars, \A p \in Procs : ~ (ClaimNew(p) \/ Complete(p) \/ NativeStart(p))
  PROVE  UNCHANGED Abstract!vars
<1>1. ops' = ops /\ ran' = ran
  BY OthersKeepRepository, OnlyNativeStartRuns
<1> QED
  BY <1>1, MappedFrame DEF Abstract!vars, Phases, Bindings

(* The lifecycle starts with every key unused. *)
LEMMA InitMaps == Init => Abstract!Init
<1> SUFFICES ASSUME Init PROVE Abstract!Init
  OBVIOUS
<1>1. \A k \in Keys : OpOf(k) = {}
  BY DEF Init, OpOf
<1> QED
  BY <1>1 DEF Init, Abstract!Init

(* Every step maps to a step of the promise or to none. *)
LEMMA StepMaps == RInv /\ [Next]_vars => [Abstract!Next]_(Abstract!vars)
<1> SUFFICES ASSUME RInv, [Next]_vars PROVE [Abstract!Next]_(Abstract!vars)
  OBVIOUS
<1>1. ASSUME NEW p \in Procs, ClaimNew(p) PROVE Abstract!Next
  <2>1. call[p].key \in Keys /\ call[p].req \in Requests
    BY <1>1 DEF ClaimNew, RInv, IInv, CallIsApply, Applying
  <2> QED
    BY <1>1, <2>1, ClaimAccepts DEF Abstract!Next
<1>2. ASSUME NEW p \in Procs, Complete(p) PROVE Abstract!Next
  <2>1. call[p].key \in Keys /\ result[p].outcome \in Abstract!Outcomes
    BY <1>2 DEF Complete, RInv, IInv, CallIsApply, Applying, Owning, TypeOK, Results,
       Outcomes, Abstract!Outcomes
  <2> QED
    BY <1>2, <2>1, CompleteFinishes DEF Abstract!Next
<1>3. ASSUME NEW p \in Procs, NativeStart(p) PROVE Abstract!Next
  <2>1. call[p].key \in Keys
    BY <1>3, StartEffect DEF RInv, IInv
  <2> QED
    BY <1>3, <2>1, StartInvokes DEF Abstract!Next
<1> QED
  BY <1>1, <1>2, <1>3, OthersStutter

(* Over any number of processes, retries and crashes, the lifecycle of a       *)
(* protected mutation is the abstract promise: bound once, invoked at most     *)
(* once for that request, finished at most once, and applied only if invoked   *)
(* (claim, mutate, complete).                                                  *)
THEOREM Refinement == Spec => ImplementsAtMostOnce
BY InitMaps, StepMaps, RInvariant, PTL DEF Spec, ImplementsAtMostOnce, Abstract!Spec

================================================================================
