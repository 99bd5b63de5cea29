------------------------- MODULE LocalServices_proofs -------------------------
(***************************************************************************)
(* Proofs about five components that share nothing, one after the other:   *)
(* the preferences, for any requests, scopes and accounts and any number   *)
(* of process deaths; the update executor, for any installation and any    *)
(* number of executions and deaths; the bridges to the command line, for   *)
(* every surface and any number of requests; the panel's page, for any     *)
(* contexts, accounts, loads and evidence requests; and the paging of      *)
(* histories, for any queries, window, page size and growth of the log.    *)
(***************************************************************************)
EXTENDS AccountPreferences, UpdateExecutor, CommandBridge, ControlPanel, HistoryPaging,
        SequenceTheorems, TLAPS

-------------------------------------------------------------------------------
(* The preferences implement HiddenAccounts.  The invariant says that whoever *)
(* is past mkdir holds the lock, so that what a request read is what it       *)
(* replaces.                                                                  *)

Steps == {"idle", "lock", "read", "write", "release"}
Replies == {Waiting, Failed} \cup {View(refs) : refs \in SUBSET Refs}

PrefsTypes ==
  /\ file \in Files
  /\ holder \in Procs \cup {Free, Stale}
  /\ at \in [Procs -> Steps]
  /\ call \in [Procs -> Calls]
  /\ found \in [Procs -> Hidings]
  /\ reply \in [Procs -> Replies]

LockHeld == \A p \in Procs : at[p] \in {"read", "write", "release"} => holder = p
ReadIsCurrent ==
  \A p \in Procs : at[p] = "write" => found[p] = Parsed(file) /\ call[p].op # "view"
Answered == \A p \in Procs : at[p] \in {"release", "idle"} => reply[p] # Waiting

PrefsInv == PrefsTypes /\ LockHeld /\ ReadIsCurrent /\ Answered

(* Whatever the file, reading it gives a set of references per scope.         *)
LEMMA ParsedType == ASSUME NEW f \in Files PROVE Parsed(f) \in Hidings
<1>1. f.hides \in Hidings
  BY DEF Files, Hidings, Nobody
<1>2. CASE f.schema = "v2"
  BY <1>1, <1>2 DEF Parsed
<1>3. CASE f.schema # "v2"
  <2>1. Parsed(f) = [s \in Scopes |-> IF f.schema = "v1" /\ s = LegacyScope
                                      THEN f.hides[s] ELSE {}]
    BY <1>3 DEF Parsed
  <2> QED
    BY <2>1, <1>1 DEF Hidings
<1> QED
  BY <1>2, <1>3

(* A call is on one scope, and names an account unless it is a view.          *)
LEMMA CallType ==
  ASSUME NEW c \in Calls
  PROVE  c.scope \in Scopes /\ (c.op # "view" => c.ref \in Refs)
BY DEF Calls

(* What a call leaves of a set of references is a set of references.          *)
LEMMA AppliedType ==
  ASSUME NEW c \in Calls, NEW refs \in SUBSET Refs
  PROVE  Applied(c, refs) \in SUBSET Refs
<1>1. c.op # "view" => c.ref \in Refs
  BY CallType
<1> QED
  BY <1>1 DEF Applied, Calls

(* The three kinds of reply are told apart by what they say.                  *)
LEMMA RepliesDiffer ==
  ASSUME NEW refs
  PROVE  /\ Waiting.says = "waiting" /\ Failed.says = "failed"
         /\ View(refs).says = "view"
         /\ Waiting # Failed /\ View(refs) # Waiting
BY DEF Waiting, Failed, View

(* A reply that is neither awaited nor a failure is a view.                   *)
LEMMA ReplyCases ==
  ASSUME NEW r \in Replies, r # Waiting
  PROVE  r = Failed \/ r.says = "view"
BY DEF Replies, View

(* The invariant holds at first.                                              *)
LEMMA PrefsInitInv == Init => PrefsInv
<1> SUFFICES ASSUME Init PROVE PrefsInv
  OBVIOUS
<1>1. [op |-> "view", scope |-> LegacyScope] \in Calls
  BY AccountPreferencesAssumption DEF Calls
<1>2. Nobody \in Hidings
  BY DEF Nobody, Hidings
<1>3. PrefsTypes
  BY <1>1, <1>2 DEF Init, PrefsTypes, Steps, Replies
<1>4. Answered
  BY RepliesDiffer DEF Init, Answered
<1> QED
  BY <1>3, <1>4 DEF Init, PrefsInv, LockHeld, ReadIsCurrent

(* What a request that changes the preferences writes back is a file, and it  *)
(* hides what its call leaves of what the request read.                       *)
LEMMA Written ==
  ASSUME PrefsInv, NEW p \in Procs, at[p] = "write",
         NEW after, after = Applied(call[p], found[p][call[p].scope]),
         file' = [schema |-> "v2", hides |-> [found[p] EXCEPT ![call[p].scope] = after]]
  PROVE  /\ file' \in Files
         /\ after \in SUBSET Refs
         /\ after = Applied(call[p], Parsed(file)[call[p].scope])
         /\ Parsed(file') = [Parsed(file) EXCEPT ![call[p].scope] = after]
<1>1. call[p] \in Calls /\ found[p] \in Hidings /\ found[p] = Parsed(file)
  BY DEF PrefsInv, PrefsTypes, ReadIsCurrent
<1>2. call[p].scope \in Scopes
  BY <1>1, CallType
<1>3. found[p][call[p].scope] \in SUBSET Refs
  BY <1>1, <1>2 DEF Hidings
<1>4. after \in SUBSET Refs
  BY <1>1, <1>3, AppliedType
<1>5. [found[p] EXCEPT ![call[p].scope] = after] \in Hidings
  BY <1>1, <1>4 DEF Hidings
<1>6. file' \in Files /\ Parsed(file') = file'.hides
  BY <1>5 DEF Files, Parsed
<1> QED
  BY <1>1, <1>4, <1>6

(* Every action keeps the invariant.                                          *)
LEMMA PrefsNextInv == PrefsInv /\ [Next]_vars => PrefsInv'
<1> SUFFICES ASSUME PrefsInv, [Next]_vars PROVE PrefsInv'
  OBVIOUS
<1> USE RepliesDiffer
<1>0. Nobody \in Hidings /\ Waiting \in Replies /\ Failed \in Replies
  BY DEF Nobody, Hidings, Replies
<1>1. ASSUME NEW p \in Procs, NEW c \in Calls, Ask(p, c) PROVE PrefsInv'
  BY <1>1, <1>0 DEF Ask, Tell, Goto, PrefsInv, PrefsTypes, Steps, LockHeld, ReadIsCurrent, Answered
<1>2. ASSUME NEW p \in Procs, Refuse(p) \/ FindLocked(p) PROVE PrefsInv'
  BY <1>2, <1>0 DEF Refuse, FindLocked, Tell, Goto, PrefsInv, PrefsTypes, Steps, LockHeld,
     ReadIsCurrent, Answered
<1>3. ASSUME NEW p \in Procs, TakeLock(p) PROVE PrefsInv'
  <2>1. \A q \in Procs : at[q] \notin {"read", "write", "release"}
    BY <1>3, AccountPreferencesAssumption DEF TakeLock, LockAbsent, PrefsInv, LockHeld
  <2> QED
    BY <1>3, <2>1 DEF TakeLock, Goto, PrefsInv, PrefsTypes, Steps, LockHeld, ReadIsCurrent, Answered
<1>4. ASSUME NEW p \in Procs, ReadToShow(p) PROVE PrefsInv'
  <2>1. file \in Files /\ call[p] \in Calls
    BY DEF PrefsInv, PrefsTypes
  <2>2. Parsed(file) \in Hidings /\ call[p].scope \in Scopes
    BY <2>1, ParsedType, CallType
  <2>3. View(Parsed(file)[call[p].scope]) \in Replies
    BY <2>2 DEF Hidings, Replies
  <2> QED
    BY <1>4, <2>3 DEF ReadToShow, Tell, Goto, PrefsInv, PrefsTypes, Steps, LockHeld, ReadIsCurrent, Answered
<1>5. ASSUME NEW p \in Procs, ReadToChange(p) PROVE PrefsInv'
  <2>1. Parsed(file) \in Hidings
    BY ParsedType DEF PrefsInv, PrefsTypes
  <2> QED
    BY <1>5, <2>1 DEF ReadToChange, Goto, PrefsInv, PrefsTypes, Steps, LockHeld, ReadIsCurrent, Answered
<1>6. ASSUME NEW p \in Procs, Throw(p) PROVE PrefsInv'
  BY <1>6, <1>0 DEF Throw, Tell, Goto, PrefsInv, PrefsTypes, Steps, LockHeld, ReadIsCurrent, Answered
<1>7. ASSUME NEW p \in Procs, Write(p) PROVE PrefsInv'
  <2> DEFINE after == Applied(call[p], found[p][call[p].scope])
  <2>1. /\ at[p] = "write" /\ holder = p
        /\ file' = [schema |-> "v2", hides |-> [found[p] EXCEPT ![call[p].scope] = after]]
    BY <1>7 DEF Write, PrefsInv, LockHeld
  <2>2. file' \in Files /\ after \in SUBSET Refs
    BY <2>1, Written
  <2>3. View(after) \in Replies
    BY <2>2 DEF Replies
  <2>4. \A q \in Procs : at[q] = "write" => q = p
    BY <2>1 DEF PrefsInv, LockHeld
  <2>5. PICK told \in {View(after), Failed} : Tell(p, told)
    BY <1>7 DEF Write
  <2>6. PrefsTypes'
    BY <1>7, <1>0, <2>2, <2>3, <2>5 DEF Write, Tell, Goto, PrefsInv, PrefsTypes, Steps
  <2>7. /\ at' = [at EXCEPT ![p] = "release"] /\ holder' = holder
        /\ call' = call /\ reply' = [reply EXCEPT ![p] = told] /\ told # Waiting
        /\ found' = [found EXCEPT ![p] = Nobody]
    BY <1>7, <2>5 DEF Write, Goto, Tell
  <2>8. LockHeld' /\ ReadIsCurrent' /\ Answered'
    BY <2>7, <2>1, <2>4 DEF PrefsInv, PrefsTypes, LockHeld, ReadIsCurrent, Answered
  <2> QED
    BY <2>6, <2>8 DEF PrefsInv
<1>8. ASSUME NEW p \in Procs, Release(p) PROVE PrefsInv'
  BY <1>8, AccountPreferencesAssumption DEF Release, Goto, PrefsInv, PrefsTypes, Steps, LockHeld,
     ReadIsCurrent, Answered
<1>9. ASSUME NEW p \in Procs, Crash(p) PROVE PrefsInv'
  BY <1>9, <1>0 DEF Crash, Tell, Goto, PrefsInv, PrefsTypes, Steps, LockHeld, ReadIsCurrent, Answered
<1>10. CASE UNCHANGED vars
  BY <1>10 DEF vars, PrefsInv, PrefsTypes, LockHeld, ReadIsCurrent, Answered
<1> QED
  BY <1>1, <1>2, <1>3, <1>4, <1>5, <1>6, <1>7, <1>8, <1>9, <1>10 DEF Next, Step

--------------------------------------------------------------------------------
(* The steps of the promise.                                                  *)

(* The stage of a request after a step of it.                                 *)
LEMMA StagesAfter ==
  ASSUME PrefsTypes, NEW p \in Procs, NEW step \in Steps, NEW told,
         at' = [at EXCEPT ![p] = step],
         reply' = [reply EXCEPT ![p] = told]
  PROVE  Stages' = [Stages EXCEPT ![p] = StageOf(step, told.says)]
BY DEF Stages, PrefsTypes

(* The stage of a request that keeps its reply.                               *)
LEMMA StagesMoved ==
  ASSUME PrefsTypes, NEW p \in Procs, NEW step \in Steps,
         at' = [at EXCEPT ![p] = step], reply' = reply
  PROVE  Stages' = [Stages EXCEPT ![p] = StageOf(step, reply[p].says)]
BY DEF Stages, PrefsTypes

(* The promise speaks of the same calls and replies.                          *)
LEMMA SameWords ==
  /\ Promise!Calls = Calls /\ Promise!Failed = Failed /\ Promise!Waiting = Waiting
  /\ \A refs : Promise!View(refs) = View(refs)
  /\ \A c, refs : Promise!Applied(c, refs) = Applied(c, refs)
BY DEF Promise!Calls, Calls, Promise!Failed, Failed, Promise!Waiting, Waiting,
       Promise!View, View, Promise!Applied, Applied

(* An action of the promise moves the stage of its caller.                    *)
LEMMA ActionsMoveStages ==
  ASSUME NEW p \in Procs,
         \/ \E c \in Promise!Calls : Promise!Ask(p, c)
         \/ Promise!TakeEffect(p) \/ Promise!Fail(p) \/ Promise!Return(p)
  PROVE  Promise!Next
<1>1. PICK now \in {"idle", "asked", "done"} :
        Stages[p] # now /\ Stages' = [Stages EXCEPT ![p] = now]
  BY DEF Promise!Ask, Promise!TakeEffect, Promise!Fail, Promise!Return
<1>2. Stages'[p] = now
  BY <1>1 DEF Stages
<1> QED
  BY <1>1, <1>2 DEF Promise!Next

(* Every step is a step of the promise, or none.                              *)
LEMMA Simulated ==
  ASSUME PrefsInv, PrefsInv', Next
  PROVE  Promise!Next \/ UNCHANGED Promise!vars
<1> USE RepliesDiffer
<1>0. PrefsTypes /\ Stages = [p \in Procs |-> StageOf(at[p], reply[p].says)]
  BY DEF PrefsInv, Stages
<1>1. ASSUME NEW p \in Procs, NEW c \in Calls, Ask(p, c) PROVE Promise!Ask(p, c)
  <2>1. Stages[p] = "idle"
    BY <1>1, <1>0 DEF Ask, StageOf
  <2>2. Stages' = [Stages EXCEPT ![p] = "asked"]
    <3>1. at' = [at EXCEPT ![p] = "lock"] /\ reply' = [reply EXCEPT ![p] = Waiting]
      BY <1>1 DEF Ask, Goto, Tell
    <3>2. Stages' = [Stages EXCEPT ![p] = StageOf("lock", Waiting.says)]
      BY <3>1, <1>0, StagesAfter DEF Steps
    <3> QED
      BY <3>2 DEF StageOf
  <2> QED
    BY <1>1, <2>1, <2>2, SameWords DEF Ask, Tell, Promise!Ask
<1>2. ASSUME NEW p \in Procs, Stages[p] # "idle", NEW step \in Steps, step \in {"idle", "release"},
             at' = [at EXCEPT ![p] = step], reply' = [reply EXCEPT ![p] = Failed],
             file' = file, call' = call
      PROVE  Promise!Fail(p)
  <2>1. Stages' = [Stages EXCEPT ![p] = StageOf(step, Failed.says)]
    BY <1>2, <1>0, StagesAfter
  <2>2. Stages' = [Stages EXCEPT ![p] = "idle"]
    BY <2>1, <1>2 DEF StageOf
  <2> QED
    BY <1>2, <2>2, SameWords DEF Promise!Fail
<1>3. ASSUME NEW p \in Procs, Refuse(p) \/ FindLocked(p) \/ Throw(p) PROVE Promise!Fail(p)
  <2>1. Stages[p] # "idle"
    BY <1>3, <1>0 DEF Refuse, FindLocked, Throw, StageOf
  <2> QED
    BY <1>3, <2>1, <1>2 DEF Refuse, FindLocked, Throw, Goto, Tell, Steps
<1>4. ASSUME NEW p \in Procs, TakeLock(p) \/ ReadToChange(p) PROVE UNCHANGED Promise!vars
  <2>1. PICK step \in {"read", "write"} : at' = [at EXCEPT ![p] = step]
    BY <1>4 DEF TakeLock, ReadToChange, Goto
  <2>2. reply' = reply /\ file' = file /\ call' = call /\ Stages[p] = "asked"
    BY <1>4, <1>0 DEF TakeLock, ReadToChange, StageOf
  <2>3. Stages' = [Stages EXCEPT ![p] = StageOf(step, reply[p].says)]
    BY <2>1, <2>2, <1>0, StagesMoved DEF Steps
  <2>4. Stages' = Stages
    BY <2>1, <2>2, <2>3, <1>0 DEF StageOf
  <2> QED
    BY <2>2, <2>4 DEF Promise!vars
<1>5. ASSUME NEW p \in Procs, ReadToShow(p) PROVE Promise!TakeEffect(p)
  <2> DEFINE refs == Parsed(file)[call[p].scope]
  <2>1. /\ at[p] = "read" /\ call[p].op = "view" /\ file' = file /\ call' = call
        /\ at' = [at EXCEPT ![p] = "release"] /\ reply' = [reply EXCEPT ![p] = View(refs)]
    BY <1>5 DEF ReadToShow, Goto, Tell
  <2>2. Stages' = [Stages EXCEPT ![p] = StageOf("release", View(refs).says)]
    BY <2>1, <1>0, StagesAfter DEF Steps
  <2>3. Stages' = [Stages EXCEPT ![p] = "done"] /\ Stages[p] = "asked"
    BY <2>1, <2>2, <1>0 DEF StageOf
  <2>4. Parsed(file) \in Hidings
    BY <1>0, ParsedType DEF PrefsTypes
  <2>5. Applied(call[p], refs) = refs /\ Parsed(file') = [Parsed(file) EXCEPT ![call[p].scope] = refs]
    BY <2>1, <2>4 DEF Applied, Hidings
  <2> QED
    BY <2>1, <2>3, <2>5, SameWords DEF Promise!TakeEffect
<1>6. ASSUME NEW p \in Procs, Write(p) PROVE Promise!TakeEffect(p)
  <2> DEFINE after == Applied(call[p], found[p][call[p].scope])
  <2>1. /\ at[p] = "write" /\ call' = call /\ at' = [at EXCEPT ![p] = "release"]
        /\ file' = [schema |-> "v2", hides |-> [found[p] EXCEPT ![call[p].scope] = after]]
    BY <1>6 DEF Write, Goto
  <2>2. /\ after = Applied(call[p], Parsed(file)[call[p].scope])
        /\ Parsed(file') = [Parsed(file) EXCEPT ![call[p].scope] = after]
    BY <2>1, Written
  <2>3. PICK told \in {View(after), Failed} : reply' = [reply EXCEPT ![p] = told]
    BY <1>6 DEF Write, Tell
  <2>4. Stages' = [Stages EXCEPT ![p] = StageOf("release", told.says)]
    BY <2>1, <2>3, <1>0, StagesAfter DEF Steps
  <2>5. Stages[p] = "asked"
    BY <2>1, <1>0 DEF StageOf
  <2> HIDE DEF after
  <2>6. CASE told = View(after)
    <3>1. Stages' = [Stages EXCEPT ![p] = "done"]
      BY <2>4, <2>6 DEF StageOf
    <3> QED
      BY <2>1, <2>2, <2>3, <2>5, <2>6, <3>1, SameWords DEF Promise!TakeEffect
  <2>7. CASE told = Failed
    <3>1. Stages' = [Stages EXCEPT ![p] = "idle"]
      BY <2>4, <2>7 DEF StageOf
    <3> QED
      BY <2>1, <2>2, <2>3, <2>5, <2>7, <3>1, SameWords DEF Promise!TakeEffect
  <2> QED
    BY <2>6, <2>7
<1>7. ASSUME NEW p \in Procs, Release(p) PROVE Promise!Return(p) \/ UNCHANGED Promise!vars
  <2>1. /\ at[p] = "release" /\ at' = [at EXCEPT ![p] = "idle"]
        /\ reply' = reply /\ file' = file /\ call' = call
    BY <1>7 DEF Release, Goto
  <2>2. Stages' = [Stages EXCEPT ![p] = "idle"]
    BY <2>1, <1>0, StagesMoved DEF StageOf, Steps
  <2>3. CASE reply[p].says = "view"
    <3>1. Stages[p] = "done"
      BY <2>1, <2>3, <1>0 DEF StageOf
    <3> QED
      BY <2>1, <2>2, <3>1 DEF Promise!Return
  <2>4. CASE reply[p].says # "view"
    <3>1. Stages[p] = "idle"
      BY <2>1, <2>4, <1>0 DEF StageOf
    <3>2. Stages' = Stages
      BY <2>2, <3>1, <1>0
    <3> QED
      BY <2>1, <3>2 DEF Promise!vars
  <2> QED
    BY <2>3, <2>4
<1>8. ASSUME NEW p \in Procs, Crash(p) PROVE Promise!Fail(p) \/ UNCHANGED Promise!vars
  <2>1. /\ at[p] # "idle" /\ at' = [at EXCEPT ![p] = "idle"]
        /\ reply' = [reply EXCEPT ![p] = Failed] /\ file' = file /\ call' = call
    BY <1>8 DEF Crash, Goto, Tell
  <2>2. CASE Stages[p] # "idle"
    BY <2>1, <2>2, <1>2 DEF Steps
  <2>3. CASE Stages[p] = "idle"
    <3>1. at[p] = "release" /\ reply[p].says # "view"
      BY <2>1, <2>3, <1>0 DEF PrefsTypes, Steps, StageOf
    <3>2. reply[p] = Failed
      BY <3>1, <1>0, ReplyCases DEF PrefsInv, PrefsTypes, Answered
    <3>3. reply' = reply
      BY <2>1, <3>2, <1>0 DEF PrefsTypes
    <3>4. Stages' = [Stages EXCEPT ![p] = "idle"]
      BY <2>1, <3>3, <1>0, StagesMoved DEF StageOf, Steps
    <3>5. Stages' = Stages
      BY <3>4, <2>3, <1>0
    <3> QED
      BY <2>1, <3>3, <3>5 DEF Promise!vars
  <2> QED
    BY <2>2, <2>3
<1> QED
  <2>1. PICK p \in Procs : (\E c \in Calls : Ask(p, c)) \/ Step(p) \/ Crash(p)
    BY DEF Next
  <2>2. CASE \E c \in Calls : Ask(p, c)
    BY <2>2, <1>1, SameWords, ActionsMoveStages
  <2>3. CASE Step(p)
    BY <2>3, <1>3, <1>4, <1>5, <1>6, <1>7, ActionsMoveStages DEF Step
  <2>4. CASE Crash(p)
    BY <2>4, <1>8, ActionsMoveStages
  <2> QED
    BY <2>1, <2>2, <2>3, <2>4

(* For any requests, scopes and accounts, however requests overlap, fail and  *)
(* die, the file under its lock directory behaves as one set of references    *)
(* per scope (AccountUiPreferencesStore.withLock, read, write).               *)
THEOREM PreferencesKept == Spec => ImplementsHiddenAccounts
<1>1. Init => PrefsInv
  BY PrefsInitInv
<1>2. PrefsInv /\ [Next]_vars => PrefsInv'
  BY PrefsNextInv
<1>3. Init => Promise!Init
  <2> SUFFICES ASSUME Init PROVE Promise!Init
    OBVIOUS
  <2>1. Parsed(file) \in [Scopes -> SUBSET Refs] /\ call \in [Procs -> Calls]
    BY <1>1, ParsedType DEF PrefsInv, PrefsTypes, Hidings
  <2>2. Stages = [p \in Procs |-> "idle"] /\ reply = [p \in Procs |-> Failed]
    BY DEF Init, Stages, StageOf
  <2> QED
    BY <2>1, <2>2, SameWords DEF Promise!Init
<1>4. PrefsInv /\ PrefsInv' /\ [Next]_vars => [Promise!Next]_(Promise!vars)
  <2> SUFFICES ASSUME PrefsInv, PrefsInv', [Next]_vars PROVE Promise!Next \/ UNCHANGED Promise!vars
    OBVIOUS
  <2>1. CASE UNCHANGED vars
    BY <2>1 DEF vars, Promise!vars, Stages
  <2> QED
    BY <2>1, Simulated
<1> QED
  BY <1>1, <1>2, <1>3, <1>4, PTL DEF Spec, ImplementsHiddenAccounts, Promise!Spec

-------------------------------------------------------------------------------
(* The update executor.                                                       *)

(* The phases of an execution between two looks at the install root. *)
Backing == {"copy", "install", "restart", "health", "remove", "restore"}
Backed == Backing \ {"copy"}

(* What the proof needs of the types. *)
UpdateTypes ==
  /\ artifact \in {"release", "other"}
  /\ root \subseteq Items
  /\ backups \in Seq(SUBSET Items)
  /\ pc \in {"idle", "artifact", "backup"} \cup Backing
  /\ result \in Results
  /\ pc # "idle" => result = "none"

(* A complete copy of the original files is in one of the backups. *)
InBackup == \E i \in DOMAIN backups : Originals \subseteq backups[i]

(* The backup of this execution is a part of the root while it is made, and   *)
(* the whole of it from then on.                                              *)
BackupIsBefore ==
  /\ pc \in Backing => backups # <<>>
  /\ pc = "copy" => Last \subseteq root
  /\ pc \in Backed => Last = before

(* What the root holds at each phase. *)
RootFollows ==
  /\ pc \in {"artifact", "backup", "copy", "install"} => root = before
  /\ pc \in {"restart", "health"} =>
       \E x \in {"release", "other"} : root = (before \ Staged) \cup {x}
  /\ pc = "restore" => root \subseteq Last

(* The inductive invariant: nothing is written to the root before a backup of *)
(* it is whole, and that backup is what a rollback brings back.               *)
UpdateInv ==
  /\ UpdateTypes /\ BackupIsBefore /\ RootFollows
  /\ pc \in Backed => InBackup
  /\ OriginalsSurvive /\ ResultsAreTruthful
--------------------------------------------------------------------------------
(* Growing the last backup by a file changes no other backup.                 *)
LEMMA CopyGrows ==
  ASSUME UpdateTypes, backups # <<>>, NEW x \in Items, CopyToBackup(x)
  PROVE  /\ backups' \in Seq(SUBSET Items) /\ backups' # <<>>
         /\ Last' = Last \cup {x}
         /\ InBackup => InBackup'
<1> DEFINE n == Len(backups)
<1>1. n \in 1 .. n /\ DOMAIN backups = 1 .. n /\ Last \subseteq Items
  BY LenProperties, EmptySeq, ElementOfSeq DEF UpdateTypes, Last
<1>2. backups' = [backups EXCEPT ![n] = Last \cup {x}]
  BY <1>1 DEF CopyToBackup, Last
<1>3. Last \cup {x} \in SUBSET Items
  BY <1>1
<1>4. /\ backups' \in Seq(SUBSET Items) /\ Len(backups') = n
      /\ \A j \in 1 .. n : backups'[j] = IF j = n THEN Last \cup {x} ELSE backups[j]
  BY <1>1, <1>2, <1>3, ExceptSeq DEF UpdateTypes
<1>5. DOMAIN backups' = 1 .. n
  BY <1>4, LenProperties
<1>6. Last' = Last \cup {x}
  BY <1>1, <1>4 DEF Last
<1>8. backups' # <<>>
  BY <1>1, <1>5
<1>7. ASSUME NEW i \in 1 .. n, Originals \subseteq backups[i]
      PROVE  Originals \subseteq backups'[i]
  BY <1>1, <1>4, <1>7 DEF Last
<1> QED
  BY <1>1, <1>4, <1>5, <1>6, <1>7, <1>8 DEF InBackup

(* Opening a backup keeps the others. *)
LEMMA StartKeeps ==
  ASSUME UpdateTypes, StartBackup
  PROVE  /\ backups' \in Seq(SUBSET Items) /\ backups' # <<>>
         /\ Last' = {}
         /\ InBackup => InBackup'
<1>1. backups' = Append(backups, {}) /\ {} \in SUBSET Items
  BY DEF StartBackup
<1>2. /\ backups' \in Seq(SUBSET Items) /\ Len(backups') = Len(backups) + 1
      /\ \A i \in 1 .. Len(backups) : backups'[i] = backups[i]
      /\ backups'[Len(backups) + 1] = {}
  BY <1>1, AppendProperties DEF UpdateTypes
<1>3. Len(backups) \in Nat /\ DOMAIN backups = 1 .. Len(backups)
      /\ DOMAIN backups' = 1 .. Len(backups')
  BY <1>2, LenProperties DEF UpdateTypes
<1> QED
  BY <1>2, <1>3, EmptySeq DEF InBackup, Last

(* The actions that leave the backups alone. *)
Elsewhere ==
  \/ BeginUpdate \/ VerifyArtifact \/ FinishBackup \/ BackupFails
  \/ Install \/ InstallFails \/ Restart \/ HealthCheck
  \/ StartRestore \/ FinishRestore \/ RollbackFails
  \/ \E x \in Items : RemoveItem(x) \/ RestoreItem(x)
  \/ ProcessDies \/ ReplaceArtifact

LEMMA UpdateInitInv == UpdateInit => UpdateInv
<1>1. <<>> \in Seq(SUBSET Items)
  BY EmptySeq
<1> QED
  BY <1>1 DEF UpdateInit, UpdateInv, UpdateTypes, Items, Results, Backing, Backed, BackupIsBefore,
     RootFollows, InBackup, OriginalsSurvive, ResultsAreTruthful

(* Every step keeps the types. *)
LEMMA TypesStep ==
  ASSUME UpdateInv, [UpdateNext]_updateVars
  PROVE  UpdateTypes'
<1> USE DEF Items, Staged, Results, Backing, Backed
<1>1. CASE UNCHANGED updateVars
  BY <1>1 DEF UpdateInv, UpdateTypes, updateVars
<1>2. CASE StartBackup
  BY <1>2, StartKeeps DEF UpdateInv, UpdateTypes, StartBackup, Proceed
<1>3. ASSUME NEW x \in Items, CopyToBackup(x) PROVE UpdateTypes'
  BY <1>3, CopyGrows DEF UpdateInv, UpdateTypes, BackupIsBefore, CopyToBackup
<1>4. CASE Elsewhere
  <2>1. CASE BeginUpdate \/ VerifyArtifact \/ FinishBackup \/ BackupFails
    BY <2>1 DEF UpdateInv, UpdateTypes, BeginUpdate, VerifyArtifact, FinishBackup, BackupFails, Proceed, Return
  <2>2. CASE Install
    BY <2>2 DEF UpdateInv, UpdateTypes, Install, Stage, Proceed
  <2>3. CASE InstallFails
    BY <2>3 DEF UpdateInv, UpdateTypes, InstallFails, Stage, Proceed
  <2>4. CASE Restart \/ HealthCheck \/ StartRestore \/ FinishRestore \/ RollbackFails
    BY <2>4 DEF UpdateInv, UpdateTypes, Restart, HealthCheck, StartRestore, FinishRestore,
       RollbackFails, Proceed, Return
  <2>5. ASSUME NEW x \in Items, RemoveItem(x) PROVE UpdateTypes'
    BY <2>5 DEF UpdateInv, UpdateTypes, RemoveItem
  <2>6. ASSUME NEW x \in Items, RestoreItem(x) PROVE UpdateTypes'
    BY <2>6 DEF UpdateInv, UpdateTypes, RestoreItem
  <2>7. CASE ProcessDies \/ ReplaceArtifact
    BY <2>7 DEF UpdateInv, UpdateTypes, ProcessDies, ReplaceArtifact, Return
  <2> QED
    BY <1>4, <2>1, <2>2, <2>3, <2>4, <2>5, <2>6, <2>7 DEF Elsewhere
<1> QED
  BY <1>1, <1>2, <1>3, <1>4 DEF UpdateNext, Elsewhere

(* Every step keeps the backup in its relation to the root. *)
LEMMA BackupStep ==
  ASSUME UpdateInv, [UpdateNext]_updateVars
  PROVE  BackupIsBefore'
<1> USE DEF Backing, Backed
<1>1. CASE UNCHANGED updateVars
  BY <1>1 DEF UpdateInv, BackupIsBefore, Last, updateVars
<1>2. CASE StartBackup
  BY <1>2, StartKeeps DEF UpdateInv, BackupIsBefore, StartBackup, Proceed
<1>3. ASSUME NEW x \in Items, CopyToBackup(x) PROVE BackupIsBefore'
  BY <1>3, CopyGrows DEF UpdateInv, BackupIsBefore, CopyToBackup
<1>4. CASE FinishBackup
  BY <1>4 DEF UpdateInv, BackupIsBefore, RootFollows, FinishBackup, Copied, Last, Proceed
<1>5. CASE BeginUpdate \/ VerifyArtifact \/ BackupFails \/ ProcessDies \/ ReplaceArtifact
  BY <1>5 DEF UpdateInv, BackupIsBefore, BeginUpdate, VerifyArtifact, BackupFails, ProcessDies,
     ReplaceArtifact, Last, Proceed, Return
<1>6. CASE Install \/ InstallFails \/ Restart \/ HealthCheck \/ StartRestore
             \/ FinishRestore \/ RollbackFails
  BY <1>6 DEF UpdateInv, BackupIsBefore, Install, InstallFails, Restart, HealthCheck,
     StartRestore, FinishRestore, RollbackFails, Last, Proceed, Return
<1>7. ASSUME NEW x \in Items, RemoveItem(x) \/ RestoreItem(x) PROVE BackupIsBefore'
  BY <1>7 DEF UpdateInv, BackupIsBefore, RemoveItem, RestoreItem, Last
<1> QED
  BY <1>1, <1>2, <1>3, <1>4, <1>5, <1>6, <1>7 DEF UpdateNext

(* Every step leaves the root as its phase says. *)
LEMMA RootStep ==
  ASSUME UpdateInv, [UpdateNext]_updateVars
  PROVE  RootFollows'
<1> USE DEF Staged
<1>1. CASE UNCHANGED updateVars
  BY <1>1 DEF UpdateInv, RootFollows, Last, updateVars
<1>2. CASE BeginUpdate \/ VerifyArtifact \/ StartBackup \/ FinishBackup \/ BackupFails
             \/ ProcessDies \/ ReplaceArtifact
  BY <1>2 DEF UpdateInv, RootFollows, BeginUpdate, VerifyArtifact, StartBackup, FinishBackup,
     BackupFails, ProcessDies, ReplaceArtifact, Last, Proceed, Return
<1>3. ASSUME NEW x \in Items, CopyToBackup(x) PROVE RootFollows'
  BY <1>3 DEF UpdateInv, RootFollows, CopyToBackup
<1>4. CASE Install
  BY <1>4 DEF UpdateInv, UpdateTypes, RootFollows, Install, Stage, Proceed
<1>5. CASE InstallFails
  BY <1>5 DEF RootFollows, InstallFails, Proceed
<1>6. CASE Restart \/ HealthCheck
  BY <1>6 DEF UpdateInv, RootFollows, Restart, HealthCheck, Proceed, Return
<1>7. CASE StartRestore \/ FinishRestore \/ RollbackFails
  BY <1>7 DEF RootFollows, StartRestore, Removed, FinishRestore, RollbackFails, Proceed, Return
<1>8. ASSUME NEW x \in Items, RemoveItem(x) PROVE RootFollows'
  BY <1>8 DEF RootFollows, RemoveItem
<1>9. ASSUME NEW x \in Items, RestoreItem(x) PROVE RootFollows'
  BY <1>9 DEF UpdateInv, RootFollows, RestoreItem, Last
<1> QED
  BY <1>1, <1>2, <1>3, <1>4, <1>5, <1>6, <1>7, <1>8, <1>9 DEF UpdateNext

(* Once a backup is whole, some backup has the original files; until then      *)
(* nothing has touched the root.                                              *)
LEMMA SurviveStep ==
  ASSUME UpdateInv, [UpdateNext]_updateVars
  PROVE  (pc \in Backed => InBackup)' /\ OriginalsSurvive'
<1> USE DEF Backing, Backed
<1>1. CASE UNCHANGED updateVars
  BY <1>1 DEF UpdateInv, InBackup, OriginalsSurvive, updateVars
<1>2. CASE StartBackup
  BY <1>2, StartKeeps DEF UpdateInv, InBackup, OriginalsSurvive, StartBackup, Proceed
<1>3. ASSUME NEW x \in Items, CopyToBackup(x)
      PROVE  (pc \in Backed => InBackup)' /\ OriginalsSurvive'
  BY <1>3, CopyGrows DEF UpdateInv, BackupIsBefore, InBackup, OriginalsSurvive, CopyToBackup
<1>4. CASE FinishBackup
  <2>1. Len(backups) \in DOMAIN backups
    BY <1>4, LenProperties, EmptySeq DEF UpdateInv, UpdateTypes, BackupIsBefore, FinishBackup
  <2>2. InBackup
    BY <1>4, <2>1 DEF UpdateInv, OriginalsSurvive, InBackup, FinishBackup, Copied, Last
  <2> QED
    BY <1>4, <2>2 DEF InBackup, OriginalsSurvive, FinishBackup, Proceed
<1>5. CASE BeginUpdate \/ VerifyArtifact \/ BackupFails \/ ProcessDies \/ ReplaceArtifact
  BY <1>5 DEF UpdateInv, InBackup, OriginalsSurvive, BeginUpdate, VerifyArtifact, BackupFails,
     ProcessDies, ReplaceArtifact, Proceed, Return
<1>6. CASE Install \/ InstallFails \/ Restart \/ HealthCheck \/ StartRestore
             \/ FinishRestore \/ RollbackFails
  BY <1>6 DEF UpdateInv, InBackup, OriginalsSurvive, Install, InstallFails, Restart,
     HealthCheck, StartRestore, FinishRestore, RollbackFails, Proceed, Return
<1>7. ASSUME NEW x \in Items, RemoveItem(x) \/ RestoreItem(x)
      PROVE  (pc \in Backed => InBackup)' /\ OriginalsSurvive'
  BY <1>7 DEF UpdateInv, InBackup, OriginalsSurvive, RemoveItem, RestoreItem
<1> QED
  BY <1>1, <1>2, <1>3, <1>4, <1>5, <1>6, <1>7 DEF UpdateNext

(* A result is the truth when it is returned, and nothing changes after it.   *)
LEMMA TruthStep ==
  ASSUME UpdateInv, [UpdateNext]_updateVars
  PROVE  ResultsAreTruthful'
<1>1. CASE UNCHANGED updateVars
  BY <1>1 DEF UpdateInv, ResultsAreTruthful, updateVars
<1>2. CASE BeginUpdate
  BY <1>2 DEF ResultsAreTruthful, BeginUpdate, Return
<1>3. CASE VerifyArtifact
  BY <1>3 DEF UpdateInv, UpdateTypes, RootFollows, ResultsAreTruthful, VerifyArtifact, Proceed, Return
<1>4. CASE StartBackup \/ FinishBackup \/ BackupFails
  BY <1>4 DEF UpdateInv, UpdateTypes, RootFollows, ResultsAreTruthful, StartBackup, FinishBackup,
     BackupFails, Proceed, Return
<1>5. CASE Install \/ InstallFails \/ Restart \/ StartRestore
  BY <1>5 DEF UpdateInv, UpdateTypes, ResultsAreTruthful, Install, InstallFails, Restart,
     StartRestore, Proceed, Return
<1>6. CASE HealthCheck
  <2>1. ASSUME Return("applied") PROVE ResultsAreTruthful'
    <3>1. PICK x \in {"release", "other"} : root = (before \ Staged) \cup {x}
      BY <1>6 DEF UpdateInv, RootFollows, HealthCheck
    <3>2. root \ Staged = before \ Staged /\ root \cap Staged = {x}
      BY <3>1 DEF Staged
    <3> QED
      BY <1>6, <2>1, <3>2 DEF ResultsAreTruthful, HealthCheck, Return
  <2>2. ASSUME Proceed("remove") \/ Return("UNPROVEN") PROVE ResultsAreTruthful'
    BY <1>6, <2>2 DEF UpdateInv, UpdateTypes, ResultsAreTruthful, HealthCheck, Proceed, Return
  <2> QED
    BY <1>6, <2>1, <2>2 DEF HealthCheck
<1>7. CASE FinishRestore
  BY <1>7 DEF UpdateInv, BackupIsBefore, Backed, Backing, RootFollows, ResultsAreTruthful,
     FinishRestore, Last, Return
<1>8. CASE RollbackFails \/ ProcessDies \/ ReplaceArtifact
  BY <1>8 DEF UpdateInv, ResultsAreTruthful, RollbackFails, ProcessDies, ReplaceArtifact, Return
<1>9. ASSUME NEW x \in Items, CopyToBackup(x) \/ RemoveItem(x) \/ RestoreItem(x)
      PROVE  ResultsAreTruthful'
  BY <1>9 DEF UpdateInv, UpdateTypes, ResultsAreTruthful, CopyToBackup, RemoveItem, RestoreItem
<1> QED
  BY <1>1, <1>2, <1>3, <1>4, <1>5, <1>6, <1>7, <1>8, <1>9 DEF UpdateNext

(* The inductive invariant holds throughout. *)
THEOREM UpdateInductive == UpdateSpec => []UpdateInv
<1>1. UpdateInv /\ [UpdateNext]_updateVars => UpdateInv'
  BY TypesStep, BackupStep, RootStep, SurviveStep, TruthStep DEF UpdateInv
<1> QED
  BY UpdateInitInv, <1>1, PTL DEF UpdateSpec

(* Whatever fails or dies, however often, the original files are whole in the  *)
(* install root or in one backup (createBackup before installArtifact).       *)
THEOREM OriginalsAreKept == UpdateSpec => []OriginalsSurvive
<1>1. UpdateInv => OriginalsSurvive
  BY DEF UpdateInv
<1> QED
  BY UpdateInductive, <1>1, PTL

(* A result other than UNPROVEN is the truth about the install root            *)
(* (executeUpdatePlan, rollbackAfterFailure).                                 *)
THEOREM TruthfulResults == UpdateSpec => []ResultsAreTruthful
<1>1. UpdateInv => ResultsAreTruthful
  BY DEF UpdateInv
<1> QED
  BY UpdateInductive, <1>1, PTL

-------------------------------------------------------------------------------
(* The bridges to the command line.                                           *)

BridgeRunning == {"wrapper", "command", "mutated"}

(* Nothing is printed before the process of the request has ended, and        *)
(* nothing is answered before that either.                                    *)
Silence ==
  /\ phase \in {"idle", "gate", "exited", "left"} \cup BridgeRunning
  /\ phase \in {"gate"} \cup BridgeRunning => printed = Nothing
  /\ phase \in {"gate", "exited"} \cup BridgeRunning => answer = "none"

(* What a native command has changed is what its verb changes.                *)
DidAsAsked == phase = "mutated" => Mutates(message) /\ did \in Changes(message)

(* The applied text is printed and answered for nothing but a delete that was *)
(* done.                                                                      *)
PrintedMeansDeleted == printed.text = "applied text" => did = {"deleted"}

(* What got past the gate without the allowance cannot mutate.                *)
GateHolds == surface = "mcp" /\ ~allow /\ phase \in BridgeRunning => ~Mutates(message)

LeftIsLeft == stdin = "left" => phase = "left"

BridgeInv ==
  /\ Silence /\ DidAsAsked /\ PrintedMeansDeleted /\ GateHolds /\ LeftIsLeft
  /\ AppliedMeansDeleted /\ UnallowedRequestsChangeNoRuntime /\ EveryRequestIsAnswered
-------------------------------------------------------------------------------
(* What is printed ends the process.                                          *)
LEMMA Prints ==
  ASSUME NEW text, NEW ok, Exit(text, ok)
  PROVE  phase' = "exited" /\ printed'.text = text
BY DEF Exit

(* Printing a delete ends the process, and prints the applied text only for a *)
(* verified one.                                                              *)
LEMMA DeleteIsPrinted ==
  ASSUME NEW verified \in BOOLEAN, NEW ok \in BOOLEAN, PrintDelete(verified, ok)
  PROVE  phase' = "exited" /\ (printed'.text = "applied text" => verified)
<1>1. CASE verified
  <2>1. Exit("output", ok) \/ Exit("none", FALSE) \/ Exit("applied text", ok)
    BY <1>1 DEF PrintDelete
  <2> QED
    BY <1>1, <2>1, Prints
<1>2. CASE ~verified
  <2>1. Exit("output", ok) \/ Exit("none", FALSE) \/ Exit("unproven text", ok)
    BY <1>2 DEF PrintDelete
  <2>2. phase' = "exited" /\ printed'.text \in {"output", "none", "unproven text"}
    BY <2>1, Prints
  <2> QED
    BY <2>2
<1> QED
  BY <1>1, <1>2

(* A request that cannot mutate changes at most the challenges.               *)
LEMMA ChangesWithoutMutation ==
  ASSUME NEW m, ~Mutates(m), NEW c \in Changes(m)
  PROVE  c \cap {"deleted", "rerouted"} = {}
BY DEF Changes

(* A delete changes nothing or deletes.                                       *)
LEMMA ChangesOfADelete ==
  ASSUME NEW m, m.verb = "delete", NEW c \in Changes(m)
  PROVE  c = {} \/ c = {"deleted"}
BY DEF Changes

(* What the gate lets through without the allowance cannot mutate: it is a    *)
(* status, or a dry run of which nothing says apply.                          *)
LEMMA GateIsSafe ==
  ASSUME ~NeedsAllowance, ~allow
  PROVE  ~Mutates(message)
BY DEF NeedsAllowance, IsMutationInvocation, ExplicitlyDryRun, Invocation, Mutates

LEMMA BridgeInitInv == BridgeInit => BridgeInv
BY DEF BridgeInit, BridgeInv, Silence, BridgeRunning, DidAsAsked, PrintedMeansDeleted, GateHolds,
       LeftIsLeft, AppliedMeansDeleted, UnallowedRequestsChangeNoRuntime,
       EveryRequestIsAnswered, Nothing, config
-------------------------------------------------------------------------------
(* Answers repeat what was printed, or say less.                              *)
LEMMA AnswersKeepInv ==
  ASSUME BridgeInv,
         \/ ContractMissing \/ InspectionFails \/ AnswerPreviewDelete \/ BlockMutation
         \/ AnswerDelete \/ AnswerOther \/ AnswerDirectly
  PROVE  BridgeInv'
<1> USE DEF BridgeInv, Silence, BridgeRunning, DidAsAsked, PrintedMeansDeleted, GateHolds, LeftIsLeft
<1>1. /\ phase' = "idle" /\ phase \in {"gate", "exited"}
      /\ UNCHANGED <<surface, allow, stdin, message, printed, did>>
  BY DEF ContractMissing, InspectionFails, AnswerPreviewDelete, BlockMutation, GatePassed,
         AnswerDelete, AnswerOther, AnswerDirectly, Answer, outside, config
<1>2. answer' = "applied text" => printed.text = "applied text"
  BY DEF ContractMissing, InspectionFails, AnswerPreviewDelete, BlockMutation,
         AnswerDelete, AnswerOther, AnswerDirectly, Answer
<1>3. AppliedMeansDeleted'
  BY <1>1, <1>2 DEF AppliedMeansDeleted
<1>4. UnallowedRequestsChangeNoRuntime' /\ EveryRequestIsAnswered'
  BY <1>1 DEF UnallowedRequestsChangeNoRuntime, EveryRequestIsAnswered
<1> QED
  BY <1>1, <1>3, <1>4

(* From the gate to the command line.                                         *)
LEMMA StartsKeepInv ==
  ASSUME BridgeInv, Spawn \/ StartCommand \/ \E m \in Messages : Begin(m)
  PROVE  BridgeInv'
<1> USE DEF BridgeInv, Silence, BridgeRunning, DidAsAsked, PrintedMeansDeleted, GateHolds, LeftIsLeft,
            AppliedMeansDeleted, UnallowedRequestsChangeNoRuntime, EveryRequestIsAnswered,
            outside, config, Enter
<1>1. ASSUME Spawn PROVE BridgeInv'
  <2>1. surface = "mcp" /\ ~allow => ~Mutates(message)
    BY <1>1, GateIsSafe DEF Spawn
  <2> QED
    BY <1>1, <2>1 DEF Spawn, GatePassed, Mutates, Invocation
<1>2. ASSUME StartCommand PROVE BridgeInv'
  BY <1>2 DEF StartCommand, Mutates, Invocation
<1>3. ASSUME NEW m \in Messages, Begin(m) PROVE BridgeInv'
  BY <1>3 DEF Begin, Nothing
<1> QED
  BY <1>1, <1>2, <1>3

(* The process of a request prints, changes the runtime, or is killed.        *)
LEMMA ProcessKeepsInv ==
  ASSUME BridgeInv,
         \/ WrapperRefuses \/ AnswerUnchanged \/ RecordChallenge
         \/ Mutate \/ PrintOutcome \/ Kill
  PROVE  BridgeInv'
<1>1. /\ phase \in BridgeRunning /\ phase' \in {"mutated", "exited"}
      /\ UNCHANGED <<surface, allow, received, answered, stdin, message, answer>>
  <2>1. ASSUME AnswerUnchanged \/ PrintOutcome PROVE phase' = "exited"
    BY <2>1, DeleteIsPrinted DEF AnswerUnchanged, PrintOutcome, Exit
  <2> QED
    BY <2>1 DEF WrapperRefuses, AnswerUnchanged, RecordChallenge, Mutate, PrintOutcome, Kill,
                Exit, Enter, BridgeRunning, outside, config
<1>2. answer = "none" /\ printed = Nothing
  BY <1>1 DEF BridgeInv, Silence
<1>3. printed'.text = "applied text" => did' = {"deleted"}
  <2>1. ASSUME AnswerUnchanged PROVE printed'.text # "applied text"
    <3>1. PICK ok \in BOOLEAN :
            PrintDelete(FALSE, ok) \/ Exit("output", ok) \/ Exit("none", FALSE)
      BY <2>1 DEF AnswerUnchanged
    <3>2. ASSUME PrintDelete(FALSE, ok) PROVE ~(printed'.text = "applied text")
      BY <3>2, DeleteIsPrinted
    <3>3. ASSUME ~PrintDelete(FALSE, ok) PROVE printed'.text \in {"output", "none"}
      BY <3>1, <3>3, Prints
    <3> QED
      BY <3>2, <3>3
  <2>2. ASSUME PrintOutcome, printed'.text = "applied text" PROVE did' = {"deleted"}
    <3>1. PICK verified \in IF did = {} THEN {FALSE} ELSE BOOLEAN :
            IF message.verb = "delete" THEN PrintDelete(verified, verified)
            ELSE Exit("output", verified)
      BY <2>2 DEF PrintOutcome
    <3>2. verified \in BOOLEAN
      BY <3>1
    <3>3. message.verb = "delete" \/ printed'.text = "output"
      BY <3>1, Prints
    <3>4. message.verb = "delete"
      BY <2>2, <3>3
    <3>5. verified
      BY <2>2, <3>1, <3>2, <3>4, DeleteIsPrinted
    <3>6. did # {}
      BY <3>1, <3>5
    <3>7. did \in Changes(message) /\ did' = did
      BY <2>2 DEF PrintOutcome, BridgeInv, DidAsAsked
    <3> QED
      BY <3>4, <3>6, <3>7, ChangesOfADelete
  <2>3. ASSUME WrapperRefuses \/ RecordChallenge PROVE printed'.text # "applied text"
    <3>1. Exit("unproven text", FALSE) \/ Exit("none", FALSE) \/ Exit("output", TRUE)
      BY <2>3 DEF WrapperRefuses, RecordChallenge
    <3>2. printed'.text \in {"unproven text", "none", "output"}
      BY <3>1, Prints
    <3> QED
      BY <3>2
  <2>4. ASSUME Mutate \/ Kill PROVE printed'.text # "applied text"
    <3>1. printed' = Nothing
      BY <1>2, <2>4 DEF Mutate, Kill
    <3> QED
      BY <3>1 DEF Nothing
  <2> QED
    BY <2>1, <2>2, <2>3, <2>4
<1>4. did' = did \/ (phase = "command" /\ did' \in Changes(message))
  BY DEF WrapperRefuses, AnswerUnchanged, RecordChallenge, Mutate, PrintOutcome, Kill
<1>5. UnallowedRequestsChangeNoRuntime'
  BY <1>1, <1>4, ChangesWithoutMutation
  DEF BridgeInv, GateHolds, BridgeRunning, UnallowedRequestsChangeNoRuntime
<1>6. DidAsAsked' /\ GateHolds'
  <2>1. ASSUME phase' = "mutated" PROVE Mutates(message) /\ did' \in Changes(message)
    <3>1. Mutate
      BY <2>1, DeleteIsPrinted
      DEF WrapperRefuses, AnswerUnchanged, RecordChallenge, PrintOutcome, Kill, Exit, Enter
    <3> QED
      BY <3>1 DEF Mutate
  <2> QED
    BY <1>1, <2>1 DEF BridgeInv, DidAsAsked, GateHolds, BridgeRunning, Mutates, Changes, Invocation
<1>7. Silence'
  BY <1>1, <1>2, DeleteIsPrinted
  DEF Silence, BridgeRunning, WrapperRefuses, AnswerUnchanged, RecordChallenge, Mutate,
      PrintOutcome, Kill, Exit, Enter
<1> QED
  BY <1>1, <1>2, <1>3, <1>5, <1>6, <1>7
  DEF BridgeInv, LeftIsLeft, PrintedMeansDeleted, AppliedMeansDeleted, EveryRequestIsAnswered, BridgeRunning

(* Requests arrive, the contract is edited, the input ends, the server exits. *)
LEMMA OutsideKeepsInv ==
  ASSUME BridgeInv, Receive \/ EditContract \/ EndInput \/ Leave
  PROVE  BridgeInv'
BY DEF BridgeInv, Silence, BridgeRunning, DidAsAsked, PrintedMeansDeleted, GateHolds, LeftIsLeft,
       AppliedMeansDeleted, UnallowedRequestsChangeNoRuntime, EveryRequestIsAnswered,
       Receive, EditContract, EndInput, Leave, QueueDrained, Enter, config, outside,
       Mutates, Changes, Invocation

LEMMA BridgeNextInv == BridgeInv /\ [BridgeNext]_bridgeVars => BridgeInv'
<1> SUFFICES ASSUME BridgeInv, [BridgeNext]_bridgeVars PROVE BridgeInv'
  OBVIOUS
<1>1. CASE BridgeStep
  BY <1>1, AnswersKeepInv, StartsKeepInv, ProcessKeepsInv DEF BridgeStep
<1>2. CASE Receive \/ EditContract \/ EndInput \/ Leave
  BY <1>2, OutsideKeepsInv
<1>3. CASE UNCHANGED bridgeVars
  BY <1>3
  DEF bridgeVars, config, BridgeInv, Silence, BridgeRunning, DidAsAsked, PrintedMeansDeleted, GateHolds,
      LeftIsLeft, AppliedMeansDeleted, UnallowedRequestsChangeNoRuntime,
      EveryRequestIsAnswered, Mutates, Changes, Invocation
<1> QED
  BY <1>1, <1>2, <1>3 DEF BridgeNext

(* The inductive invariant holds of every behavior of the bridges.            *)
LEMMA BridgeInductive == BridgeSpec => []BridgeInv
BY BridgeInitInv, BridgeNextInv, PTL DEF BridgeSpec

(* Whoever is told that an account was deleted can rely on it, whatever was   *)
(* killed, edited or printed on the way.                                      *)
THEOREM AppliedIsTrue == BridgeSpec => []AppliedMeansDeleted
<1>1. BridgeInv => AppliedMeansDeleted
  BY DEF BridgeInv
<1> QED
  BY <1>1, BridgeInductive, PTL

(* Without the allowance, no request to the MCP server changes the runtime.   *)
THEOREM GateIsKept == BridgeSpec => []UnallowedRequestsChangeNoRuntime
<1>1. BridgeInv => UnallowedRequestsChangeNoRuntime
  BY DEF BridgeInv
<1> QED
  BY <1>1, BridgeInductive, PTL

(* The MCP server exits with no request unanswered.                           *)
THEOREM NoneUnanswered == BridgeSpec => []EveryRequestIsAnswered
<1>1. BridgeInv => EveryRequestIsAnswered
  BY DEF BridgeInv
<1> QED
  BY <1>1, BridgeInductive, PTL
-------------------------------------------------------------------------------
(* The panel's page.                                                          *)

PanelTypes ==
  /\ hidden \in [Contexts -> SUBSET Accounts]
  /\ offered \subseteq Contexts /\ selected \in Contexts \cup {None}
  /\ load \in [Loads -> [at : {"idle", "scopes", "batch", "settled"},
                         listed : SUBSET Contexts, of : Contexts \cup {None},
                         answer : SUBSET SUBSET Accounts]]
  /\ click.at = "posted" => click.ref \in Accounts
  /\ epoch \in Nat
  /\ request \in [Details -> [of : Contexts \cup {None}, epoch : Nat]]

(* What is selected was selected since the last choice; so was what evidence  *)
(* is asked of, as long as nothing was chosen after it was asked for.         *)
SelectionIsRecent == selected # None => selected \in since
RequestsAreRecent ==
  \A d \in Details : request[d] # NoRequest =>
    /\ request[d].epoch <= epoch
    /\ request[d].epoch = epoch => request[d].of \in since

(* The batch of a load is of a context its catalog lists, if it lists any.    *)
BatchIsListed ==
  \A l \in Loads :
    /\ load[l].at = "idle" => load[l] = Resting
    /\ load[l].at \in {"batch", "settled"} =>
         \/ load[l].of \in load[l].listed
         \/ load[l].listed = {} /\ load[l].of = None

(* While no visibility change is under way and nothing overlapped, one load   *)
(* at most is in flight; it asks for what is selected, and what it was        *)
(* answered still holds.                                                      *)
Undisturbed == ~overlapped /\ click = NoClick
OneLoad ==
  Undisturbed => \A l, k \in Loads : load[l] # Resting /\ load[k] # Resting => l = k
LoadIsCurrent ==
  Undisturbed => \A l \in Loads :
    /\ load[l].at \in {"batch", "settled"} => load[l].of = selected
    /\ load[l].at = "settled" => \A refs \in load[l].answer : refs = hidden[selected]

PanelInv ==
  /\ PanelTypes /\ SelectionIsRecent /\ RequestsAreRecent /\ DetailsFollowTheSelection
  /\ BatchIsListed /\ OneLoad /\ LoadIsCurrent /\ QuietPanelIsCurrent

-------------------------------------------------------------------------------
LEMMA PanelInitInv == PanelInit => PanelInv
<1> SUFFICES ASSUME PanelInit PROVE PanelInv
  OBVIOUS
<1> USE DEF PanelInit, Resting, NoClick, NoRequest
<1>1. PanelTypes
  BY DEF PanelTypes, Unverified
<1>2. SelectionIsRecent /\ RequestsAreRecent /\ DetailsFollowTheSelection
  BY DEF SelectionIsRecent, RequestsAreRecent, DetailsFollowTheSelection
<1>3. BatchIsListed /\ OneLoad /\ LoadIsCurrent /\ QuietPanelIsCurrent
  BY DEF BatchIsListed, OneLoad, LoadIsCurrent, QuietPanelIsCurrent
<1> QED
  BY <1>1, <1>2, <1>3 DEF PanelInv

(* Rendering the selector selects what was selected, or the first of a list,  *)
(* and counts it as selected since the last choice.                           *)
LEMMA Rendering ==
  ASSUME PanelTypes, NEW listed \in SUBSET Contexts,
         NEW c \in Selections(listed), RenderSelector(listed, c)
  PROVE  /\ offered' \subseteq Contexts /\ selected' = c /\ c \in Contexts \cup {None}
         /\ c \in listed \/ (listed = {} /\ c = None)
         /\ selected \in listed => c = selected
         /\ since \subseteq since' /\ SelectionIsRecent'
BY DEF PanelTypes, Selections, RenderSelector, SelectionIsRecent

(* Starting a load moves nothing but that load.                               *)
LEMMA Starting ==
  ASSUME PanelTypes, NEW l \in Loads, Starts(l)
  PROVE  /\ load[l] = Resting /\ load'[l] # Resting /\ load'[l].at = "scopes"
         /\ load'[l] \in [at : {"idle", "scopes", "batch", "settled"},
                          listed : SUBSET Contexts, of : Contexts \cup {None},
                          answer : SUBSET SUBSET Accounts]
         /\ \A k \in Loads : k # l => load'[k] = load[k]
         /\ load' \in [Loads -> [at : {"idle", "scopes", "batch", "settled"},
                                 listed : SUBSET Contexts, of : Contexts \cup {None},
                                 answer : SUBSET SUBSET Accounts]]
BY DEF PanelTypes, Starts, Resting

(* A load that starts when all others rest is the only one.                   *)
LEMMA StartingAlone ==
  ASSUME PanelInv, NEW l \in Loads, Starts(l), Undisturbed' => LoadsRest
  PROVE  BatchIsListed' /\ OneLoad' /\ LoadIsCurrent' /\ QuietPanelIsCurrent'
<1>1. PanelTypes
  BY DEF PanelInv
<1>2. /\ load'[l].at = "scopes" /\ load'[l] # Resting
      /\ \A k \in Loads : k # l => load'[k] = load[k]
  BY <1>1, Starting
<1>3. BatchIsListed'
  BY <1>2 DEF PanelInv, BatchIsListed
<1>4. OneLoad' /\ LoadIsCurrent'
  BY <1>2 DEF OneLoad, LoadIsCurrent, LoadsRest, Resting
<1>5. QuietPanelIsCurrent'
  BY <1>2 DEF QuietPanelIsCurrent, Quiet, LoadsRest
<1> QED
  BY <1>3, <1>4, <1>5

LEMMA StartLoadInv ==
  ASSUME PanelInv, NEW l \in Loads, StartLoad(l)
  PROVE  PanelInv'
<1>1. PanelTypes'
  BY Starting DEF PanelInv, PanelTypes, StartLoad, listVars, evidenceVars
<1>2. SelectionIsRecent' /\ RequestsAreRecent' /\ DetailsFollowTheSelection'
  BY DEF PanelInv, SelectionIsRecent, RequestsAreRecent, DetailsFollowTheSelection, StartLoad,
     listVars, evidenceVars
<1>3. Undisturbed' => LoadsRest
  BY DEF StartLoad, Undisturbed, Quiet
<1> QED
  BY <1>1, <1>2, <1>3, StartingAlone DEF PanelInv, StartLoad

LEMMA ChooseContextInv ==
  ASSUME PanelInv, NEW l \in Loads, NEW c \in Contexts, ChooseContext(l, c)
  PROVE  PanelInv'
<1>1. PanelTypes'
  BY Starting DEF PanelInv, PanelTypes, ChooseContext
<1>2. SelectionIsRecent' /\ RequestsAreRecent' /\ DetailsFollowTheSelection'
  BY DEF PanelInv, PanelTypes, SelectionIsRecent, RequestsAreRecent, DetailsFollowTheSelection,
     ChooseContext
<1>3. Undisturbed' => LoadsRest
  BY DEF ChooseContext, Undisturbed, Quiet
<1> QED
  BY <1>1, <1>2, <1>3, StartingAlone DEF PanelInv, ChooseContext

LEMMA ConfirmVisibilityInv ==
  ASSUME PanelInv, NEW l \in Loads, ConfirmVisibility(l)
  PROVE  PanelInv'
<1>1. PanelTypes'
  BY Starting DEF PanelInv, PanelTypes, ConfirmVisibility, NoClick, listVars, evidenceVars
<1>2. SelectionIsRecent' /\ RequestsAreRecent' /\ DetailsFollowTheSelection'
  BY DEF PanelInv, SelectionIsRecent, RequestsAreRecent, DetailsFollowTheSelection,
     ConfirmVisibility, listVars, evidenceVars
<1>3. Undisturbed' => LoadsRest
  BY DEF ConfirmVisibility, Undisturbed
<1> QED
  BY <1>1, <1>2, <1>3, StartingAlone DEF PanelInv, ConfirmVisibility

LEMMA ReadScopesInv ==
  ASSUME PanelInv, NEW l \in Loads, NEW listed \in SUBSET Contexts, ReadScopes(l, listed)
  PROVE  PanelInv'
<1> USE DEF PanelInv, ReadScopes, evidenceVars
<1>1. PICK c \in Selections(listed) :
        RenderSelector(listed, c) /\ load' = [load EXCEPT ![l] = Batch(listed, c)]
  OBVIOUS
<1>2. /\ offered' \subseteq Contexts /\ selected' = c /\ c \in Contexts \cup {None}
      /\ c \in listed \/ (listed = {} /\ c = None)
      /\ since \subseteq since' /\ SelectionIsRecent'
  BY <1>1, Rendering
<1>3. /\ load'[l] = Batch(listed, c) /\ load[l].at = "scopes" /\ load[l] # Resting
      /\ \A k \in Loads : k # l => load'[k] = load[k]
  BY <1>1 DEF PanelTypes, Resting
<1>4. PanelTypes'
  BY <1>1, <1>2 DEF PanelTypes, Batch, Unverified
<1>5. RequestsAreRecent' /\ DetailsFollowTheSelection'
  BY <1>2 DEF RequestsAreRecent, DetailsFollowTheSelection
<1>6. BatchIsListed'
  BY <1>2, <1>3 DEF BatchIsListed, Batch
<1>7. OneLoad'
  BY <1>3 DEF OneLoad, Undisturbed
<1>8. LoadIsCurrent'
  <2>1. SUFFICES ASSUME Undisturbed', NEW k \in Loads, load'[k].at \in {"batch", "settled"}
                 PROVE  k = l
    BY <1>2, <1>3 DEF LoadIsCurrent, Batch
  <2>2. k # l => load[k] # Resting
    BY <1>3, <2>1 DEF Resting
  <2> QED
    BY <1>3, <2>1, <2>2 DEF OneLoad, Undisturbed
<1>9. QuietPanelIsCurrent'
  BY <1>3 DEF QuietPanelIsCurrent, Quiet, LoadsRest, Batch, Resting
<1> QED
  BY <1>2, <1>4, <1>5, <1>6, <1>7, <1>8, <1>9

LEMMA AnswerBatchInv ==
  ASSUME PanelInv, NEW l \in Loads, AnswerBatch(l)
  PROVE  PanelInv'
<1> USE DEF PanelInv, AnswerBatch, listVars, evidenceVars
<1>1. PICK said \in {Unverified} \cup
                (IF load[l].of = None THEN {} ELSE {Verified(hidden[load[l].of])}) :
        load' = [load EXCEPT ![l].at = "settled", ![l].answer = said]
  OBVIOUS
<1>2. /\ load'[l] = [load[l] EXCEPT !.at = "settled", !.answer = said]
      /\ load'[l].at = "settled" /\ load'[l].of = load[l].of /\ load'[l].listed = load[l].listed
      /\ load'[l].answer = said
      /\ \A k \in Loads : k # l => load'[k] = load[k]
  BY <1>1 DEF PanelTypes
<1>3. \A refs \in said : refs = hidden[load[l].of] /\ load[l].of # None
  BY <1>1 DEF Unverified, Verified
<1>4. PanelTypes'
  <2>1. said \in SUBSET SUBSET Accounts
    BY <1>1 DEF PanelTypes, Unverified, Verified
  <2>2. load[l] \in [at : {"idle", "scopes", "batch", "settled"}, listed : SUBSET Contexts,
                     of : Contexts \cup {None}, answer : SUBSET SUBSET Accounts]
    BY DEF PanelTypes
  <2>3. load'[l] \in [at : {"idle", "scopes", "batch", "settled"}, listed : SUBSET Contexts,
                      of : Contexts \cup {None}, answer : SUBSET SUBSET Accounts]
    BY <1>2, <2>1, <2>2
  <2>4. load' = [load EXCEPT ![l] = load'[l]]
    BY <1>1, <1>2 DEF PanelTypes
  <2> QED
    BY <2>3, <2>4 DEF PanelTypes
<1>5. SelectionIsRecent' /\ RequestsAreRecent' /\ DetailsFollowTheSelection'
  BY DEF SelectionIsRecent, RequestsAreRecent, DetailsFollowTheSelection
<1>6. load[l].at = "batch" /\ load[l] # Resting /\ load'[l] # Resting
  <2>1. Resting.at = "idle" /\ load[l].at = "batch"
    BY DEF Resting
  <2> QED
    BY <1>2, <2>1
<1>7. BatchIsListed'
  BY <1>2, <1>6 DEF BatchIsListed
<1>8. OneLoad'
  BY <1>2, <1>6 DEF OneLoad, Undisturbed
<1>9. LoadIsCurrent'
  BY <1>2, <1>3, <1>6 DEF LoadIsCurrent, Undisturbed
<1>10. QuietPanelIsCurrent'
  BY <1>6 DEF QuietPanelIsCurrent, Quiet, LoadsRest
<1> QED
  BY <1>4, <1>5, <1>7, <1>8, <1>9, <1>10

(* The list a load renders undisturbed is of the selected context, and shows  *)
(* what is hidden there.                                                      *)
LEMMA RenderWorkspaceInv ==
  ASSUME PanelInv, NEW l \in Loads, RenderWorkspace(l)
  PROVE  PanelInv'
<1> USE DEF PanelInv, RenderWorkspace, evidenceVars
<1>1. PICK c \in Selections(load[l].listed) :
        /\ RenderSelector(load[l].listed, c)
        /\ shown' \in {Unproven} \cup
             {[of |-> load[l].of, label |-> c, hides |-> refs] :
                refs \in IF c = None THEN {} ELSE load[l].answer}
  OBVIOUS
<1>2. /\ offered' \subseteq Contexts /\ selected' = c /\ c \in Contexts \cup {None}
      /\ c \in load[l].listed \/ (load[l].listed = {} /\ c = None)
      /\ selected \in load[l].listed => c = selected
      /\ since \subseteq since' /\ SelectionIsRecent'
  <2>1. load[l].listed \in SUBSET Contexts
    BY DEF PanelTypes
  <2> QED
    BY <1>1, <2>1, Rendering
<1>3. /\ load'[l] = Resting /\ load[l].at = "settled" /\ load[l] # Resting
      /\ \A k \in Loads : k # l => load'[k] = load[k]
  BY DEF PanelTypes, Resting
<1>4. PanelTypes'
  BY <1>2 DEF PanelTypes, Resting, Unverified
<1>5. RequestsAreRecent' /\ DetailsFollowTheSelection'
  BY <1>2 DEF RequestsAreRecent, DetailsFollowTheSelection
<1>6. BatchIsListed' /\ OneLoad'
  <2>1. Resting.at = "idle"
    BY DEF Resting
  <2>2. BatchIsListed'
    BY <1>3, <2>1 DEF BatchIsListed
  <2>3. OneLoad'
    BY <1>3 DEF OneLoad, Undisturbed
  <2> QED
    BY <2>2, <2>3
<1>7. LoadIsCurrent'
  <2>1. SUFFICES ASSUME Undisturbed', NEW k \in Loads, load'[k] # Resting PROVE FALSE
    BY DEF LoadIsCurrent, Resting
  <2> QED
    BY <1>3, <2>1 DEF OneLoad, Undisturbed
<1>8. QuietPanelIsCurrent'
  <2>1. SUFFICES ASSUME Undisturbed, shown' # Unproven
                 PROVE  /\ shown'.of = selected' /\ shown'.label = selected'
                        /\ shown'.hides = hidden[selected']
    BY DEF QuietPanelIsCurrent, Quiet, Undisturbed
  <2>2. load[l].of = selected /\ \A refs \in load[l].answer : refs = hidden[selected]
    BY <1>3, <2>1 DEF LoadIsCurrent
  <2>3. c = selected
    BY <1>2, <1>3, <2>2, ControlPanelAssumption DEF BatchIsListed
  <2> QED
    BY <1>1, <1>2, <2>1, <2>2, <2>3
<1> QED
  BY <1>2, <1>4, <1>5, <1>6, <1>7, <1>8

(* A change of the preferences is under way until a load is started for it,   *)
(* or the page counts as disturbed.                                           *)
LEMMA ClicksInv ==
  ASSUME PanelInv,
         (\E ref \in Accounts : ClickVisibility(ref)) \/ AnswerClick \/ VisibilityUnverified
  PROVE  PanelInv'
<1> USE DEF PanelInv, listVars, evidenceVars, NoClick
<1>1. CASE \E ref \in Accounts : ClickVisibility(ref)
  BY <1>1 DEF ClickVisibility, PanelTypes, SelectionIsRecent, RequestsAreRecent,
     DetailsFollowTheSelection, BatchIsListed, OneLoad, LoadIsCurrent, Undisturbed,
     QuietPanelIsCurrent, Quiet
<1>2. CASE AnswerClick
  <2>1. hidden' \in [Contexts -> SUBSET Accounts]
    BY <1>2 DEF AnswerClick, PanelTypes
  <2>2. click'.at \in {"taken", "lost"}
    BY <1>2 DEF AnswerClick
  <2> QED
    BY <1>2, <2>1, <2>2 DEF AnswerClick, PanelTypes, SelectionIsRecent, RequestsAreRecent,
       DetailsFollowTheSelection, BatchIsListed, OneLoad, LoadIsCurrent, Undisturbed,
       QuietPanelIsCurrent, Quiet
<1>3. CASE VisibilityUnverified
  BY <1>3 DEF VisibilityUnverified, PanelTypes, SelectionIsRecent, RequestsAreRecent,
     DetailsFollowTheSelection, BatchIsListed, OneLoad, LoadIsCurrent, Undisturbed,
     QuietPanelIsCurrent, Quiet
<1> QED
  BY <1>1, <1>2, <1>3

(* Evidence is dropped unless nothing was chosen since it was asked for.      *)
LEMMA EvidenceInv ==
  ASSUME PanelInv, NEW d \in Details, AskDetail(d) \/ RenderDetail(d)
  PROVE  PanelInv'
<1> USE DEF PanelInv, preferenceVars, listVars
<1>1. BatchIsListed' /\ OneLoad' /\ LoadIsCurrent' /\ QuietPanelIsCurrent' /\ SelectionIsRecent'
  BY DEF AskDetail, RenderDetail, BatchIsListed, OneLoad, LoadIsCurrent, Undisturbed,
     QuietPanelIsCurrent, Quiet, LoadsRest, SelectionIsRecent
<1>2. CASE AskDetail(d)
  BY <1>1, <1>2 DEF AskDetail, PanelTypes, RequestsAreRecent, DetailsFollowTheSelection,
     SelectionIsRecent
<1>3. CASE RenderDetail(d)
  BY <1>1, <1>3 DEF RenderDetail, SameEpoch, PanelTypes, RequestsAreRecent,
     DetailsFollowTheSelection, NoRequest
<1> QED
  BY <1>2, <1>3

LEMMA PanelNextInv == PanelInv /\ [PanelNext]_panelVars => PanelInv'
<1> SUFFICES ASSUME PanelInv, [PanelNext]_panelVars PROVE PanelInv'
  OBVIOUS
<1>1. CASE UNCHANGED panelVars
  BY <1>1 DEF panelVars, preferenceVars, listVars, evidenceVars, PanelInv, PanelTypes,
     SelectionIsRecent, RequestsAreRecent, DetailsFollowTheSelection, BatchIsListed, OneLoad,
     LoadIsCurrent, Undisturbed, QuietPanelIsCurrent, Quiet, LoadsRest
<1>2. CASE PanelNext
  BY <1>2, StartLoadInv, ChooseContextInv, ConfirmVisibilityInv, ReadScopesInv, AnswerBatchInv,
     RenderWorkspaceInv, ClicksInv, EvidenceInv DEF PanelNext
<1> QED
  BY <1>1, <1>2

THEOREM PanelInductive == PanelSpec => []PanelInv
BY PanelInitInv, PanelNextInv, PTL DEF PanelSpec

(* Evidence on the page is of a context selected since the operator last       *)
(* chose one, however many requests and loads come back in whatever order      *)
(* (server.ts detailEpoch).                                                   *)
THEOREM DetailsFollow == PanelSpec => []DetailsFollowTheSelection
<1>1. PanelInv => DetailsFollowTheSelection
  BY DEF PanelInv
<1> QED
  BY <1>1, PanelInductive, PTL

(* A page at rest whose requests did not overlap shows what the preferences   *)
(* hide in the context it names, which is the one selected (server.ts         *)
(* loadWorkspace and renderWorkspace).                                        *)
THEOREM PageIsCurrent == PanelSpec => []QuietPanelIsCurrent
<1>1. PanelInv => QuietPanelIsCurrent
  BY DEF PanelInv
<1> QED
  BY <1>1, PanelInductive, PTL

-------------------------------------------------------------------------------
(* The paging of histories.  What is shown, and every answer on its way, is a *)
(* stretch of the records one query matches; an answer to "load older" that   *)
(* nothing has overtaken begins where the rows shown end.                     *)

(* No record that matches is missing between two of the rows, the next page   *)
(* begins after the last of them, and a last page leaves out only what the    *)
(* server no longer looks at.                                                 *)
Stretch(lg, S, next, q) ==
  /\ \A i \in S : i \in DOMAIN lg /\ q \in lg[i]
  /\ \A i \in DOMAIN lg :
       q \in lg[i] /\ (\E first, last \in S : first >= i /\ i >= last) => i \in S
  /\ next # 0 => next \in S /\ \A i \in S : i >= next
  /\ next = 0 /\ S # {} => \A i \in DOMAIN lg :
       q \in lg[i] /\ (\A row \in S : i < row) => ~(i + Window > Len(lg))

(* Nothing that matches is missing between a cursor and the rows after it.    *)
Continues(lg, S, next, q, c) ==
  /\ c # 0 /\ \A i \in S : i < c
  /\ \A i \in DOMAIN lg :
       q \in lg[i] /\ i < c /\ (\E last \in S : i >= last) => i \in S
  /\ S = {} => /\ next = 0
               /\ \A i \in DOMAIN lg :
                    q \in lg[i] /\ i < c => ~(i + Window > Len(lg))

PageRequests ==
  {Idle}
  \cup [at : {"asked"}, query : Queries, cursor : Nat]
  \cup [at : {"answered"}, rows : SUBSET Nat, next : Nat, query : Queries]
  \cup [at : {"failed"}, query : Queries]

PagingTypes ==
  /\ log \in Seq(Kinds) /\ form \in Queries /\ listedAs \in Queries
  /\ rows \in Seq(SUBSET Nat) /\ cursor \in {0} \cup DOMAIN log
  /\ pages \in [Replacers \cup {Older} -> PageRequests]
  /\ replaced \in BOOLEAN /\ followed \in BOOLEAN

Descending(list) ==
  \A j, k \in DOMAIN list : j < k => \A newer \in list[j], older \in list[k] : newer > older

ListIsStretch == followed => Descending(rows) /\ Stretch(log, Shown, cursor, listedAs)

AnswersAreStretches ==
  \A r \in Replacers \cup {Older} : pages[r].at = "answered" =>
    Stretch(log, pages[r].rows, pages[r].next, pages[r].query)

FirstPagesAreFirst == \A r \in Replacers : pages[r].at = "asked" => pages[r].cursor = 0

OlderFollows ==
  ~replaced =>
    /\ pages[Older].at = "asked" => pages[Older].cursor = cursor /\ cursor # 0
    /\ pages[Older].at = "answered" =>
         Continues(log, pages[Older].rows, pages[Older].next, pages[Older].query, cursor)

PagingInv ==
  /\ PagingTypes /\ ListIsStretch /\ AnswersAreStretches /\ FirstPagesAreFirst
  /\ OlderFollows

(* Whatever is recorded afterwards is newer.                                  *)
LEMMA StretchesStay ==
  ASSUME NEW lg \in Seq(Kinds), NEW kind \in Kinds, NEW S, NEW next, NEW q
  PROVE  /\ Stretch(lg, S, next, q) => Stretch(Append(lg, kind), S, next, q)
         /\ \A c \in DOMAIN lg :
              Continues(lg, S, next, q, c) => Continues(Append(lg, kind), S, next, q, c)
<1> DEFINE bigger == Append(lg, kind)
<1>1. /\ Len(lg) \in Nat /\ DOMAIN lg = 1 .. Len(lg)
      /\ Len(bigger) = Len(lg) + 1 /\ DOMAIN bigger = 1 .. Len(lg) + 1
      /\ \A i \in DOMAIN lg : bigger[i] = lg[i]
  BY AppendProperties
<1>2. Window \in Nat
  BY HistoryPagingAssumption DEF HistoryPagingAssumption
<1> HIDE DEF bigger
<1>3. ASSUME Stretch(lg, S, next, q) PROVE Stretch(bigger, S, next, q)
  <2>1. \A i \in S : i \in DOMAIN bigger /\ i \in DOMAIN lg /\ q \in bigger[i]
    BY <1>1, <1>3 DEF Stretch
  <2>2. \A i \in DOMAIN bigger :
          q \in bigger[i] /\ (\E first, last \in S : first >= i /\ i >= last) => i \in S
    BY <1>1, <1>3, <2>1 DEF Stretch
  <2>3. next = 0 /\ S # {} => \A i \in DOMAIN bigger :
          q \in bigger[i] /\ (\A row \in S : i < row) => ~(i + Window > Len(bigger))
    BY <1>1, <1>2, <1>3, <2>1 DEF Stretch
  <2> QED
    BY <1>3, <2>1, <2>2, <2>3 DEF Stretch
<1>4. ASSUME NEW c \in DOMAIN lg, Continues(lg, S, next, q, c)
      PROVE  Continues(bigger, S, next, q, c)
  BY <1>1, <1>2, <1>4 DEF Continues
<1> QED
  BY <1>3, <1>4 DEF bigger

(* Rows and what continues them are one stretch.                              *)
LEMMA StretchesJoin ==
  ASSUME NEW lg \in Seq(Kinds), NEW S, NEW T, NEW next \in Nat, NEW q, NEW c,
         Stretch(lg, S, c, q), Stretch(lg, T, next, q), Continues(lg, T, next, q, c)
  PROVE  Stretch(lg, S \cup T, next, q)
<1> DEFINE U == S \cup T
<1>1. /\ S \subseteq DOMAIN lg /\ T \subseteq DOMAIN lg
      /\ DOMAIN lg = 1 .. Len(lg) /\ Len(lg) \in Nat
      /\ Window \in Nat
  BY HistoryPagingAssumption DEF HistoryPagingAssumption, Stretch
<1>2. /\ c \in S /\ \A i \in S : i >= c
      /\ \A i \in T : i < c
  BY DEF Stretch, Continues
<1>3. \A i \in U : i \in DOMAIN lg /\ q \in lg[i]
  BY DEF Stretch
<1>4. ASSUME NEW i \in DOMAIN lg, q \in lg[i],
             NEW first \in U, NEW last \in U, first >= i, i >= last
      PROVE  i \in U
  <2>1. CASE i >= c
    <3>1. first \in S
      BY <1>1, <1>2, <1>4, <2>1
    <3> QED
      BY <1>2, <1>4, <2>1, <3>1 DEF Stretch
  <2>2. CASE i < c
    <3>1. last \in T
      BY <1>1, <1>2, <1>4, <2>2
    <3> QED
      BY <1>4, <2>2, <3>1 DEF Continues
  <2> QED
    BY <1>1, <1>2, <2>1, <2>2
<1>5. ASSUME next # 0 PROVE next \in U /\ \A i \in U : i >= next
  <2>1. next \in T /\ \A i \in T : i >= next
    BY <1>5 DEF Stretch
  <2> QED
    BY <1>1, <1>2, <2>1
<1>6. ASSUME next = 0, NEW i \in DOMAIN lg, q \in lg[i], \A row \in U : i < row
      PROVE  ~(i + Window > Len(lg))
  <2>1. CASE T = {}
    <3>1. i < c
      BY <1>2, <1>6
    <3> QED
      BY <1>6, <2>1, <3>1 DEF Continues
  <2>2. CASE T # {}
    <3>1. \A row \in T : i < row
      BY <1>6
    <3> QED
      BY <1>6, <2>2, <3>1 DEF Stretch
  <2> QED
    BY <2>1, <2>2
<1> QED
  BY <1>3, <1>4, <1>5, <1>6 DEF Stretch

(* What the server answers is a stretch, and continues what it was asked for. *)
LEMMA PageIsStretch ==
  ASSUME log \in Seq(Kinds), NEW q, NEW c \in Nat, NEW page \in Page(q, c)
  PROVE  /\ page = PageOf(q, page.rows, page.next)
         /\ page.rows \subseteq DOMAIN log /\ page.next \in {0} \cup DOMAIN log
         /\ Stretch(log, page.rows, page.next, q)
         /\ c # 0 => Continues(log, page.rows, page.next, q, c)
<1>1. PICK S \in Following(q, c) :
        \/ page = PageOf(q, S, 0)
        \/ \E n \in PageEnds(S) : page = PageOf(q, S \ Before(S, n), n)
  BY DEF Page
<1>2. /\ DOMAIN log = 1 .. Len(log) /\ Len(log) \in Nat /\ Window \in Nat
  BY HistoryPagingAssumption DEF HistoryPagingAssumption
<1>3. S = {i \in DOMAIN log : InWindow(i) /\ q \in log[i] /\ (c # 0 => i < c)}
  BY <1>1 DEF Following, Matching, Before
<1>4. CASE page = PageOf(q, S, 0)
  <2>1. page.rows = S /\ page.next = 0
    BY <1>4 DEF PageOf
  <2>2. Stretch(log, S, 0, q)
    BY <1>2, <1>3 DEF Stretch, InWindow
  <2>3. c # 0 => Continues(log, S, 0, q, c)
    BY <1>2, <1>3 DEF Continues, InWindow
  <2> QED
    BY <1>3, <1>4, <2>1, <2>2, <2>3
<1>5. ASSUME NEW n \in PageEnds(S), page = PageOf(q, S \ Before(S, n), n)
      PROVE  /\ page = PageOf(q, page.rows, page.next)
             /\ page.rows \subseteq DOMAIN log /\ page.next \in {0} \cup DOMAIN log
             /\ Stretch(log, page.rows, page.next, q)
             /\ c # 0 => Continues(log, page.rows, page.next, q, c)
  <2> DEFINE R == {i \in S : ~(i < n)}
  <2>1. page.rows = R /\ page.next = n /\ n \in S
    BY <1>5 DEF PageOf, PageEnds, Before
  <2>2. n \in R /\ n # 0 /\ \A i \in R : i \in S /\ i >= n
    BY <1>2, <1>3, <2>1
  <2>3. Stretch(log, R, n, q)
    BY <1>2, <1>3, <2>1, <2>2 DEF Stretch, InWindow
  <2>4. c # 0 => Continues(log, R, n, q, c)
    BY <1>2, <1>3, <2>1, <2>2 DEF Continues, InWindow
  <2>5. page.rows = S \ Before(S, n) /\ page.next = n
    BY <1>5 DEF PageOf
  <2>6. page = PageOf(q, page.rows, page.next)
    BY <1>5, <2>5
  <2>7. R \subseteq DOMAIN log /\ n \in DOMAIN log
    BY <1>3, <2>1
  <2> QED
    BY <2>1, <2>3, <2>4, <2>6, <2>7
<1> QED
  BY <1>1, <1>4, <1>5

LEMMA PagingInitInv == PagingInit => PagingInv
<1> SUFFICES ASSUME PagingInit PROVE PagingInv
  OBVIOUS
<1>1. PagingTypes
  <2>1. pages \in [Replacers \cup {Older} -> PageRequests]
    BY DEF PagingInit, PageRequests
  <2>2. log \in Seq(Kinds) /\ rows \in Seq(SUBSET Nat)
    BY DEF PagingInit
  <2> QED
    BY <2>1, <2>2 DEF PagingInit, PagingTypes
<1>2. Shown = {}
  BY DEF PagingInit, Shown
<1>3. \A r \in Replacers \cup {Older} : pages[r].at = "idle"
  BY DEF PagingInit, Idle
<1> QED
  BY <1>1, <1>2, <1>3 DEF PagingInit, PagingInv, ListIsStretch, Descending, Stretch,
     AnswersAreStretches, FirstPagesAreFirst, OlderFollows

LEMMA RecordInv ==
  ASSUME PagingInv, NEW kind \in Kinds, Record(kind)
  PROVE  PagingInv'
<1>1. log' = Append(log, kind) /\ log \in Seq(Kinds)
      /\ UNCHANGED <<form, rows, cursor, listedAs, pages, replaced, followed>>
  BY DEF Record, PagingInv, PagingTypes
<1>2. log' \in Seq(Kinds) /\ DOMAIN log \subseteq DOMAIN log'
  BY <1>1, AppendProperties
<1>3. PagingTypes'
  BY <1>1, <1>2 DEF PagingInv, PagingTypes
<1>4. Shown' = Shown
  BY <1>1 DEF Shown
<1>5. ListIsStretch'
  BY <1>1, <1>4, StretchesStay DEF PagingInv, ListIsStretch
<1>6. AnswersAreStretches'
  BY <1>1, StretchesStay DEF PagingInv, AnswersAreStretches
<1>7. OlderFollows'
  <2>1. cursor \in {0} \cup DOMAIN log
    BY DEF PagingInv, PagingTypes
  <2>2. \A S, next, q : Continues(log, S, next, q, cursor) =>
                         Continues(log', S, next, q, cursor)
    <3> SUFFICES ASSUME NEW S, NEW next, NEW q, Continues(log, S, next, q, cursor)
                 PROVE  Continues(log', S, next, q, cursor)
      OBVIOUS
    <3>1. cursor \in DOMAIN log
      BY <2>1 DEF Continues
    <3>2. Continues(Append(log, kind), S, next, q, cursor)
      BY <1>1, <3>1, StretchesStay
    <3> QED
      BY <1>1, <3>2
  <2> QED
    BY <1>1, <2>2 DEF PagingInv, OlderFollows
<1> QED
  BY <1>1, <1>3, <1>5, <1>6, <1>7 DEF PagingInv, FirstPagesAreFirst

LEMMA ChooseInv ==
  ASSUME PagingInv, NEW q \in Queries, Choose(q)
  PROVE  PagingInv'
<1>1. UNCHANGED <<log, rows, cursor, listedAs, pages, replaced, followed>> /\ form' = q
  BY DEF Choose
<1>2. Shown' = Shown
  BY <1>1 DEF Shown
<1> QED
  BY <1>1, <1>2 DEF PagingInv, PagingTypes, ListIsStretch, AnswersAreStretches,
     FirstPagesAreFirst, OlderFollows

(* What one request becomes, while the list stays as it is.                   *)
LEMMA OnePageInv ==
  ASSUME PagingInv, UNCHANGED <<log, form, rows, cursor, listedAs, followed>>,
         replaced' \in BOOLEAN,
         NEW r \in Replacers \cup {Older}, NEW page \in PageRequests,
         pages' = [pages EXCEPT ![r] = page],
         page.at = "answered" => Stretch(log, page.rows, page.next, page.query),
         page.at = "asked" /\ r # Older => page.cursor = 0,
         ~replaced' => \/ ~replaced /\ r # Older
                       \/ /\ r = Older
                          /\ page.at = "asked" => page.cursor = cursor /\ cursor # 0
                          /\ page.at = "answered" =>
                               Continues(log, page.rows, page.next, page.query, cursor)
  PROVE  PagingInv'
<1>1. /\ pages'[r] = page
      /\ \A x \in Replacers \cup {Older} : x # r => pages'[x] = pages[x]
      /\ Older \in Replacers \cup {Older}
  BY DEF PagingInv, PagingTypes
<1>2. PagingTypes'
  BY DEF PagingInv, PagingTypes
<1>3. Shown' = Shown
  BY DEF Shown
<1>4. ListIsStretch'
  BY <1>3 DEF PagingInv, ListIsStretch
<1>5. AnswersAreStretches'
  BY <1>1 DEF PagingInv, AnswersAreStretches
<1>6. FirstPagesAreFirst'
  <2>1. Older \notin Replacers
    BY HistoryPagingAssumption DEF HistoryPagingAssumption
  <2> QED
    BY <1>1, <2>1 DEF PagingInv, FirstPagesAreFirst
<1>7. OlderFollows'
  BY <1>1 DEF PagingInv, OlderFollows
<1> QED
  BY <1>2, <1>4, <1>5, <1>6, <1>7 DEF PagingInv

LEMMA AskFirstInv ==
  ASSUME PagingInv, NEW r \in Replacers \cup {Older}, AskFirst(r)
  PROVE  PagingInv'
<1> DEFINE page == [at |-> "asked", query |-> form, cursor |-> 0]
<1>1. page \in PageRequests /\ page.at = "asked" /\ page.cursor = 0
  BY DEF PageRequests, PagingInv, PagingTypes
<1>2. r # Older /\ pages' = [pages EXCEPT ![r] = page]
      /\ UNCHANGED <<log, form, rows, cursor, listedAs, replaced, followed>>
  BY DEF AskFirst
<1> HIDE DEF page
<1> QED
  BY <1>1, <1>2, OnePageInv DEF PagingInv, PagingTypes

LEMMA AskOlderInv ==
  ASSUME PagingInv, AskOlder
  PROVE  PagingInv'
<1> DEFINE page == [at |-> "asked", query |-> form, cursor |-> cursor]
<1>1. page \in PageRequests /\ page.at = "asked" /\ page.cursor = cursor
  BY DEF PageRequests, PagingInv, PagingTypes
<1>2. cursor # 0 /\ pages' = [pages EXCEPT ![Older] = page] /\ replaced' = FALSE
      /\ UNCHANGED <<log, form, rows, cursor, listedAs, followed>>
  BY DEF AskOlder
<1> HIDE DEF page
<1> QED
  BY <1>1, <1>2, OnePageInv

LEMMA ServeInv ==
  ASSUME PagingInv, NEW r \in Replacers \cup {Older}, Serve(r)
  PROVE  PagingInv'
<1> DEFINE q == pages[r].query
           c == pages[r].cursor
<1>1. pages[r] \in [at : {"asked"}, query : Queries, cursor : Nat]
  BY DEF Serve, PagingInv, PagingTypes, PageRequests, Idle
<1>2. PICK page \in Page(q, c) : pages' = [pages EXCEPT ![r] = page]
  BY DEF Serve
<1>3. /\ page = PageOf(q, page.rows, page.next)
      /\ page.rows \subseteq DOMAIN log /\ page.next \in {0} \cup DOMAIN log
      /\ Stretch(log, page.rows, page.next, q)
      /\ c # 0 => Continues(log, page.rows, page.next, q, c)
  BY <1>1, PageIsStretch DEF PagingInv, PagingTypes
<1>4. page.at = "answered" /\ page.query = q
  BY <1>3 DEF PageOf
<1>5. page \in PageRequests
  <2>1. DOMAIN log \subseteq Nat
    BY DEF PagingInv, PagingTypes
  <2>2. page.rows \in SUBSET Nat /\ page.next \in Nat /\ q \in Queries
    BY <1>1, <1>3, <2>1
  <2>3. PageOf(q, page.rows, page.next) \in PageRequests
    BY <2>2 DEF PageOf, PageRequests
  <2> QED
    BY <1>3, <2>3
<1>6. ~replaced /\ r = Older => c = cursor /\ cursor # 0
  BY <1>1 DEF PagingInv, OlderFollows
<1>7. UNCHANGED <<log, form, rows, cursor, listedAs, replaced, followed>>
  BY DEF Serve
<1> QED
  BY <1>2, <1>3, <1>4, <1>5, <1>6, <1>7, OnePageInv DEF PagingInv, PagingTypes

LEMMA RefusePageInv ==
  ASSUME PagingInv, NEW r \in Replacers \cup {Older}, RefusePage(r)
  PROVE  PagingInv'
<1> DEFINE page == [at |-> "failed", query |-> pages[r].query]
<1>1. page \in PageRequests /\ page.at = "failed"
  <2>1. pages[r] \in [at : {"asked"}, query : Queries, cursor : Nat]
    BY DEF RefusePage, PagingInv, PagingTypes, PageRequests, Idle
  <2> QED
    BY <2>1 DEF PageRequests
<1>2. pages' = [pages EXCEPT ![r] = page]
      /\ UNCHANGED <<log, form, rows, cursor, listedAs, replaced, followed>>
  BY DEF RefusePage
<1> HIDE DEF page
<1> QED
  BY <1>1, <1>2, OnePageInv DEF PagingInv, PagingTypes

LEMMA KeepRowsInv ==
  ASSUME PagingInv, KeepRows
  PROVE  PagingInv'
<1>1. Idle \in PageRequests /\ Idle.at = "idle"
  BY DEF PageRequests, Idle
<1> QED
  BY <1>1, OnePageInv DEF KeepRows, PagingInv, PagingTypes

LEMMA ReplaceInv ==
  ASSUME PagingInv, NEW r \in Replacers \cup {Older}, Replace(r)
  PROVE  PagingInv'
<1> DEFINE p == pages[r]
<1>1. /\ r # Older /\ p.at \in {"answered", "failed"}
      /\ rows' = IF p.at = "answered" THEN <<p.rows>> ELSE <<>>
      /\ cursor' = IF p.at = "answered" THEN p.next ELSE 0
      /\ listedAs' = p.query /\ replaced' = TRUE /\ followed' = TRUE
      /\ pages' = [pages EXCEPT ![r] = Idle] /\ UNCHANGED <<log, form>>
  BY DEF Replace
<1>2. /\ p.at = "answered" => p \in [at : {"answered"}, rows : SUBSET Nat, next : Nat,
                                      query : Queries]
      /\ p.at = "failed" => p \in [at : {"failed"}, query : Queries]
  BY <1>1 DEF PagingInv, PagingTypes, PageRequests, Idle
<1>3. p.at = "answered" => Stretch(log, p.rows, p.next, p.query)
  BY DEF PagingInv, AnswersAreStretches
<1>4. Shown' = IF p.at = "answered" THEN p.rows ELSE {}
  BY <1>1 DEF Shown
<1>5. rows' \in Seq(SUBSET Nat) /\ Descending(rows')
  <2>1. CASE p.at = "answered"
    <3>1. p.rows \in SUBSET Nat /\ rows' = <<p.rows>>
      BY <1>1, <1>2, <2>1
    <3>2. <<p.rows>> \in Seq(SUBSET Nat)
      BY <3>1
    <3>3. \A j, k \in DOMAIN rows' : ~(j < k)
      BY <3>1
    <3> QED
      BY <3>1, <3>2, <3>3 DEF Descending
  <2>2. CASE p.at # "answered"
    BY <1>1, <2>2 DEF Descending
  <2> QED
    BY <2>1, <2>2
<1>6. cursor' \in {0} \cup DOMAIN log
  BY <1>1, <1>3 DEF Stretch
<1>7. Stretch(log, Shown', cursor', listedAs')
  BY <1>1, <1>3, <1>4 DEF Stretch
<1>8. Idle \in PageRequests /\ Idle.at = "idle"
  BY DEF PageRequests, Idle
<1>9. /\ pages' \in [Replacers \cup {Older} -> PageRequests]
      /\ \A x \in Replacers \cup {Older} : x # r => pages'[x] = pages[x]
      /\ pages'[r] = Idle
  BY <1>1, <1>8 DEF PagingInv, PagingTypes
<1>10. PagingTypes'
  BY <1>1, <1>2, <1>5, <1>6, <1>9 DEF PagingInv, PagingTypes
<1>11. AnswersAreStretches' /\ FirstPagesAreFirst'
  BY <1>1, <1>8, <1>9 DEF PagingInv, AnswersAreStretches, FirstPagesAreFirst
<1> QED
  BY <1>1, <1>5, <1>7, <1>10, <1>11 DEF PagingInv, ListIsStretch, OlderFollows

LEMMA ShowOlderInv ==
  ASSUME PagingInv, ShowOlder
  PROVE  PagingInv'
<1> DEFINE p == pages[Older]
<1>1. /\ p.at = "answered" /\ rows' = Append(rows, p.rows) /\ cursor' = p.next
      /\ followed' = (followed /\ ~replaced /\ p.query = listedAs)
      /\ pages' = [pages EXCEPT ![Older] = Idle]
      /\ UNCHANGED <<log, form, listedAs, replaced>>
  BY DEF ShowOlder
<1>2. /\ p.rows \in SUBSET Nat /\ p.next \in Nat
      /\ rows \in Seq(SUBSET Nat) /\ log \in Seq(Kinds)
  BY <1>1 DEF PagingInv, PagingTypes, PageRequests, Idle
<1>3. Stretch(log, p.rows, p.next, p.query)
  BY <1>1 DEF PagingInv, AnswersAreStretches
<1>4. /\ rows' \in Seq(SUBSET Nat) /\ Len(rows) \in Nat /\ DOMAIN rows = 1 .. Len(rows)
      /\ DOMAIN rows' = DOMAIN rows \cup {Len(rows) + 1}
      /\ \A k \in DOMAIN rows : rows'[k] = rows[k]
      /\ rows'[Len(rows) + 1] = p.rows
  BY <1>1, <1>2, AppendProperties
<1>5. Shown' = Shown \cup p.rows
  BY <1>4 DEF Shown
<1>6. Idle \in PageRequests /\ Idle.at = "idle"
  BY DEF PageRequests, Idle
<1>7. /\ pages' \in [Replacers \cup {Older} -> PageRequests]
      /\ \A x \in Replacers \cup {Older} : x # Older => pages'[x] = pages[x]
      /\ pages'[Older] = Idle
  BY <1>1, <1>6 DEF PagingInv, PagingTypes
<1>8. PagingTypes'
  BY <1>1, <1>3, <1>4, <1>7 DEF PagingInv, PagingTypes, Stretch
<1>9. AnswersAreStretches' /\ FirstPagesAreFirst' /\ OlderFollows'
  <2>1. Older \notin Replacers
    BY HistoryPagingAssumption DEF HistoryPagingAssumption
  <2> QED
    BY <1>1, <1>6, <1>7, <2>1 DEF PagingInv, AnswersAreStretches, FirstPagesAreFirst,
       OlderFollows
<1>10. ListIsStretch'
  <2> SUFFICES ASSUME followed' PROVE Descending(rows') /\ Stretch(log', Shown', cursor', listedAs')
    BY DEF ListIsStretch
  <2>1. /\ Descending(rows) /\ Stretch(log, Shown, cursor, listedAs)
        /\ Continues(log, p.rows, p.next, listedAs, cursor) /\ p.query = listedAs
    BY <1>1 DEF PagingInv, ListIsStretch, OlderFollows
  <2>2. cursor \in Shown /\ \A i \in Shown : i >= cursor
    BY <2>1 DEF Stretch, Continues
  <2>3. \A older \in p.rows, newer \in Shown : newer > older
    <3>1. Shown \subseteq DOMAIN log /\ DOMAIN log \subseteq Nat
      BY <1>2, <2>1 DEF Stretch
    <3> QED
      BY <1>2, <2>1, <2>2, <3>1 DEF Continues
  <2>4. Descending(rows')
    <3>1. \A j \in DOMAIN rows : rows[j] \subseteq Shown
      BY DEF Shown
    <3>2. ASSUME NEW j \in DOMAIN rows', NEW k \in DOMAIN rows', j < k,
                 NEW newer \in rows'[j], NEW older \in rows'[k]
          PROVE  newer > older
      <4>1. j \in DOMAIN rows /\ newer \in rows[j]
        BY <1>4, <3>2
      <4>2. CASE k \in DOMAIN rows
        BY <1>4, <2>1, <3>2, <4>1, <4>2 DEF Descending
      <4>3. CASE k = Len(rows) + 1
        BY <1>4, <2>3, <3>1, <3>2, <4>1, <4>3
      <4> QED
        BY <1>4, <4>2, <4>3
    <3> QED
      BY <3>2 DEF Descending
  <2>5. Stretch(log, Shown \cup p.rows, p.next, listedAs)
    BY <1>2, <1>3, <2>1, <2>2, <2>3, StretchesJoin
  <2> QED
    BY <1>1, <1>5, <2>4, <2>5
<1> QED
  BY <1>8, <1>9, <1>10 DEF PagingInv

LEMMA PagingNextInv ==
  ASSUME PagingInv, [PagingNext]_pagingVars
  PROVE  PagingInv'
<1>1. CASE UNCHANGED pagingVars
  <2>1. UNCHANGED <<log, form, rows, cursor, listedAs, pages, replaced, followed>>
    BY <1>1 DEF pagingVars
  <2>2. Shown' = Shown
    BY <2>1 DEF Shown
  <2> QED
    BY <2>1, <2>2 DEF PagingInv, PagingTypes, ListIsStretch, AnswersAreStretches,
       FirstPagesAreFirst, OlderFollows
<1> QED
  BY <1>1, RecordInv, ChooseInv, AskFirstInv, ServeInv, RefusePageInv, ReplaceInv, AskOlderInv,
     ShowOlderInv, KeepRowsInv DEF PagingNext

LEMMA PagingInductive == PagingSpec => []PagingInv
BY PagingInitInv, PagingNextInv, PTL DEF PagingSpec

(* However the log grows between pages, a list whose pages follow each other  *)
(* shows every matching record from its first row to its last, once and       *)
(* newest first, goes on after its last row, and ends only with what the      *)
(* server no longer looks at (server.ts auditHistory,                         *)
(* mutationOperationHistory, authChallengeInventory).                         *)
THEOREM PagesFollow == PagingSpec => []PagesFollowOn
<1>1. PagingInv => PagesFollowOn
  BY DEF PagingInv, ListIsStretch, Descending, Stretch, PagesFollowOn, InWindow
<1> QED
  BY <1>1, PagingInductive, PTL
==============================================================================
