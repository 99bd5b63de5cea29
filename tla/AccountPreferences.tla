-------------------------- MODULE AccountPreferences --------------------------
(***************************************************************************)
(* The hidden accounts of the control panel: one owner-only file, read and *)
(* replaced whole under a lock directory.                                  *)
(*                                                                         *)
(* A request that finds the directory does not wait: it fails.  Everything *)
(* between mkdir and rm runs in one request, step by step, and can fail or *)
(* stop with its process; what a dead process leaves is a lock that nobody *)
(* removes.  A file of the first schema, which hid accounts in every       *)
(* runtime at once, is read as hiding them in one scope alone.             *)
(***************************************************************************)
EXTENDS Naturals

CONSTANTS
  Procs,         \* requests in flight, of one listener or of several
  Scopes,        \* scope keys: a runtime and its default scope
  LegacyScope,   \* the scope a file of the first schema is read for
  Refs,          \* account references
  Free, Stale,   \* the lock: nobody's, and a dead process's
  MaxCrashes     \* bound: process deaths and locks that cannot be removed

ASSUME AccountPreferencesAssumption ==
  /\ LegacyScope \in Scopes
  /\ Free # Stale /\ Procs \cap {Free, Stale} = {}

VARIABLES
  file,     \* account-ui-preferences.v1.json: its schema and what it hides
  holder,   \* who made the lock directory
  at,       \* at[p]: the step request p is at
  call,     \* call[p]: what it asks
  found,    \* found[p]: what it read
  reply,    \* reply[p]: what it is told
  crashes

vars == <<file, holder, at, call, found, reply, crashes>>

Calls == [op : {"hide", "restore"}, scope : Scopes, ref : Refs]
           \cup [op : {"view"}, scope : Scopes]
Hidings == [Scopes -> SUBSET Refs]
Nobody == [s \in Scopes |-> {}]
Waiting == [says |-> "waiting", view |-> {}]
Failed == [says |-> "failed", view |-> {}]
View(refs) == [says |-> "view", view |-> refs]

(* A file of the first schema hides one list wherever it is looked at.        *)
Files ==
  [schema : {"v2", "damaged"}, hides : Hidings]
    \cup {[schema |-> "v1", hides |-> [s \in Scopes |-> refs]] : refs \in SUBSET Refs}
    \cup {[schema |-> "absent", hides |-> Nobody]}

(* What the file says, once it is read.                                       *)
Parsed(f) ==
  IF f.schema = "v2" THEN f.hides
  ELSE [s \in Scopes |-> IF f.schema = "v1" /\ s = LegacyScope THEN f.hides[s] ELSE {}]

Applied(c, refs) ==
  IF c.op = "hide" THEN refs \cup {c.ref}
  ELSE IF c.op = "restore" THEN refs \ {c.ref} ELSE refs

Init ==
  /\ file \in {f \in Files : f.schema = "damaged" => f.hides = Nobody}
  /\ holder = Free
  /\ at = [p \in Procs |-> "idle"]
  /\ call = [p \in Procs |-> [op |-> "view", scope |-> LegacyScope]]
  /\ found = [p \in Procs |-> Nobody]
  /\ reply = [p \in Procs |-> Failed]
  /\ crashes = 0

Goto(p, label) == at' = [at EXCEPT ![p] = label]
Tell(p, answer) == reply' = [reply EXCEPT ![p] = answer]

(* The request passed its framing checks; the status is read before the store *)
(* is opened.                                                                 *)
Ask(p, c) ==
  /\ at[p] = "idle"
  /\ call' = [call EXCEPT ![p] = c]
  /\ Tell(p, Waiting) /\ Goto(p, "lock")
  /\ UNCHANGED <<file, holder, found, crashes>>

(* The status is unavailable, or does not list the scope or the account; or   *)
(* the directory of the store is not safe.                                    *)
Refuse(p) ==
  /\ at[p] = "lock"
  /\ Tell(p, Failed) /\ Goto(p, "idle")
  /\ UNCHANGED <<file, holder, call, found, crashes>>

FindLocked(p) ==
  /\ at[p] = "lock" /\ holder # Free
  /\ Tell(p, Failed) /\ Goto(p, "idle")
  /\ UNCHANGED <<file, holder, call, found, crashes>>

LockPresentMutant == holder \in {Free, Stale} \cup Procs
LockAbsent == holder = Free

TakeLock(p) ==
  /\ at[p] = "lock" /\ LockAbsent
  /\ holder' = p
  /\ Goto(p, "read")
  /\ UNCHANGED <<file, call, found, reply, crashes>>

ReadToShow(p) ==
  /\ at[p] = "read" /\ call[p].op = "view" /\ file.schema # "damaged"
  /\ Tell(p, View(Parsed(file)[call[p].scope])) /\ Goto(p, "release")
  /\ UNCHANGED <<file, holder, call, found, crashes>>

ReadToChange(p) ==
  /\ at[p] = "read" /\ call[p].op # "view" /\ file.schema # "damaged"
  /\ found' = [found EXCEPT ![p] = Parsed(file)]
  /\ Goto(p, "write")
  /\ UNCHANGED <<file, holder, call, reply, crashes>>

(* The file cannot be read or does not parse, or its replacement cannot be    *)
(* written.                                                                   *)
Throw(p) ==
  /\ at[p] \in {"read", "write"}
  /\ Tell(p, Failed) /\ Goto(p, "release")
  /\ found' = [found EXCEPT ![p] = Nobody]
  /\ UNCHANGED <<file, holder, call, crashes>>

(* A temporary file is renamed over the old one; what follows the rename can  *)
(* still throw.                                                               *)
Write(p) ==
  LET c == call[p]
      after == Applied(c, found[p][c.scope])
  IN
  /\ at[p] = "write"
  /\ file' = [schema |-> "v2", hides |-> [found[p] EXCEPT ![c.scope] = after]]
  /\ \E told \in {View(after), Failed} : Tell(p, told)
  /\ found' = [found EXCEPT ![p] = Nobody]
  /\ Goto(p, "release")
  /\ UNCHANGED <<holder, call, crashes>>

Release(p) ==
  /\ at[p] = "release"
  /\ holder' = Free
  /\ Goto(p, "idle")
  /\ UNCHANGED <<file, call, found, reply, crashes>>

(* The process dies, or rm fails and its error replaces the answer.           *)
Crash(p) ==
  /\ at[p] # "idle" /\ crashes < MaxCrashes
  /\ crashes' = crashes + 1
  /\ holder' = IF holder = p THEN Stale ELSE holder
  /\ Tell(p, Failed) /\ Goto(p, "idle")
  /\ found' = [found EXCEPT ![p] = Nobody]
  /\ UNCHANGED <<file, call>>

Step(p) ==
  \/ Refuse(p) \/ FindLocked(p) \/ TakeLock(p)
  \/ ReadToShow(p) \/ ReadToChange(p) \/ Throw(p) \/ Write(p) \/ Release(p)

Next ==
  \E p \in Procs :
    \/ \E c \in Calls : Ask(p, c)
    \/ Step(p)
    \/ Crash(p)

Spec == Init /\ [][Next]_vars

-------------------------------------------------------------------------------
(* Properties.                                                                *)

(* A call is done once its answer is known and the lock is still to be        *)
(* removed.                                                                   *)
StageOf(step, says) ==
  IF step \in {"lock", "read", "write"} THEN "asked"
  ELSE IF step = "release" /\ says = "view" THEN "done" ELSE "idle"
Stages == [p \in Procs |-> StageOf(at[p], reply[p].says)]

(* What a caller can tell of the store is what HiddenAccounts promises.       *)
Promise == INSTANCE HiddenAccounts WITH
  hidden <- Parsed(file),
  stage <- Stages

(* However requests overlap, fail and die, the preferences behave as one set  *)
(* of references per scope: no hide or restore is lost, none reaches another  *)
(* scope or another account, answers show what the file says, and reading an  *)
(* old file hides nothing in other runtimes (AccountUiPreferencesStore).      *)
ImplementsHiddenAccounts == Promise!Spec
===============================================================================
