---------------------------- MODULE UpdateExecutor ----------------------------
(***************************************************************************)
(* The Update Center's executor over the local filesystem adapter.         *)
(*                                                                         *)
(* An execution checks the artifact, backs the install root up, stages the *)
(* artifact, restarts, asks for health, and rolls back what failed.  The   *)
(* copies and removals are step by step and can fail or stop with the      *)
(* process anywhere; the next execution starts from what is left.  Restart *)
(* and health belong to the host (the local adapter never proves either).  *)
(***************************************************************************)
EXTENDS Naturals, Sequences

CONSTANTS
  Originals,    \* the files of the installation
  MaxRuns,      \* bound: executions
  MaxDeaths    \* bound: process deaths

VARIABLES
  artifact,   \* what is at artifactPath: the planned release, or other bytes
  root,       \* the install root: its files, and what is staged; {} if absent
  backups,    \* the directories under workRoot/backups, oldest first
  pc, result, \* the execution in progress; what the last one returned
  before,     \* history: the root when it began
  runs, deaths

updateVars == <<artifact, root, backups, pc, result, before, runs, deaths>>

Staged == {"release", "other", "torn"}
Items == Originals \cup Staged
Results == {"none", "blocked", "failed_no_change_verified", "UNPROVEN",
            "rolled_back", "applied"}
Last == backups[Len(backups)]

UpdateInit ==
  /\ artifact \in {"release", "other"}
  /\ root = Originals /\ backups = <<>>
  /\ pc = "idle" /\ result = "none" /\ before = Originals
  /\ runs = 0 /\ deaths = 0

Return(state) == pc' = "idle" /\ result' = state
Proceed(label) == pc' = label /\ UNCHANGED result

(* The plan is not ready, or the confirmation names another one. *)
BeginUpdate ==
  /\ pc = "idle" /\ runs < MaxRuns
  /\ runs' = runs + 1 /\ before' = root
  /\ \/ pc' = "artifact" /\ result' = "none"
     \/ Return("blocked")
  /\ UNCHANGED <<artifact, root, backups, deaths>>

VerifyArtifact ==
  /\ pc = "artifact"
  /\ \/ artifact = "release" /\ Proceed("backup")
     \/ artifact = "other" /\ Return("failed_no_change_verified")
     \/ Return("UNPROVEN")   \* it cannot be read
  /\ UNCHANGED <<artifact, root, backups, before, runs, deaths>>

StartBackup ==
  /\ pc = "backup" /\ root # {}
  /\ backups' = Append(backups, {})
  /\ Proceed("copy")
  /\ UNCHANGED <<artifact, root, before, runs, deaths>>

CopyToBackup(x) ==
  /\ pc = "copy" /\ x \in root \ Last
  /\ backups' = [backups EXCEPT ![Len(backups)] = @ \cup {x}]
  /\ UNCHANGED <<artifact, root, pc, result, before, runs, deaths>>

(* Mutant: a copy that stops early counts. *)
CopiedMutant == TRUE
Copied == Last = root

FinishBackup ==
  /\ pc = "copy" /\ Copied
  /\ Proceed("install")
  /\ UNCHANGED <<artifact, root, backups, before, runs, deaths>>

(* A missing root, an existing destination, or a copy that throws midway. *)
BackupFails ==
  /\ pc \in {"backup", "copy"}
  /\ Return("failed_no_change_verified")
  /\ UNCHANGED <<artifact, root, backups, before, runs, deaths>>

Stage(x) == (root \ Staged) \cup {x}

(* What is at artifactPath by now is staged over what was staged before. *)
Install ==
  /\ pc = "install"
  /\ root' = Stage(artifact)
  /\ Proceed("restart")
  /\ UNCHANGED <<artifact, backups, before, runs, deaths>>

InstallFails ==
  /\ pc = "install"
  /\ root' \in {root, Stage(artifact), Stage("torn")}
  /\ Proceed("remove")
  /\ UNCHANGED <<artifact, backups, before, runs, deaths>>

(* The host's restart, then its health check: verified, failed, or UNPROVEN. *)
Restart ==
  /\ pc = "restart"
  /\ (Proceed("health") \/ Proceed("remove") \/ Return("UNPROVEN"))
  /\ UNCHANGED <<artifact, root, backups, before, runs, deaths>>

HealthCheck ==
  /\ pc = "health"
  /\ (Return("applied") \/ Proceed("remove") \/ Return("UNPROVEN"))
  /\ UNCHANGED <<artifact, root, backups, before, runs, deaths>>

RemoveItem(x) ==
  /\ pc = "remove" /\ x \in root
  /\ root' = root \ {x}
  /\ UNCHANGED <<artifact, backups, pc, result, before, runs, deaths>>

(* Mutant: the backup is copied over the failed installation. *)
RemovedMutant == TRUE
Removed == root = {}

StartRestore ==
  /\ pc = "remove" /\ Removed
  /\ Proceed("restore")
  /\ UNCHANGED <<artifact, root, backups, before, runs, deaths>>

RestoreItem(x) ==
  /\ pc = "restore" /\ x \in Last \ root
  /\ root' = root \cup {x}
  /\ UNCHANGED <<artifact, backups, pc, result, before, runs, deaths>>

FinishRestore ==
  /\ pc = "restore" /\ Last \subseteq root
  /\ Return("rolled_back")
  /\ UNCHANGED <<artifact, root, backups, before, runs, deaths>>

RollbackFails ==
  /\ pc \in {"remove", "restore"}
  /\ Return("UNPROVEN")
  /\ UNCHANGED <<artifact, root, backups, before, runs, deaths>>

ProcessDies ==
  /\ pc # "idle" /\ deaths < MaxDeaths
  /\ deaths' = deaths + 1
  /\ Return("none")
  /\ UNCHANGED <<artifact, root, backups, before, runs>>

(* Somebody downloads something else to artifactPath, or the release again. *)
ReplaceArtifact ==
  /\ artifact' \in {"release", "other"} \ {artifact}
  /\ UNCHANGED <<root, backups, pc, result, before, runs, deaths>>

UpdateNext ==
  \/ BeginUpdate \/ VerifyArtifact \/ StartBackup \/ FinishBackup \/ BackupFails
  \/ Install \/ InstallFails \/ Restart \/ HealthCheck
  \/ StartRestore \/ FinishRestore \/ RollbackFails
  \/ \E x \in Items : CopyToBackup(x) \/ RemoveItem(x) \/ RestoreItem(x)
  \/ ProcessDies \/ ReplaceArtifact

UpdateSpec == UpdateInit /\ [][UpdateNext]_updateVars

-------------------------------------------------------------------------------
(* Properties.                                                                *)

(* A result other than UNPROVEN is the truth about the install root: nothing   *)
(* changed, everything was restored, or exactly the artifact was added        *)
(* (executeUpdatePlan, rollbackAfterFailure).                                  *)
ResultsAreTruthful ==
  /\ result \in {"blocked", "failed_no_change_verified", "rolled_back"} => root = before
  /\ result = "applied" =>
       root \ Staged = before \ Staged /\ root \cap Staged \in {{"release"}, {"other"}}

(* Whatever fails or dies, and however often it is tried again, the original   *)
(* files survive whole: in the install root or in one backup (createBackup    *)
(* completes before anything is written to the root).                         *)
OriginalsSurvive ==
  \/ Originals \subseteq root
  \/ \E i \in DOMAIN backups : Originals \subseteq backups[i]
===============================================================================
