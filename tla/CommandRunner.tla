---------------------------- MODULE CommandRunner ----------------------------
(***************************************************************************)
(* One bounded command run (execFileRunner): an untrusted command, what it *)
(* forks, and the timers of the process that runs it.                      *)
(*                                                                         *)
(* The command leads a process group of its own.  The run settles on the   *)
(* close event: the leader has exited and both pipes are at their end or   *)
(* destroyed.  A timeout or an output beyond the limit destroys the pipes, *)
(* sends SIGTERM to the group and, after a grace period, SIGKILL; whoever  *)
(* is still there when the terminated run settles gets SIGKILL at once.    *)
(***************************************************************************)
EXTENDS Naturals, FiniteSets

CONSTANTS
  Leader, Others,   \* the command; the processes it and they may fork
  Timeout, Grace,   \* timeoutMs and PROCESS_TERMINATION_GRACE_MS, in ticks
  MaxOutput,        \* maxOutputBytes, in chunks
  MaxWrites,        \* bound: chunks written to a stream
  MaxTime           \* bound: last tick of the clock

ASSUME CommandRunnerAssumption ==
  /\ Leader \notin Others
  /\ {Timeout, Grace} \subseteq Nat \ {0}
  /\ {MaxOutput, MaxWrites, MaxTime} \subseteq Nat

VARIABLES
  now,
  born, alive,   \* processes forked so far; those that have not exited
  group,         \* those that never left the leader's group
  holders,       \* those alive that hold the write ends of the pipes
  exitCode,      \* what the leader exited with; Running before
  wrote, pipe, kept,   \* per stream: chunks written, in the pipe, captured
  destroyed,     \* the read ends were destroyed
  limitHit, timedOut, terminating,   \* outputLimitExceeded, timeoutExceeded, ...
  armed,         \* the timeout is armed
  kills, escalation,   \* due times of pending SIGKILL timers; the one remembered
  settled        \* the code the promise resolved with; Pending before

processes == <<born, alive, group, holders, exitCode>>
output == <<wrote, pipe, kept>>
timers == <<armed, kills, escalation>>
vars == <<now, processes, output, destroyed, limitHit, timedOut, terminating,
          timers, settled>>

Streams == {"stdout", "stderr"}
Procs == {Leader} \cup Others
Running == 256   \* no exit code
Pending == 256
None == 0

Init ==
  /\ now = 0
  /\ born = {} /\ alive = {} /\ group = {} /\ holders = {} /\ exitCode = Running
  /\ wrote = [s \in Streams |-> 0] /\ pipe = [s \in Streams |-> 0]
  /\ kept = [s \in Streams |-> 0]
  /\ destroyed = FALSE /\ limitHit = FALSE /\ timedOut = FALSE /\ terminating = FALSE
  /\ armed = FALSE /\ kills = {} /\ escalation = None
  /\ settled = Pending

-------------------------------------------------------------------------------
(* Processes.                                                                 *)

Start ==
  /\ born = {} /\ settled = Pending
  /\ born' = {Leader} /\ alive' = {Leader} /\ group' = {Leader}
  /\ holders' = {Leader} /\ armed' = TRUE
  /\ UNCHANGED <<now, exitCode, output, destroyed, limitHit, timedOut,
                 terminating, kills, escalation, settled>>

(* spawn throws, or its error event comes: the run settles with 127. *)
StartFails ==
  /\ born = {} /\ settled = Pending
  /\ settled' = 127
  /\ UNCHANGED <<now, processes, output, destroyed, limitHit, timedOut,
                 terminating, timers>>

Fork(p, q) ==
  /\ p \in alive /\ q \notin born
  /\ born' = born \cup {q} /\ alive' = alive \cup {q}
  /\ group' = IF p \in group THEN group \cup {q} ELSE group
  /\ holders' = IF p \in holders THEN holders \cup {q} ELSE holders
  /\ UNCHANGED <<now, exitCode, output, destroyed, limitHit, timedOut,
                 terminating, timers, settled>>

(* setsid; a group leader cannot. *)
Detach(q) ==
  /\ q \in alive \cap group /\ q # Leader
  /\ group' = group \ {q}
  /\ UNCHANGED <<now, born, alive, holders, exitCode, output, destroyed,
                 limitHit, timedOut, terminating, timers, settled>>

Write(p, s) ==
  /\ p \in holders /\ ~destroyed /\ wrote[s] < MaxWrites
  /\ wrote' = [wrote EXCEPT ![s] = @ + 1] /\ pipe' = [pipe EXCEPT ![s] = @ + 1]
  /\ UNCHANGED <<now, processes, kept, destroyed, limitHit, timedOut,
                 terminating, timers, settled>>

(* The processes in dead are gone; a leader that died of a signal has no code. *)
Die(dead, code) ==
  /\ alive' = alive \ dead /\ holders' = holders \ dead
  /\ exitCode' = IF Leader \in dead /\ exitCode = Running THEN code ELSE exitCode
  /\ UNCHANGED <<born, group>>

Exit(p, code) ==
  /\ p \in alive
  /\ Die({p}, code)
  /\ UNCHANGED <<now, output, destroyed, limitHit, timedOut, terminating,
                 timers, settled>>

Signalled == alive \cap group

-------------------------------------------------------------------------------
(* The runner.                                                                *)

(* terminateCommandTree(SIGTERM): some of the group die of it, some ignore it. *)
(* A second termination replaces the timer that is remembered.                *)
Terminate ==
  /\ terminating' = TRUE /\ destroyed' = TRUE
  /\ \E dead \in SUBSET Signalled : Die(dead, 1)
  /\ kills' = kills \cup {now + Grace} /\ escalation' = now + Grace

Exceeds(s) == kept[s] + 1 > MaxOutput

Receive(s) ==
  /\ pipe[s] > 0 /\ ~destroyed /\ ~Exceeds(s)
  /\ pipe' = [pipe EXCEPT ![s] = @ - 1] /\ kept' = [kept EXCEPT ![s] = @ + 1]
  /\ UNCHANGED <<now, processes, wrote, destroyed, limitHit, timedOut,
                 terminating, timers, settled>>

(* Both buffers are emptied. *)
ReceiveTooMuch(s) ==
  /\ pipe[s] > 0 /\ ~destroyed /\ Exceeds(s)
  /\ pipe' = [pipe EXCEPT ![s] = @ - 1] /\ kept' = [t \in Streams |-> 0]
  /\ limitHit' = TRUE
  /\ Terminate
  /\ UNCHANGED <<now, wrote, timedOut, armed, settled>>

TimeoutDue == armed /\ now >= Timeout
TimeOut ==
  /\ TimeoutDue
  /\ timedOut' = TRUE /\ armed' = FALSE
  /\ Terminate
  /\ UNCHANGED <<now, output, limitHit, settled>>

(* Mutant: nothing escalates. *)
KillDueMutant(due) == FALSE
KillDue(due) == due <= now
Kill(due) ==
  /\ due \in kills /\ KillDue(due)
  /\ kills' = kills \ {due}
  /\ Die(Signalled, 1)
  /\ UNCHANGED <<now, output, destroyed, limitHit, timedOut, terminating, armed,
                 escalation, settled>>

(* Mutant: the exit event settles the run. *)
ClosedMutant == exitCode # Running
Closed ==
  /\ exitCode # Running
  /\ destroyed \/ (holders = {} /\ \A s \in Streams : pipe[s] = 0)

(* Mutant: a run that settles leaves the group to the timer it clears. *)
SweptMutant == {}
Swept == IF terminating THEN Signalled ELSE {}

Close ==
  /\ settled = Pending /\ Closed
  /\ settled' = exitCode
  /\ Die(Swept, 1)
  /\ kills' = kills \ {escalation} /\ armed' = FALSE
  /\ UNCHANGED <<now, output, destroyed, limitHit, timedOut, terminating, escalation>>

(* Events and timers that are due come before the clock moves on. *)
Tick ==
  /\ born # {} /\ now < MaxTime
  /\ ~TimeoutDue /\ \A due \in kills : ~KillDue(due)
  /\ settled # Pending \/ ~Closed
  /\ now' = now + 1
  /\ UNCHANGED <<processes, output, destroyed, limitHit, timedOut, terminating,
                 timers, settled>>

Runner == Start \/ StartFails \/ TimeOut \/ Close \/ \E due \in kills : Kill(due)

Next ==
  \/ Runner \/ Tick
  \/ \E s \in Streams : Receive(s) \/ ReceiveTooMuch(s)
  \/ \E p \in Procs :
       \/ \E q \in Others : Fork(p, q)
       \/ Detach(p)
       \/ \E s \in Streams : Write(p, s)
       \/ \E code \in {0, 1} : Exit(p, code)

Spec == Init /\ [][Next]_vars

(* The runner's event loop and the clock go on; the command owes nothing. *)
FairSpec == Spec /\ WF_vars(Runner) /\ WF_vars(Tick)

-------------------------------------------------------------------------------
(* Properties.                                                                *)

(* The run settles within its timeout and the grace period, whatever the       *)
(* command and its descendants do: ignore SIGTERM, keep the pipes open, fork, *)
(* or leave the group (terminate).                                            *)
SettlesInTime == settled = Pending => now <= Timeout + Grace

(* Once a terminated run has settled, no member of its group is left, and a   *)
(* SIGKILL timer that a second termination forgot finds nobody (finish).      *)
NoSurvivors == settled # Pending /\ terminating => Signalled = {}

(* Output that a caller accepts (code 0, no timeout, no limit) is all that     *)
(* was written, by the command and by every descendant that held its pipes    *)
(* (close, not exit, settles the run).                                        *)
AcceptedIsComplete ==
  settled = 0 /\ ~timedOut /\ ~limitHit =>
    holders = {} /\ \A s \in Streams : kept[s] = wrote[s]

(* Every run that is asked for settles.                                       *)
RunsSettle == <>(settled # Pending)
===============================================================================
