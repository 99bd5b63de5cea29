-------------------------- MODULE CommandRunner_proofs --------------------------
(***************************************************************************)
(* Proofs about CommandRunner, for any set of descendants, any timeout and *)
(* grace period, any output limit, and any bounds.                         *)
(***************************************************************************)
EXTENDS CommandRunner, TLAPS

Types ==
  /\ now \in Nat
  /\ exitCode \in {0, 1, Running}
  /\ wrote \in [Streams -> Nat] /\ pipe \in [Streams -> Nat] /\ kept \in [Streams -> Nat]
  /\ {destroyed, limitHit, timedOut, terminating, armed} \subseteq BOOLEAN
  /\ kills \subseteq Nat
  /\ settled \in {0, 1, 127, Pending}

(* The leader never leaves its group, and its exit is known as soon as it is  *)
(* gone; nobody else is there without it having been there.                   *)
Family ==
  /\ alive \subseteq born /\ group \subseteq born /\ holders \subseteq alive
  /\ born # {} => Leader \in born /\ Leader \in group
  /\ Leader \in born \ alive => exitCode # Running

(* Before the command is there, nothing has happened.                         *)
NotStarted ==
  born = {} => now = 0 /\ ~armed /\ ~terminating /\ \A s \in Streams : pipe[s] = 0

(* Only the timeout and the limit destroy the pipes, and they terminate.      *)
Terminations ==
  /\ terminating = destroyed
  /\ destroyed => limitHit \/ timedOut

(* What a run that has not settled still has ahead of it: its timeout; or a   *)
(* SIGKILL that no member of the group survives; or nothing but its close.    *)
BeforeTimeout == armed /\ now <= Timeout
BeforeKill == destroyed /\ \E due \in kills : now <= due /\ due <= Timeout + Grace
BeforeClose == destroyed /\ exitCode # Running /\ now <= Timeout + Grace
Deadlines ==
  settled = Pending /\ born # {} => BeforeTimeout \/ BeforeKill \/ BeforeClose

(* A run that settled without being terminated cannot be terminated any more. *)
SettledForGood ==
  settled # Pending =>
    /\ ~armed
    /\ ~destroyed => holders = {} /\ \A s \in Streams : pipe[s] = 0

(* Nothing that was written is lost before the limit is hit.                  *)
Conserved == ~limitHit => \A s \in Streams : wrote[s] = pipe[s] + kept[s]

IInv ==
  /\ Types /\ Family /\ NotStarted /\ Terminations
  /\ Deadlines /\ SettledForGood /\ Conserved /\ NoSurvivors

-------------------------------------------------------------------------------
LEMMA InitInv == Init => IInv
<1> SUFFICES ASSUME Init PROVE IInv
  OBVIOUS
<1> USE DEF Init
<1>1. Types /\ Family /\ NotStarted /\ Terminations
  BY DEF Types, Family, NotStarted, Terminations
<1>2. Deadlines /\ SettledForGood /\ Conserved /\ NoSurvivors
  BY DEF Deadlines, SettledForGood, Conserved, NoSurvivors, Streams
<1> QED
  BY <1>1, <1>2 DEF IInv

(* Dying takes processes and nothing else, and leaves the leader's code.      *)
Died(dead) ==
  /\ alive' = alive \ dead /\ holders' = holders \ dead
  /\ born' = born /\ group' = group
  /\ exitCode' \in {0, 1, Running}
  /\ exitCode # Running => exitCode' = exitCode
  /\ Leader \in dead => exitCode' # Running
LEMMA Dying ==
  ASSUME Types, Family, NEW dead, NEW code \in {0, 1}, Die(dead, code)
  PROVE  Died(dead) /\ Family'
<1>1. code # Running
  BY DEF Running
<1>2. Died(dead)
  BY <1>1 DEF Die, Died, Types
<1>3. Family'
  BY <1>2 DEF Died, Family
<1> QED
  BY <1>2, <1>3

(* A kill of the whole group leaves a run that only has to close.             *)
LEMMA KillingTheGroup ==
  ASSUME Types, Family, born # {}, Die(Signalled, 1)
  PROVE  exitCode' # Running /\ Signalled' = {}
<1>1. Died(Signalled)
  BY Dying
<1> QED
  BY <1>1 DEF Died, Signalled, Family

LEMMA StartInv == IInv /\ Start => IInv'
<1> SUFFICES ASSUME IInv, Start PROVE IInv'
  OBVIOUS
<1> USE DEF Start, output
<1>1. Types'
  BY DEF IInv, Types
<1>2. Family' /\ NotStarted' /\ Terminations'
  BY DEF IInv, Family, Terminations, NotStarted
<1>3. Deadlines'
  <2>1. BeforeTimeout'
    BY CommandRunnerAssumption DEF IInv, NotStarted, BeforeTimeout
  <2> QED
    BY <2>1 DEF Deadlines
<1>4. SettledForGood' /\ Conserved' /\ NoSurvivors'
  BY DEF IInv, SettledForGood, Conserved, NoSurvivors
<1> QED
  BY <1>1, <1>2, <1>3, <1>4 DEF IInv

LEMMA StartFailsInv == IInv /\ StartFails => IInv'
<1> SUFFICES ASSUME IInv, StartFails PROVE IInv'
  OBVIOUS
<1> USE DEF StartFails, processes, output, timers
<1>1. Types' /\ Family' /\ NotStarted' /\ Terminations' /\ Conserved'
  BY DEF IInv, Types, Family, NotStarted, Terminations, Conserved
<1>2. Deadlines'
  BY DEF Deadlines
<1>3. alive = {} /\ holders = {}
  BY DEF IInv, Family
<1>4. SettledForGood' /\ NoSurvivors'
  BY <1>3 DEF IInv, NotStarted, SettledForGood, NoSurvivors, Signalled
<1> QED
  BY <1>1, <1>2, <1>4 DEF IInv

LEMMA ForkInv == \A p \in Procs, q \in Others : IInv /\ Fork(p, q) => IInv'
<1> SUFFICES ASSUME NEW p \in Procs, NEW q \in Others, IInv, Fork(p, q) PROVE IInv'
  OBVIOUS
<1> USE DEF Fork, output, timers
<1>1. Types' /\ Terminations' /\ Conserved'
  BY DEF IInv, Types, Terminations, Conserved
<1>2. Family' /\ NotStarted'
  BY CommandRunnerAssumption DEF IInv, Family, NotStarted
<1>3. Deadlines'
  <2>1. born # {} /\ (settled = Pending => BeforeTimeout \/ BeforeKill \/ BeforeClose)
    BY DEF IInv, Family, Deadlines
  <2> QED
    BY <2>1 DEF Deadlines, BeforeTimeout, BeforeKill, BeforeClose
<1>4. SettledForGood'
  BY DEF IInv, SettledForGood
<1>5. NoSurvivors'
  BY DEF IInv, Family, NoSurvivors, Signalled
<1> QED
  BY <1>1, <1>2, <1>3, <1>4, <1>5 DEF IInv

LEMMA DetachInv == \A q \in Procs : IInv /\ Detach(q) => IInv'
<1> SUFFICES ASSUME NEW q \in Procs, IInv, Detach(q) PROVE IInv'
  OBVIOUS
<1> USE DEF Detach, output, timers
<1>1. Types' /\ NotStarted' /\ Terminations' /\ Conserved' /\ SettledForGood'
  BY DEF IInv, Types, NotStarted, Terminations, Conserved, SettledForGood
<1>2. Family' /\ NoSurvivors'
  BY DEF IInv, Family, NoSurvivors, Signalled
<1>3. Deadlines'
  BY DEF IInv, Deadlines, BeforeTimeout, BeforeKill, BeforeClose
<1> QED
  BY <1>1, <1>2, <1>3 DEF IInv

LEMMA WriteInv == \A p \in Procs, s \in Streams : IInv /\ Write(p, s) => IInv'
<1> SUFFICES ASSUME NEW p \in Procs, NEW s \in Streams, IInv, Write(p, s) PROVE IInv'
  OBVIOUS
<1> USE DEF Write, processes, timers
<1>1. Types' /\ Conserved'
  BY DEF IInv, Types, Conserved
<1>2. Family' /\ Terminations' /\ NoSurvivors'
  BY DEF IInv, Family, Terminations, NoSurvivors, Signalled
<1>3. NotStarted' /\ SettledForGood'
  BY DEF IInv, Family, NotStarted, SettledForGood
<1>4. Deadlines'
  BY DEF IInv, Deadlines, BeforeTimeout, BeforeKill, BeforeClose
<1> QED
  BY <1>1, <1>2, <1>3, <1>4 DEF IInv

LEMMA ExitInv == \A p \in Procs, code \in {0, 1} : IInv /\ Exit(p, code) => IInv'
<1> SUFFICES ASSUME NEW p \in Procs, NEW code \in {0, 1}, IInv, Exit(p, code) PROVE IInv'
  OBVIOUS
<1>1. /\ UNCHANGED <<now, output, destroyed, limitHit, timedOut, terminating, timers, settled>>
      /\ Died({p}) /\ Family'
  BY Dying DEF Exit, IInv
<1> USE DEF output, timers
<1>2. Types' /\ Conserved' /\ Terminations' /\ NotStarted'
  BY <1>1 DEF IInv, Types, Conserved, Terminations, NotStarted, Died
<1>3. SettledForGood' /\ NoSurvivors'
  BY <1>1 DEF IInv, SettledForGood, NoSurvivors, Signalled, Died
<1>4. Deadlines'
  BY <1>1 DEF IInv, Deadlines, BeforeTimeout, BeforeKill, BeforeClose, Died
<1> QED
  BY <1>1, <1>2, <1>3, <1>4 DEF IInv

LEMMA ReceiveInv == \A s \in Streams : IInv /\ Receive(s) => IInv'
<1> SUFFICES ASSUME NEW s \in Streams, IInv, Receive(s) PROVE IInv'
  OBVIOUS
<1> USE DEF Receive, processes, timers
<1>1. Types' /\ Conserved'
  BY DEF IInv, Types, Conserved
<1>2. Family' /\ Terminations' /\ NoSurvivors'
  BY DEF IInv, Family, Terminations, NoSurvivors, Signalled
<1>3. NotStarted' /\ SettledForGood'
  BY DEF IInv, Types, NotStarted, SettledForGood
<1>4. Deadlines'
  BY DEF IInv, Deadlines, BeforeTimeout, BeforeKill, BeforeClose
<1> QED
  BY <1>1, <1>2, <1>3, <1>4 DEF IInv

(* A termination sets off its own SIGKILL.                                    *)
LEMMA Terminating ==
  ASSUME Types, Family, Terminate
  PROVE  /\ terminating' = TRUE /\ destroyed' = TRUE
         /\ kills' = kills \cup {now + Grace} /\ kills' \subseteq Nat
         /\ Family'
         /\ \E dead \in SUBSET Signalled : Died(dead)
<1>1. PICK dead \in SUBSET Signalled : Die(dead, 1)
  BY DEF Terminate
<1>2. Died(dead) /\ Family'
  BY <1>1, Dying
<1>3. /\ terminating' = TRUE /\ destroyed' = TRUE
      /\ kills' = kills \cup {now + Grace}
  BY DEF Terminate
<1>4. now + Grace \in Nat /\ kills \subseteq Nat
  BY CommandRunnerAssumption DEF Types
<1> QED
  BY <1>2, <1>3, <1>4

(* A run is terminated only while it has not settled.                         *)
LEMMA ReceiveTooMuchInv == \A s \in Streams : IInv /\ ReceiveTooMuch(s) => IInv'
<1> SUFFICES ASSUME NEW s \in Streams, IInv, ReceiveTooMuch(s) PROVE IInv'
  OBVIOUS
<1>1. /\ ~destroyed /\ pipe[s] > 0 /\ pipe' = [pipe EXCEPT ![s] = @ - 1]
      /\ kept' = [t \in Streams |-> 0] /\ limitHit' = TRUE
      /\ UNCHANGED <<now, wrote, timedOut, armed, settled>>
  BY DEF ReceiveTooMuch
<1>2. /\ terminating' = TRUE /\ destroyed' = TRUE /\ kills' \subseteq Nat /\ Family'
  BY Terminating DEF ReceiveTooMuch, IInv
<1>3. PICK dead \in SUBSET Signalled : Died(dead)
  BY Terminating DEF ReceiveTooMuch, IInv
<1>4. settled = Pending /\ born # {}
  BY <1>1 DEF IInv, SettledForGood, NotStarted
<1>5. Types'
  BY <1>1, <1>2, <1>3 DEF IInv, Types, Died
<1>6. NotStarted' /\ Terminations' /\ Conserved'
  BY <1>1, <1>2, <1>3, <1>4 DEF NotStarted, Terminations, Conserved, Died
<1>7. Deadlines'
  <2>1. BeforeTimeout
    BY <1>1, <1>4 DEF IInv, Deadlines, BeforeKill, BeforeClose
  <2> QED
    BY <1>1, <2>1 DEF Deadlines, BeforeTimeout
<1>8. SettledForGood' /\ NoSurvivors'
  BY <1>1, <1>4 DEF SettledForGood, NoSurvivors
<1> QED
  BY <1>2, <1>5, <1>6, <1>7, <1>8 DEF IInv

LEMMA TimeOutInv == IInv /\ TimeOut => IInv'
<1> SUFFICES ASSUME IInv, TimeOut PROVE IInv'
  OBVIOUS
<1>1. /\ armed /\ now >= Timeout /\ timedOut' = TRUE /\ armed' = FALSE
      /\ UNCHANGED <<now, output, limitHit, settled>>
  BY DEF TimeOut, TimeoutDue
<1>2. /\ terminating' = TRUE /\ destroyed' = TRUE /\ Family'
      /\ kills' = kills \cup {now + Grace} /\ kills' \subseteq Nat
  BY Terminating DEF TimeOut, IInv
<1>3. PICK dead \in SUBSET Signalled : Died(dead)
  BY Terminating DEF TimeOut, IInv
<1>4. settled = Pending /\ born # {}
  BY <1>1 DEF IInv, SettledForGood, NotStarted
<1>5. Types'
  BY <1>1, <1>2, <1>3 DEF IInv, Types, Died, output
<1>6. NotStarted' /\ Terminations' /\ Conserved'
  BY <1>1, <1>2, <1>3, <1>4 DEF IInv, NotStarted, Terminations, Conserved, Died, output
<1>7. Deadlines'
  <2>1. CASE now <= Timeout
    <3>1. now <= now + Grace /\ now + Grace <= Timeout + Grace
      BY <2>1, CommandRunnerAssumption DEF IInv, Types
    <3>2. BeforeKill'
      BY <1>1, <1>2, <3>1 DEF BeforeKill
    <3> QED
      BY <3>2 DEF Deadlines
  <2>2. CASE ~(now <= Timeout)
    <3>1. BeforeKill \/ BeforeClose
      BY <1>4, <2>2 DEF IInv, Deadlines, BeforeTimeout
    <3>2. BeforeKill' \/ BeforeClose'
      BY <1>1, <1>2, <1>3, <3>1 DEF BeforeKill, BeforeClose, Died
    <3> QED
      BY <3>2 DEF Deadlines
  <2> QED
    BY <2>1, <2>2
<1>8. SettledForGood' /\ NoSurvivors'
  BY <1>1, <1>4 DEF SettledForGood, NoSurvivors
<1> QED
  BY <1>2, <1>5, <1>6, <1>7, <1>8 DEF IInv

LEMMA KillInv == \A due \in kills : IInv /\ Kill(due) => IInv'
<1> SUFFICES ASSUME NEW due \in kills, IInv, Kill(due) PROVE IInv'
  OBVIOUS
<1>1. /\ kills' = kills \ {due}
      /\ UNCHANGED <<now, output, destroyed, limitHit, timedOut, terminating, armed,
                     escalation, settled>>
      /\ Died(Signalled) /\ Family'
  BY Dying DEF Kill, IInv
<1> USE DEF output
<1>2. Types' /\ Conserved' /\ Terminations' /\ NotStarted'
  BY <1>1 DEF IInv, Types, Conserved, Terminations, NotStarted, Died
<1>3. SettledForGood'
  BY <1>1 DEF IInv, SettledForGood, Died
<1>4. NoSurvivors'
  BY <1>1 DEF IInv, NoSurvivors, Signalled, Died
<1>5. Deadlines'
  <2>1. SUFFICES ASSUME settled = Pending, born # {}
                 PROVE  BeforeTimeout' \/ BeforeClose'
    BY <1>1 DEF Deadlines, Died
  <2>2. CASE BeforeTimeout
    BY <1>1, <2>2 DEF BeforeTimeout
  <2>3. CASE BeforeKill \/ BeforeClose
    <3>1. destroyed /\ now <= Timeout + Grace
      BY <2>3, CommandRunnerAssumption DEF BeforeKill, BeforeClose, IInv, Types
    <3>2. exitCode' # Running
      BY <2>1, KillingTheGroup DEF Kill, IInv
    <3> QED
      BY <1>1, <3>1, <3>2 DEF BeforeClose
  <2> QED
    BY <2>1, <2>2, <2>3 DEF IInv, Deadlines
<1> QED
  BY <1>1, <1>2, <1>3, <1>4, <1>5 DEF IInv

LEMMA CloseInv == IInv /\ Close => IInv'
<1> SUFFICES ASSUME IInv, Close PROVE IInv'
  OBVIOUS
<1>1. /\ settled = Pending /\ Closed /\ settled' = exitCode
      /\ kills' = kills \ {escalation} /\ armed' = FALSE
      /\ UNCHANGED <<now, output, destroyed, limitHit, timedOut, terminating, escalation>>
      /\ Died(Swept) /\ Family'
  BY Dying DEF Close, IInv
<1> USE DEF output
<1>2. Types' /\ Conserved' /\ Terminations' /\ NotStarted'
  BY <1>1 DEF IInv, Types, Conserved, Terminations, NotStarted, Died, Running, Pending
<1>3. SettledForGood'
  BY <1>1 DEF SettledForGood, Closed, Died
<1>4. NoSurvivors'
  BY <1>1 DEF NoSurvivors, Signalled, Swept, Died
<1>5. Deadlines'
  BY <1>1 DEF Deadlines, Closed, Running, Pending
<1> QED
  BY <1>1, <1>2, <1>3, <1>4, <1>5 DEF IInv

(* The clock stops at each of the three.                                      *)
LEMMA TickInv == IInv /\ Tick => IInv'
<1> SUFFICES ASSUME IInv, Tick PROVE IInv'
  OBVIOUS
<1> USE DEF Tick, processes, output, timers
<1>1. Types' /\ Family' /\ NotStarted' /\ Terminations'
  BY DEF IInv, Types, Family, NotStarted, Terminations
<1>2. SettledForGood' /\ Conserved' /\ NoSurvivors'
  BY DEF IInv, SettledForGood, Conserved, NoSurvivors, Signalled
<1>3. Deadlines'
  <2>1. SUFFICES ASSUME settled = Pending PROVE BeforeTimeout' \/ BeforeKill'
    BY DEF Deadlines
  <2>2. now \in Nat /\ kills \subseteq Nat /\ Timeout \in Nat
    BY CommandRunnerAssumption DEF IInv, Types
  <2>3. CASE BeforeTimeout
    BY <2>2, <2>3 DEF BeforeTimeout, TimeoutDue
  <2>4. CASE BeforeKill
    <3>1. PICK due \in kills : now <= due /\ due <= Timeout + Grace
      BY <2>4 DEF BeforeKill
    <3>2. now + 1 <= due
      BY <2>2, <3>1 DEF KillDue
    <3> QED
      BY <2>4, <3>1, <3>2 DEF BeforeKill
  <2>5. ~BeforeClose
    BY <2>1 DEF BeforeClose, Closed
  <2> QED
    BY <2>1, <2>3, <2>4, <2>5 DEF IInv, Deadlines
<1> QED
  BY <1>1, <1>2, <1>3 DEF IInv

LEMMA NextInv == IInv /\ [Next]_vars => IInv'
<1> SUFFICES ASSUME IInv, [Next]_vars PROVE IInv'
  OBVIOUS
<1>1. CASE Runner
  BY <1>1, StartInv, StartFailsInv, TimeOutInv, CloseInv, KillInv DEF Runner
<1>2. CASE Tick
  BY <1>2, TickInv
<1>3. CASE UNCHANGED vars
  BY <1>3 DEF vars, processes, output, timers, IInv, Types, Family, NotStarted, Terminations,
     Deadlines, BeforeTimeout, BeforeKill, BeforeClose, SettledForGood, Conserved,
     NoSurvivors, Signalled
<1> QED
  BY <1>1, <1>2, <1>3, ReceiveInv, ReceiveTooMuchInv, ForkInv, DetachInv, WriteInv, ExitInv
  DEF Next

THEOREM Inductive == Spec => []IInv
BY InitInv, NextInv, PTL DEF Spec
-------------------------------------------------------------------------------
(* A run settles within its timeout and the grace period, whatever the command *)
(* and its descendants do and however many they are (runtime-adapters.ts       *)
(* terminate).                                                                *)
THEOREM InTime == Spec => []SettlesInTime
<1>1. IInv => SettlesInTime
  BY CommandRunnerAssumption
  DEF IInv, Types, NotStarted, Deadlines, BeforeTimeout, BeforeKill, BeforeClose, SettlesInTime
<1> QED
  BY <1>1, Inductive, PTL

(* A terminated run that has settled leaves no member of its group behind.     *)
THEOREM NobodySurvives == Spec => []NoSurvivors
<1>1. IInv => NoSurvivors
  BY DEF IInv
<1> QED
  BY <1>1, Inductive, PTL

(* What a caller accepts is all that was written, by whoever held the pipes.   *)
THEOREM Complete == Spec => []AcceptedIsComplete
<1>1. IInv => AcceptedIsComplete
  <2>1. SUFFICES ASSUME IInv, settled = 0, ~timedOut, ~limitHit
                 PROVE  holders = {} /\ \A s \in Streams : kept[s] = wrote[s]
    BY DEF AcceptedIsComplete
  <2>2. holders = {} /\ \A s \in Streams : pipe[s] = 0
    BY <2>1 DEF IInv, Terminations, SettledForGood, Pending
  <2> QED
    BY <2>1, <2>2 DEF IInv, Types, Conserved
<1> QED
  BY <1>1, Inductive, PTL
================================================================================
