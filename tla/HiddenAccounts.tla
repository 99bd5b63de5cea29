---------------------------- MODULE HiddenAccounts ----------------------------
(***************************************************************************)
(* What the local account preferences promise, with no lock and no file:   *)
(* one set of hidden account references per scope.  A call takes effect at *)
(* one instant between its start and its answer, on its own scope alone;   *)
(* an answer shows the scope as it was at that instant; a call that is     *)
(* told of a failure took effect once or not at all.                       *)
(***************************************************************************)

CONSTANTS Procs,    \* requests in flight
          Scopes,   \* runtime and scope keys
          Refs      \* account references

VARIABLES hidden,   \* hidden[s]: the references hidden in scope s
          call,     \* call[p]: what p asked last
          stage,    \* stage[p]: idle, asked, or done and not yet answered
          reply     \* reply[p]: what p is told

vars == <<hidden, call, stage, reply>>

Calls == [op : {"hide", "restore"}, scope : Scopes, ref : Refs]
           \cup [op : {"view"}, scope : Scopes]
Waiting == [says |-> "waiting", view |-> {}]
Failed == [says |-> "failed", view |-> {}]
View(refs) == [says |-> "view", view |-> refs]

(* What call c leaves of the references hidden in its scope.                  *)
Applied(c, refs) ==
  IF c.op = "hide" THEN refs \cup {c.ref}
  ELSE IF c.op = "restore" THEN refs \ {c.ref} ELSE refs

Init ==
  /\ hidden \in [Scopes -> SUBSET Refs]
  /\ call \in [Procs -> Calls]
  /\ stage = [p \in Procs |-> "idle"]
  /\ reply = [p \in Procs |-> Failed]

Ask(p, c) ==
  /\ stage[p] = "idle"
  /\ call' = [call EXCEPT ![p] = c]
  /\ stage' = [stage EXCEPT ![p] = "asked"]
  /\ reply' = [reply EXCEPT ![p] = Waiting]
  /\ UNCHANGED hidden

TakeEffect(p) ==
  LET after == Applied(call[p], hidden[call[p].scope]) IN
  /\ stage[p] = "asked"
  /\ hidden' = [hidden EXCEPT ![call[p].scope] = after]
  /\ \/ /\ stage' = [stage EXCEPT ![p] = "done"]
        /\ reply' = [reply EXCEPT ![p] = View(after)]
     \/ /\ stage' = [stage EXCEPT ![p] = "idle"]
        /\ reply' = [reply EXCEPT ![p] = Failed]
  /\ UNCHANGED call

Fail(p) ==
  /\ stage[p] # "idle"
  /\ stage' = [stage EXCEPT ![p] = "idle"]
  /\ reply' = [reply EXCEPT ![p] = Failed]
  /\ UNCHANGED <<hidden, call>>

Return(p) ==
  /\ stage[p] = "done"
  /\ stage' = [stage EXCEPT ![p] = "idle"]
  /\ UNCHANGED <<hidden, call, reply>>

(* Every step moves the stage of the call it is of.                           *)
Next ==
  \E p \in Procs :
    /\ stage'[p] # stage[p]
    /\ \/ \E c \in Calls : Ask(p, c)
       \/ TakeEffect(p) \/ Fail(p) \/ Return(p)

Spec == Init /\ [][Next]_vars
===============================================================================
