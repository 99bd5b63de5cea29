-------------------------- MODULE AtMostOnceMutation --------------------------
(***************************************************************************)
(* What the protected-mutation lifecycle promises about one idempotency    *)
(* key, with no lock, no file and no process: the key is bound to one      *)
(* request when it is accepted, the runtime is invoked at most once under  *)
(* it, and a terminal outcome is recorded at most once and never changes.  *)
(***************************************************************************)
EXTENDS Naturals, Sequences

CONSTANTS Keys,       \* idempotency keys
          Requests,   \* request digests
          Unbound     \* the binding of a key nobody has used

VARIABLES phase,   \* phase[k]: what is durable about k
          bound,   \* bound[k]: the request k was accepted for
          ran      \* ran[k]: the native invocations made under k, in order

vars == <<phase, bound, ran>>

Outcomes == {"applied", "failed"}

Init ==
  /\ phase = [k \in Keys |-> "none"]
  /\ bound = [k \in Keys |-> Unbound]
  /\ ran = [k \in Keys |-> <<>>]

Accept(k, r) ==
  /\ phase[k] = "none"
  /\ phase' = [phase EXCEPT ![k] = "pending"]
  /\ bound' = [bound EXCEPT ![k] = r]
  /\ UNCHANGED ran

Invoke(k) ==
  /\ phase[k] = "pending"
  /\ ran[k] = <<>>
  /\ ran' = [ran EXCEPT ![k] = <<bound[k]>>]
  /\ UNCHANGED <<phase, bound>>

Finish(k, outcome) ==
  /\ phase[k] = "pending"
  /\ outcome = "applied" => ran[k] # <<>>
  /\ phase' = [phase EXCEPT ![k] = outcome]
  /\ UNCHANGED <<bound, ran>>

Next ==
  \E k \in Keys :
    \/ \E r \in Requests : Accept(k, r)
    \/ Invoke(k)
    \/ \E outcome \in Outcomes : Finish(k, outcome)

Spec == Init /\ [][Next]_vars
===============================================================================
