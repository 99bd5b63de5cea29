------------------------- MODULE OpenClawAdapter_proofs -------------------------
(***************************************************************************)
(* An applied receipt of the OpenClaw adapter is true, a quiet one ran     *)
(* nothing, and a delete removes the record that was named: for every set  *)
(* of accounts and agents and every script that fails, lies or hits        *)
(* another agent.                                                          *)
(***************************************************************************)
EXTENDS OpenClawAdapter, FiniteSetTheorems, FunctionTheorems, SequenceTheorems, TLAPS

Types ==
  /\ accounts \in Seq(Accounts)
  /\ snapshot.accounts \in Seq(Accounts)
  /\ before.accounts \in Seq(Accounts)
  /\ pc \in {"idle", "run", "fresh", "done"}

(* Nothing has run before a mutation begins, and no result is out before it ends. *)
Pending ==
  /\ pc = "idle" => ~acted /\ deleted = None
  /\ pc # "done" => result = "none"

(* What the mutation was asked to do. *)
Asked ==
  pc # "idle" => \/ op.action \in RouteActions /\ op.agent \in Agents
                 \/ op.action = "account.delete"

(* What it gave the native command was resolved from the status it read. *)
Resolved ==
  pc = "run" /\ op.action # "route.auto" =>
    arg # None /\ arg = Argument(before, op.action, op.target)

(* What is left to be proved by a fresh status is the reviewed change. *)
Confirmed ==
  pc = "fresh" => op.action \in RouteActions /\ arg = op.target /\ arg # None

(* No two records share a canonical id. *)
OneRecordPerId == \A r, s \in Accounts : Canon[r] = Canon[s] => r = s

IInv ==
  /\ Types
  /\ Pending
  /\ Asked
  /\ Resolved
  /\ Confirmed
  /\ AppliedHeld
  /\ QuietResultsRanNothing
  /\ OneRecordPerId => DeletesTheNamed


-------------------------------------------------------------------------------
(* Statuses.                                                                  *)

LEMMA RemoveAtType ==
  ASSUME NEW S, NEW s \in Seq(S), NEW i \in DOMAIN s
  PROVE  RemoveAt(s, i) \in Seq(S)
BY DEF RemoveAt

LEMMA ToSetOfSeq ==
  ASSUME NEW S, NEW s \in Seq(S)
  PROVE  ToSet(s) \subseteq S /\ IsFiniteSet(ToSet(s))
<1>1. ToSet(s) = {s[i] : i \in 1 .. Len(s)}
  BY DEF ToSet
<1>2. IsFiniteSet(1 .. Len(s))
  BY FS_Interval
<1>3. s \in Surjection(1 .. Len(s), ToSet(s))
  BY <1>1 DEF Surjection
<1> QED
  BY <1>1, <1>2, <1>3, FS_Surjection

LEMMA FirstIsLead ==
  ASSUME NEW ids, NEW S, NEW p, p # None, First(ids, S) = p
  PROVE  \E i \in DOMAIN ids :
           ids[i] = p /\ p \in S /\ \A j \in 1 .. i - 1 : ids[j] \notin S
<1>1. Leads(ids, S) # {} /\ p = ids[CHOOSE i \in Leads(ids, S) : TRUE]
  BY DEF First
<1>2. PICK i \in Leads(ids, S) : p = ids[i]
  BY <1>1
<1> QED
  BY <1>2 DEF Leads

LEMMA StatusTypes ==
  ASSUME accounts \in Seq(Accounts)
  PROVE  /\ \A v \in {NoStatus} \cup Views : v.accounts \in Seq(Accounts)
         /\ Types => \A v \in Readable : v.accounts \in Seq(Accounts)
<1>1. \A v \in Views : v.accounts \in Seq(Accounts)
  BY DEF Views, View
<1>2. NoStatus.accounts \in Seq(Accounts)
  BY DEF NoStatus
<1> QED
  BY <1>1, <1>2 DEF Readable, Types

(* A verified status is the confirmed agent's, and shows the change.          *)
LEMMA VerifiedIsTrue ==
  ASSUME op.agent \in Agents, arg = op.target, arg # None,
         NEW raw \in Fresh, Verified(raw, arg)
  PROVE  AsConfirmed
<1> DEFINE r == route[op.agent]
           ids == Ids(accounts)
           connected == {Canon[x] : x \in ToSet(accounts)}
           listed == Ids(IF r.order = <<>> THEN accounts ELSE r.order)
           first == First(listed, connected)
           pinned == r.lead # None /\ Canon[r.lead] \in connected
           active == IF pinned THEN Canon[r.lead]
                     ELSE IF first # None THEN first ELSE First(ids, connected)
<1>1. raw = View(op.agent, op.agent)
  <2>1. raw.scope = op.agent
    BY DEF Verified, Normalize
  <2>2. op.agent # None
    BY OpenClawAdapterAssumption DEF OpenClawAdapterAssumption
  <2> QED
    BY <2>1, <2>2 DEF Fresh, Views, View
<1>2. raw.accounts = accounts /\ raw.order = r.order /\ raw.lead = r.lead
  BY <1>1 DEF View
<1>3. ToSet(ids) = connected
  BY DEF Ids, ToSet
<1>4. listed = IF r.order = <<>> THEN ids ELSE Ids(r.order)
  OBVIOUS
<1>5. /\ Normalize(raw).order = ToSet(listed) \cap connected
      /\ Normalize(raw).first = first
      /\ Normalize(raw).active = active
  BY <1>2, <1>3, <1>4 DEF Normalize
<1> HIDE DEF ids, connected, listed, first, pinned, active
<1>6. CASE op.action = "route.remove"
  <2>1. arg \notin ToSet(listed) \cap connected /\ active # arg
    BY <1>5, <1>6 DEF Verified
  <2>2. op.target \in connected =>
          op.target \notin ToSet(listed) /\ (pinned => Canon[r.lead] # op.target)
    BY <2>1 DEF active
  <2> QED
    BY <2>2, <1>6 DEF AsConfirmed, connected, listed, pinned
<1>7. CASE op.action # "route.remove"
  <2>1. first = arg /\ active = arg
    BY <1>5, <1>7 DEF Verified
  <2>2. \E i \in DOMAIN listed : /\ listed[i] = arg /\ arg \in connected
                                 /\ \A j \in 1 .. i - 1 : listed[j] \notin connected
    BY <2>1, FirstIsLead DEF first
  <2>3. pinned => Canon[r.lead] = op.target
    BY <2>1 DEF active
  <2> QED
    BY <2>2, <2>3, <1>7 DEF AsConfirmed, connected, listed, pinned
<1> QED
  BY <1>6, <1>7


-------------------------------------------------------------------------------
(* Targets.                                                                   *)

(* A resolved delete target is the id of the one record the target names.     *)
LEMMA DeleteTargetNames ==
  ASSUME Types, OneRecordPerId, NEW t, DeleteTarget(before, t) # None,
         NEW r \in Accounts, Canon[r] = DeleteTarget(before, t)
  PROVE  /\ t \in {Canon[r], Email[r]}
         /\ \A x \in ToSet(before.accounts) :
              t \in {Canon[x], Email[x]} => Canon[x] = Canon[r]
<1> DEFINE all == ToSet(before.accounts)
           matches == {x \in Claims(before) : t \in {Canon[x], Email[x]}}
<1>1. all \subseteq Accounts /\ IsFiniteSet(all)
  BY ToSetOfSeq DEF Types
<1>2. Claims(before) = all
  <2>1. \A k \in DOMAIN before.accounts : before.accounts[k] \in Accounts
    BY DEF Types
  <2>2. DOMAIN before.accounts = 1 .. Len(before.accounts) /\ Len(before.accounts) \in Nat
    BY DEF Types
  <2>3. \A k \in DOMAIN before.accounts : \A j \in 1 .. k - 1 : j \in DOMAIN before.accounts
    BY <2>2
  <2>4. {k \in DOMAIN before.accounts : \A j \in 1 .. k - 1 :
           Canon[before.accounts[j]] = Canon[before.accounts[k]] =>
             before.accounts[j] = before.accounts[k]} = DOMAIN before.accounts
    BY <2>1, <2>3 DEF OneRecordPerId
  <2> QED
    BY <2>4 DEF Claims, ToSet
<1>3. Exact(matches) /\ DeleteTarget(before, t) = Canon[CHOOSE x \in matches : TRUE]
  BY DEF DeleteTarget
<1>4. IsFiniteSet(matches)
  BY <1>1, <1>2, FS_Subset
<1>5. PICK m : matches = {m}
  BY <1>3, <1>4, FS_Singleton DEF Exact
<1>6. m \in Accounts /\ Canon[m] = Canon[r]
  BY <1>1, <1>2, <1>3, <1>5
<1>7. m = r
  BY <1>6 DEF OneRecordPerId
<1> QED
  BY <1>2, <1>5, <1>7

(* A target that is not the selector's own choice is the reviewed one.        *)
LEMMA ArgumentIsTarget ==
  ASSUME Resolved, pc = "run", op.action \in RouteActions, op.action # "route.auto"
  PROVE  arg = op.target /\ arg # None
BY DEF Resolved, Argument, RouteTarget, RouteActions

-------------------------------------------------------------------------------
(* The invariant.                                                             *)

LEMMA InitInv == Init => IInv
<1> SUFFICES ASSUME Init PROVE IInv
  OBVIOUS
<1>1. Types
  <2>1. accounts \in Seq(Accounts)
    BY OpenClawAdapterAssumption DEF OpenClawAdapterAssumption, Init
  <2>2. snapshot.accounts \in Seq(Accounts)
    BY <2>1, StatusTypes DEF Init
  <2> QED
    BY <2>1, <2>2 DEF Types, Init, NoStatus
<1> QED
  BY <1>1 DEF Init, IInv, Pending, Asked, Resolved, Confirmed, AppliedHeld,
     QuietResultsRanNothing, DeletesTheNamed

LEMMA UnreadableInv ==
  ASSUME IInv, NEW action, NEW t, NEW g, Unreadable(action, t, g),
         \/ action \in RouteActions /\ g \in Agents
         \/ action = "account.delete"
  PROVE  IInv'
<1>1. Types'
  BY DEF IInv, Types, Unreadable, Begin, Answer, world
<1> QED
  BY <1>1 DEF IInv, Pending, Asked, Resolved, Confirmed, AppliedHeld,
     QuietResultsRanNothing, DeletesTheNamed, Unreadable, Begin, Answer, world

LEMMA RefuseInv ==
  ASSUME IInv, NEW action, NEW t, NEW g, Refuse(action, t, g),
         \/ action \in RouteActions /\ g \in Agents
         \/ action = "account.delete"
  PROVE  IInv'
<1>1. Types'
  BY StatusTypes DEF IInv, Types, Refuse, Begin, Answer, world
<1> QED
  BY <1>1 DEF IInv, Pending, Asked, Resolved, Confirmed, AppliedHeld,
     QuietResultsRanNothing, DeletesTheNamed, Refuse, Begin, Answer, world

LEMMA InvokeInv ==
  ASSUME IInv, NEW action, NEW t, NEW g, Invoke(action, t, g),
         \/ action \in RouteActions /\ g \in Agents
         \/ action = "account.delete"
  PROVE  IInv'
<1>1. Types'
  BY StatusTypes DEF IInv, Types, Invoke, Begin, world
<1>2. op' = [action |-> action, target |-> t, agent |-> g] /\ pc' = "run"
  BY DEF Invoke, Begin
<1>3. Resolved'
  BY <1>2 DEF Resolved, Invoke
<1> QED
  BY <1>1, <1>2, <1>3 DEF IInv, Pending, Asked, Confirmed, AppliedHeld,
     QuietResultsRanNothing, DeletesTheNamed, Invoke, Begin, world


LEMMA NativeRoutesInv ==
  ASSUME IInv, NativeRoutes
  PROVE  IInv'
<1>1. Types'
  BY DEF IInv, Types, NativeRoutes
<1> QED
  BY <1>1 DEF IInv, Pending, Asked, Resolved, Confirmed, AppliedHeld, Argument, RouteTarget,
     DeleteTarget, QuietResultsRanNothing, DeletesTheNamed, NativeRoutes

LEMMA NativeDeletesInv ==
  ASSUME IInv, NativeDeletes
  PROVE  IInv'
<1>1. PICK i \in DOMAIN accounts :
        /\ IF arg \in ToSet(accounts) THEN accounts[i] = arg ELSE Canon[accounts[i]] = arg
        /\ accounts' = RemoveAt(accounts, i)
        /\ deleted' = accounts[i]
  BY DEF NativeDeletes
<1> DEFINE r == accounts[i]
<1>2. UNCHANGED <<snapshot, pc, op, before, arg, held, result>> /\ pc = "run"
      /\ op.action = "account.delete"
  BY DEF NativeDeletes
<1>3. Types'
  BY <1>1, <1>2, RemoveAtType DEF IInv, Types
<1>4. ASSUME OneRecordPerId PROVE DeletesTheNamed'
  <2>1. arg # None /\ arg = DeleteTarget(before, op.target)
    BY <1>2 DEF IInv, Resolved, Argument
  <2>2. ToSet(accounts) \subseteq Accounts /\ r \in Accounts
    BY ToSetOfSeq DEF IInv, Types
  <2>3. arg \in Profiles
    <3> DEFINE matches == {x \in Claims(before) : op.target \in {Canon[x], Email[x]}}
    <3>0. Exact(matches) /\ arg = Canon[CHOOSE x \in matches : TRUE]
      BY <2>1 DEF DeleteTarget
    <3>1. PICK x \in Claims(before) : arg = Canon[x]
      <4>1. matches # {}
        BY <3>0, FS_EmptySet DEF Exact
      <4>2. PICK x \in matches : arg = Canon[x]
        BY <3>0, <4>1
      <4> QED
        BY <4>2
    <3>2. Claims(before) \subseteq Accounts
      BY DEF Claims, IInv, Types
    <3> QED
      BY <3>1, <3>2 DEF Profiles
  <2>4. Canon[r] = arg
    BY <1>1, <2>2, <2>3, OpenClawAdapterAssumption DEF OpenClawAdapterAssumption
  <2>5. /\ op.target \in {Canon[r], Email[r]}
        /\ \A x \in ToSet(before.accounts) :
             op.target \in {Canon[x], Email[x]} => Canon[x] = Canon[r]
    BY <1>4, <2>1, <2>2, <2>4, DeleteTargetNames DEF IInv
  <2> QED
    BY <1>1, <1>2, <2>5 DEF DeletesTheNamed
<1>5. Resolved'
  BY <1>2 DEF IInv, Resolved, Argument, RouteTarget, DeleteTarget
<1> QED
  BY <1>2, <1>3, <1>4, <1>5 DEF IInv, Pending, Asked, Confirmed, AppliedHeld,
     QuietResultsRanNothing, OneRecordPerId, RouteActions

LEMMA NativeFailsInv ==
  ASSUME IInv, NativeFails
  PROVE  IInv'
<1>1. Types'
  BY DEF IInv, Types, NativeFails, RouteFailure, Answer, world
<1> QED
  BY <1>1 DEF IInv, Pending, Asked, Resolved, Confirmed, AppliedHeld,
     QuietResultsRanNothing, DeletesTheNamed, NativeFails, RouteFailure, Answer, world

LEMMA NativeEndsInv ==
  ASSUME IInv, NativeEnds
  PROVE  IInv'
<1>1. PICK event \in Events :
        IF op.action = "account.delete"
        THEN /\ event.action = op.action /\ event.profile = arg
             /\ UNCHANGED arg
             /\ IF acted THEN Answer("applied") ELSE RouteFailure
        ELSE IF Proves(event)
        THEN pc' = "fresh" /\ arg' = event.profile /\ UNCHANGED result
        ELSE RouteFailure /\ UNCHANGED arg
  BY DEF NativeEnds
<1>2. /\ UNCHANGED <<op, before, acted, deleted, held, snapshot, accounts, route>>
      /\ pc = "run" /\ result = "none"
  BY DEF NativeEnds, world, IInv, Pending
<1>3. CASE op.action # "account.delete" /\ Proves(event)
  <2>1. pc' = "fresh" /\ arg' = event.profile /\ result' = "none"
    BY <1>1, <1>2, <1>3
  <2>2. op.action \in RouteActions
    BY <1>2, <1>3 DEF IInv, Asked
  <2>3. event.profile \in Profiles /\ event.profile # None
    BY OpenClawAdapterAssumption DEF OpenClawAdapterAssumption, Events
  <2>4. event.profile = op.target
    BY <1>2, <1>3, <2>2, ArgumentIsTarget DEF Proves, IInv
  <2>5. Confirmed'
    BY <1>2, <2>1, <2>2, <2>3, <2>4 DEF Confirmed
  <2>6. Types'
    BY <1>2, <2>1 DEF IInv, Types
  <2> QED
    BY <1>2, <2>1, <2>5, <2>6 DEF IInv, Pending, Asked, Resolved, AppliedHeld,
       QuietResultsRanNothing, DeletesTheNamed, OneRecordPerId
<1>4. CASE ~(op.action # "account.delete" /\ Proves(event))
  <2>1. /\ pc' = "done" /\ result' \in {"applied", "unproven"}
        /\ result' = "applied" => op.action = "account.delete"
    BY <1>1, <1>4 DEF Answer, RouteFailure
  <2>2. Types'
    BY <1>2, <2>1 DEF IInv, Types
  <2> QED
    BY <1>2, <2>1, <2>2 DEF IInv, Pending, Asked, Resolved, Confirmed, AppliedHeld,
       QuietResultsRanNothing, DeletesTheNamed, OneRecordPerId, RouteActions
<1> QED
  BY <1>3, <1>4

LEMMA FreshReadInv ==
  ASSUME IInv, FreshRead
  PROVE  IInv'
<1>1. PICK raw \in Fresh : IF Verified(raw, arg) THEN Answer("applied") ELSE RouteFailure
  BY DEF FreshRead
<1>2. /\ UNCHANGED <<op, before, arg, acted, deleted, snapshot, accounts, route>>
      /\ pc = "fresh" /\ held' = AsConfirmed
  BY DEF FreshRead, world
<1>3. pc' = "done" /\ result' \in {"applied", "unproven"}
  BY <1>1 DEF Answer, RouteFailure
<1>4. op.action \in RouteActions /\ op.agent \in Agents /\ arg = op.target /\ arg # None
  BY <1>2 DEF IInv, Confirmed, Asked, RouteActions
<1>5. AppliedHeld'
  <2>1. result' = "applied" => Verified(raw, arg)
    BY <1>1 DEF Answer, RouteFailure
  <2> QED
    BY <1>2, <1>4, <2>1, VerifiedIsTrue DEF AppliedHeld
<1>6. Types'
  BY <1>2, <1>3 DEF IInv, Types
<1> QED
  BY <1>2, <1>3, <1>5, <1>6 DEF IInv, Pending, Asked, Resolved, Confirmed,
     QuietResultsRanNothing, DeletesTheNamed, OneRecordPerId

LEMMA FreshReadFailsInv ==
  ASSUME IInv, FreshReadFails
  PROVE  IInv'
<1>1. Types'
  BY DEF IInv, Types, FreshReadFails, RouteFailure, Answer, world
<1> QED
  BY <1>1 DEF IInv, Pending, Asked, Resolved, Confirmed, AppliedHeld,
     QuietResultsRanNothing, DeletesTheNamed, FreshReadFails, RouteFailure, Answer, world

(* What other surfaces and the sentinel do touches nothing a call has decided. *)
LEMMA OthersInv ==
  ASSUME IInv, UNCHANGED call, accounts' \in Seq(Accounts),
         snapshot'.accounts \in Seq(Accounts)
  PROVE  IInv'
<1>1. Types'
  BY DEF IInv, Types, call
<1>2. Resolved'
  BY DEF IInv, Resolved, Argument, RouteTarget, DeleteTarget, call
<1> QED
  BY <1>1, <1>2 DEF IInv, Pending, Asked, Confirmed, AppliedHeld,
     QuietResultsRanNothing, DeletesTheNamed, OneRecordPerId, call

LEMMA NextInv ==
  ASSUME IInv, [Next]_vars
  PROVE  IInv'
<1>1. ASSUME NEW t \in Targets, NEW g \in Agents, NEW action \in RouteActions,
             Unreadable(action, t, g) \/ Refuse(action, t, g) \/ Invoke(action, t, g)
      PROVE  IInv'
  BY <1>1, UnreadableInv, RefuseInv, InvokeInv
<1>2. ASSUME NEW t \in Targets,
             \/ Unreadable("account.delete", t, None)
             \/ Refuse("account.delete", t, None)
             \/ Invoke("account.delete", t, None)
      PROVE  IInv'
  BY <1>2, UnreadableInv, RefuseInv, InvokeInv
<1>3. CASE NativeRoutes \/ NativeDeletes \/ NativeFails \/ NativeEnds
           \/ FreshRead \/ FreshReadFails
  BY <1>3, NativeRoutesInv, NativeDeletesInv, NativeFailsInv, NativeEndsInv, FreshReadInv,
     FreshReadFailsInv
<1>4. ASSUME NEW g \in Agents, NEW r \in Accounts, Reroute(g, r)
      PROVE  IInv'
  BY <1>4, OthersInv DEF Reroute, Change, IInv, Types
<1>5. ASSUME NEW r \in Accounts, Connect(r)
      PROVE  IInv'
  <2>1. accounts' \in Seq(Accounts)
    <3>1. accounts \in Seq(Accounts) /\ <<r>> \in Seq(Accounts)
      BY DEF IInv, Types
    <3>2. Append(accounts, r) \in Seq(Accounts) /\ <<r>> \o accounts \in Seq(Accounts)
      BY <3>1, AppendProperties, ConcatProperties
    <3> QED
      BY <1>5, <3>2 DEF Connect
  <2> QED
    BY <1>5, <2>1, OthersInv DEF Connect, Change, IInv, Types
<1>6. ASSUME NEW r \in Accounts, Disconnect(r)
      PROVE  IInv'
  <2>1. accounts' \in Seq(Accounts)
    BY <1>6, RemoveAtType DEF Disconnect, IInv, Types
  <2> QED
    BY <1>6, <2>1, OthersInv DEF Disconnect, Change, IInv, Types
<1>7. CASE PublishSnapshot
  BY <1>7, StatusTypes, OthersInv DEF PublishSnapshot, world, IInv, Types
<1>8. CASE UNCHANGED vars
  BY <1>8, OthersInv DEF vars, call, IInv, Types
<1> QED
  BY <1>1, <1>2, <1>3, <1>4, <1>5, <1>6, <1>7, <1>8 DEF Next

THEOREM Inductive == Spec => []IInv
BY InitInv, NextInv, PTL DEF Spec

-------------------------------------------------------------------------------
(* Whatever the native script did, claimed or chose, and whoever else was     *)
(* rerouting: an applied receipt of a route action was true of the confirmed  *)
(* agent when its fresh status was printed (applyRoute).                      *)
THEOREM AppliedIsHeld == Spec => []AppliedHeld
<1>1. IInv => AppliedHeld
  BY DEF IInv
<1> QED
  BY <1>1, Inductive, PTL

(* A blocked call, and one that threw, had not run the native command         *)
(* (blocked, routeFailure, deleteFailure).                                    *)
THEOREM QuietRanNothing == Spec => []QuietResultsRanNothing
<1>1. IInv => QuietResultsRanNothing
  BY DEF IInv
<1> QED
  BY <1>1, Inductive, PTL

(* Where no two records share a canonical id, the native delete removes only  *)
(* what the target names, and names alone (resolveExactDeleteTarget).         *)
THEOREM NamedAreDeleted ==
  ASSUME OneRecordPerId
  PROVE  Spec => []DeletesTheNamed
<1>1. IInv => DeletesTheNamed
  BY OneRecordPerId DEF IInv
<1> QED
  BY <1>1, Inductive, PTL
================================================================================
