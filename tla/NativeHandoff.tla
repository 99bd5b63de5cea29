---------------------------- MODULE NativeHandoff ----------------------------
(***************************************************************************)
(* Native sign-in hand-offs: the listener's registry of single-use,        *)
(* expiring references, and the connections that ask for them.             *)
(*                                                                         *)
(* A preflight issues a reference and a recheck consumes it, each after    *)
(* its body was validated and one status read proved the runtime.  While   *)
(* it waits for the status, the connection is claimed: a request pipelined *)
(* behind it is rejected, and so is a request that arrives before the      *)
(* event-loop turn that lets the claim go.  A peer may close the           *)
(* connection at any time; the handler goes on without it.                 *)
(***************************************************************************)
EXTENDS Naturals, Sequences, FiniteSets

CONSTANTS
  Conns,        \* connection slots; a slot is reused by later connections
  MaxEntries,   \* references the registry holds
  Ttl,          \* lifetime of a reference, in ticks
  MaxTime,      \* bound: last tick of the clock
  MaxIssued     \* bound: references issued in a behavior

ASSUME NativeHandoffAssumption ==
  /\ {MaxEntries, Ttl} \subseteq Nat \ {0}
  /\ {MaxTime, MaxIssued} \subseteq Nat

VARIABLES
  now,
  handoffs,   \* the registry's Map; ids are drawn in insertion order
  issued,     \* history: the expiry of each reference issued, by its id
  accepted,   \* history: the references consumed, in order
  open, pc, op, claim,   \* one connection each, and its request
  peer,       \* a request parsed behind that one
  behind      \* history: whether the request ahead of peer was validated

registry == <<handoffs, issued, accepted>>
connection == <<open, pc, op, claim, peer, behind>>
vars == <<now, registry, connection>>

Ids == 1 .. MaxIssued
Preflight == [ask |-> "preflight", id |-> 0]
Ops == {Preflight} \cup [ask : {"recheck"}, id : Ids]

Init ==
  /\ now = 0 /\ handoffs = {} /\ issued = <<>> /\ accepted = <<>>
  /\ open = [c \in Conns |-> TRUE] /\ pc = [c \in Conns |-> "idle"]
  /\ op = [c \in Conns |-> Preflight]
  /\ claim = [c \in Conns |-> "none"]
  /\ peer = [c \in Conns |-> "none"] /\ behind = [c \in Conns |-> FALSE]

(* nativeHandoffSockets has the connection; closing a socket removes it. *)
Marked(c) == open[c] /\ claim[c] # "none"

-------------------------------------------------------------------------------
(* The registry.                                                              *)

(* Mutant: a reference lives through its last instant. *)
PruneMutant(entries) == {h \in entries : h.exp >= now}
Prune(entries) == {h \in entries : h.exp > now}

(* Mutant: the newest reference makes room. *)
EvictMutant(entries) ==
  {h \in entries : Cardinality({g \in entries : g.id < h.id}) < MaxEntries - 1}
(* The first keys of the Map go until there is room for one more. *)
Evict(entries) ==
  {h \in entries : Cardinality({g \in entries : g.id > h.id}) < MaxEntries - 1}

Issue ==
  LET id == Len(issued) + 1 IN
  /\ id <= MaxIssued
  /\ handoffs' = Evict(Prune(handoffs)) \cup {[id |-> id, exp |-> now + Ttl]}
  /\ issued' = Append(issued, now + Ttl)
  /\ UNCHANGED accepted

Has(entries, id) == \E h \in entries : h.id = id
Without(entries, id) == {h \in entries : h.id # id}

Consume(id) ==
  /\ handoffs' = Without(Prune(handoffs), id)
  /\ accepted' = IF Has(Prune(handoffs), id) THEN Append(accepted, id) ELSE accepted
  /\ UNCHANGED issued

-------------------------------------------------------------------------------
(* A hand-off request on a connection.                                        *)

(* The connection goes; the close event of an owner's response is queued. *)
Shut(c) ==
  /\ open' = [open EXCEPT ![c] = FALSE]
  /\ claim' = [claim EXCEPT ![c] = IF @ = "owned" THEN "releasing" ELSE @]

(* A request finds the claim of the one before it: rejected, and closed. *)
ArriveClaimed(c) ==
  /\ Marked(c) /\ pc[c] = "idle" /\ peer[c] = "none"
  /\ Shut(c)
  /\ UNCHANGED <<now, registry, pc, op, peer, behind>>

Arrive(c, o) ==
  /\ open[c] /\ ~Marked(c) /\ pc[c] = "idle" /\ peer[c] = "none"
  /\ o.id <= Len(issued)
  /\ pc' = [pc EXCEPT ![c] = "body"] /\ op' = [op EXCEPT ![c] = o]
  /\ UNCHANGED <<now, registry, open, claim, peer, behind>>

(* Another request is parsed before this one is answered; it waits. *)
Pipeline(c) ==
  /\ open[c] /\ pc[c] # "idle" /\ peer[c] = "none"
  /\ peer' = [peer EXCEPT ![c] = "queued"]
  /\ behind' = [behind EXCEPT ![c] = claim[c] = "owned"]
  /\ UNCHANGED <<now, registry, open, pc, op, claim>>

(* Origin, content type, framing, or body: a fixed error.  So is the body of  *)
(* a connection that closed under it.                                         *)
Reject(c) ==
  /\ pc[c] = "body"
  /\ pc' = [pc EXCEPT ![c] = "idle"] /\ op' = [op EXCEPT ![c] = Preflight]
  /\ UNCHANGED <<now, registry, open, claim, peer, behind>>

Validate(c) ==
  /\ pc[c] = "body" /\ open[c]
  /\ pc' = [pc EXCEPT ![c] = "status"]
  /\ claim' = [claim EXCEPT ![c] = "owned"]
  /\ behind' = [behind EXCEPT ![c] = peer[c] = "queued"]
  /\ UNCHANGED <<now, registry, open, op, peer>>

Answer(c) ==
  /\ pc' = [pc EXCEPT ![c] = "idle"] /\ op' = [op EXCEPT ![c] = Preflight]
  /\ UNCHANGED <<now, open, claim, peer, behind>>

(* No status, or no evidence of a default openai connection in it. *)
ResolveUnproven(c) ==
  /\ pc[c] = "status"
  /\ Answer(c) /\ UNCHANGED registry

(* The registry changes whether or not anyone is left to be told. *)
ResolveProven(c) ==
  /\ pc[c] = "status"
  /\ IF op[c] = Preflight THEN Issue ELSE Consume(op[c].id)
  /\ Answer(c)

-------------------------------------------------------------------------------
(* The claim, and whoever queued behind it.                                   *)

(* The handler has returned: the peer starts in the same turn. *)
PeerDue(c) == pc[c] = "idle" /\ peer[c] = "queued"

PeerRejected(c) ==
  /\ PeerDue(c) /\ Marked(c)
  /\ peer' = [peer EXCEPT ![c] = "none"] /\ behind' = [behind EXCEPT ![c] = FALSE]
  /\ Shut(c)
  /\ UNCHANGED <<now, registry, pc, op>>

PeerRouted(c) ==
  /\ PeerDue(c) /\ ~Marked(c)
  /\ peer' = [peer EXCEPT ![c] = "routed"]
  /\ UNCHANGED <<now, registry, open, pc, op, claim, behind>>

PeerEnds(c) ==
  /\ peer[c] = "routed"
  /\ peer' = [peer EXCEPT ![c] = "none"] /\ behind' = [behind EXCEPT ![c] = FALSE]
  /\ UNCHANGED <<now, registry, open, pc, op, claim>>

(* The owner's response has been written out; a closed one never is. *)
Finish(c) ==
  /\ open[c] /\ pc[c] = "idle" /\ claim[c] = "owned"
  /\ claim' = [claim EXCEPT ![c] = "releasing"]
  /\ UNCHANGED <<now, registry, open, pc, op, peer, behind>>

(* Mutant: the claim goes with the finish event, before a peer had its turn. *)
ReleaseDueMutant(c) == claim[c] = "releasing"
(* setImmediate: the next turn comes after everything this one resolved. *)
ReleaseDue(c) == claim[c] = "releasing" /\ ~PeerDue(c)

(* Mutant: the turn finds the connection closed and returns early. *)
ReleasedMutant(c) == IF open[c] THEN "none" ELSE claim[c]
Released(c) == "none"

Release(c) ==
  /\ ReleaseDue(c)
  /\ claim' = [claim EXCEPT ![c] = Released(c)]
  /\ UNCHANGED <<now, registry, open, pc, op, peer, behind>>

(* The peer goes away, or the socket times out. *)
Close(c) ==
  /\ open[c]
  /\ Shut(c)
  /\ UNCHANGED <<now, registry, pc, op, peer, behind>>

Reopen(c) ==
  /\ ~open[c] /\ pc[c] = "idle" /\ peer[c] = "none" /\ claim[c] = "none"
  /\ open' = [open EXCEPT ![c] = TRUE]
  /\ UNCHANGED <<now, registry, pc, op, claim, peer, behind>>

Tick ==
  /\ now < MaxTime
  /\ now' = now + 1
  /\ UNCHANGED <<registry, connection>>

(* What the event loop, the body deadline and the status gate bring about. *)
Step(c) ==
  \/ Reject(c) \/ Validate(c) \/ ResolveUnproven(c) \/ ResolveProven(c)
  \/ PeerRejected(c) \/ PeerRouted(c) \/ PeerEnds(c)
  \/ Finish(c) \/ Release(c)

Next ==
  \/ Tick
  \/ \E c \in Conns :
       \/ ArriveClaimed(c) \/ Pipeline(c) \/ Close(c) \/ Reopen(c)
       \/ \E o \in Ops : Arrive(c, o)
       \/ Step(c)

Spec == Init /\ [][Next]_vars

(* Bodies have a one-second deadline, the status gate has its own, and the    *)
(* rest is what the event loop has already queued.                            *)
FairSpec == Spec /\ \A c \in Conns : WF_vars(Step(c))

-------------------------------------------------------------------------------
(* Properties.                                                                *)

(* However many rechecks of however many connections present it, a reference  *)
(* that was issued is accepted once, and only while it lives (prune before    *)
(* the lookup of consume).                                                    *)
AcceptedOnceInTime ==
  [][accepted' # accepted =>
       LET id == accepted'[Len(accepted')]
       IN /\ id \in DOMAIN issued /\ now < issued[id]
          /\ \A i \in DOMAIN accepted : accepted[i] # id]_vars

(* The registry never exceeds its bound, and a live reference nobody has used *)
(* is lost only to MaxEntries newer ones: neither an expired reference nor a  *)
(* recheck of another takes its place (issue evicts the first key of the Map, *)
(* after prune).                                                              *)
EvictsOldest ==
  /\ Cardinality(handoffs) <= MaxEntries
  /\ \A id \in DOMAIN issued :
       /\ now < issued[id]
       /\ \A i \in DOMAIN accepted : accepted[i] # id
       /\ Len(issued) - id < MaxEntries
       => Has(handoffs, id)

(* "A queued peer sees it before routing and is rejected": no request that    *)
(* was parsed behind a validated hand-off is routed on a connection that is   *)
(* still there (nativeHandoffSockets, connectionRequestTails).                *)
NoPeerBesideHandoff ==
  [][\A c \in Conns : peer[c] = "queued" /\ peer'[c] = "routed" /\ behind[c]
       => ~open[c]]_vars

(* Every claim is let go, whether the hand-off was answered, found no         *)
(* evidence, or lost its peer (releaseNativeHandoffSocket).                   *)
ClaimsAreReleased == \A c \in Conns : claim[c] # "none" ~> claim[c] = "none"
===============================================================================
