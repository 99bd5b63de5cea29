-------------------------- MODULE NativeHandoff_proofs --------------------------
(***************************************************************************)
(* Proofs about NativeHandoff, for any connections, any size of the        *)
(* registry, any lifetime of its references, and any bounds.               *)
(***************************************************************************)
EXTENDS NativeHandoff, FiniteSetTheorems, SequenceTheorems, TLAPS

Types ==
  /\ now \in Nat
  /\ issued \in Seq(Nat) /\ accepted \in Seq(Nat)
  /\ open \in [Conns -> BOOLEAN]
  /\ pc \in [Conns -> {"idle", "body", "status"}]
  /\ op \in [Conns -> Ops]
  /\ claim \in [Conns -> {"none", "owned", "releasing"}]
  /\ peer \in [Conns -> {"none", "queued", "routed"}]
  /\ behind \in [Conns -> BOOLEAN]

(* The registry holds references that were issued, as they were issued, and   *)
(* that nobody has used.                                                      *)
Unused(id) == \A i \in DOMAIN accepted : accepted[i] # id
Registered ==
  /\ IsFiniteSet(handoffs)
  /\ \A h \in handoffs :
       /\ h = [id |-> h.id, exp |-> h.exp]
       /\ h.id \in DOMAIN issued /\ h.exp = issued[h.id]
       /\ Unused(h.id)

UsedWereIssued == \A i \in DOMAIN accepted : accepted[i] \in DOMAIN issued

(* On a connection that is still there, a request is claimed as soon as it is *)
(* validated, and no claim of an earlier one is left by then.                 *)
ClaimOfRequest ==
  \A c \in Conns : open[c] =>
    /\ pc[c] = "body" => claim[c] = "none"
    /\ pc[c] = "status" => claim[c] = "owned"

(* Whoever queues behind a validated request is ahead of the release of its   *)
(* claim.                                                                     *)
PeersSeeTheClaim ==
  \A c \in Conns : open[c] /\ peer[c] = "queued" /\ behind[c] => claim[c] # "none"

IInv ==
  /\ Types /\ Registered /\ UsedWereIssued /\ EvictsOldest
  /\ ClaimOfRequest /\ PeersSeeTheClaim

-------------------------------------------------------------------------------
(* The registry.                                                              *)

Newer(entries, h) == {g \in entries : g.id > h.id}

(* A registry keeps less than its bound before one more is added: of those    *)
(* kept, each has another number of newer ones.                               *)
LEMMA EvictBound ==
  ASSUME NEW entries, IsFiniteSet(entries),
         \A h \in entries : h.id \in Nat,
         \A g, h \in entries : g.id = h.id => g = h
  PROVE  /\ IsFiniteSet(Evict(entries)) /\ Cardinality(Evict(entries)) \in Nat
         /\ Cardinality(Evict(entries)) < MaxEntries
<1> DEFINE kept == Evict(entries)
           ranks == 0 .. MaxEntries - 2
           rank == [h \in kept |-> Cardinality(Newer(entries, h))]
<1>0. MaxEntries \in Nat \ {0}
  BY NativeHandoffAssumption
<1>1. kept \subseteq entries
  BY DEF Evict
<1>2. ASSUME NEW h \in kept
      PROVE  /\ IsFiniteSet(Newer(entries, h))
             /\ Cardinality(Newer(entries, h)) \in ranks
  <2>1. IsFiniteSet(Newer(entries, h))
    BY FS_Subset DEF Newer
  <2>2. Cardinality(Newer(entries, h)) \in Nat
    BY <2>1, FS_CardinalityType
  <2>3. Cardinality(Newer(entries, h)) < MaxEntries - 1
    BY DEF Evict, Newer
  <2> QED
    BY <2>1, <2>2, <2>3, <1>0
<1>3. ASSUME NEW g \in kept, NEW h \in kept, g.id < h.id
      PROVE  rank[g] # rank[h]
  <2>1. Newer(entries, h) \in SUBSET Newer(entries, g)
    BY <1>1, <1>3 DEF Newer
  <2>2. h \in Newer(entries, g) /\ h \notin Newer(entries, h)
    BY <1>1, <1>3 DEF Newer
  <2>3. Cardinality(Newer(entries, g)) # Cardinality(Newer(entries, h))
    BY <1>2, <2>1, <2>2, FS_Subset
  <2> QED
    BY <2>3
<1>4. \A g, h \in kept : g # h => rank[g] # rank[h]
  <2> SUFFICES ASSUME NEW g \in kept, NEW h \in kept, g # h PROVE rank[g] # rank[h]
    OBVIOUS
  <2>1. g.id < h.id \/ h.id < g.id
    BY <1>1
  <2> QED
    BY <2>1, <1>3
<1>5. rank \in Injection(kept, ranks)
  <2>1. rank \in [kept -> ranks]
    BY <1>2
  <2> HIDE DEF rank
  <2> QED
    BY <1>4, <2>1 DEF Injection, IsInjective
<1>6. IsFiniteSet(ranks) /\ Cardinality(ranks) < MaxEntries
  <2>1. IsFiniteSet(ranks) /\ Cardinality(ranks) = IF 0 > MaxEntries - 2 THEN 0 ELSE MaxEntries - 2 - 0 + 1
    BY <1>0, FS_Interval
  <2> QED
    BY <1>0, <2>1
<1>7. IsFiniteSet(kept) /\ Cardinality(kept) <= Cardinality(ranks)
  <2> HIDE DEF rank, kept, ranks
  <2> QED
    BY <1>5, <1>6, FS_Injection
<1>8. Cardinality(kept) \in Nat /\ Cardinality(ranks) \in Nat
  BY <1>6, <1>7, FS_CardinalityType
<1> QED
  BY <1>0, <1>6, <1>7, <1>8

(* A reference with few newer ones is not evicted.                            *)
LEMMA EvictKeepsNewest ==
  ASSUME NEW entries, NEW last \in Nat, NEW h \in entries,
         \A g \in entries : g.id \in 1 .. last,
         \A g, k \in entries : g.id = k.id => g = k,
         last - h.id < MaxEntries - 1
  PROVE  h \in Evict(entries)
<1> DEFINE newer == Newer(entries, h)
           ids == h.id + 1 .. last
           name == [g \in newer |-> g.id]
<1>1. h.id \in Nat /\ h.id <= last
  OBVIOUS
<1>2. name \in Injection(newer, ids)
  <2>1. name \in [newer -> ids]
    BY DEF Newer
  <2>2. \A g, k \in newer : g # k => name[g] # name[k]
    BY DEF Newer
  <2> HIDE DEF name
  <2> QED
    BY <2>1, <2>2 DEF Injection, IsInjective
<1>3. IsFiniteSet(ids) /\ Cardinality(ids) = IF h.id + 1 > last THEN 0 ELSE last - (h.id + 1) + 1
  <2>1. h.id + 1 \in Int /\ last \in Int
    BY <1>1
  <2> QED
    BY <2>1, FS_Interval
<1>4. IsFiniteSet(newer) /\ Cardinality(newer) <= Cardinality(ids)
  <2> HIDE DEF name, newer, ids
  <2> QED
    BY <1>2, <1>3, FS_Injection
<1>5. Cardinality(newer) \in Nat
  BY <1>4, FS_CardinalityType
<1>6. Cardinality(newer) < MaxEntries - 1
  BY <1>1, <1>3, <1>4, <1>5, NativeHandoffAssumption
<1> QED
  BY <1>6 DEF Evict, Newer

(* What is left of the registry once it is pruned.                            *)
LEMMA Pruning ==
  ASSUME Types, Registered
  PROVE  /\ IsFiniteSet(Prune(handoffs))
         /\ Prune(handoffs) \subseteq handoffs
         /\ \A h \in Prune(handoffs) : h.id \in 1 .. Len(issued) /\ h.exp > now
         /\ \A g, h \in Prune(handoffs) : g.id = h.id => g = h
<1>1. Prune(handoffs) \in SUBSET handoffs
  BY DEF Prune
<1>2. IsFiniteSet(Prune(handoffs))
  BY <1>1, FS_Subset DEF Registered
<1>3. DOMAIN issued = 1 .. Len(issued)
  BY LenProperties DEF Types
<1>4. \A h \in Prune(handoffs) : h.id \in 1 .. Len(issued) /\ h.exp > now
  BY <1>1, <1>3 DEF Prune, Registered
<1>5. \A g, h \in Prune(handoffs) : g.id = h.id => g = h
  BY <1>1 DEF Registered
<1> QED
  BY <1>1, <1>2, <1>4, <1>5

LEMMA IssueInv ==
  ASSUME IInv, Issue, now' = now
  PROVE  issued' \in Seq(Nat) /\ Registered' /\ EvictsOldest'
<1> DEFINE id == Len(issued) + 1
           fresh == [id |-> id, exp |-> now + Ttl]
           kept == Evict(Prune(handoffs))
<1>0. MaxEntries \in Nat \ {0} /\ Ttl \in Nat \ {0} /\ now \in Nat /\ issued \in Seq(Nat)
  BY NativeHandoffAssumption DEF IInv, Types
<1>1. /\ issued' \in Seq(Nat) /\ Len(issued) \in Nat /\ Len(issued') = id
      /\ DOMAIN issued = 1 .. Len(issued) /\ DOMAIN issued' = 1 .. id
      /\ issued'[id] = now + Ttl
      /\ \A i \in DOMAIN issued : issued'[i] = issued[i]
  BY <1>0, AppendProperties, LenProperties DEF Issue
<1>2. handoffs' = kept \cup {fresh} /\ accepted' = accepted
  BY DEF Issue
<1>3. /\ IsFiniteSet(Prune(handoffs)) /\ Prune(handoffs) \subseteq handoffs
      /\ \A h \in Prune(handoffs) : h.id \in 1 .. Len(issued) /\ h.exp > now
      /\ \A g, h \in Prune(handoffs) : g.id = h.id => g = h
  BY Pruning DEF IInv
<1>4. IsFiniteSet(kept) /\ Cardinality(kept) \in Nat /\ Cardinality(kept) < MaxEntries
  BY <1>1, <1>3, EvictBound
<1>5. kept \subseteq handoffs
  BY <1>3 DEF Evict
<1>6. IsFiniteSet(handoffs') /\ Cardinality(handoffs') <= MaxEntries
  <2>1. /\ IsFiniteSet(kept \cup {fresh})
        /\ Cardinality(kept \cup {fresh}) =
             IF fresh \in kept THEN Cardinality(kept) ELSE Cardinality(kept) + 1
    BY <1>4, FS_AddElement
  <2> QED
    BY <1>0, <1>2, <1>4, <2>1
<1>7. Registered'
  <2>1. ASSUME NEW h \in kept
        PROVE  /\ h = [id |-> h.id, exp |-> h.exp] /\ h.id \in DOMAIN issued'
               /\ h.exp = issued'[h.id] /\ Unused(h.id)'
    BY <1>1, <1>2, <1>5 DEF IInv, Registered, Unused
  <2>2. \A i \in DOMAIN accepted' : accepted'[i] # fresh.id
    BY <1>1, <1>2 DEF IInv, UsedWereIssued
  <2>3. /\ fresh = [id |-> fresh.id, exp |-> fresh.exp] /\ fresh.id \in DOMAIN issued'
        /\ fresh.exp = issued'[fresh.id]
    BY <1>1
  <2> QED
    BY <1>2, <1>6, <2>1, <2>2, <2>3 DEF Registered, Unused
<1>8. ASSUME NEW x \in DOMAIN issued', now < issued'[x], Unused(x)', Len(issued') - x < MaxEntries
      PROVE  Has(handoffs', x)
  <2>1. CASE x = id
    <3>1. fresh \in handoffs' /\ fresh.id = x
      BY <1>2, <2>1
    <3> QED
      BY <3>1 DEF Has
  <2>2. CASE x # id
    <3>1. x \in DOMAIN issued /\ now < issued[x] /\ Unused(x)
      BY <1>1, <1>2, <1>8, <2>2 DEF Unused
    <3>2. Len(issued) - x < MaxEntries - 1
      BY <1>0, <1>1, <1>8, <3>1
    <3>3. PICK h \in handoffs : h.id = x
      <4>1. Len(issued) - x < MaxEntries
        BY <1>0, <1>1, <3>1, <3>2
      <4>2. Has(handoffs, x)
        BY <3>1, <4>1 DEF IInv, EvictsOldest, Unused
      <4> QED
        BY <4>2 DEF Has
    <3>4. h \in Prune(handoffs)
      BY <1>0, <1>1, <3>1, <3>3 DEF IInv, Registered, Prune
    <3>5. h \in kept
      BY <1>1, <1>3, <3>2, <3>3, <3>4, EvictKeepsNewest
    <3> QED
      BY <1>2, <3>3, <3>5 DEF Has
  <2> QED
    BY <2>1, <2>2
<1>9. EvictsOldest'
  BY <1>6, <1>8 DEF EvictsOldest, Unused
<1> QED
  BY <1>1, <1>7, <1>9

(* What is accepted was in the registry, within its lifetime, and is gone     *)
(* from it then.                                                              *)
Accepts(id) ==
  /\ id \in DOMAIN issued /\ now < issued[id] /\ Unused(id)
  /\ accepted' = Append(accepted, id)
LEMMA Consuming ==
  ASSUME IInv, NEW id \in Ids, Consume(id)
  PROVE  /\ Accepts(id) \/ (accepted' = accepted /\ ~Has(Prune(handoffs), id))
         /\ \A h \in handoffs' : h \in handoffs /\ h.id # id
<1>1. CASE Has(Prune(handoffs), id)
  <2>1. PICK h \in handoffs : h.id = id /\ h.exp > now
    BY <1>1 DEF Has, Prune
  <2>2. h.id \in DOMAIN issued /\ h.exp = issued[h.id] /\ Unused(h.id)
    BY <2>1 DEF IInv, Registered
  <2>3. issued[h.id] \in Nat /\ now \in Nat
    BY <2>2, ElementOfSeq, LenProperties DEF IInv, Types
  <2> QED
    BY <1>1, <2>1, <2>2, <2>3 DEF Consume, Accepts, Without, Prune
<1>2. CASE ~Has(Prune(handoffs), id)
  BY <1>2 DEF Consume, Without, Prune
<1> QED
  BY <1>1, <1>2

LEMMA ConsumeInv ==
  ASSUME IInv, NEW id \in Ids, Consume(id), now' = now
  PROVE  accepted' \in Seq(Nat) /\ Registered' /\ UsedWereIssued' /\ EvictsOldest'
<1>0. /\ issued \in Seq(Nat) /\ accepted \in Seq(Nat) /\ now \in Nat
      /\ MaxEntries \in Nat /\ id \in Nat
  BY NativeHandoffAssumption DEF IInv, Types, Ids
<1>1. /\ Accepts(id) \/ (accepted' = accepted /\ ~Has(Prune(handoffs), id))
      /\ \A h \in handoffs' : h \in handoffs /\ h.id # id
  BY Consuming
<1>2. issued' = issued
  BY DEF Consume
<1>3. /\ Len(accepted) \in Nat
      /\ DOMAIN accepted = 1 .. Len(accepted)
      /\ Append(accepted, id) \in Seq(Nat)
      /\ DOMAIN Append(accepted, id) = 1 .. Len(accepted) + 1
      /\ Append(accepted, id)[Len(accepted) + 1] = id
      /\ \A i \in 1 .. Len(accepted) : Append(accepted, id)[i] = accepted[i]
  BY <1>0, AppendProperties, LenProperties
<1>4. Accepts(id) => \A i \in DOMAIN accepted : i \in DOMAIN accepted' /\ accepted'[i] = accepted[i]
  BY <1>3 DEF Accepts
<1>5. accepted' \in Seq(Nat)
  BY <1>0, <1>1, <1>3 DEF Accepts
<1>6. \A i \in DOMAIN accepted' :
        \/ i \in DOMAIN accepted /\ accepted'[i] = accepted[i]
        \/ Accepts(id) /\ accepted'[i] = id
  <2>1. CASE Accepts(id)
    BY <1>3, <2>1 DEF Accepts
  <2>2. CASE accepted' = accepted
    BY <2>2
  <2> QED
    BY <1>1, <2>1, <2>2
<1>7. UsedWereIssued'
  BY <1>2, <1>6 DEF UsedWereIssued, Accepts, IInv
<1>8. IsFiniteSet(handoffs') /\ Cardinality(handoffs') <= Cardinality(handoffs)
  <2>1. IsFiniteSet(handoffs) /\ handoffs' \in SUBSET handoffs
    BY <1>1 DEF IInv, Registered
  <2> QED
    BY <2>1, FS_Subset
<1>9. Registered'
  <2>1. ASSUME NEW h \in handoffs'
        PROVE  /\ h = [id |-> h.id, exp |-> h.exp] /\ h.id \in DOMAIN issued'
               /\ h.exp = issued'[h.id] /\ Unused(h.id)'
    BY <1>1, <1>2, <1>6 DEF IInv, Registered, Unused
  <2> QED
    BY <1>8, <2>1 DEF Registered
<1>10. ASSUME NEW x \in DOMAIN issued', now < issued'[x], Unused(x)', Len(issued') - x < MaxEntries
       PROVE  Has(handoffs', x)
  <2>1. Unused(x)
    BY <1>1, <1>4, <1>10 DEF Unused
  <2>2. Has(handoffs, x)
    BY <1>2, <1>10, <2>1 DEF IInv, EvictsOldest, Unused
  <2>3. PICK h \in handoffs : h.id = x
    BY <2>2 DEF Has
  <2>4. h \in Prune(handoffs)
    BY <1>2, <1>10, <2>3 DEF IInv, Registered, Prune
  <2>5. x # id
    <3>1. CASE Accepts(id)
      <4>1. accepted'[Len(accepted) + 1] = id /\ Len(accepted) + 1 \in DOMAIN accepted'
        BY <1>3, <3>1 DEF Accepts
      <4> QED
        BY <1>10, <4>1 DEF Unused
    <3>2. CASE ~Has(Prune(handoffs), id)
      BY <2>3, <2>4, <3>2 DEF Has
    <3> QED
      BY <1>1, <3>1, <3>2
  <2> QED
    BY <2>3, <2>4, <2>5 DEF Consume, Without, Has
<1>11. EvictsOldest'
  <2>1. Cardinality(handoffs) \in Nat /\ Cardinality(handoffs') \in Nat
    BY <1>8, FS_CardinalityType DEF IInv, Registered
  <2>2. Cardinality(handoffs') <= MaxEntries
    BY <1>0, <1>8, <2>1 DEF IInv, EvictsOldest
  <2> QED
    BY <1>10, <2>2 DEF EvictsOldest, Unused
<1> QED
  BY <1>5, <1>7, <1>9, <1>11

(* What a step that leaves the registry alone does to it in time.             *)
LEMMA TimePasses ==
  ASSUME IInv, UNCHANGED registry, now' \in Nat, now <= now'
  PROVE  /\ issued' \in Seq(Nat) /\ accepted' \in Seq(Nat)
         /\ Registered' /\ UsedWereIssued' /\ EvictsOldest'
<1> USE DEF registry
<1>1. issued' \in Seq(Nat) /\ accepted' \in Seq(Nat) /\ Registered' /\ UsedWereIssued'
  BY DEF IInv, Types, Registered, UsedWereIssued, Unused
<1>2. ASSUME NEW x \in DOMAIN issued, now' < issued[x]
      PROVE  now < issued[x]
  <2>1. issued[x] \in Nat /\ now \in Nat
    BY ElementOfSeq, LenProperties DEF IInv, Types
  <2> QED
    BY <1>2, <2>1
<1>3. EvictsOldest'
  BY <1>2 DEF IInv, EvictsOldest, Has
<1> QED
  BY <1>1, <1>3

LEMMA InitInv == Init => IInv
<1> SUFFICES ASSUME Init PROVE IInv
  OBVIOUS
<1>1. Types
  BY DEF Init, Types, Ops, Preflight
<1>2. DOMAIN issued = {} /\ DOMAIN accepted = {}
  BY DEF Init
<1>3. IsFiniteSet(handoffs) /\ Cardinality(handoffs) = 0
  BY FS_EmptySet DEF Init
<1>4. Registered /\ UsedWereIssued
  BY <1>2, <1>3 DEF Init, Registered, UsedWereIssued
<1>5. EvictsOldest
  BY <1>2, <1>3, NativeHandoffAssumption DEF EvictsOldest
<1>6. ClaimOfRequest /\ PeersSeeTheClaim
  BY DEF Init, ClaimOfRequest, PeersSeeTheClaim
<1> QED
  BY <1>1, <1>4, <1>5, <1>6 DEF IInv

-------------------------------------------------------------------------------
(* Connections.                                                               *)

ConnectionTypes ==
  /\ open \in [Conns -> BOOLEAN]
  /\ pc \in [Conns -> {"idle", "body", "status"}]
  /\ op \in [Conns -> Ops]
  /\ claim \in [Conns -> {"none", "owned", "releasing"}]
  /\ peer \in [Conns -> {"none", "queued", "routed"}]
  /\ behind \in [Conns -> BOOLEAN]
ConnectionInv == ConnectionTypes /\ ClaimOfRequest /\ PeersSeeTheClaim

LEMMA RequestsInv ==
  ASSUME ConnectionInv, NEW c \in Conns,
         \/ \E o \in Ops : Arrive(c, o)
         \/ ArriveClaimed(c) \/ Pipeline(c) \/ Reject(c) \/ Validate(c) \/ Answer(c)
  PROVE  ConnectionInv'
<1> USE DEF ConnectionInv
<1>1. CASE \E o \in Ops : Arrive(c, o)
  BY <1>1 DEF Arrive, Marked, ConnectionTypes, ClaimOfRequest, PeersSeeTheClaim
<1>2. CASE ArriveClaimed(c)
  BY <1>2 DEF ArriveClaimed, Shut, ConnectionTypes, ClaimOfRequest, PeersSeeTheClaim
<1>3. CASE Pipeline(c)
  BY <1>3 DEF Pipeline, ConnectionTypes, ClaimOfRequest, PeersSeeTheClaim
<1>4. CASE Reject(c) \/ Answer(c)
  BY <1>4 DEF Reject, Answer, Ops, ConnectionTypes, ClaimOfRequest, PeersSeeTheClaim
<1>5. CASE Validate(c)
  BY <1>5 DEF Validate, ConnectionTypes, ClaimOfRequest, PeersSeeTheClaim
<1> QED
  BY <1>1, <1>2, <1>3, <1>4, <1>5

LEMMA ClaimsInv ==
  ASSUME ConnectionInv, NEW c \in Conns,
         \/ PeerRejected(c) \/ PeerRouted(c) \/ PeerEnds(c)
         \/ Finish(c) \/ Release(c) \/ Close(c) \/ Reopen(c)
  PROVE  ConnectionInv'
<1> USE DEF ConnectionInv
<1>1. CASE PeerRejected(c)
  BY <1>1 DEF PeerRejected, Shut, ConnectionTypes, ClaimOfRequest, PeersSeeTheClaim
<1>2. CASE PeerRouted(c)
  BY <1>2 DEF PeerRouted, ConnectionTypes, ClaimOfRequest, PeersSeeTheClaim
<1>3. CASE Close(c)
  BY <1>3 DEF Close, Shut, ConnectionTypes, ClaimOfRequest, PeersSeeTheClaim
<1>4. CASE PeerEnds(c)
  BY <1>4 DEF PeerEnds, ConnectionTypes, ClaimOfRequest, PeersSeeTheClaim
<1>5. CASE Finish(c)
  BY <1>5 DEF Finish, ConnectionTypes, ClaimOfRequest, PeersSeeTheClaim
<1>6. CASE Reopen(c)
  BY <1>6 DEF Reopen, ConnectionTypes, ClaimOfRequest, PeersSeeTheClaim
<1>7. CASE Release(c)
  BY <1>7 DEF Release, ReleaseDue, Released, PeerDue, ConnectionTypes, ClaimOfRequest,
     PeersSeeTheClaim
<1> QED
  BY <1>1, <1>2, <1>3, <1>4, <1>5, <1>6, <1>7

(* A resolved status answers its request and changes the registry, or leaves  *)
(* both alone but for the answer.                                             *)
LEMMA ResolvingInv ==
  ASSUME IInv, NEW c \in Conns, ResolveProven(c)
  PROVE  IInv'
<1>1. Answer(c) /\ now' = now
  BY DEF ResolveProven, Answer
<1>2. ConnectionInv'
  BY <1>1, RequestsInv DEF IInv, Types, ConnectionInv, ConnectionTypes
<1>3. CASE op[c] = Preflight
  <2>1. Issue /\ accepted' = accepted
    BY <1>3 DEF ResolveProven, Issue
  <2>2. issued' \in Seq(Nat) /\ Registered' /\ EvictsOldest'
    BY <1>1, <2>1, IssueInv
  <2>3. UsedWereIssued'
    <3>1. Len(issued) \in Nat /\ DOMAIN issued = 1 .. Len(issued)
          /\ DOMAIN issued' = 1 .. Len(issued) + 1
      BY <2>1, AppendProperties, LenProperties DEF IInv, Types, Issue
    <3> QED
      BY <2>1, <3>1 DEF IInv, UsedWereIssued
  <2> QED
    BY <1>1, <1>2, <2>1, <2>2, <2>3 DEF IInv, Types, ConnectionInv, ConnectionTypes
<1>4. CASE op[c] # Preflight
  <2>1. op[c].id \in Ids /\ Consume(op[c].id)
    BY <1>4 DEF ResolveProven, IInv, Types, Ops
  <2>2. accepted' \in Seq(Nat) /\ Registered' /\ UsedWereIssued' /\ EvictsOldest'
    BY <1>1, <2>1, ConsumeInv
  <2>3. issued' = issued
    BY <2>1 DEF Consume
  <2> QED
    BY <1>1, <1>2, <2>2, <2>3 DEF IInv, Types, ConnectionInv, ConnectionTypes
<1> QED
  BY <1>3, <1>4

LEMMA NextInv == IInv /\ [Next]_vars => IInv'
<1> SUFFICES ASSUME IInv, [Next]_vars PROVE IInv'
  OBVIOUS
<1>1. now \in Nat /\ ConnectionInv
  BY DEF IInv, Types, ConnectionInv, ConnectionTypes
<1>2. ASSUME UNCHANGED registry, now' \in Nat, now <= now', ConnectionInv'
      PROVE  IInv'
  BY <1>2, TimePasses DEF IInv, Types, ConnectionInv, ConnectionTypes
<1>3. ASSUME UNCHANGED connection PROVE ConnectionInv'
  BY <1>1, <1>3 DEF connection, ConnectionInv, ConnectionTypes, ClaimOfRequest, PeersSeeTheClaim
<1>4. CASE Tick \/ UNCHANGED vars
  <2>1. UNCHANGED registry /\ UNCHANGED connection /\ (now' = now \/ now' = now + 1)
    BY <1>4 DEF Tick, vars
  <2> QED
    BY <1>1, <1>2, <1>3, <2>1
<1>5. ASSUME NEW c \in Conns, \/ ArriveClaimed(c) \/ Pipeline(c) \/ Close(c) \/ Reopen(c)
                              \/ \E o \in Ops : Arrive(c, o)
      PROVE  IInv'
  <2>1. ConnectionInv'
    BY <1>1, <1>5, RequestsInv, ClaimsInv
  <2>2. UNCHANGED registry /\ now' = now
    BY <1>5 DEF ArriveClaimed, Pipeline, Close, Reopen, Arrive, registry
  <2> QED
    BY <1>1, <1>2, <2>1, <2>2
<1>6. ASSUME NEW c \in Conns, Step(c), ~ResolveProven(c)
      PROVE  IInv'
  <2>1. ConnectionInv'
    BY <1>1, <1>6, RequestsInv, ClaimsInv DEF Step, ResolveUnproven
  <2>2. UNCHANGED registry /\ now' = now
    BY <1>6 DEF Step, Reject, Validate, ResolveUnproven, Answer, PeerRejected, PeerRouted,
       PeerEnds, Finish, Release, registry
  <2> QED
    BY <1>1, <1>2, <2>1, <2>2
<1> QED
  BY <1>4, <1>5, <1>6, ResolvingInv DEF Next

THEOREM Inductive == Spec => []IInv
BY InitInv, NextInv, PTL DEF Spec
-------------------------------------------------------------------------------
(* However many references are issued, expire and are used, the registry      *)
(* keeps to its bound and gives up the oldest only (native-auth-handoff.ts    *)
(* issue).                                                                    *)
THEOREM OldestGo == Spec => []EvictsOldest
<1>1. IInv => EvictsOldest
  BY DEF IInv
<1> QED
  BY <1>1, Inductive, PTL

(* A step that accepts a reference accepts it for the first time and in time, *)
(* however many connections present it (native-auth-handoff.ts consume).      *)
THEOREM OnceInTime == Spec => AcceptedOnceInTime
<1> DEFINE Once == accepted' # accepted =>
                     LET id == accepted'[Len(accepted')]
                     IN /\ id \in DOMAIN issued /\ now < issued[id]
                        /\ \A i \in DOMAIN accepted : accepted[i] # id
<1>1. IInv /\ [Next]_vars => [Once]_vars
  <2> SUFFICES ASSUME IInv, Next, accepted' # accepted PROVE Once
    BY DEF vars, registry
  <2>1. PICK c \in Conns : ResolveProven(c)
    BY DEF Next, Step, Tick, ArriveClaimed, Pipeline, Close, Reopen, Arrive, Reject, Validate,
       ResolveUnproven, PeerRejected, PeerRouted, PeerEnds, Finish, Release, registry
  <2>2. op[c].id \in Ids /\ Consume(op[c].id)
    BY <2>1 DEF ResolveProven, Issue, IInv, Types, Ops
  <2>3. Accepts(op[c].id)
    BY <2>2, Consuming
  <2>4. accepted'[Len(accepted')] = op[c].id
    BY <2>2, <2>3, AppendProperties, LenProperties DEF Accepts, IInv, Types, Ids
  <2> QED
    BY <2>3, <2>4 DEF Accepts, Unused
<1> QED
  BY <1>1, Inductive, PTL DEF Spec, AcceptedOnceInTime

(* A peer that queued behind a validated request is routed only once the      *)
(* connection is gone (server.ts nativeHandoffSockets).                       *)
THEOREM PeersStayOut == Spec => NoPeerBesideHandoff
<1> DEFINE StayOut == \A c \in Conns :
             peer[c] = "queued" /\ peer'[c] = "routed" /\ behind[c] => ~open[c]
<1>1. IInv /\ [Next]_vars => [StayOut]_vars
  <2> SUFFICES ASSUME IInv, Next, NEW c \in Conns,
                      peer[c] = "queued", peer'[c] = "routed", behind[c], open[c]
               PROVE  FALSE
    OBVIOUS
  <2>1. PeerRouted(c)
    BY DEF Next, Step, Tick, ArriveClaimed, Pipeline, Close, Reopen, Arrive, Reject, Validate,
       ResolveUnproven, ResolveProven, Answer, PeerRejected, PeerRouted, PeerEnds, Finish,
       Release, connection, IInv, Types
  <2> QED
    BY <2>1 DEF PeerRouted, Marked, IInv, PeersSeeTheClaim
<1> QED
  BY <1>1, Inductive, PTL DEF Spec, NoPeerBesideHandoff
================================================================================
