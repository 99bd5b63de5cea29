---------------------------- MODULE GuidedAuth_proofs ----------------------------
(***************************************************************************)
(* Proofs about GuidedAuth, for any sets of requests and challenge keys,   *)
(* any expiries, any limits of the log and of the polls, and any bounds.   *)
(***************************************************************************)
EXTENDS GuidedAuth, SequenceTheorems, TLAPS

Labels == {"idle", "probe", "lock", "read", "sweep", "decide", "write", "release",
           "audit_lock", "audit_read", "audit_write", "audit_release"}
HoldsLock == {"read", "sweep", "decide", "write", "release"}
HoldsAuditLock == {"audit_read", "audit_write", "audit_release"}
HasRecord == {"audit_lock", "audit_read", "audit_write"}

Ends == {"cancelled", "completed", "failed"}
Challenge ==
  [id : Nat, key : Keys, status : {"pending", "expired"} \cup Ends, exp : Expiries]
Record ==
  [action : {"none", "cancel", "reauth"}, id : Nat \cup {Never}, says : {"none"} \cup Ends]
Answers == [says : {"none", "shown_expired"} \cup Ends, id : Nat \cup {Never}]

Types ==
  /\ now \in Nat /\ nextId \in Nat
  /\ challenges \subseteq Challenge
  /\ audits \in Seq(Record)
  /\ pc \in [Procs -> Labels] /\ call \in [Procs -> Calls]
  /\ arrived \in [Procs -> Nat] /\ tries \in [Procs -> Nat]
  /\ snap \in [Procs -> SUBSET Challenge]
  /\ log \in [Procs -> Seq(Record)]
  /\ due \in [Procs -> Record]
  /\ answer \in [Procs -> Answers]

(* Whoever is between mkdir and rm is the one the lock directory names.       *)
LocksHeld ==
  \A p \in Procs : /\ pc[p] \in HoldsLock => chLock = p
                   /\ pc[p] \in HoldsAuditLock => auditLock = p

(* A challenge file as it should be: ids are unique and were drawn, and at    *)
(* most one challenge of a key is live.                                       *)
Live(c) == Expired(c, now).status = "pending"
Tidy(set) ==
  /\ \A a \in set : a.id < nextId
  /\ \A a, b \in set : a.id = b.id => a = b
  /\ \A a, b \in set : a.key = b.key /\ Live(a) /\ Live(b) => a = b

(* A file that replaces another drops nothing and alters nothing that ended.  *)
Keeps(old, new) ==
  \A c \in old : \E d \in new :
    /\ d.id = c.id /\ d.key = c.key /\ d.exp = c.exp
    /\ c.status # "pending" => d = c

(* What a request holds while it holds a lock: what is in the file, or what   *)
(* may replace it; and on its way to the log, the record it owes.             *)
Holding(p) ==
  /\ pc[p] = "decide" => snap[p] = challenges
  /\ pc[p] \in {"sweep", "write"} => Tidy(snap[p]) /\ Keeps(challenges, snap[p])
  /\ pc[p] = "audit_write" => log[p] = audits
  /\ pc[p] \in HasRecord => due[p] # NoRecord

(* The file as a request that is about to write it will leave it.             *)
View(p) == IF pc[p] = "write" THEN snap[p] ELSE challenges

(* A challenge has ended, and as a record of it says.                         *)
EndedIn(set, id) == \E d \in set : d.id = id /\ d.status # "pending"
RecordedIn(set, record) ==
  \E d \in set : /\ d.id = record.id /\ d.status # "pending"
                 /\ record.action = "reauth" => d.status = record.says

(* Whoever was told to have ended a challenge, the file says that it ended.   *)
Told(p) == answer[p].says \in Ends => EndedIn(View(p), answer[p].id)

(* A record that is owed is of an ended challenge and in no one else's hands. *)
Owed(p) ==
  due[p] # NoRecord =>
    /\ RecordedIn(View(p), due[p])
    /\ \A i \in DOMAIN audits : audits[i].id # due[p].id
    /\ \A q \in Procs : due[q] # NoRecord /\ due[q].id = due[p].id => q = p

Logged ==
  /\ Len(audits) <= MaxRecords
  /\ \A i, j \in DOMAIN audits : audits[i].id = audits[j].id => i = j
  /\ \A i \in DOMAIN audits : RecordedIn(challenges, audits[i])

IInv ==
  /\ Types /\ LocksHeld /\ Tidy(challenges) /\ Logged
  /\ OneRequestEndsAChallenge
  /\ \A p \in Procs : Holding(p) /\ Told(p) /\ Owed(p)

-------------------------------------------------------------------------------
(* Operators.                                                                 *)

(* Expiry alters pending challenges only, and only their status.              *)
LEMMA Expiring ==
  ASSUME NEW c \in Challenge, NEW t \in Nat
  PROVE  /\ Expired(c, t) \in Challenge
         /\ Expired(c, t).id = c.id /\ Expired(c, t).key = c.key /\ Expired(c, t).exp = c.exp
         /\ c.status # "pending" => Expired(c, t) = c
         /\ Expired(c, t).status = "pending" => Expired(c, t) = c
         /\ Expired(c, t) # c => Expired(c, t).status = "expired"
BY DEF Expired, Elapsed, Challenge

(* What is live was live earlier.                                             *)
LEMMA LivesShrink ==
  ASSUME NEW c \in Challenge, NEW t \in Nat, NEW u \in Nat, t <= u,
         Expired(c, u).status = "pending"
  PROVE  Expired(c, t).status = "pending"
BY GuidedAuthAssumption DEF Expired, Elapsed, Challenge

LEMMA KeepsRefl ==
  ASSUME NEW set PROVE Keeps(set, set)
BY DEF Keeps

(* A file swept of what has elapsed is as tidy as it was.                     *)
LEMMA SweepingIsTidy ==
  ASSUME NEW set \in SUBSET Challenge, Tidy(set), now \in Nat
  PROVE  /\ {Expired(c, now) : c \in set} \subseteq Challenge
         /\ Tidy({Expired(c, now) : c \in set})
         /\ Keeps(set, {Expired(c, now) : c \in set})
<1> DEFINE swept == {Expired(c, now) : c \in set}
<1>1. swept \subseteq Challenge
  BY Expiring
<1>2. \A d \in swept : \E c \in set : d = Expired(c, now) /\ d.id = c.id /\ d.key = c.key
  BY Expiring
<1>3. \A d \in swept : Live(d) => d \in set
  <2>1. SUFFICES ASSUME NEW c \in set, Live(Expired(c, now)) PROVE Expired(c, now) = c
    OBVIOUS
  <2>2. c \in Challenge /\ Expired(c, now) \in Challenge
    BY Expiring
  <2>3. Expired(c, now).status = "pending"
    BY <2>1, <2>2, Expiring DEF Live
  <2> QED
    BY <2>2, <2>3, Expiring
<1>4. Tidy(swept)
  <2>1. \A a \in swept : a.id < nextId
    BY <1>2 DEF Tidy
  <2>2. \A a, b \in swept : a.id = b.id => a = b
    BY <1>2 DEF Tidy
  <2>3. \A a, b \in swept : a.key = b.key /\ Live(a) /\ Live(b) => a = b
    BY <1>3 DEF Tidy
  <2> QED
    BY <2>1, <2>2, <2>3 DEF Tidy
<1>5. Keeps(set, swept)
  BY Expiring DEF Keeps
<1> QED
  BY <1>1, <1>4, <1>5

(* A challenge that ends leaves a file that is tidy and keeps the rest.       *)
LEMMA EndingIsTidy ==
  ASSUME NEW set \in SUBSET Challenge, Tidy(set), now \in Nat,
         NEW c \in set, c.status = "pending",
         NEW d \in Challenge, d.id = c.id, d.key = c.key, d.exp = c.exp, d.status # "pending"
  PROVE  Tidy((set \ {c}) \cup {d}) /\ Keeps(set, (set \ {c}) \cup {d})
<1>1. ~Live(d)
  BY Expiring DEF Live
<1>2. Tidy((set \ {c}) \cup {d})
  BY <1>1 DEF Tidy
<1> QED
  BY <1>2 DEF Keeps

(* Trimming a log that had room or was full loses its oldest record at most.  *)
LEMMA TrimmingAppend ==
  ASSUME NEW s \in Seq(Record), NEW r \in Record, Len(s) <= MaxRecords
  PROVE  /\ Trimmed(Append(s, r)) =
              IF Len(Append(s, r)) > MaxRecords THEN Tail(Append(s, r)) ELSE Append(s, r)
         /\ Trimmed(Append(s, r)) \in Seq(Record)
         /\ Len(Trimmed(Append(s, r))) <= MaxRecords
<1> DEFINE longer == Append(s, r)
<1> HIDE DEF longer
<1>1. longer \in Seq(Record) /\ longer # <<>> /\ Len(longer) = Len(s) + 1
  BY AppendProperties DEF longer
<1>2. Len(s) \in Nat /\ MaxRecords \in Nat
  BY GuidedAuthAssumption
<1>3. CASE Len(longer) > MaxRecords
  <2>1. Len(longer) - MaxRecords + 1 = 2
    BY <1>1, <1>2, <1>3
  <2>2. Trimmed(longer) = Tail(longer)
    BY <1>1, <1>3, <2>1, TailIsSubSeq DEF Trimmed
  <2>3. Tail(longer) \in Seq(Record) /\ Len(Tail(longer)) = Len(longer) - 1
    BY <1>1, HeadTailProperties
  <2> QED
    BY <1>1, <1>2, <1>3, <2>2, <2>3 DEF longer
<1>4. CASE ~(Len(longer) > MaxRecords)
  BY <1>1, <1>2, <1>4 DEF Trimmed, longer
<1> QED
  BY <1>3, <1>4

(* Every record of the new log is the appended one or an old one, and no two  *)
(* come from the same place.                                                  *)
LEMMA AppendedRecords ==
  ASSUME NEW s \in Seq(Record), NEW r \in Record, Len(s) <= MaxRecords,
         \A i, j \in DOMAIN s : s[i].id = s[j].id => i = j,
         \A i \in DOMAIN s : s[i].id # r.id,
         NEW new, new = Trimmed(Append(s, r))
  PROVE  /\ \A i \in DOMAIN new : new[i] = r \/ \E j \in DOMAIN s : new[i] = s[j]
         /\ \A i, j \in DOMAIN new : new[i].id = new[j].id => i = j
<1> DEFINE longer == Append(s, r)
<1> HIDE DEF longer
<1>1. /\ longer \in Seq(Record) /\ longer # <<>> /\ Len(longer) = Len(s) + 1
      /\ \A i \in 1 .. Len(s) : longer[i] = s[i]
      /\ longer[Len(s) + 1] = r
  BY AppendProperties DEF longer
<1>2. Len(s) \in Nat /\ DOMAIN s = 1 .. Len(s) /\ DOMAIN longer = 1 .. Len(s) + 1
  BY <1>1, LenProperties
<1>3. \A i \in DOMAIN longer : longer[i] = r \/ \E j \in DOMAIN s : longer[i] = s[j]
  BY <1>1, <1>2
<1>4. \A i, j \in DOMAIN longer : longer[i].id = longer[j].id => i = j
  <2>1. SUFFICES ASSUME NEW i \in 1 .. Len(s) + 1, NEW j \in 1 .. Len(s) + 1,
                        longer[i].id = longer[j].id
                 PROVE  i = j
    BY <1>2
  <2>2. CASE i \in 1 .. Len(s) /\ j \in 1 .. Len(s)
    BY <1>1, <1>2, <2>1, <2>2
  <2>3. CASE i = Len(s) + 1 /\ j \in 1 .. Len(s)
    BY <1>1, <1>2, <2>1, <2>3
  <2>4. CASE j = Len(s) + 1 /\ i \in 1 .. Len(s)
    BY <1>1, <1>2, <2>1, <2>4
  <2> QED
    BY <1>2, <2>2, <2>3, <2>4
<1>5. CASE new = longer
  BY <1>3, <1>4, <1>5
<1>6. CASE new = Tail(longer)
  <2>1. /\ Len(new) = Len(s) /\ new \in Seq(Record)
        /\ \A i \in 1 .. Len(new) : new[i] = longer[i + 1]
    BY <1>1, <1>2, <1>6, HeadTailProperties
  <2>2. DOMAIN new = 1 .. Len(s)
    BY <2>1, LenProperties
  <2>3. \A i \in DOMAIN new : i + 1 \in DOMAIN longer /\ new[i] = longer[i + 1]
    BY <1>2, <2>1, <2>2
  <2>4. \A i \in DOMAIN new : new[i] = r \/ \E j \in DOMAIN s : new[i] = s[j]
    BY <1>3, <2>3
  <2>5. ASSUME NEW i \in DOMAIN new, NEW j \in DOMAIN new, new[i].id = new[j].id
        PROVE  i = j
    <3>1. i + 1 = j + 1
      BY <1>4, <2>3, <2>5
    <3> QED
      BY <1>2, <2>2, <3>1
  <2> QED
    BY <2>4, <2>5
<1> QED
  BY <1>5, <1>6, TrimmingAppend DEF longer

-------------------------------------------------------------------------------
LEMMA Blanks ==
  /\ List \in Calls /\ NoRecord \in Record /\ NoAnswer \in Answers
  /\ NoAnswer.says \notin Ends
BY DEF List, Calls, NoRecord, Record, NoAnswer, Answers, Ends

LEMMA InitInv == Init => IInv
<1> SUFFICES ASSUME Init PROVE IInv
  OBVIOUS
<1> USE DEF Init
<1>1. <<>> \in Seq(Record) /\ Len(<<>>) = 0
  BY EmptySeq
<1>2. Types
  BY <1>1, Blanks DEF Types, Labels
<1>3. LocksHeld /\ Tidy(challenges) /\ OneRequestEndsAChallenge
  BY Blanks DEF LocksHeld, HoldsLock, HoldsAuditLock, Tidy, OneRequestEndsAChallenge, Ends
<1>4. Logged
  BY <1>1, GuidedAuthAssumption DEF Logged
<1>5. ASSUME NEW p \in Procs PROVE Holding(p) /\ Told(p) /\ Owed(p)
  BY Blanks DEF Holding, HasRecord, Told, Owed
<1> QED
  BY <1>2, <1>3, <1>4, <1>5 DEF IInv

(* A step of p leaves the requests of others alone.                           *)
OthersStay(p) ==
  \A q \in Procs \ {p} : /\ pc'[q] = pc[q] /\ snap'[q] = snap[q] /\ log'[q] = log[q]
                         /\ due'[q] = due[q] /\ answer'[q] = answer[q]

LEMMA LocksKept ==
  ASSUME LocksHeld, NEW p \in Procs, OthersStay(p),
         pc'[p] \in HoldsLock => chLock' = p,
         pc'[p] \in HoldsAuditLock => auditLock' = p,
         chLock \in Procs \ {p} => chLock' = chLock,
         auditLock \in Procs \ {p} => auditLock' = auditLock
  PROVE  LocksHeld'
BY DEF LocksHeld, OthersStay

(* Only one request is past a lock.                                           *)
LEMMA Exclusion ==
  ASSUME LocksHeld, NEW p \in Procs, NEW q \in Procs
  PROVE  /\ pc[p] \in HoldsLock /\ pc[q] \in HoldsLock => p = q
         /\ pc[p] \in HoldsAuditLock /\ pc[q] \in HoldsAuditLock => p = q
BY DEF LocksHeld

(* A step of p that writes no file and commits p to nothing.                  *)
Aside(p) ==
  /\ UNCHANGED <<now, nextId, challenges, audits>>
  /\ OthersStay(p)
  /\ answer'[p] = answer[p] \/ answer'[p].says \notin Ends
  /\ due'[p] = due[p] \/ due'[p] = NoRecord
  /\ pc'[p] \notin {"decide", "sweep", "write"}
  /\ pc'[p] = "audit_write" => log'[p] = audits
  /\ pc'[p] \in HasRecord => due'[p] # NoRecord
  /\ pc[p] = "write" => answer'[p].says \notin Ends /\ due'[p] = NoRecord

LEMMA AsideInv ==
  ASSUME IInv, NEW p \in Procs, Types', LocksHeld', Aside(p)
  PROVE  IInv'
<1>1. Tidy(challenges)' /\ Logged'
  BY DEF IInv, Aside, Tidy, Live, Logged, RecordedIn
<1>2. OneRequestEndsAChallenge'
  BY DEF IInv, Aside, OthersStay, OneRequestEndsAChallenge, Ends
<1>3. ASSUME NEW q \in Procs PROVE Holding(q)' /\ Told(q)' /\ Owed(q)'
  <2>1. /\ due'[q] # NoRecord => due'[q] = due[q]
        /\ \A r \in Procs : due'[r] # NoRecord => due'[r] = due[r]
    BY DEF Aside, OthersStay
  <2>2. CASE q = p
    <3>1. Holding(q)'
      BY <2>2 DEF Aside, Holding
    <3>2. Told(q)'
      BY <2>2 DEF IInv, Aside, Told, EndedIn, View
    <3>3. Owed(q)'
      BY <2>1, <2>2 DEF IInv, Aside, Owed, RecordedIn, View
    <3> QED
      BY <3>1, <3>2, <3>3
  <2>3. CASE q # p
    <3>1. /\ pc'[q] = pc[q] /\ snap'[q] = snap[q] /\ log'[q] = log[q]
          /\ due'[q] = due[q] /\ answer'[q] = answer[q]
          /\ UNCHANGED <<now, nextId, challenges, audits>>
      BY <2>3 DEF Aside, OthersStay
    <3>2. Holding(q)'
      BY <3>1 DEF IInv, Holding, Tidy, Live, Keeps
    <3>3. Told(q)'
      BY <3>1 DEF IInv, Told, EndedIn, View
    <3>4. Owed(q)'
      BY <2>1, <3>1 DEF IInv, Owed, RecordedIn, View
    <3> QED
      BY <3>2, <3>3, <3>4
  <2> QED
    BY <2>2, <2>3
<1> QED
  BY <1>1, <1>2, <1>3 DEF IInv

(* The end of a request.                                                      *)
LEMMA Exiting ==
  ASSUME Types, NEW p \in Procs, Exit(p)
  PROVE  /\ pc' \in [Procs -> Labels] /\ call' \in [Procs -> Calls]
         /\ arrived' \in [Procs -> Nat] /\ tries' \in [Procs -> Nat]
         /\ snap' \in [Procs -> SUBSET Challenge] /\ log' \in [Procs -> Seq(Record)]
         /\ due' \in [Procs -> Record]
         /\ pc'[p] = "idle" /\ due'[p] = NoRecord
         /\ \A q \in Procs \ {p} : /\ pc'[q] = pc[q] /\ snap'[q] = snap[q]
                                   /\ log'[q] = log[q] /\ due'[q] = due[q]
<1>1. <<>> \in Seq(Record)
  BY EmptySeq
<1> QED
  BY <1>1, Blanks DEF Types, Exit, Goto, Labels

LEMMA ExitAside ==
  ASSUME IInv, NEW p \in Procs, Exit(p), UNCHANGED <<now, nextId, challenges, audits>>,
         answer' = answer \/ answer' = [answer EXCEPT ![p] = NoAnswer],
         pc[p] = "write" => answer'[p] = NoAnswer,
         chLock \in Procs \ {p} => chLock' = chLock,
         auditLock \in Procs \ {p} => auditLock' = auditLock
  PROVE  Types' /\ LocksHeld' /\ Aside(p)
<1>1. Types'
  BY Exiting, Blanks DEF IInv, Types
<1>2. OthersStay(p)
  BY Exiting DEF IInv, Types, OthersStay
<1>3. LocksHeld'
  BY <1>2, Exiting, LocksKept DEF IInv, HoldsLock, HoldsAuditLock
<1>4. Aside(p)
  BY <1>2, Exiting, Blanks DEF IInv, Types, Aside, HasRecord
<1> QED
  BY <1>1, <1>3, <1>4

LEMMA ExitsInv ==
  ASSUME IInv, NEW p \in Procs,
         ProbeFails(p) \/ GiveUp(p) \/ ReleaseAudit(p) \/ Crash(p)
           \/ (Release(p) /\ due[p] = NoRecord)
  PROVE  IInv'
<1>1. CASE ProbeFails(p)
  BY <1>1, ExitAside, AsideInv DEF ProbeFails
<1>2. CASE GiveUp(p)
  BY <1>2, ExitAside, AsideInv DEF GiveUp, Throw
<1>3. CASE ReleaseAudit(p)
  <2>1. auditLock = p
    BY <1>3 DEF ReleaseAudit, IInv, LocksHeld, HoldsAuditLock
  <2> QED
    BY <1>3, <2>1, ExitAside, AsideInv DEF ReleaseAudit
<1>4. CASE Crash(p)
  <2>1. answer'[p] = NoAnswer
    BY <1>4 DEF Crash, Throw, IInv, Types
  <2> QED
    BY <1>4, <2>1, ExitAside, AsideInv DEF Crash, Throw
<1>5. CASE Release(p) /\ due[p] = NoRecord
  <2>1. chLock = p
    BY <1>5 DEF Release, IInv, LocksHeld, HoldsLock
  <2> QED
    BY <1>5, <2>1, ExitAside, AsideInv DEF Release
<1> QED
  BY <1>1, <1>2, <1>3, <1>4, <1>5

(* A step that leaves p with what it was told and owes, somewhere else.       *)
LEMMA MoveInv ==
  ASSUME IInv, NEW p \in Procs, NEW label \in Labels \ {"decide", "sweep", "write"},
         pc' = [pc EXCEPT ![p] = label], pc[p] # "write",
         call' \in [Procs -> Calls], arrived' \in [Procs -> Nat], tries' \in [Procs -> Nat],
         snap' = snap \/ snap' = [snap EXCEPT ![p] = {}],
         log' = log \/ log' = [log EXCEPT ![p] = audits],
         label = "audit_write" => log' = [log EXCEPT ![p] = audits],
         label \in HasRecord => due[p] # NoRecord,
         answer' = answer \/ answer' = [answer EXCEPT ![p] = NoAnswer],
         UNCHANGED <<now, nextId, challenges, audits, due>>,
         label \in HoldsLock => chLock' = p,
         label \in HoldsAuditLock => auditLock' = p,
         chLock \in Procs \ {p} => chLock' = chLock,
         auditLock \in Procs \ {p} => auditLock' = auditLock
  PROVE  IInv'
<1>1. Types'
  <2>1. pc' \in [Procs -> Labels]
    BY DEF IInv, Types
  <2>2. snap' \in [Procs -> SUBSET Challenge]
    BY DEF IInv, Types
  <2>3. log' \in [Procs -> Seq(Record)]
    BY DEF IInv, Types
  <2>4. answer' \in [Procs -> Answers]
    BY Blanks DEF IInv, Types
  <2> QED
    BY <2>1, <2>2, <2>3, <2>4 DEF IInv, Types
<1>2. OthersStay(p) /\ pc'[p] = label /\ label \notin {"decide", "sweep", "write"}
  BY DEF IInv, Types, OthersStay
<1>3. LocksHeld'
  BY <1>2, LocksKept DEF IInv
<1>4. label = "audit_write" => log'[p] = audits
  BY DEF IInv, Types
<1>5. answer'[p] = answer[p] \/ answer'[p].says \notin Ends
  BY Blanks DEF IInv, Types
<1>6. Aside(p)
  BY <1>2, <1>4, <1>5 DEF Aside
<1> QED
  BY <1>1, <1>3, <1>6, AsideInv

LEMMA MovesInv ==
  ASSUME IInv, NEW p \in Procs,
         ProbeAudit(p) \/ TakeLock(p) \/ PollLock(p) \/ TakeAuditLock(p) \/ ReadAudits(p)
           \/ (Release(p) /\ due[p] # NoRecord)
  PROVE  IInv'
<1> USE DEF Labels, HoldsLock, HoldsAuditLock, HasRecord, Goto
<1>1. CASE ProbeAudit(p)
  <2>1. "lock" \in Labels \ {"decide", "sweep", "write"}
    OBVIOUS
  <2> QED
    BY <1>1, <2>1, MoveInv DEF ProbeAudit, IInv, Types
<1>2. CASE TakeLock(p)
  <2>1. chLock \notin Procs \ {p} /\ tries' \in [Procs -> Nat]
    BY <1>2, GuidedAuthAssumption DEF TakeLock, LockIsFree, IInv, Types
  <2>2. "read" \in Labels \ {"decide", "sweep", "write"}
    OBVIOUS
  <2> QED
    BY <1>2, <2>1, <2>2, MoveInv DEF TakeLock, IInv, Types
<1>3. CASE PollLock(p)
  <2>1. /\ pc[p] \in {"lock", "audit_lock"} /\ pc' = [pc EXCEPT ![p] = pc[p]]
        /\ tries' \in [Procs -> Nat] /\ call' \in [Procs -> Calls] /\ arrived' \in [Procs -> Nat]
        /\ UNCHANGED <<now, nextId, challenges, audits, due, snap, log, answer, chLock, auditLock>>
    BY <1>3 DEF PollLock, Tried, IInv, Types
  <2>2. pc[p] \in Labels \ {"decide", "sweep", "write"} /\ pc[p] \notin HoldsLock \cup HoldsAuditLock
    BY <2>1
  <2>3. pc[p] \in HasRecord => due[p] # NoRecord
    BY DEF IInv, Holding
  <2> QED
    BY <2>1, <2>2, <2>3, MoveInv
<1>4. CASE TakeAuditLock(p)
  <2>1. auditLock \notin Procs \ {p}
    BY <1>4, GuidedAuthAssumption DEF TakeAuditLock, LockIsFree
  <2>2. "audit_read" \in Labels \ {"decide", "sweep", "write"}
    OBVIOUS
  <2> QED
    BY <1>4, <2>1, <2>2, MoveInv DEF TakeAuditLock, IInv, Types, Holding
<1>5. CASE ReadAudits(p)
  <2>1. auditLock = p
    BY <1>5 DEF ReadAudits, IInv, LocksHeld
  <2>2. "audit_write" \in Labels \ {"decide", "sweep", "write"}
    OBVIOUS
  <2> QED
    BY <1>5, <2>1, <2>2, MoveInv DEF ReadAudits, IInv, Types, Holding
<1>6. CASE Release(p) /\ due[p] # NoRecord
  <2>1. chLock = p
    BY <1>6 DEF Release, IInv, LocksHeld
  <2>2. "audit_lock" \in Labels \ {"decide", "sweep", "write"}
    OBVIOUS
  <2> QED
    BY <1>6, <2>1, <2>2, MoveInv DEF Release, IInv, Types
<1> QED
  BY <1>1, <1>2, <1>3, <1>4, <1>5, <1>6

LEMMA BeginInv ==
  ASSUME IInv, NEW p \in Procs, NEW c \in Offered, Begin(p, c)
  PROVE  IInv'
<1>1. PICK label \in {"probe", "lock"} : pc' = [pc EXCEPT ![p] = label]
  BY DEF Begin, Goto
<1>2. /\ label \in Labels \ {"decide", "sweep", "write"}
      /\ label \notin HoldsLock \cup HoldsAuditLock \cup HasRecord
  BY DEF Labels, HoldsLock, HoldsAuditLock, HasRecord
<1>3. /\ pc[p] # "write" /\ call' \in [Procs -> Calls] /\ arrived' \in [Procs -> Nat]
      /\ tries' \in [Procs -> Nat]
  BY DEF Begin, Offered, IInv, Types
<1>4. /\ answer' = [answer EXCEPT ![p] = NoAnswer] /\ snap' = snap /\ log' = log
      /\ UNCHANGED <<now, nextId, challenges, audits, due, chLock, auditLock>>
  BY DEF Begin
<1> QED
  BY <1>1, <1>2, <1>3, <1>4, MoveInv

(* Every decision to write nothing leaves for the release.                    *)
LEMMA DeclineInv ==
  ASSUME IInv, NEW p \in Procs, pc[p] = "decide", Decline(p)
  PROVE  IInv'
<1>1. chLock = p
  BY DEF IInv, LocksHeld, HoldsLock
<1>2. /\ "release" \in Labels \ {"decide", "sweep", "write"}
      /\ "release" \notin HoldsAuditLock \cup HasRecord
  BY DEF Labels, HoldsAuditLock, HasRecord
<1>3. call' \in [Procs -> Calls] /\ arrived' \in [Procs -> Nat] /\ tries' \in [Procs -> Nat]
  BY Blanks DEF Decline, Settle, IInv, Types
<1>4. /\ pc' = [pc EXCEPT ![p] = "release"] /\ snap' = [snap EXCEPT ![p] = {}]
      /\ UNCHANGED <<now, nextId, challenges, audits, due, log, answer, chLock, auditLock>>
  BY DEF Decline, Settle, Goto
<1> QED
  BY <1>1, <1>2, <1>3, <1>4, MoveInv

LEMMA DeclinesInv ==
  ASSUME IInv, NEW p \in Procs,
         DecideList(p) \/ StartReuses(p) \/ NotFound(p) \/ CancelUnchanged(p)
           \/ TerminalUnchanged(p)
  PROVE  IInv'
BY DeclineInv DEF DecideList, StartReuses, NotFound, CancelUnchanged, TerminalUnchanged

LEMMA ViewReadOnlyInv ==
  ASSUME IInv, NEW p \in Procs, NEW c \in challenges, ViewReadOnly(p, c)
  PROVE  IInv'
<1>1. c.id \in Nat
  BY DEF IInv, Types, Challenge
<1> DEFINE shown == [says |-> "shown_expired", id |-> c.id]
<1>2. PICK a \in Answers : answer' = [answer EXCEPT ![p] = a] /\ a.says \notin Ends
  <2>1. shown \in Answers /\ shown.says \notin Ends
    BY <1>1 DEF Answers, Ends
  <2>2. answer' = [answer EXCEPT ![p] = shown] \/ answer' = [answer EXCEPT ![p] = NoAnswer]
    BY DEF ViewReadOnly
  <2> QED
    BY <2>1, <2>2, Blanks
<1>3. Types' /\ OthersStay(p)
  BY <1>2 DEF ViewReadOnly, IInv, Types, OthersStay
<1>4. LocksHeld'
  BY DEF ViewReadOnly, IInv, LocksHeld
<1>5. Aside(p)
  BY <1>2, <1>3 DEF ViewReadOnly, IInv, Types, Aside, HasRecord
<1> QED
  BY <1>3, <1>4, <1>5, AsideInv

(* A failure under a lock takes back what p was told and what it owes.        *)
LEMMA FailureInv ==
  ASSUME IInv, NEW p \in Procs, WriteFails(p) \/ AuditFails(p)
  PROVE  IInv'
<1>1. PICK label \in {"release", "audit_release"} :
        /\ pc' = [pc EXCEPT ![p] = label]
        /\ label = "release" => pc[p] \in HoldsLock
        /\ label = "audit_release" => pc[p] \in HoldsAuditLock
  BY DEF WriteFails, AuditFails, Goto, HoldsLock, HoldsAuditLock
<1>2. /\ due' = [due EXCEPT ![p] = NoRecord] /\ answer' = [answer EXCEPT ![p] = NoAnswer]
      /\ UNCHANGED <<now, nextId, challenges, audits, chLock, auditLock>>
  BY DEF WriteFails, AuditFails, Throw
<1>3. /\ call' \in [Procs -> Calls] /\ arrived' \in [Procs -> Nat] /\ tries' \in [Procs -> Nat]
      /\ snap' \in [Procs -> SUBSET Challenge] /\ log' \in [Procs -> Seq(Record)]
      /\ \A q \in Procs \ {p} : snap'[q] = snap[q] /\ log'[q] = log[q]
  <2>1. <<>> \in Seq(Record)
    BY EmptySeq
  <2>2. CASE WriteFails(p)
    BY <2>2, Blanks DEF WriteFails, Settle, IInv, Types
  <2>3. CASE AuditFails(p)
    BY <2>1, <2>3 DEF AuditFails, IInv, Types
  <2> QED
    BY <2>2, <2>3
<1>4. Types'
  BY <1>1, <1>2, <1>3, Blanks DEF IInv, Types, Labels
<1>5. OthersStay(p) /\ pc'[p] = label /\ due'[p] = NoRecord /\ answer'[p] = NoAnswer
  BY <1>1, <1>2, <1>3 DEF IInv, Types, OthersStay
<1>6. LocksHeld'
  BY <1>1, <1>2, <1>5, LocksKept DEF IInv, LocksHeld, HoldsLock, HoldsAuditLock
<1>7. Aside(p)
  BY <1>2, <1>5, Blanks DEF Aside, HasRecord
<1> QED
  BY <1>4, <1>6, <1>7, AsideInv

-------------------------------------------------------------------------------
(* What a decision of p under the lock leaves of the others.                  *)
LEMMA Bystanders ==
  ASSUME IInv, NEW p \in Procs, OthersStay(p), UNCHANGED <<now, challenges, audits>>,
         nextId' = nextId, due'[p] # NoRecord,
         NEW q \in Procs \ {p}, due[q] # NoRecord => due[q].id # due'[p].id
  PROVE  Holding(q)' /\ Told(q)' /\ Owed(q)'
<1>1. /\ pc'[q] = pc[q] /\ snap'[q] = snap[q] /\ log'[q] = log[q]
      /\ due'[q] = due[q] /\ answer'[q] = answer[q] /\ q \in Procs
  BY DEF OthersStay
<1>2. Holding(q)'
  BY <1>1 DEF IInv, Holding, Tidy, Live, Keeps
<1>3. Told(q)'
  BY <1>1 DEF IInv, Told, EndedIn, View
<1>4. Owed(q)'
  BY <1>1 DEF IInv, Owed, OthersStay, RecordedIn, View
<1> QED
  BY <1>2, <1>3, <1>4

(* Nobody was told to have ended, and nothing records the end of, a challenge *)
(* that the file shows as pending.                                            *)
LEMMA PendingIsNobodys ==
  ASSUME IInv, NEW c \in challenges, c.status = "pending"
  PROVE  /\ \A q \in Procs : pc[q] # "write" =>
              /\ answer[q].says \in Ends => answer[q].id # c.id
              /\ due[q] # NoRecord => due[q].id # c.id
         /\ \A i \in DOMAIN audits : audits[i].id # c.id
BY DEF IInv, Tidy, Told, Owed, View, EndedIn, RecordedIn, Logged

(* The request that ends a challenge has its end in hand, and its record.     *)
LEMMA EndingInv ==
  ASSUME IInv, NEW p \in Procs, pc[p] = "decide",
         NEW c \in snap[p], c.status = "pending",
         NEW d \in Challenge, d.id = c.id, d.key = c.key, d.exp = c.exp, d.status # "pending",
         NEW says \in Ends, NEW record \in Record, record # NoRecord, record.id = c.id,
         record.action = "reauth" => d.status = record.says,
         snap' = [snap EXCEPT ![p] = (snap[p] \ {c}) \cup {d}],
         answer' = [answer EXCEPT ![p] = [says |-> says, id |-> c.id]],
         due' = [due EXCEPT ![p] = record],
         pc' = [pc EXCEPT ![p] = "write"],
         call' \in [Procs -> Calls], arrived' \in [Procs -> Nat],
         UNCHANGED <<now, challenges, nextId, chLock, audits, auditLock, tries, log>>
  PROVE  IInv'
<1> DEFINE told == [says |-> says, id |-> c.id]
           file == (snap[p] \ {c}) \cup {d}
<1>1. /\ snap[p] = challenges /\ c \in challenges /\ challenges \in SUBSET Challenge
      /\ Tidy(challenges) /\ now \in Nat
  BY DEF IInv, Holding, Types
<1>2. Tidy(file) /\ Keeps(challenges, file) /\ file \subseteq Challenge
  BY <1>1, EndingIsTidy
<1>3. told \in Answers
  BY <1>1 DEF Answers, Challenge
<1>4. Types'
  BY <1>2, <1>3 DEF IInv, Types, Labels
<1>5. /\ OthersStay(p) /\ pc'[p] = "write" /\ snap'[p] = file /\ due'[p] = record
      /\ answer'[p] = told
  BY DEF IInv, Types, OthersStay
<1>6. LocksHeld'
  BY <1>5, LocksKept DEF IInv, LocksHeld, HoldsLock, HoldsAuditLock
<1>7. \A q \in Procs \ {p} : pc[q] # "write"
  BY Exclusion DEF IInv, HoldsLock
<1>8. /\ \A q \in Procs \ {p} : /\ answer[q].says \in Ends => answer[q].id # c.id
                                /\ due[q] # NoRecord => due[q].id # c.id
      /\ \A i \in DOMAIN audits : audits[i].id # c.id
  BY <1>1, <1>7, PendingIsNobodys
<1>9. Tidy(challenges)' /\ Logged'
  BY DEF IInv, Tidy, Live, Logged, RecordedIn
<1>10. OneRequestEndsAChallenge'
  <2>1. SUFFICES ASSUME NEW q \in Procs, NEW r \in Procs, answer'[q].says \in Ends,
                        answer'[r].says \in Ends, answer'[q].id = answer'[r].id
                 PROVE  q = r
    BY DEF OneRequestEndsAChallenge, Ends
  <2>2. CASE q = p \/ r = p
    BY <1>5, <1>8, <2>1, <2>2 DEF OthersStay
  <2>3. CASE q # p /\ r # p
    BY <1>5, <2>1, <2>3 DEF OthersStay, IInv, OneRequestEndsAChallenge, Ends
  <2> QED
    BY <2>2, <2>3
<1>11. ASSUME NEW q \in Procs PROVE Holding(q)' /\ Told(q)' /\ Owed(q)'
  <2>1. CASE q # p
    BY <1>5, <1>8, <2>1, Bystanders
  <2>2. CASE q = p
    <3>1. Holding(q)'
      BY <1>2, <1>5, <2>2 DEF Holding, HasRecord, Tidy, Live, Keeps
    <3>2. d \in View(q)' /\ d.id = c.id
      BY <1>5, <2>2 DEF View
    <3>3. Told(q)'
      BY <1>5, <2>2, <3>2 DEF Told, EndedIn
    <3>4. Owed(q)'
      BY <1>5, <1>8, <2>2, <3>2 DEF Owed, RecordedIn, OthersStay
    <3> QED
      BY <3>1, <3>3, <3>4
  <2> QED
    BY <2>1, <2>2
<1> QED
  BY <1>4, <1>6, <1>9, <1>10, <1>11 DEF IInv

(* The holder of the lock goes on, with a file that keeps what is there.      *)
LEMMA ProgressInv ==
  ASSUME IInv, NEW p \in Procs, pc[p] \in {"read", "decide"},
         NEW label \in {"sweep", "decide", "write"}, pc' = [pc EXCEPT ![p] = label],
         NEW file \in SUBSET Challenge, snap' = [snap EXCEPT ![p] = file],
         label = "decide" => file = challenges,
         Keeps(challenges, file), nextId' \in Nat, nextId <= nextId',
         \A a \in file : a.id < nextId',
         \A a, b \in file : (a.id = b.id => a = b)
                              /\ (a.key = b.key /\ Live(a) /\ Live(b) => a = b),
         call' \in [Procs -> Calls], arrived' \in [Procs -> Nat],
         UNCHANGED <<now, challenges, audits, due, answer, chLock, auditLock, tries, log>>
  PROVE  IInv'
<1>1. Types'
  BY DEF IInv, Types, Labels
<1>2. OthersStay(p) /\ pc'[p] = label /\ snap'[p] = file
  BY DEF IInv, Types, OthersStay
<1>3. LocksHeld'
  BY <1>2, LocksKept DEF IInv, LocksHeld, HoldsLock, HoldsAuditLock
<1>4. Tidy(challenges)'
  <2>1. \A a \in challenges : a.id \in Nat /\ a.id < nextId
    BY DEF IInv, Tidy, Types, Challenge
  <2>2. \A a \in challenges : a.id < nextId'
    BY <2>1 DEF IInv, Types
  <2> QED
    BY <2>2 DEF IInv, Tidy, Live
<1>5. Logged' /\ OneRequestEndsAChallenge'
  BY DEF IInv, Logged, RecordedIn, OneRequestEndsAChallenge
<1>6. ASSUME NEW q \in Procs PROVE Holding(q)'
  <2>1. CASE q = p
    BY <1>2, <2>1 DEF Holding, HasRecord, Tidy, Live, Keeps
  <2>2. CASE q # p
    <3>1. pc'[q] \notin HoldsLock
      BY <1>2, <2>2, Exclusion DEF IInv, HoldsLock, OthersStay
    <3> QED
      BY <1>2, <2>2, <3>1 DEF IInv, Holding, HoldsLock, OthersStay
  <2> QED
    BY <2>1, <2>2
<1>7. ASSUME NEW q \in Procs
      PROVE  \A c \in View(q) : c.status # "pending" => c \in View(q)'
  BY <1>2 DEF View, Keeps, OthersStay
<1>8. ASSUME NEW q \in Procs PROVE Told(q)' /\ Owed(q)'
  <2>1. Told(q)'
    BY <1>7 DEF IInv, Told, EndedIn
  <2>2. Owed(q)'
    BY <1>7 DEF IInv, Owed, RecordedIn
  <2> QED
    BY <2>1, <2>2
<1> QED
  BY <1>1, <1>3, <1>4, <1>5, <1>6, <1>8 DEF IInv

LEMMA ReadChallengesInv ==
  ASSUME IInv, NEW p \in Procs, ReadChallenges(p)
  PROVE  IInv'
<1> DEFINE found == {Expired(c, now) : c \in challenges}
<1>1. found \in SUBSET Challenge /\ Tidy(found) /\ Keeps(challenges, found)
  BY SweepingIsTidy DEF IInv, Types
<1>2. PICK label \in {"sweep", "decide"} :
        pc' = [pc EXCEPT ![p] = label] /\ (label = "decide" => found = challenges)
  BY DEF ReadChallenges, Goto
<1>3. /\ pc[p] = "read" /\ snap' = [snap EXCEPT ![p] = found]
      /\ UNCHANGED <<now, challenges, nextId, audits, due, answer, chLock, auditLock, tries, log>>
      /\ call' \in [Procs -> Calls] /\ arrived' \in [Procs -> Nat]
  BY DEF ReadChallenges, IInv, Types
<1>4. nextId' \in Nat /\ nextId <= nextId'
  BY <1>3 DEF IInv, Types
<1> HIDE DEF found
<1> QED
  BY <1>1, <1>2, <1>3, <1>4, ProgressInv DEF Tidy

LEMMA StartCreatesInv ==
  ASSUME IInv, NEW p \in Procs, StartCreates(p)
  PROVE  IInv'
<1> DEFINE c == [id |-> nextId, key |-> call[p].key, status |-> "pending", exp |-> call[p].exp]
           file == snap[p] \cup {c}
<1>1. /\ pc[p] = "decide" /\ snap[p] = challenges /\ Active(challenges, call[p].key, now) = {}
      /\ snap' = [snap EXCEPT ![p] = file] /\ pc' = [pc EXCEPT ![p] = "write"]
      /\ nextId' = nextId + 1
      /\ UNCHANGED <<now, challenges, audits, due, answer, chLock, auditLock, tries, log>>
  BY DEF StartCreates, Settle, Goto, IInv, Holding
<1>2. call' \in [Procs -> Calls] /\ arrived' \in [Procs -> Nat]
  BY Blanks DEF StartCreates, Settle, IInv, Types
<1>3. call[p].key \in Keys /\ call[p].exp \in Expiries
  <2>1. call[p] \in Calls /\ call[p].op = "start"
    BY DEF StartCreates, IInv, Types
  <2>2. call[p] \in [op : {"start"}, key : Keys, exp : Expiries]
    BY <2>1 DEF Calls, List
  <2> QED
    BY <2>2
<1>4. c \in Challenge /\ c.id = nextId /\ c.key = call[p].key
  BY <1>3 DEF IInv, Types, Challenge
<1>5. challenges \subseteq Challenge /\ nextId \in Nat /\ Tidy(challenges)
  BY DEF IInv, Types
<1>6. \A a \in challenges : a.id \in Nat /\ a.id < nextId
  BY <1>5 DEF Tidy, Challenge
<1>7. \A a \in challenges : a.key = c.key => ~Live(a)
  BY <1>1, <1>4 DEF Active, Live
<1> HIDE DEF c
<1>8. file \in SUBSET Challenge /\ Keeps(challenges, file)
  BY <1>1, <1>4, <1>5 DEF Keeps
<1>9. nextId' \in Nat /\ nextId <= nextId' /\ \A a \in file : a.id < nextId'
  BY <1>1, <1>4, <1>5, <1>6
<1>10. \A a, b \in file : a.id = b.id => a = b
  BY <1>1, <1>4, <1>5, <1>6 DEF Tidy
<1>11. \A a, b \in file : a.key = b.key /\ Live(a) /\ Live(b) => a = b
  BY <1>1, <1>5, <1>7 DEF Tidy
<1> HIDE DEF file
<1> QED
  BY <1>1, <1>2, <1>8, <1>9, <1>10, <1>11, ProgressInv

LEMMA CancelChangesInv ==
  ASSUME IInv, NEW p \in Procs, CancelChanges(p)
  PROVE  IInv'
<1>1. PICK c \in snap[p] :
        /\ Cancelled(c, now).status # c.status
        /\ snap' = [snap EXCEPT ![p] = (snap[p] \ {c}) \cup {Cancelled(c, now)}]
        /\ answer' = [answer EXCEPT ![p] = [says |-> "cancelled", id |-> c.id]]
        /\ due' = [due EXCEPT ![p] = [action |-> "cancel", id |-> c.id, says |-> "cancelled"]]
        /\ call' = [call EXCEPT ![p] = List] /\ arrived' = [arrived EXCEPT ![p] = 0]
  BY DEF CancelChanges, Settle, Reply
<1> DEFINE d == Cancelled(c, now)
           record == [action |-> "cancel", id |-> c.id, says |-> "cancelled"]
<1>2. c \in Challenge /\ now \in Nat
  BY DEF IInv, Types
<1>3. /\ d \in Challenge /\ d.id = c.id /\ d.key = c.key /\ d.exp = c.exp
      /\ d.status # "pending" /\ c.status = "pending"
  BY <1>1, <1>2 DEF Cancelled, Expired, Elapsed, Challenge, Ends
<1>4. record \in Record /\ record # NoRecord /\ record.id = c.id /\ record.action # "reauth"
  BY <1>2 DEF Record, Challenge, NoRecord, Ends
<1>5. /\ pc[p] = "decide" /\ pc' = [pc EXCEPT ![p] = "write"] /\ "cancelled" \in Ends
      /\ UNCHANGED <<now, challenges, nextId, chLock, audits, auditLock, tries, log>>
  BY DEF CancelChanges, Goto, Ends
<1>6. call' \in [Procs -> Calls] /\ arrived' \in [Procs -> Nat]
  BY <1>1, Blanks DEF IInv, Types
<1> HIDE DEF d, record
<1> QED
  BY <1>1, <1>3, <1>4, <1>5, <1>6, EndingInv DEF d, record

LEMMA TerminalChangesInv ==
  ASSUME IInv, NEW p \in Procs, TerminalChanges(p)
  PROVE  IInv'
<1> DEFINE result == call[p].proof.result
<1>1. PICK c \in snap[p] :
        /\ ProofVerifies(Expired(c, arrived[p]), call[p].proof, arrived[p])
        /\ snap' = [snap EXCEPT ![p] = (snap[p] \ {c}) \cup {[c EXCEPT !.status = result]}]
        /\ answer' = [answer EXCEPT ![p] = [says |-> result, id |-> c.id]]
        /\ due' = [due EXCEPT ![p] = [action |-> "reauth", id |-> c.id, says |-> result]]
        /\ call' = [call EXCEPT ![p] = List] /\ arrived' = [arrived EXCEPT ![p] = 0]
  BY DEF TerminalChanges, Settle, Reply
<1> DEFINE d == [c EXCEPT !.status = result]
           record == [action |-> "reauth", id |-> c.id, says |-> result]
<1>2. c \in Challenge /\ arrived[p] \in Nat /\ call[p] \in Calls
  BY DEF IInv, Types
<1>3. result \in {"completed", "failed"}
  <2>1. call[p].proof \in Proofs
    BY <1>2 DEF TerminalChanges, Calls, List
  <2>2. call[p].proof # NoProof
    BY <1>1 DEF ProofVerifies
  <2> QED
    BY <2>1, <2>2, GuidedAuthAssumption DEF Proofs
<1>4. c.status = "pending"
  BY <1>1, <1>2, Expiring DEF ProofVerifies
<1> HIDE DEF result
<1>5. /\ d \in Challenge /\ d.id = c.id /\ d.key = c.key /\ d.exp = c.exp
      /\ d.status = result /\ result # "pending" /\ result \in Ends
  BY <1>2, <1>3 DEF Challenge, Ends
<1>6. record \in Record /\ record # NoRecord /\ record.id = c.id /\ record.says = result
  BY <1>2, <1>3 DEF Record, Challenge, NoRecord, Ends
<1>7. /\ pc[p] = "decide" /\ pc' = [pc EXCEPT ![p] = "write"]
      /\ UNCHANGED <<now, challenges, nextId, chLock, audits, auditLock, tries, log>>
  BY DEF TerminalChanges, Goto
<1>8. call' \in [Procs -> Calls] /\ arrived' \in [Procs -> Nat]
  BY <1>1, Blanks DEF IInv, Types
<1> HIDE DEF d, record
<1> QED
  BY <1>1, <1>4, <1>5, <1>6, <1>7, <1>8, EndingInv DEF d, record

-------------------------------------------------------------------------------
(* The challenge file is replaced by what its lock's holder made of it.       *)
LEMMA ReplaceInv ==
  ASSUME IInv, NEW p \in Procs, SweepExpired(p) \/ WriteChallenges(p)
  PROVE  IInv' /\ Keeps(challenges, challenges')
<1>1. PICK label \in {"decide", "release"} :
        /\ pc' = [pc EXCEPT ![p] = label]
        /\ label = "decide" => snap' = snap /\ pc[p] = "sweep"
        /\ snap' = snap \/ snap' = [snap EXCEPT ![p] = {}]
  BY DEF SweepExpired, WriteChallenges, Goto
<1>2. /\ pc[p] \in {"sweep", "write"} /\ challenges' = snap[p]
      /\ UNCHANGED <<now, nextId, audits, chLock, auditLock, call, arrived, tries, log, due, answer>>
  BY DEF SweepExpired, WriteChallenges
<1>3. Tidy(snap[p]) /\ Keeps(challenges, snap[p])
  BY <1>2 DEF IInv, Holding
<1>4. Types'
  BY <1>1, <1>2 DEF IInv, Types, Labels
<1>5. OthersStay(p) /\ pc'[p] = label
  BY <1>1, <1>2 DEF IInv, Types, OthersStay
<1>6. LocksHeld'
  BY <1>1, <1>2, <1>5, LocksKept DEF IInv, LocksHeld, HoldsLock, HoldsAuditLock
<1>7. Tidy(challenges)' /\ Keeps(challenges, challenges')
  BY <1>2, <1>3 DEF Tidy, Live
<1>8. \A c \in challenges : c.status # "pending" => c \in challenges'
  BY <1>7 DEF Keeps
<1>9. Logged' /\ OneRequestEndsAChallenge'
  BY <1>2, <1>8 DEF IInv, Logged, RecordedIn, OneRequestEndsAChallenge
<1>10. ASSUME NEW q \in Procs PROVE Holding(q)'
  <2>1. CASE q = p
    BY <1>1, <1>2, <1>5, <2>1 DEF Holding, HasRecord
  <2>2. CASE q # p
    <3>1. pc'[q] \notin HoldsLock
      BY <1>2, <1>5, <2>2, Exclusion DEF IInv, HoldsLock, OthersStay
    <3> QED
      BY <1>2, <1>5, <2>2, <3>1 DEF IInv, Holding, HoldsLock, OthersStay
  <2> QED
    BY <2>1, <2>2
<1>11. ASSUME NEW q \in Procs
       PROVE  \A c \in View(q) : c.status # "pending" => c \in View(q)'
  <2>1. CASE q = p
    BY <1>2, <1>5, <1>8, <2>1 DEF View
  <2>2. CASE q # p
    <3>1. pc[q] # "write" /\ pc'[q] # "write"
      BY <1>2, <1>5, <2>2, Exclusion DEF IInv, HoldsLock, OthersStay
    <3> QED
      BY <1>8, <3>1 DEF View
  <2> QED
    BY <2>1, <2>2
<1>12. ASSUME NEW q \in Procs PROVE Told(q)' /\ Owed(q)'
  <2>1. Told(q)'
    BY <1>2, <1>11 DEF IInv, Told, EndedIn
  <2>2. Owed(q)'
    BY <1>2, <1>11 DEF IInv, Owed, RecordedIn
  <2> QED
    BY <2>1, <2>2
<1> QED
  BY <1>4, <1>6, <1>7, <1>9, <1>10, <1>12 DEF IInv

(* The record that is owed is appended to the log as it is now.               *)
LEMMA WriteAuditsInv ==
  ASSUME IInv, NEW p \in Procs, WriteAudits(p)
  PROVE  IInv'
<1>1. /\ pc[p] = "audit_write" /\ log[p] = audits /\ due[p] # NoRecord
      /\ pc' = [pc EXCEPT ![p] = "audit_release"] /\ due' = [due EXCEPT ![p] = NoRecord]
      /\ log' = [log EXCEPT ![p] = <<>>]
      /\ UNCHANGED <<now, nextId, challenges, chLock, auditLock, call, arrived, tries, snap, answer>>
  BY DEF WriteAudits, Goto, IInv, Holding, HasRecord
<1>2. /\ audits \in Seq(Record) /\ due[p] \in Record /\ Len(audits) <= MaxRecords
      /\ \A i, j \in DOMAIN audits : audits[i].id = audits[j].id => i = j
  BY DEF IInv, Types, Logged
<1>3. audits' = Trimmed(Append(audits, due[p]))
  BY <1>1 DEF WriteAudits
<1>4. /\ RecordedIn(challenges, due[p])
      /\ \A i \in DOMAIN audits : audits[i].id # due[p].id
      /\ \A q \in Procs \ {p} : due[q] # NoRecord => due[q].id # due[p].id
  BY <1>1 DEF IInv, Owed, View
<1>5. audits' \in Seq(Record) /\ Len(audits') <= MaxRecords
  BY <1>2, <1>3, TrimmingAppend
<1>6. /\ \A i \in DOMAIN audits' : audits'[i] = due[p] \/ \E j \in DOMAIN audits : audits'[i] = audits[j]
      /\ \A i, j \in DOMAIN audits' : audits'[i].id = audits'[j].id => i = j
  BY <1>2, <1>3, <1>4, AppendedRecords
<1>7. <<>> \in Seq(Record)
  BY EmptySeq
<1>8. Types'
  BY <1>1, <1>5, <1>7, Blanks DEF IInv, Types, Labels
<1>9. /\ pc'[p] = "audit_release" /\ due'[p] = NoRecord
      /\ \A q \in Procs \ {p} : /\ pc'[q] = pc[q] /\ snap'[q] = snap[q] /\ log'[q] = log[q]
                                /\ due'[q] = due[q] /\ answer'[q] = answer[q]
  BY <1>1 DEF IInv, Types
<1>10. LocksHeld'
  BY <1>1, <1>9 DEF IInv, LocksHeld, HoldsLock, HoldsAuditLock
<1>11. Tidy(challenges)' /\ OneRequestEndsAChallenge'
  BY <1>1 DEF IInv, Tidy, Live, OneRequestEndsAChallenge
<1>12. Logged'
  <2>1. \A i \in DOMAIN audits' : RecordedIn(challenges, audits'[i])
    BY <1>4, <1>6 DEF IInv, Logged
  <2> QED
    BY <1>1, <1>5, <1>6, <2>1 DEF Logged, RecordedIn
<1>13. ASSUME NEW q \in Procs PROVE Holding(q)' /\ Told(q)' /\ Owed(q)'
  <2>1. CASE q = p
    <3>1. Holding(q)' /\ Owed(q)'
      BY <1>9, <2>1 DEF Holding, HasRecord, Owed
    <3>2. Told(q)'
      BY <1>1, <1>9, <2>1 DEF IInv, Told, EndedIn, View
    <3> QED
      BY <3>1, <3>2
  <2>2. CASE q # p
    <3>1. pc[q] # "audit_write"
      BY <1>1, <2>2, Exclusion DEF IInv, HoldsAuditLock
    <3>2. Holding(q)'
      BY <1>1, <1>9, <2>2, <3>1 DEF IInv, Holding, Tidy, Live, Keeps
    <3>3. Told(q)'
      BY <1>1, <1>9, <2>2 DEF IInv, Told, EndedIn, View
    <3>4. Owed(q)'
      <4>1. SUFFICES ASSUME due[q] # NoRecord PROVE Owed(q)'
        BY <1>9, <2>2 DEF Owed
      <4>2. \A i \in DOMAIN audits' : audits'[i].id # due[q].id
        BY <1>4, <1>6, <2>2, <4>1 DEF IInv, Owed
      <4>3. \A r \in Procs : due'[r] # NoRecord => due'[r] = due[r]
        BY <1>9
      <4>4. due'[q] = due[q] /\ View(q)' = View(q)
        BY <1>1, <1>9, <2>2 DEF View
      <4> QED
        BY <4>1, <4>2, <4>3, <4>4 DEF IInv, Owed, RecordedIn
    <3> QED
      BY <3>2, <3>3, <3>4
  <2> QED
    BY <2>1, <2>2
<1> QED
  BY <1>8, <1>10, <1>11, <1>12, <1>13 DEF IInv

LEMMA TickInv ==
  ASSUME IInv, Tick
  PROVE  IInv'
<1>1. /\ now \in Nat /\ now' = now + 1
      /\ UNCHANGED <<challenges, nextId, chLock, audits, auditLock, pc, call, arrived, tries,
                     snap, log, due, answer>>
  BY DEF Tick, request, IInv, Types
<1>2. now' \in Nat /\ now <= now'
  BY <1>1
<1>3. Types' /\ LocksHeld' /\ Logged' /\ OneRequestEndsAChallenge'
  BY <1>1, <1>2 DEF IInv, Types, LocksHeld, Logged, RecordedIn, OneRequestEndsAChallenge
(* Time alone only ends lives.                                                *)
<1>4. \A a \in Challenge :
        Expired(a, now').status = "pending" => Expired(a, now).status = "pending"
  BY <1>1, <1>2, LivesShrink
<1>5. Tidy(challenges)'
  <2>1. Tidy(challenges) /\ challenges \subseteq Challenge
    BY DEF IInv, Types
  <2> QED
    BY <1>4, <1>1, <2>1 DEF Tidy, Live
<1>6. ASSUME NEW p \in Procs PROVE Holding(p)' /\ Told(p)' /\ Owed(p)'
  <2>1. Told(p)' /\ Owed(p)'
    BY <1>1 DEF IInv, Told, Owed, EndedIn, RecordedIn, View
  <2>2. Tidy(snap[p]) => Tidy(snap[p])'
    <3>1. snap[p] \subseteq Challenge
      BY DEF IInv, Types
    <3> QED
      BY <1>4, <1>1, <3>1 DEF Tidy, Live
  <2>3. Holding(p)'
    BY <1>1, <2>2 DEF IInv, Holding, Keeps
  <2> QED
    BY <2>1, <2>3
<1> QED
  BY <1>3, <1>5, <1>6 DEF IInv

LEMMA StepInv ==
  ASSUME IInv, NEW p \in Procs, Step(p)
  PROVE  IInv'
<1>1. CASE ProbeAudit(p) \/ TakeLock(p) \/ PollLock(p) \/ TakeAuditLock(p) \/ ReadAudits(p)
             \/ (Release(p) /\ due[p] # NoRecord)
  BY <1>1, MovesInv
<1>2. CASE ProbeFails(p) \/ GiveUp(p) \/ ReleaseAudit(p) \/ (Release(p) /\ due[p] = NoRecord)
  BY <1>2, ExitsInv
<1>3. CASE DecideList(p) \/ StartReuses(p) \/ NotFound(p) \/ CancelUnchanged(p)
             \/ TerminalUnchanged(p)
  BY <1>3, DeclinesInv
<1>4. CASE ReadChallenges(p) \/ StartCreates(p) \/ CancelChanges(p) \/ TerminalChanges(p)
  BY <1>4, ReadChallengesInv, StartCreatesInv, CancelChangesInv, TerminalChangesInv
<1>5. CASE SweepExpired(p) \/ WriteChallenges(p)
  BY <1>5, ReplaceInv
<1>6. CASE WriteFails(p) \/ AuditFails(p)
  BY <1>6, FailureInv
<1>7. CASE WriteAudits(p)
  BY <1>7, WriteAuditsInv
<1> QED
  BY <1>1, <1>2, <1>3, <1>4, <1>5, <1>6, <1>7 DEF Step

LEMMA NextInv == IInv /\ [Next]_vars => IInv'
<1> SUFFICES ASSUME IInv, [Next]_vars PROVE IInv'
  OBVIOUS
<1>1. ASSUME NEW p \in Procs, NEW c \in Offered, Begin(p, c) PROVE IInv'
  BY <1>1, BeginInv
<1>2. ASSUME NEW p \in Procs, NEW c \in challenges, ViewReadOnly(p, c) PROVE IInv'
  BY <1>2, ViewReadOnlyInv
<1>3. ASSUME NEW p \in Procs, Step(p) \/ Crash(p) PROVE IInv'
  <2>1. CASE Step(p)
    BY <2>1, StepInv
  <2>2. CASE Crash(p)
    BY <2>2, ExitsInv
  <2> QED
    BY <1>3, <2>1, <2>2
<1>4. CASE UNCHANGED vars
  <2>1. /\ Types' /\ LocksHeld' /\ Tidy(challenges)' /\ Logged' /\ OneRequestEndsAChallenge'
    BY <1>4 DEF vars, request, IInv, Types, LocksHeld, Tidy, Live, Logged, RecordedIn,
       OneRequestEndsAChallenge
  <2>2. ASSUME NEW p \in Procs PROVE Holding(p)' /\ Told(p)' /\ Owed(p)'
    BY <1>4 DEF vars, request, IInv, Holding, Tidy, Live, Keeps, Told, EndedIn, Owed,
       RecordedIn, View
  <2> QED
    BY <2>1, <2>2 DEF IInv
<1> QED
  BY <1>1, <1>2, <1>3, <1>4, TickInv DEF Next

THEOREM Inductive == Spec => []IInv
BY InitInv, NextInv, PTL DEF Spec
-------------------------------------------------------------------------------
(* At no time are two challenges of one key live, however many requests start *)
(* some under whatever expiries (auth-challenge-store.ts createWithResult).   *)
THEOREM OneLive == Spec => []OneLiveChallengePerKey
<1>1. IInv => OneLiveChallengePerKey
  BY DEF IInv, Tidy, Live, OneLiveChallengePerKey
<1> QED
  BY <1>1, Inductive, PTL

(* No two of any number of requests are told that they ended one challenge.    *)
THEOREM OneEnds == Spec => []OneRequestEndsAChallenge
<1>1. IInv => OneRequestEndsAChallenge
  BY DEF IInv
<1> QED
  BY <1>1, Inductive, PTL

(* The audit log names each challenge once and its reauth records agree with   *)
(* the challenge file.                                                        *)
THEOREM Agreement == Spec => []AuditsAgree
<1>1. IInv => AuditsAgree
  BY DEF IInv, Logged, RecordedIn, AuditsAgree
<1> QED
  BY <1>1, Inductive, PTL

(* No write of the challenge file loses a challenge or alters one that ended.  *)
THEOREM EndedStay == Spec => EndedChallengesStay
<1>1. IInv /\ [Next]_vars =>
        [\A c \in challenges : \E d \in challenges' :
           /\ d.id = c.id /\ d.key = c.key /\ d.exp = c.exp
           /\ c.status # "pending" => d = c]_vars
  <2>1. SUFFICES ASSUME IInv, Next
                 PROVE  \A c \in challenges : \E d \in challenges' :
                          /\ d.id = c.id /\ d.key = c.key /\ d.exp = c.exp
                          /\ c.status # "pending" => d = c
    OBVIOUS
  <2>2. CASE \E p \in Procs : SweepExpired(p) \/ WriteChallenges(p)
    BY <2>1, <2>2, ReplaceInv DEF Keeps
  <2>3. CASE ~ \E p \in Procs : SweepExpired(p) \/ WriteChallenges(p)
    <3>1. challenges' = challenges
      BY <2>1, <2>3
      DEF Next, Tick, Begin, ViewReadOnly, Crash, Step, ProbeAudit, ProbeFails, TakeLock,
          PollLock, GiveUp, ReadChallenges, DecideList, StartReuses, StartCreates, NotFound,
          CancelUnchanged, CancelChanges, TerminalUnchanged, TerminalChanges, Decline,
          WriteFails, Release, TakeAuditLock, ReadAudits, WriteAudits, AuditFails, ReleaseAudit
    <3> QED
      BY <3>1
  <2> QED
    BY <2>2, <2>3
<1> QED
  BY <1>1, Inductive, PTL DEF Spec, EndedChallengesStay

(* A request with the log in hand goes on by writing it or by failing to.      *)
LEMMA OnlyTheLogGoesOn ==
  ASSUME Types, Next, NEW p \in Procs, pc[p] = "audit_write", pc'[p] = "audit_release"
  PROVE  WriteAudits(p) \/ AuditFails(p)
<1>1. pc \in [Procs -> Labels]
  BY DEF Types
<1>2. ~Tick
  BY DEF Tick, request
<1>3. ASSUME NEW q \in Procs, NEW label, Goto(q, label) PROVE q = p
  BY <1>1, <1>3 DEF Goto
<1>4. PICK q \in Procs :
        \/ \E c \in Offered : Begin(q, c)
        \/ \E c \in challenges : ViewReadOnly(q, c)
        \/ Step(q) \/ Crash(q)
  BY <1>2 DEF Next
(* Requests move themselves only.                                             *)
<1>5. pc' = pc \/ \E label : Goto(q, label)
  BY <1>4
  DEF Begin, ViewReadOnly, Crash, Exit, Step, ProbeAudit, ProbeFails, TakeLock,
      PollLock, GiveUp, ReadChallenges, SweepExpired, DecideList, StartReuses,
      StartCreates, NotFound, CancelUnchanged, CancelChanges, TerminalUnchanged,
      TerminalChanges, Decline, WriteChallenges, WriteFails, Release, TakeAuditLock,
      ReadAudits, WriteAudits, AuditFails, ReleaseAudit
<1>6. q = p
  BY <1>3, <1>5
<1>7. ~Crash(p) /\ \A c : ~Begin(p, c) /\ ~ViewReadOnly(p, c)
  BY <1>1 DEF Crash, Exit, Goto, Begin, ViewReadOnly
<1>8. Step(p)
  BY <1>4, <1>6, <1>7
<1> QED
  BY <1>8
  DEF Step, ProbeAudit, ProbeFails, TakeLock, PollLock, GiveUp, ReadChallenges,
      SweepExpired, DecideList, StartReuses, StartCreates, NotFound, CancelUnchanged,
      CancelChanges, TerminalUnchanged, TerminalChanges, WriteChallenges, WriteFails,
      Release, TakeAuditLock, ReadAudits, ReleaseAudit

(* Whatever the limit, the audit log grows at its end by the record that is    *)
(* owed, loses its oldest record only when full, and is otherwise left alone. *)
THEOREM NewestKept == Spec => [][KeepsNewest(MaxRecords)]_vars
<1>1. IInv /\ [Next]_vars => [KeepsNewest(MaxRecords)]_vars
  <2>1. SUFFICES ASSUME IInv, Next PROVE KeepsNewest(MaxRecords)
    OBVIOUS
  <2>2. ASSUME NEW p \in Procs, WriteAudits(p) PROVE KeepsNewest(MaxRecords)
    <3>1. /\ pc[p] = "audit_write" /\ log[p] = audits
          /\ audits' = Trimmed(Append(audits, due[p]))
      BY <2>1, <2>2 DEF WriteAudits, IInv, Holding
    <3>2. audits \in Seq(Record) /\ due[p] \in Record /\ Len(audits) <= MaxRecords
      BY <2>1 DEF IInv, Types, Logged
    <3> QED
      BY <3>1, <3>2, TrimmingAppend DEF KeepsNewest
  <2>3. ASSUME \A p \in Procs : ~WriteAudits(p) PROVE KeepsNewest(MaxRecords)
    <3>1. audits' = audits
      BY <2>1, <2>3
      DEF Next, Step, Tick, Begin, ViewReadOnly, Crash, ProbeAudit, ProbeFails, TakeLock,
          PollLock, GiveUp, ReadChallenges, SweepExpired, DecideList, StartReuses,
          StartCreates, NotFound, CancelUnchanged, CancelChanges, TerminalUnchanged,
          TerminalChanges, Decline, WriteChallenges, WriteFails, Release, TakeAuditLock,
          ReadAudits, AuditFails, ReleaseAudit
    <3>2. ASSUME NEW p \in Procs, pc[p] = "audit_write", pc'[p] = "audit_release"
          PROVE  AuditFails(p)
      BY <2>1, <2>3, <3>2, OnlyTheLogGoesOn DEF IInv
    <3>3. ASSUME NEW p \in Procs, AuditFails(p) PROVE answer'[p] = NoAnswer
      BY <2>1, <3>3 DEF AuditFails, Throw, IInv, Types
    <3> QED
      BY <3>1, <3>2, <3>3 DEF KeepsNewest
  <2> QED
    BY <2>2, <2>3
<1> QED
  BY <1>1, Inductive, PTL DEF Spec
================================================================================
