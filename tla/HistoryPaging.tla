---------------------------- MODULE HistoryPaging ----------------------------
(***************************************************************************)
(* The history lists of the control panel: pages of a log that grows, and  *)
(* of which the server looks at the newest records only.                   *)
(*                                                                         *)
(* A record is its position in the log.  A query is a selected context and *)
(* what the filter form asks for; a record's kind is the set of queries it *)
(* matches.  A page is the set of the records on it, which are shown newest*)
(* first.  The panel keeps the pages it has been given and the cursor of   *)
(* the last one.  Workspace loads and filter submissions replace both;     *)
(* "load older" appends.  Nothing but its own button holds back a request, *)
(* so that answers can come in any order.                                  *)
(***************************************************************************)
EXTENDS Naturals, Sequences, FiniteSets

CONSTANTS
  Queries, Kinds,   \* what can be asked; what a record can match
  Window,           \* the newest records that a list is made from
  Limit,            \* records of one page
  Replacers,        \* workspace loads and the filter form
  Older,            \* the "load older" button
  MaxLog            \* bound: records of the log

ASSUME HistoryPagingAssumption ==
  Older \notin Replacers /\ Window \in Nat /\ Limit \in Nat \ {0}

VARIABLES
  log,        \* the file: the kind of each record
  form,       \* the query the panel would ask now
  rows,       \* the pages shown, newest first
  cursor,     \* the cursor held for the next page, or 0
  listedAs,     \* the query of the first page
  pages,      \* pages[r]: request r and its answer
  replaced,   \* history: the rows were replaced while older ones were asked for
  followed    \* history: every page appended was the next of the rows shown

pagingVars == <<log, form, rows, cursor, listedAs, pages, replaced, followed>>

Idle == [at |-> "idle"]

(* AuditStore.list; the other stores list every record.                       *)
InWindow(i) == i + Window > Len(log)
Matching(q) == {i \in DOMAIN log : InWindow(i) /\ q \in log[i]}

Before(S, c) == {i \in S : i < c}
UnknownCursorRestartsMutant(q, c) ==
  IF c \in Matching(q) THEN {Before(Matching(q), c)} ELSE {Matching(q)}
(* The matching records after a cursor, if it is known.                       *)
Following(q, c) ==
  IF c = 0 THEN {Matching(q)}
  ELSE IF c \in Matching(q) THEN {Before(Matching(q), c)} ELSE {}

(* One page after the cursor: all that remains, or the newest of it with the  *)
(* cursor of its last record.                                                 *)
PageOf(q, page, next) == [at |-> "answered", rows |-> page, next |-> next, query |-> q]
PageEnds(S) == {n \in S : Before(S, n) # {} /\ Cardinality(S \ Before(S, n)) = Limit}
Page(q, c) ==
  {PageOf(q, S, 0) : S \in {T \in Following(q, c) : Cardinality(T) <= Limit}}
  \cup UNION {{PageOf(q, S \ Before(S, n), n) : n \in PageEnds(S)} : S \in Following(q, c)}

PagingInit ==
  /\ log = <<>> /\ form \in Queries
  /\ rows = <<>> /\ cursor = 0 /\ listedAs = form
  /\ pages = [r \in Replacers \cup {Older} |-> Idle]
  /\ replaced = FALSE /\ followed = TRUE

Record(kind) ==
  /\ Len(log) < MaxLog
  /\ log' = Append(log, kind)
  /\ UNCHANGED <<form, rows, cursor, listedAs, pages, replaced, followed>>

(* Another context is selected, or the filter form is edited.                 *)
Choose(q) ==
  /\ q # form
  /\ form' = q
  /\ UNCHANGED <<log, rows, cursor, listedAs, pages, replaced, followed>>

AskFirst(r) ==
  /\ r # Older /\ pages[r] = Idle
  /\ pages' = [pages EXCEPT ![r] = [at |-> "asked", query |-> form, cursor |-> 0]]
  /\ UNCHANGED <<log, form, rows, cursor, listedAs, replaced, followed>>

(* The form as it is now, with the cursor of the list as it is now.           *)
AskOlder ==
  /\ pages[Older] = Idle /\ cursor # 0
  /\ pages' = [pages EXCEPT ![Older] = [at |-> "asked", query |-> form, cursor |-> cursor]]
  /\ replaced' = FALSE
  /\ UNCHANGED <<log, form, rows, cursor, listedAs, followed>>

Serve(r) ==
  /\ pages[r].at = "asked"
  /\ \E page \in Page(pages[r].query, pages[r].cursor) :
       pages' = [pages EXCEPT ![r] = page]
  /\ UNCHANGED <<log, form, rows, cursor, listedAs, replaced, followed>>

(* An unknown cursor, an unavailable store or status, a malformed answer.     *)
RefusePage(r) ==
  /\ pages[r].at = "asked"
  /\ pages' = [pages EXCEPT ![r] = [at |-> "failed", query |-> pages[r].query]]
  /\ UNCHANGED <<log, form, rows, cursor, listedAs, replaced, followed>>

Replace(r) ==
  LET p == pages[r] IN
  /\ r # Older /\ p.at \in {"answered", "failed"}
  /\ rows' = IF p.at = "answered" THEN <<p.rows>> ELSE <<>>
  /\ cursor' = IF p.at = "answered" THEN p.next ELSE 0
  /\ listedAs' = p.query
  /\ pages' = [pages EXCEPT ![r] = Idle]
  /\ replaced' = TRUE /\ followed' = TRUE
  /\ UNCHANGED <<log, form>>

ShowOlder ==
  LET p == pages[Older] IN
  /\ p.at = "answered"
  /\ rows' = Append(rows, p.rows) /\ cursor' = p.next
  /\ followed' = (followed /\ ~replaced /\ p.query = listedAs)
  /\ pages' = [pages EXCEPT ![Older] = Idle]
  /\ UNCHANGED <<log, form, listedAs, replaced>>

(* What was loaded before is kept.                                            *)
KeepRows ==
  /\ pages[Older].at = "failed"
  /\ pages' = [pages EXCEPT ![Older] = Idle]
  /\ UNCHANGED <<log, form, rows, cursor, listedAs, replaced, followed>>

PagingNext ==
  \/ \E kind \in Kinds : Record(kind)
  \/ \E q \in Queries : Choose(q)
  \/ \E r \in Replacers \cup {Older} : AskFirst(r) \/ Serve(r) \/ RefusePage(r) \/ Replace(r)
  \/ AskOlder \/ ShowOlder \/ KeepRows

PagingSpec == PagingInit /\ [][PagingNext]_pagingVars
-------------------------------------------------------------------------------
(* Properties.                                                                *)

Shown == UNION {rows[k] : k \in DOMAIN rows}

(* However the log grows between pages, a list whose pages follow each other  *)
(* is the matching records from its first row to its last, newest first, none *)
(* missing and none twice, and it goes on after its last row; a list that     *)
(* does not go on leaves out only what the server no longer looks at.         *)
PagesFollowOn ==
  followed /\ Shown # {} =>
    /\ \A j, k \in DOMAIN rows : j < k => \A newer \in rows[j], older \in rows[k] : newer > older
    /\ \A i \in Shown : i \in DOMAIN log /\ listedAs \in log[i]
    /\ \A i \in DOMAIN log :
         listedAs \in log[i] /\ (\E first, last \in Shown : first >= i /\ i >= last) => i \in Shown
    /\ cursor # 0 => cursor \in Shown /\ \A i \in Shown : i >= cursor
    /\ cursor = 0 => \A i \in DOMAIN log :
         listedAs \in log[i] /\ (\A shown \in Shown : i < shown) => ~InWindow(i)
===============================================================================
