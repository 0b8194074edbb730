------------------------------ MODULE Executor ------------------------------
(***************************************************************************)
(* The query operators over a heap file: a plan is a scan of the table or  *)
(* of an index on the name, a filter, and possibly an operator on top.     *)
(* Init and Next of the topmost operator are the actions, with all that    *)
(* the operators below do for it.                                          *)
(*                                                                         *)
(* Nothing isolates a query: between two calls of Next the client inserts  *)
(* and deletes records, and the scan sees what it finds.  The heap, the    *)
(* iterator of the table scan and the pins are those of HeapFile, where    *)
(* `borrowed` is here what dropped iterators have left pinned.             *)
(*                                                                         *)
(* A projection changes a tuple into another and is left out.              *)
(*                                                                         *)
(* The operators named Mut... are deliberate mistakes, as in HeapFile.     *)
(***************************************************************************)
EXTENDS HeapFile

CONSTANTS Plans,     \* what clients ask for
          Clashes    \* which changes clients make under an open scan

ASSUME PlansAssumption ==
  /\ Names \subseteq Nat
  /\ Plans \subseteq [source : {"table", "index"}, low : Nat, high : Nat, keep : SUBSET Names,
                      op : {"none", "limit", "sort", "topn", "aggregate"}, limit : Nat]
ASSUME ClashesAssumption == Clashes \subseteq {"delete_under_iterator", "reuse_slot"}

VARIABLE query

execVars == <<heap, it, borrowed, query>>

\* results and current_idx are those of the index scan, pending what an operator that
\* materializes its input has yet to emit.  out and must are kept for the properties:
\* what Next has returned, and the matching rows that have been there from Init on.
NoQuery == [stage |-> "none", results |-> <<>>, current_idx |-> 1, pending |-> {}, out |-> <<>>,
            must |-> {}]

Row(rid) == [rid |-> rid, rec |-> heap.pages[rid.page].slots[rid.slot]]

\* Every variable stays in its type.
ExecutorTypeOK ==
  /\ TypeOK /\ it.seen = <<>> /\ it.must = {}
  /\ query.stage \in {"none", "open", "done"}
  /\ query.stage # "none" => query.plan \in Plans
  /\ query.current_idx \in 1 .. Len(query.results) + 1

-----------------------------------------------------------------------------
(* The scans, below a filter. *)

Predicate(plan, row) == row.rec.name \in plan.keep

\* The iterator, and where it goes from there until it is no longer valid.
Step(i) == [AdvanceToNextRecord(heap, i) EXCEPT !.seen = <<>>]

Steps(i) ==
  LET w[n \in 1 .. Cardinality(Live(heap)) + 1] ==
        IF n = 1 THEN i ELSE LET j == w[n - 1] IN IF j.valid THEN Step(j) ELSE j
  IN  w

TupleAt(i) == Row([page |-> i.page, slot |-> i.slot])

TableHits(plan, w) == {n \in DOMAIN w : w[n].valid /\ Predicate(plan, TupleAt(w[n]))}

BeginScan == IF CanFetch(heap, 1, Pinned) THEN Step([NoIterator EXCEPT !.page = 1]) ELSE NoIterator

\* The index holds an entry for every record.
IndexEntries == {[key |-> Row(rid).rec.name, rid |-> rid] : rid \in Live(heap)}

\* In the order of the keys, and of the RIDs below one key.
Precedes(a, b) ==
  \/ a.key < b.key
  \/ a.key = b.key /\ a.rid.page < b.rid.page
  \/ a.key = b.key /\ a.rid.page = b.rid.page /\ a.rid.slot < b.rid.slot

\* RangeScan, or Lookup when both bounds are one key, as OrderedIndex promises them.  BTree
\* keeps that promise only while the entries of a key lie in one leaf (btree.cpp:61-74).
Materialized(plan) ==
  LET found == {e \in IndexEntries : plan.low <= e.key /\ e.key <= plan.high}
  IN  CHOOSE s \in [1 .. Cardinality(found) -> found] :
        \A i, j \in DOMAIN s : i < j => Precedes(s[i], s[j])

GetRecord(rid) == CanFetch(heap, rid.page, Pinned) /\ Holds(heap.pages[rid.page], rid.slot)

\* Entries whose record is gone, or on a page that cannot be had, are skipped.
MutStopsAtMissing(plan, results, from) ==
  {n \in from .. Len(results) :
     (\A m \in from .. n : GetRecord(results[m].rid)) /\ Predicate(plan, Row(results[n].rid))}
IndexHits(plan, results, from) ==
  {n \in from .. Len(results) : GetRecord(results[n].rid) /\ Predicate(plan, Row(results[n].rid))}

-----------------------------------------------------------------------------
(* Init. *)

Streams(plan) == plan.op \in {"none", "limit"}

\* All the rows below an operator that materializes them.
Input(plan) ==
  IF plan.source = "table"
  THEN LET w == Steps(BeginScan) IN {TupleAt(w[n]) : n \in TableHits(plan, w)}
  ELSE LET r == Materialized(plan) IN {Row(r[n].rid) : n \in IndexHits(plan, r, 1)}

InRange(plan, r) == plan.source = "index" => plan.low <= r.name /\ r.name <= plan.high

\* What the table holds for the plan.
Wanted(plan) ==
  {row \in {Row(rid) : rid \in Live(heap)} : InRange(plan, row.rec) /\ Predicate(plan, row)}

\* One result per group, here the name; sums, averages, minima and maxima are
\* accumulated like the count.
Groups(rows) ==
  {[group |-> n, count |-> Cardinality({row \in rows : row.rec.name = n})] :
     n \in {row.rec.name : row \in rows}}

\* The first rows in the order of their names, ties broken either way.
MutTopOfAny(rows, limit) ==
  {top \in SUBSET rows : Cardinality(top) = limit \/ (top = rows /\ Cardinality(rows) < limit)}
TopRows(rows, limit) ==
  {top \in SUBSET rows :
     /\ Cardinality(top) = IF limit < Cardinality(rows) THEN limit ELSE Cardinality(rows)
     /\ \A a \in top, b \in rows \ top : a.rec.name <= b.rec.name}

Materializations(plan) ==
  CASE plan.op = "sort"      -> {Input(plan)}
    [] plan.op = "topn"      -> TopRows(Input(plan), plan.limit)
    [] plan.op = "aggregate" -> {Groups(Input(plan))}
    [] OTHER                 -> {{}}

\* A query ends, or is given up for another, at any time; an iterator that is still
\* valid is dropped by then.
Open(plan) ==
  /\ it = NoIterator
  /\ it' = IF Streams(plan) /\ plan.source = "table" THEN BeginScan ELSE it
  /\ \E pending \in Materializations(plan) :
       query' = [stage |-> "open", plan |-> plan, pending |-> pending,
                 results |-> IF Streams(plan) /\ plan.source = "index"
                             THEN Materialized(plan) ELSE <<>>,
                 current_idx |-> 1, out |-> <<>>, must |-> Wanted(plan)]
  /\ UNCHANGED <<heap, borrowed>>

\* Reset, or the end of the operators, in mid-scan.
ScanDropped ==
  /\ IteratorDropped
  /\ query' = NoQuery

-----------------------------------------------------------------------------
(* Next. *)

Emits(row)   == [query EXCEPT !.out = Append(@, row)]
ReturnsFalse == [query EXCEPT !.stage = "done"]

MutLimitLate(plan) == plan.op = "limit" /\ Len(query.out) > plan.limit
LimitReached(plan) == plan.op = "limit" /\ Len(query.out) >= plan.limit

\* Limit does not ask its child any more, which keeps the page it stands on.
NextAtLimit ==
  /\ query.stage = "open" /\ LimitReached(query.plan)
  /\ query' = ReturnsFalse
  /\ UNCHANGED <<heap, it, borrowed>>

\* The row is read before the iterator moves on, which it does before Next returns.
NextOfTable ==
  /\ query.stage = "open" /\ Streams(query.plan) /\ query.plan.source = "table"
  /\ ~LimitReached(query.plan)
  /\ LET w    == Steps(it)
         hits == TableHits(query.plan, w)
     IN  IF hits = {} THEN it' = w[Len(w)] /\ query' = ReturnsFalse
         ELSE it' = w[Min(hits) + 1] /\ query' = Emits(TupleAt(w[Min(hits)]))
  /\ UNCHANGED <<heap, borrowed>>

MutNextTwice(n) == n + 2
IndexAfter(n) == n + 1

NextOfIndex ==
  /\ query.stage = "open" /\ Streams(query.plan) /\ query.plan.source = "index"
  /\ ~LimitReached(query.plan)
  /\ LET hits == IndexHits(query.plan, query.results, query.current_idx)
     IN  query' = IF hits = {}
                  THEN [ReturnsFalse EXCEPT !.current_idx = Len(query.results) + 1]
                  ELSE [Emits(Row(query.results[Min(hits)].rid)) EXCEPT
                          !.current_idx = IndexAfter(Min(hits))]
  /\ UNCHANGED <<heap, it, borrowed>>

\* Sort and TopN emit by name, an aggregation in the order of its hash table.
Emittable(plan, pending) ==
  IF plan.op = "aggregate" THEN pending
  ELSE {a \in pending : \A b \in pending : a.rec.name <= b.rec.name}

NextOfMaterialized ==
  /\ query.stage = "open" /\ ~Streams(query.plan)
  /\ \/ query.pending = {} /\ query' = ReturnsFalse
     \/ \E row \in Emittable(query.plan, query.pending) :
          query' = [Emits(row) EXCEPT !.pending = @ \ {row}]
  /\ UNCHANGED <<heap, it, borrowed>>

-----------------------------------------------------------------------------
(* The changes clients make to table and index. *)

OpenScan == query.stage = "open" /\ Streams(query.plan)

\* Deleting the record the iterator stands on, which Next has not returned yet, ends the
\* process in an assertion: event "delete_under_iterator".  A record in a slot an index
\* scan is still to read is returned whatever its key: event "reuse_slot".
ToBeRead == {query.results[n].rid : n \in query.current_idx .. Len(query.results)}

ClientInsert(r) ==
  LET h == Insert(heap, r, Pinned)
  IN  /\ Len(h.pages) <= MaxPages /\ Cardinality(Live(h)) <= MaxRecords
      /\ "reuse_slot" \notin Clashes => (Live(h) \ Live(heap)) \cap ToBeRead = {}
      /\ heap' = h
      /\ UNCHANGED <<it, borrowed, query>>

ClientDelete(rid) ==
  /\ "delete_under_iterator" \notin Clashes =>
       ~(it.valid /\ it.page = rid.page /\ it.slot = rid.slot)
  /\ heap' = Delete(heap, rid, Pinned)
  /\ query' = IF OpenScan THEN [query EXCEPT !.must = {row \in @ : row.rid # rid}] ELSE query
  /\ UNCHANGED <<it, borrowed>>

-----------------------------------------------------------------------------
ExecutorInit == Init /\ query = NoQuery

ExecutorNext ==
  \/ \E plan \in Plans : Open(plan)
  \/ NextAtLimit \/ NextOfTable \/ NextOfIndex \/ NextOfMaterialized \/ ScanDropped
  \/ \E r \in Record : ClientInsert(r)
  \/ \E rid \in Live(heap) : ClientDelete(rid)

ExecutorSpec == ExecutorInit /\ [][ExecutorNext]_execVars

-----------------------------------------------------------------------------
(* Properties. *)

Returned == ToSet(query.out)

\* docs/05_query_executor.md:42, "Passes through only matching tuples", and :59 "stops
\* at the limit": no row is returned twice although records are inserted and deleted
\* around the scan, none that the plan does not ask for, and none beyond the limit.
AnswerSound ==
  query.stage # "none" =>
    /\ Cardinality(Returned) = Len(query.out)
    /\ query.plan.op # "aggregate" =>
         \A row \in Returned : InRange(query.plan, row.rec) /\ Predicate(query.plan, row)
    /\ query.plan.op \in {"limit", "topn"} => Len(query.out) <= query.plan.limit
    /\ query.plan.op \in {"sort", "topn"} =>
         \A i, j \in DOMAIN query.out : i < j => query.out[i].rec.name <= query.out[j].rec.name

\* executor.h:33, "After Next() returns false, no more tuples are available": by then
\* every row that matched from Init on has been returned; of a limited query as many as
\* asked for, the first ones if they are sorted; of an aggregation a result per group.
AnswerComplete ==
  query.stage = "done" =>
    LET plan == query.plan
        all  == query.must \subseteq Returned
    IN  CASE plan.op = "limit" -> Len(query.out) = plan.limit \/ all
          [] plan.op = "topn"  -> \/ all
                                  \/ /\ Len(query.out) = plan.limit
                                     /\ \A a \in Returned, b \in query.must \ Returned :
                                          a.rec.name <= b.rec.name
          [] plan.op = "aggregate" -> Returned = Groups(query.must)
          [] OTHER -> all

\* The pin of an iterator lasts as long as its scan: a query that has run to its end, or
\* materialized its input, holds no page, and only one that Limit has stopped does.
NoPinLeft ==
  it.page # INVALID_PAGE_ID =>
    /\ query.stage # "none" /\ query.plan.source = "table" /\ Streams(query.plan)
    /\ query.stage = "done" => LimitReached(query.plan)

\* heap_file.cpp:370, assert(result.has_value()): the record the iterator stands on is
\* there when it is read.
IteratorOnRecord == it.valid => Holds(heap.pages[it.page], it.slot)
=============================================================================
