------------------------------- MODULE HeapFile -------------------------------
(***************************************************************************)
(* HeapFile and HeapFileIterator: a table as a chain of slotted pages, a   *)
(* directory of pages with space, and counters, above a buffer pool that   *)
(* refuses a page when every frame is pinned.                              *)
(*                                                                         *)
(* A heap file has no latch and one user: a call is one action, made of    *)
(* operators that take the heap and return it changed.  What lasts between *)
(* calls are pins, those of an open iterator and those of pages whose      *)
(* records a client still looks at; they decide what FetchPage and NewPage *)
(* answer during a call.                                                   *)
(*                                                                         *)
(* Pages are numbered in the order of their allocation, 1 is the first     *)
(* page of the heap.  Slot i is slot id i - 1.                             *)
(*                                                                         *)
(* The operators named Mut... are deliberate mistakes, as in PageSlots.    *)
(***************************************************************************)
EXTENDS PageSlots, FiniteSets

CONSTANTS Names, Sizes,      \* a record is a name and a size
          Capacity,          \* room in a formatted page
          SpaceHint,         \* "at least 64 bytes free"
          PoolSize,          \* number of frames
          SpareFrames,       \* how many of them clients leave unpinned
          MaxPages,          \* bound: pages of the heap
          MaxRecords,        \* bound: live records in the heap
          MaxBatch,          \* bound: records in one BulkInsert
          INVALID_PAGE_ID,
          StaleUpdates       \* may clients update a record that is gone?

ASSUME SizesAssumption == Sizes \subseteq Nat \ {0} /\ Capacity \in Nat /\ SpaceHint \in Nat
ASSUME PoolAssumption  == PoolSize \in Nat \ {0} /\ SpareFrames \in Nat
ASSUME BoundAssumption == MaxPages \in Nat \ {0} /\ MaxRecords \in Nat /\ MaxBatch \in Nat
ASSUME InvalidAssumption == INVALID_PAGE_ID \notin Nat /\ StaleUpdates \in BOOLEAN

VARIABLES heap,         \* HeapFile, with the pages of its chain
          it,           \* one HeapFileIterator
          borrowed      \* pages clients have pinned and not yet unpinned

vars == <<heap, it, borrowed>>

Record  == [name : Names, size : Sizes]
PageIds == 1 .. MaxPages

ASSUME NoRecordAssumption == NoRecord \notin Record

EmptyPage == [slots |-> <<>>, free |-> Capacity, next |-> INVALID_PAGE_ID]

\* seen and must are kept for ScanOverRids: the ids the iterator stood on, in order,
\* and those that have been live since a time when they still lay ahead of it.
NoIterator == [page |-> INVALID_PAGE_ID, slot |-> 0, valid |-> FALSE, seen |-> <<>>, must |-> {}]

\* Every variable stays in its type; the counters do not wrap below zero.
TypeOK ==
  /\ \A i \in DOMAIN heap.pages :
       heap.pages[i] \in [slots : Seq(Record \cup {NoRecord}), free : Int,
                          next : PageIds \cup {INVALID_PAGE_ID}]
  /\ Len(heap.pages) <= MaxPages
  /\ heap.last_page_id \in DOMAIN heap.pages
  /\ heap.record_count \in Nat /\ heap.page_count \in Nat
  /\ heap.pages_with_space \in Seq(PageIds)
  /\ it.page \in PageIds \cup {INVALID_PAGE_ID} /\ it.valid \in BOOLEAN
  /\ borrowed \subseteq PageIds

-----------------------------------------------------------------------------
(* The buffer pool.  A page can be had if it is pinned already or if a frame *)
(* is not.                                                                   *)

FrameFree(pinned)      == Cardinality(pinned) < PoolSize
CanFetch(h, p, pinned) == p \in DOMAIN h.pages /\ (p \in pinned \/ FrameFree(pinned))

Pinned == borrowed \cup ({it.page} \ {INVALID_PAGE_ID})

-----------------------------------------------------------------------------
(* The chain. *)

\* The pages from p on, as next_page_id links them.
ChainFrom(h, p) ==
  LET c[n \in 1 .. Len(h.pages)] ==
        IF n = 1 THEN p
        ELSE IF c[n - 1] = INVALID_PAGE_ID THEN INVALID_PAGE_ID ELSE h.pages[c[n - 1]].next
      ends == {n \in 1 .. Len(h.pages) : c[n] = INVALID_PAGE_ID}
  IN  IF ends = {} THEN c ELSE SubSeq(c, 1, Min(ends) - 1)

Live(h) == {rid \in [page : DOMAIN h.pages, slot : 1 .. Capacity] :
              Holds(h.pages[rid.page], rid.slot)}

MutTailForgotten(h, p) == h.last_page_id
NewTail(h, p) == p

\* The old last page is linked only if it can be fetched beside the new page.
AllocateNewPage(h, pinned) ==
  IF ~FrameFree(pinned) THEN [heap |-> h, page |-> INVALID_PAGE_ID]
  ELSE LET p      == Len(h.pages) + 1
           linked == CanFetch(h, h.last_page_id, pinned \cup {p})
       IN  [heap |-> [h EXCEPT
              !.pages = Append([i \in DOMAIN h.pages |->
                                  IF linked /\ i = h.last_page_id
                                  THEN [h.pages[i] EXCEPT !.next = p] ELSE h.pages[i]],
                               EmptyPage),
              !.last_page_id = NewTail(h, p),
              !.page_count = @ + 1,
              !.pages_with_space = Append(@, p)],
            page |-> p]

\* Pages of the directory that cannot be fetched or have no room are dropped from
\* it until one is found.
FindPageWithSpace(h, n, pinned) ==
  LET good == {i \in DOMAIN h.pages_with_space :
                 LET p == h.pages_with_space[i]
                 IN  CanFetch(h, p, pinned) /\ HasSpaceFor(h.pages[p], n)}
  IN  IF good = {} THEN AllocateNewPage([h EXCEPT !.pages_with_space = <<>>], pinned)
      ELSE [heap |-> [h EXCEPT !.pages_with_space = SubSeq(@, Min(good), Len(@))],
            page |-> h.pages_with_space[Min(good)]]

WithoutSpace(h, p) ==
  LET at == {i \in DOMAIN h.pages_with_space : h.pages_with_space[i] = p}
  IN  IF at = {} THEN h ELSE [h EXCEPT !.pages_with_space = RemoveAt(@, Min(at))]

UpdateDirectory(h, p) ==
  IF HasSpaceFor(h.pages[p], SpaceHint) THEN h ELSE WithoutSpace(h, p)

-----------------------------------------------------------------------------
(* InsertRecord, DeleteRecord and UpdateRecord. *)

Fits(pg, r) == Cost(pg, r.size) <= pg.free

\* The record goes into page p, where it fits.
Put(h, p, r) ==
  [h EXCEPT !.pages[p] = InsertRecord(@, r, r.size), !.record_count = @ + 1]

\* A page that has no room in spite of the directory is given up for a new one.
\* If none can be had, or the record is too large for any, nothing is inserted.
Insert(h, r, pinned) ==
  LET found == FindPageWithSpace(h, r.size, pinned)
      fresh == AllocateNewPage(found.heap, pinned)
      into(to) == IF ~CanFetch(to.heap, to.page, pinned) \/ ~Fits(to.heap.pages[to.page], r)
                  THEN to.heap
                  ELSE UpdateDirectory(Put(to.heap, to.page, r), to.page)
  IN  IF CanFetch(found.heap, found.page, pinned) /\ ~Fits(found.heap.pages[found.page], r)
      THEN into(fresh)
      ELSE into(found)

MutNeverListed(h, p) == FALSE
Listed(h, p) == Contains(h.pages_with_space, p)

MutAlwaysCounts(count, deleted) == count - 1
CountAfterDelete(count, deleted) == IF deleted THEN count - 1 ELSE count

Delete(h, rid, pinned) ==
  IF ~CanFetch(h, rid.page, pinned) THEN h
  ELSE LET deleted == Holds(h.pages[rid.page], rid.slot)
       IN  [h EXCEPT !.pages[rid.page] = DeleteRecord(@, rid.slot),
                     !.record_count = CountAfterDelete(@, deleted),
                     !.pages_with_space = IF deleted /\ ~Listed(h, rid.page)
                                         THEN Append(@, rid.page) ELSE @]

MutOldVersionKept(pg, i) == pg
MutCutsDirectory(pg, i) == [pg EXCEPT !.slots = SubSeq(@, 1, i - 1)]
Vacated(pg, i) == DeleteRecord(pg, i)

MutMoveNotCounted(count) == count
CountAfterMove(count) == count - 1

\* In place, at the end of the same page, or deleted and inserted somewhere else.
\* The second asks only for the bytes the record grows by (see SlottedPage), so
\* free may become negative.
Update(h, rid, r, pinned) ==
  IF ~CanFetch(h, rid.page, pinned) THEN h
  ELSE
    LET pg    == h.pages[rid.page]
        live  == Holds(pg, rid.slot)
        grows == r.size - pg.slots[rid.slot].size
        moved == [h EXCEPT !.pages[rid.page] = Vacated(@, rid.slot),
                           !.record_count = CountAfterMove(@)]
    IN  IF live /\ grows <= GetFreeSpace(pg)
        THEN [h EXCEPT !.pages[rid.page].slots[rid.slot] = r,
                       !.pages[rid.page].free = IF grows > 0 THEN @ - r.size ELSE @]
        ELSE Insert(moved, r, pinned)

-----------------------------------------------------------------------------
(* BulkInsert keeps one page pinned and moves to another when it is full.  A *)
(* page it moves to and cannot fetch is a null pointer the next record is    *)
(* inserted through: the process ends there, `dead`.                         *)

BulkStep(s, r) ==
  LET others == Pinned
      next   == FindPageWithSpace(WithoutSpace(s.heap, s.page), r.size, others)
  IN  IF s.dead \/ s.page = INVALID_PAGE_ID THEN [s EXCEPT !.dead = TRUE]
      ELSE IF Fits(s.heap.pages[s.page], r) THEN [s EXCEPT !.heap = Put(@, s.page, r)]
      ELSE IF ~CanFetch(next.heap, next.page, others)
           THEN [s EXCEPT !.heap = next.heap, !.page = INVALID_PAGE_ID]
      ELSE [s EXCEPT !.page = next.page,
                     !.heap = IF Fits(next.heap.pages[next.page], r)
                              THEN Put(next.heap, next.page, r) ELSE next.heap]

BulkSteps(s, batch) ==
  LET after[n \in 0 .. Len(batch)] == IF n = 0 THEN s ELSE BulkStep(after[n - 1], batch[n])
  IN  after[Len(batch)]

OneByOne(h, batch, pinned) == FoldLeft(LAMBDA g, r : Insert(g, r, pinned), h, batch)

\* The heap after the batch, and whether the process survived it.
Bulk(h, batch, pinned) ==
  LET first == FindPageWithSpace(h, SpaceHint, pinned)
      done  == BulkSteps([heap |-> first.heap, page |-> first.page, dead |-> FALSE], batch)
  IN  IF ~CanFetch(first.heap, first.page, pinned)
      THEN [heap |-> OneByOne(first.heap, batch, pinned), dead |-> FALSE]
      ELSE [heap |-> IF done.page = INVALID_PAGE_ID THEN done.heap
                     ELSE UpdateDirectory(done.heap, done.page),
            dead |-> done.dead]

-----------------------------------------------------------------------------
(* HeapFileIterator. *)

MutSkipsASlot(pg, slot) == {i \in LiveSlots(pg) : i > slot + 1}
NextSlots(pg, slot) == {i \in LiveSlots(pg) : i > slot}

StandsOn(i, p, slot) ==
  [i EXCEPT !.page = p, !.slot = slot, !.valid = TRUE,
            !.seen = Append(@, [page |-> p, slot |-> slot])]

MutKeepsPin(i) == [i EXCEPT !.valid = FALSE]
Ended(i) == [i EXCEPT !.page = INVALID_PAGE_ID, !.slot = 0, !.valid = FALSE]

\* The rest of the page, then the pages that follow, up to one that cannot be
\* fetched; the iterator's own pin is given back before the next is taken.
AdvanceToNextRecord(h, i) ==
  LET here    == NextSlots(h.pages[i.page], i.slot)
      rest    == Tail(ChainFrom(h, i.page))
      blocked == {n \in DOMAIN rest : ~CanFetch(h, rest[n], borrowed)}
      found   == {n \in DOMAIN rest : /\ NextSlots(h.pages[rest[n]], 0) # {}
                                      /\ \A b \in blocked : n < b}
  IN  IF here # {} THEN StandsOn(i, i.page, Min(here))
      ELSE IF found = {} THEN Ended(i)
      ELSE LET p == rest[Min(found)] IN StandsOn(i, p, Min(NextSlots(h.pages[p], 0)))

-----------------------------------------------------------------------------
(* The calls.  MaxPages and MaxRecords stop a call that would need more.     *)
(* What an iterator at its end has seen is forgotten with the next change.   *)

\* Of two ids, the one a scan comes to first.
Earlier(h, a, b) ==
  IF a.page = b.page THEN a.slot < b.slot ELSE b.page \in ToSet(ChainFrom(h, a.page))

Ahead(h, i) == {rid \in Live(h) : Earlier(h, [page |-> i.page, slot |-> i.slot], rid)}

\* A record that moves loses one id and has another, which lies ahead or does not.
Becomes(h) ==
  /\ Len(h.pages) <= MaxPages /\ Cardinality(Live(h)) <= MaxRecords
  /\ heap' = h
  /\ it' = IF it.valid THEN [it EXCEPT !.must = (@ \cap Live(h)) \cup Ahead(h, it)] ELSE NoIterator
  /\ UNCHANGED borrowed

InsertCall(r) == Becomes(Insert(heap, r, Pinned))

\* Clients may try a record that was deleted, or never was.
DeleteCall(rid) == Becomes(Delete(heap, rid, Pinned))

UpdateCall(rid, r) ==
  /\ rid \in Live(heap) \/ StaleUpdates
  /\ Becomes(Update(heap, rid, r, Pinned))

BulkInsertCall(batch) ==
  LET bulk == Bulk(heap, batch, Pinned) IN ~bulk.dead /\ Becomes(bulk.heap)

\* Clients pin only what leaves SpareFrames for the calls.  An iterator counts for
\* itself even where a client has its page too: it will go on to another.
LeavesSpare(pages, iterators) == Cardinality(pages) + iterators + SpareFrames <= PoolSize

MayPin(p) == LeavesSpare(borrowed \cup {p}, IF it.valid THEN 1 ELSE 0)

\* GetRecord leaves the page pinned for the caller, who unpins it some time.
GetRecordCall(rid) ==
  /\ rid \in Live(heap) /\ CanFetch(heap, rid.page, Pinned) /\ MayPin(rid.page)
  /\ borrowed' = borrowed \cup {rid.page}
  /\ UNCHANGED <<heap, it>>

UnpinPage(p) ==
  /\ p \in borrowed
  /\ borrowed' = borrowed \ {p}
  /\ UNCHANGED <<heap, it>>

Begin ==
  /\ it = NoIterator
  /\ CanFetch(heap, 1, Pinned) /\ LeavesSpare(borrowed, 1)
  /\ it' = AdvanceToNextRecord(heap, [NoIterator EXCEPT !.page = 1, !.must = Live(heap)])
  /\ UNCHANGED <<heap, borrowed>>

IteratorNext ==
  /\ it.valid
  /\ it' = AdvanceToNextRecord(heap, it)
  /\ UNCHANGED <<heap, borrowed>>

\* An iterator has no destructor: the page it stands on stays pinned.
IteratorDropped ==
  /\ it # NoIterator
  /\ borrowed' = borrowed \cup ({it.page} \ {INVALID_PAGE_ID})
  /\ it' = NoIterator
  /\ UNCHANGED heap

\* Another HeapFile over the same pages: the chain is walked as far as it can be.
Walked ==
  LET c       == ChainFrom(heap, 1)
      blocked == {n \in DOMAIN c : ~CanFetch(heap, c[n], Pinned)}
  IN  IF blocked = {} THEN c ELSE SubSeq(c, 1, Min(blocked) - 1)

Reopen ==
  LET w == Walked
      l == IF Len(w) = Len(ChainFrom(heap, 1)) THEN Last(w) ELSE 1
      listed[n \in 0 .. Len(w)] ==
        IF n = 0 THEN <<>>
        ELSE IF HasSpaceFor(heap.pages[w[n]], SpaceHint) THEN Append(listed[n - 1], w[n])
        ELSE listed[n - 1]
  IN  /\ heap' = [heap EXCEPT
           !.last_page_id = l,
           !.page_count = Len(w),
           !.record_count = Cardinality({rid \in Live(heap) : rid.page \in ToSet(w)}),
           !.pages_with_space = listed[Len(w)]]
      /\ UNCHANGED <<it, borrowed>>

-----------------------------------------------------------------------------
\* A new heap file has allocated its first page.
Init ==
  /\ heap = [pages |-> <<EmptyPage>>, last_page_id |-> 1, record_count |-> 0, page_count |-> 1,
             pages_with_space |-> <<1>>]
  /\ it = NoIterator
  /\ borrowed = {}

\* Ids clients may come with: live ones and those of slots that are empty.
Known == {rid \in [page : DOMAIN heap.pages, slot : 1 .. Capacity] :
            rid.slot \in DOMAIN heap.pages[rid.page].slots}

Next ==
  \/ \E r \in Record : InsertCall(r) \/ \E rid \in Known : UpdateCall(rid, r)
  \/ \E rid \in Known : DeleteCall(rid) \/ GetRecordCall(rid)
  \/ \E n \in 2 .. MaxBatch : \E batch \in [1 .. n -> Record] : BulkInsertCall(batch)
  \/ \E p \in PageIds : UnpinPage(p)
  \/ Begin \/ IteratorNext \/ IteratorDropped \/ Reopen

Spec == Init /\ [][Next]_vars

-----------------------------------------------------------------------------
(* Properties. *)

\* heap_file.h:29, "Pages are linked via next_page_id forming a singly-linked
\* list": every page the heap has allocated is on the chain, once, and the chain
\* ends at last_page_id_, where the next page will be linked.
ChainComplete ==
  LET c == ChainFrom(heap, 1)
  IN  /\ ToSet(c) = DOMAIN heap.pages /\ Len(c) = Len(heap.pages)
      /\ Last(c) = heap.last_page_id

\* heap_file.h:205-206, "Total live records in the heap" and "Number of pages in the
\* heap": the counters, which every call adjusts by itself, are what a walk of the
\* chain would count.
CountExact ==
  /\ heap.record_count = Cardinality(Live(heap))
  /\ heap.page_count = Len(heap.pages)

\* heap_file.h:59, "visiting every live slot", while records are inserted, deleted and
\* moved under the iterator: it stands on ids in the order of the chain and the slots, so
\* on none twice, and at its end it stood on every id that lay ahead of it at some time
\* and has been live from then on.  This is about ids, not records: UpdateRecord may give
\* a record another id (heap_file.cpp:184-191), and the scan returns it again if that id
\* lies ahead although the old one was passed, and not at all the other way round.
ScanOverRids ==
  /\ \A i, j \in DOMAIN it.seen : i < j => Earlier(heap, it.seen[i], it.seen[j])
  /\ ~it.valid => it.must \subseteq ToSet(it.seen)

\* No page is twice in the directory, and every page listed is on the chain, so an
\* insert never goes to a page that a scan would not find.
DirectorySound ==
  /\ \A i, j \in DOMAIN heap.pages_with_space :
       heap.pages_with_space[i] = heap.pages_with_space[j] => i = j
  /\ ToSet(heap.pages_with_space) \subseteq ToSet(ChainFrom(heap, 1))

\* What the heap file remembers in memory, page by page, agrees with its pages, as if it
\* had been rebuilt by walking them, between any two calls.  A call that is refused a
\* page half-way breaks it (README, "Switches"); here every call finds its frames.
BookkeepingExact == ChainComplete /\ CountExact /\ DirectorySound

\* heap_file.h:152, "The RID of the updated record (may differ from input if relocated)":
\* whatever a client would now update, with whatever record, the heap would then have
\* the new one under an id no other record has, and neither lose it nor keep the old
\* one.  The code deletes before it inserts, so this needs a page to be had.
UpdateKeepsRecord ==
  \A rid \in Live(heap), r \in Record :
    LET h == Update(heap, rid, r, Pinned)
    IN  /\ Cardinality(Live(h)) = Cardinality(Live(heap))
        /\ \E new \in Live(h) \ (Live(heap) \ {rid}) : h.pages[new.page].slots[new.slot] = r

Heap == INSTANCE RecordHeap WITH
  RIDs    <- [page : PageIds, slot : 1 .. Capacity],
  Records <- Record,
  recs    <- [rid \in Live(heap) |-> heap.pages[rid.page].slots[rid.slot]]

\* heap_file.h:28, "Every record has a unique, stable RID": a call adds records under
\* ids nobody has, or takes one away, or changes or moves one; every other record keeps
\* its id and its content.
HeapSpec == Heap!Spec
==============================================================================
