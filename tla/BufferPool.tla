----------------------------- MODULE BufferPool -----------------------------
(***************************************************************************)
(* BufferPoolManager and its LRUReplacer.  Every public method holds       *)
(* latch_ from its first line to its return, so each is one action.  A     *)
(* client's writes through the Page* it was given are not under the latch: *)
(* they are actions of their own, anywhere between fetch and unpin.        *)
(*                                                                         *)
(* A holder is one outstanding Page*.  Clients obey the interface: they    *)
(* fetch and delete pages they were given ids of, unpin what they pinned   *)
(* once, and say is_dirty when they wrote.                                 *)
(*                                                                         *)
(* The disk manager is reduced to what the pool sees of it: page_count,    *)
(* the set of deallocated pages and one content per page.  Module          *)
(* DiskManager models its file, its free-page chain and its crashes.       *)
(*                                                                         *)
(* The operators named Mut... are deliberate mistakes, each a variant of   *)
(* the definition that follows it; no definition uses them.                *)
(***************************************************************************)
EXTENDS Integers, FiniteSets, SequencesExt

CONSTANTS PoolSize,          \* number of frames
          MaxPages,          \* bound: data pages the file may grow to
          Holders,           \* bound: outstanding Page* at one time
          Values,            \* what clients can write to a page
          Empty,             \* a formatted page without records, Page(page_id)
          Zero,              \* a page of zero bytes, as AllocatePage leaves it
          INVALID_PAGE_ID, INVALID_FRAME_ID,
          Faults             \* the system calls that may fail

Frames  == 0 .. PoolSize - 1
Pages   == 1 .. MaxPages     \* page 0 is the database header
Content == Values \cup {Empty, Zero}

ASSUME PoolSizeAssumption == PoolSize \in Nat \ {0}
ASSUME MaxPagesAssumption == MaxPages \in Nat
ASSUME HoldersAssumption  == IsFiniteSet(Holders)
ASSUME InvalidAssumption  == INVALID_PAGE_ID \notin Pages /\ INVALID_FRAME_ID \notin Frames
ASSUME FaultsAssumption   == Faults \subseteq {"read", "alloc_read", "write", "extend"}

VARIABLES page_count, free_pages, disk,               \* DiskManager
          pages, meta, page_table, free_list, lru,    \* BufferPoolManager
          ptr                                         \* clients

diskVars == <<page_count, free_pages, disk>>
poolVars == <<pages, meta, page_table, free_list, lru>>
vars     == <<page_count, free_pages, disk, pages, meta, page_table, free_list, lru, ptr>>

FrameMetadata == [page_id : Pages \cup {INVALID_PAGE_ID}, pin_count : Nat, is_dirty : BOOLEAN]
Unoccupied    == [page_id |-> INVALID_PAGE_ID, pin_count |-> 0, is_dirty |-> FALSE]

Pointer == [page : Pages \cup {INVALID_PAGE_ID}, frame : Frames \cup {INVALID_FRAME_ID},
            wrote : BOOLEAN]
Null    == [page |-> INVALID_PAGE_ID, frame |-> INVALID_FRAME_ID, wrote |-> FALSE]

\* Every variable of the pool and the file stays in its type.
TypeOK ==
  /\ page_count \in 1 .. MaxPages + 1
  /\ free_pages \in SUBSET (1 .. page_count - 1)
  /\ disk \in [Pages -> Content]
  /\ pages \in [Frames -> Content]
  /\ meta \in [Frames -> FrameMetadata]
  /\ page_table \in [Pages -> Frames \cup {INVALID_FRAME_ID}]
  /\ free_list \in Seq(Frames)
  /\ lru \in Seq(Frames)
  /\ ptr \in [Holders -> Pointer]

In(x, s)   == \E i \in DOMAIN s : s[i] = x
InPool(p)  == page_table[p] # INVALID_FRAME_ID
Live       == (1 .. page_count - 1) \ free_pages
HeldBy(p)  == {h \in Holders : ptr[h].page = p}
Idle(h)    == ptr[h] = Null

-----------------------------------------------------------------------------
(* LRUReplacer: front is the most recently unpinned frame, back the victim. *)

MutNoRemove(s, f) == s
LruRemove(s, f) ==
  IF In(f, s) THEN RemoveAt(s, CHOOSE i \in DOMAIN s : s[i] = f) ELSE s

RecordAccess(s, f) == <<f>> \o LruRemove(s, f)

-----------------------------------------------------------------------------
(* FindFreeFrame and EvictFrame. *)

FrameAvailable == free_list # <<>> \/ lru # <<>>

FindFreeFrame == IF free_list # <<>> THEN Head(free_list) ELSE Last(lru)

\* The frames EvictFrame is called on: none while the free list has one.
Victims == IF free_list = <<>> /\ lru # <<>> THEN {Last(lru)} ELSE {}

FreeListAfter == IF free_list # <<>> THEN Tail(free_list) ELSE free_list
LruAfter      == IF free_list # <<>> THEN lru ELSE Front(lru)
MetaAfter     == [f \in Frames |-> IF f \in Victims THEN Unoccupied ELSE meta[f]]

MutStaleTable == page_table
TableAfter ==
  [p \in Pages |-> IF \E f \in Victims : meta[f].page_id = p THEN INVALID_FRAME_ID
                                                             ELSE page_table[p]]

\* The file once the frames fs are written out, each to its page.
Written(fs) ==
  [p \in Pages |-> IF \E f \in fs : meta[f].page_id = p
                   THEN pages[CHOOSE f \in fs : meta[f].page_id = p]
                   ELSE disk[p]]

\* WritePage reports a failed pwrite; no caller in the pool looks at the result.
WritePages(fs) == {Written(ok) : ok \in IF "write" \in Faults THEN SUBSET fs ELSE {fs}}

MutDropVictim == {}
DirtyVictims == {f \in Victims : meta[f].is_dirty}

-----------------------------------------------------------------------------
(* FetchPage. *)

MutPinOnce(pin_count) == 1
Pinned(pin_count) == pin_count + 1

FetchHit(h, p) ==
  /\ Idle(h) /\ InPool(p)
  /\ meta' = [meta EXCEPT ![page_table[p]].pin_count = Pinned(@)]
  /\ lru' = IF meta'[page_table[p]].pin_count = 1 THEN LruRemove(lru, page_table[p]) ELSE lru
  /\ ptr' = [ptr EXCEPT ![h] = [page |-> p, frame |-> page_table[p], wrote |-> FALSE]]
  /\ UNCHANGED <<diskVars, pages, page_table, free_list>>

\* The page is read after the victim was written: both happen to one file.
FetchMiss(h, p) ==
  /\ Idle(h) /\ p \in Live /\ ~InPool(p) /\ FrameAvailable
  /\ disk' \in WritePages(DirtyVictims)
  /\ pages' = [pages EXCEPT ![FindFreeFrame] = disk'[p]]
  /\ meta' = [MetaAfter EXCEPT ![FindFreeFrame] =
                [page_id |-> p, pin_count |-> 1, is_dirty |-> FALSE]]
  /\ page_table' = [TableAfter EXCEPT ![p] = FindFreeFrame]
  /\ free_list' = FreeListAfter
  /\ lru' = LruAfter
  /\ ptr' = [ptr EXCEPT ![h] = [page |-> p, frame |-> FindFreeFrame, wrote |-> FALSE]]
  /\ UNCHANGED <<page_count, free_pages>>

MutFrameForgotten == FreeListAfter
FrameReturned == Append(FreeListAfter, FindFreeFrame)

\* ReadPage fails (no such page, or a failed pread) once a victim is evicted.
FetchFails(p) ==
  /\ p >= page_count \/ ("read" \in Faults /\ p \in Live)
  /\ ~InPool(p) /\ FrameAvailable
  /\ disk' \in WritePages(DirtyVictims)
  /\ meta' = MetaAfter
  /\ page_table' = TableAfter
  /\ free_list' = FrameReturned
  /\ lru' = LruAfter
  /\ UNCHANGED <<page_count, free_pages, pages, ptr>>

-----------------------------------------------------------------------------
(* What a client does with its Page*, and UnpinPage. *)

WriteThrough(h, v) ==
  /\ ~Idle(h)
  /\ pages' = [pages EXCEPT ![ptr[h].frame] = v]
  /\ ptr' = [ptr EXCEPT ![h].wrote = TRUE]
  /\ UNCHANGED <<diskVars, meta, page_table, free_list, lru>>

MutLastSaysDirty(old, is_dirty) == is_dirty
Sticky(old, is_dirty) == old \/ is_dirty

\* A client that only read may say is_dirty all the same.
UnpinPage(h, is_dirty) ==
  /\ ~Idle(h) /\ (ptr[h].wrote => is_dirty)
  /\ LET p == ptr[h].page
         f == page_table[p]
     IN  /\ InPool(p) /\ meta[f].pin_count # 0
         /\ meta' = [meta EXCEPT ![f] = [page_id   |-> @.page_id,
                                         pin_count |-> @.pin_count - 1,
                                         is_dirty  |-> Sticky(@.is_dirty, is_dirty)]]
         /\ lru' = IF meta'[f].pin_count = 0 THEN RecordAccess(lru, f) ELSE lru
  /\ ptr' = [ptr EXCEPT ![h] = Null]
  /\ UNCHANGED <<diskVars, pages, page_table, free_list>>

-----------------------------------------------------------------------------
(* NewPage and DeletePage, with what AllocatePage and DeallocatePage do. *)

MutNewPageClean(p) == [page_id |-> p, pin_count |-> 1, is_dirty |-> FALSE]
NewPageMeta(p) == [page_id |-> p, pin_count |-> 1, is_dirty |-> TRUE]

\* A deallocated page is taken before the file grows.
Allocatable(p) == p \in free_pages \/ (free_pages = {} /\ p = page_count)

\* AllocatePage unlinks the page only if it could read it, and returns it anyway.
FreePagesAfter(p) ==
  {free_pages \ {p}} \cup IF "alloc_read" \in Faults THEN {free_pages} ELSE {}

NewPage(h, p) ==
  /\ Idle(h) /\ FrameAvailable /\ Allocatable(p)
  /\ page_count' = IF p = page_count THEN page_count + 1 ELSE page_count
  /\ free_pages' \in FreePagesAfter(p)
  /\ \E d \in WritePages(DirtyVictims) : disk' = [d EXCEPT ![p] = Zero]
  /\ pages' = [pages EXCEPT ![FindFreeFrame] = Empty]
  /\ meta' = [MetaAfter EXCEPT ![FindFreeFrame] = NewPageMeta(p)]
  /\ page_table' = [TableAfter EXCEPT ![p] = FindFreeFrame]
  /\ free_list' = FreeListAfter
  /\ lru' = LruAfter
  /\ ptr' = [ptr EXCEPT ![h] = [page |-> p, frame |-> FindFreeFrame, wrote |-> FALSE]]

\* The file cannot be extended: AllocatePage restores page_count and throws,
\* and the frame taken for the page is on no list any more.
NewPageThrows ==
  /\ "extend" \in Faults /\ free_pages = {} /\ FrameAvailable
  /\ disk' \in WritePages(DirtyVictims)
  /\ meta' = MetaAfter
  /\ page_table' = TableAfter
  /\ free_list' = FreeListAfter
  /\ lru' = LruAfter
  /\ UNCHANGED <<page_count, free_pages, pages, ptr>>

\* The pages DeallocatePage puts on the free chain: it writes the link into the
\* page first and gives up if that write fails.  What a free page holds besides
\* the link is zero; the link is DiskManager's.
Deallocated(p) == {{p}} \cup IF "write" \in Faults THEN {{}} ELSE {}

MutDeallocateShrinks(p) ==
  /\ free_pages' = free_pages \cup {p}
  /\ disk' = [disk EXCEPT ![p] = Zero]
  /\ page_count' = page_count - 1

DeallocatePage(p) ==
  \E freed \in Deallocated(p) :
    /\ free_pages' = free_pages \cup freed
    /\ disk' = [q \in Pages |-> IF q \in freed THEN Zero ELSE disk[q]]
    /\ UNCHANGED page_count

\* A deleted page that is not in the pool touches the disk only.
DeleteOnDisk(p) ==
  /\ p \in Live /\ ~InPool(p)
  /\ DeallocatePage(p)
  /\ UNCHANGED <<poolVars, ptr>>

MutDeletePinned(p) == TRUE
Deletable(p) == meta[page_table[p]].pin_count = 0

DeletePage(p) ==
  /\ p \in Live /\ InPool(p) /\ Deletable(p)
  /\ lru' = LruRemove(lru, page_table[p])
  /\ page_table' = [page_table EXCEPT ![p] = INVALID_FRAME_ID]
  /\ meta' = [meta EXCEPT ![page_table[p]] = Unoccupied]
  /\ free_list' = Append(free_list, page_table[p])
  /\ DeallocatePage(p)
  /\ UNCHANGED <<pages, ptr>>

-----------------------------------------------------------------------------
(* FlushPage, FlushAllPages, and the two ways a process ends. *)

FlushPage(p) ==
  /\ InPool(p)
  /\ disk' \in WritePages({page_table[p]})
  /\ meta' = [meta EXCEPT ![page_table[p]].is_dirty = FALSE]
  /\ UNCHANGED <<page_count, free_pages, pages, page_table, free_list, lru, ptr>>

DirtyFrames == {f \in Frames : meta[f].page_id # INVALID_PAGE_ID /\ meta[f].is_dirty}

FlushAllPages ==
  /\ disk' \in WritePages(DirtyFrames)
  /\ meta' = [f \in Frames |-> IF f \in DirtyFrames THEN [meta[f] EXCEPT !.is_dirty = FALSE]
                                                    ELSE meta[f]]
  /\ UNCHANGED <<page_count, free_pages, pages, page_table, free_list, lru, ptr>>

FreshPool ==
  /\ pages' = [f \in Frames |-> Empty]
  /\ meta' = [f \in Frames |-> Unoccupied]
  /\ page_table' = [p \in Pages |-> INVALID_FRAME_ID]
  /\ free_list' = [i \in 1 .. PoolSize |-> i - 1]
  /\ lru' = <<>>
  /\ ptr' = [h \in Holders |-> Null]

\* The destructor flushes; the next process starts with a fresh pool.
CloseAndReopen ==
  /\ \A h \in Holders : Idle(h)
  /\ disk' \in WritePages(DirtyFrames)
  /\ FreshPool
  /\ UNCHANGED <<page_count, free_pages>>

\* The process dies: what was written to the file stays, the pool is gone.
Crash ==
  /\ FreshPool
  /\ UNCHANGED diskVars

-----------------------------------------------------------------------------
Init ==
  /\ page_count = 1
  /\ free_pages = {}
  /\ disk = [p \in Pages |-> Zero]
  /\ pages = [f \in Frames |-> Empty]
  /\ meta = [f \in Frames |-> Unoccupied]
  /\ page_table = [p \in Pages |-> INVALID_FRAME_ID]
  /\ free_list = [i \in 1 .. PoolSize |-> i - 1]
  /\ lru = <<>>
  /\ ptr = [h \in Holders |-> Null]

Next ==
  \/ \E h \in Holders, p \in Pages : FetchHit(h, p) \/ FetchMiss(h, p) \/ NewPage(h, p)
  \/ \E h \in Holders, v \in Values : WriteThrough(h, v)
  \/ \E h \in Holders, is_dirty \in BOOLEAN : UnpinPage(h, is_dirty)
  \/ \E p \in Pages : FetchFails(p) \/ DeleteOnDisk(p) \/ DeletePage(p) \/ FlushPage(p)
  \/ NewPageThrows \/ FlushAllPages \/ CloseAndReopen \/ Crash

Spec == Init /\ [][Next]_vars

-----------------------------------------------------------------------------
(* Properties. *)

\* buffer_pool_manager.h:29, "A page can be in at most one frame at any time":
\* page_table_ and metadata_, which every method updates separately, are inverse
\* to each other, and only pages the disk manager has handed out are resident.
OnePageOneFrame ==
  /\ \A p \in Pages : InPool(p) => p \in Live /\ meta[page_table[p]].page_id = p
  /\ \A f \in Frames : meta[f].page_id # INVALID_PAGE_ID => page_table[meta[f].page_id] = f

NoDuplicates(s) == \A i, j \in DOMAIN s : s[i] = s[j] => i = j

\* A frame is never on two lists or twice on one: those on free_list_ are
\* unoccupied, those in the replacer hold an unpinned page (EvictFrame asserts
\* pin_count == 0), and a frame in use is on neither.
FrameLists ==
  /\ NoDuplicates(free_list) /\ NoDuplicates(lru)
  /\ \A f \in Frames : In(f, free_list) => meta[f] = Unoccupied
  /\ \A f \in Frames : In(f, lru) <=> meta[f].page_id # INVALID_PAGE_ID /\ meta[f].pin_count = 0

\* Frames that hold no page and that nobody will find again.
LostFrames == {f \in Frames : meta[f].page_id = INVALID_PAGE_ID /\ ~In(f, free_list)}

\* buffer_pool_manager.h:163 and :185, "nullptr if all frames are pinned": the pool
\* refuses a page only when clients hold every frame it still has, and it loses a frame
\* in no other call than a NewPage whose AllocatePage throws; evictions, reads that
\* fail and deletes all give theirs back.
NoFrameLost == [][NewPageThrows \/ LostFrames' \subseteq LostFrames]_vars

\* pin_count_ is the number of Page* outstanding for that page, over every
\* interleaving of hits, misses, unpins, evictions and deletes by several clients.
PinCountExact ==
  \A p \in Pages : Cardinality(HeldBy(p)) =
                     IF InPool(p) THEN meta[page_table[p]].pin_count ELSE 0

\* buffer_pool_manager.h:30, "A pinned page (pin_count > 0) is NEVER evicted":
\* the frame an outstanding Page* points into still holds that page.
PointersValid ==
  \A h \in Holders : ~Idle(h) => /\ ptr[h].page \in Live
                                 /\ ptr[h].frame \in Frames
                                 /\ page_table[ptr[h].page] = ptr[h].frame

\* A resident page that differs from its copy on disk will be written: it is
\* marked dirty, or a client that changed it has yet to unpin it and say so.
NoLostUpdate ==
  \A p \in Pages :
    InPool(p) /\ pages[page_table[p]] # disk[p] =>
      meta[page_table[p]].is_dirty \/ \E h \in HeldBy(p) : ptr[h].wrote

\* buffer_pool_manager.h:31, "A dirty page is written to disk before its frame is
\* reused": a page that leaves the pool while it exists leaves its last content
\* in the file, unless the process died.
EvictionPersists ==
  [][Crash \/ \A p \in Pages : InPool(p) /\ page_table'[p] = INVALID_FRAME_ID /\ p \in Live'
                                 => disk'[p] = pages[page_table[p]]]_vars

\* The same for a pool whose file can always grow: it refuses a page only when clients
\* hold every frame.
NullOnlyWhenAllPinned ==
  ~FrameAvailable => \A f \in Frames : meta[f].pin_count > 0

-----------------------------------------------------------------------------
(* The pool implements a coherent page store. *)

Store == INSTANCE PageStore WITH
           NoPage  <- INVALID_PAGE_ID,
           live    <- Live,
           store   <- [p \in Pages |-> IF InPool(p) THEN pages[page_table[p]] ELSE disk[p]],
           durable <- disk,
           open    <- [h \in Holders |-> ptr[h].page]

\* Every fetch returns the page as its last writer left it, whatever was evicted,
\* re-read, flushed or reopened in between; a crash falls back to what was written.
StoreSpec == Store!Spec
==============================================================================
