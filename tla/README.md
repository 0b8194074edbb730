# A TLA+ verification of CourtDB's storage engine

CourtDB is a single-file embedded database: a disk manager, a buffer pool, slotted
pages, heap files, a write-ahead log with redo recovery, a B+ tree index and a small
query executor. This directory models its storage engine, model-checks it with TLC and
proves part of it with TLAPS. Paths below are relative to the repository root.

## Inventory

| Component | State | Operations | Called by |
|---|---|---|---|
| `DiskManager` (`src/disk`) | the file; `header_` in memory (page count, head and length of the free list); free pages linked through their first four bytes | ReadPage, WritePage, AllocatePage, DeallocatePage, open, close | buffer pool, whose latch serialises the calls; it has none of its own (`src/include/disk/disk_manager.h:30`) |
| `BufferPoolManager`, `LRUReplacer` (`src/buffer`) | frames, `metadata_`, `page_table_`, `free_list_`, LRU list | FetchPage, UnpinPage, NewPage, DeletePage, FlushPage, FlushAllPages | everything above it; every method holds `latch_` |
| `Page` (`src/storage/page.cpp`) | `data_`, `slots_`, `header_` | InsertRecord, DeleteRecord, UpdateRecord, GetRecord, Compact, save, load | holders of a `Page*`, without a latch |
| `HeapFile`, `HeapFileIterator` | first and last page, `record_count_`, `pages_with_space_`; a chain of pages | Insert, Delete, Update, Get, BulkInsert, scan | executor |
| `BPlusTree` (`src/index`) | root page id; nodes in pages | Insert, Delete, Lookup, RangeScan | executor |
| `LogManager`, `LogIterator`, `LogRecord` | log file, `log_buffer_`, `next_lsn_`, `flushed_lsn_` | AppendLogRecord, Flush, FlushUpTo, Truncate, Begin, BeginAt, Next | recovery manager |
| `RecoveryManager` | none of its own | LogInsert/Delete/Update/NewPage, Checkpoint, Recover | clients, at start-up and before each change |
| `RecordSerializer` | none | encode, decode | clients |
| Executor (`src/query`) | the iterator or the RIDs of a scan, what an operator has materialized | Init, Next, Reset | clients |

What is hard: the pool is shared by threads and hands out raw pointers, so a page changes
between fetch and unpin without any latch; every structural operation of the disk manager is
two writes, with a crash possible between them; log and pages reach the file in an order that
nothing in the code enforces; recovery works from whatever subset of changes was written,
without page LSNs; several failure returns are ignored. `PROJECT.json` lists these hazards
line by line. The repository's own crash test (`tests/recovery/recovery_test.cpp:323-337`)
closes the database in an orderly way, so no test reaches a real crash.

What makes each component correct:

* pool: a page is in one frame; pins count pointers; a pinned page stays; nothing dirty is dropped;
* disk manager: pages are owned by one client or on the free chain, in memory and after a restart;
* page: a slot gives back the bytes stored in it; space accounting is exact;
* log: LSNs are offsets; readers see whole records in order; a record that `Flush` returned for is durable;
* recovery: afterwards the pages are what the surviving log says;
* heap file: all pages are on the chain, the counters and the directory agree with it, a scan
  visits the id of each live record once, an update keeps its record;
* B+ tree: keys are ordered and found, all leaves have one depth, siblings form the leaf level;
* executor: a query returns every matching row that lasts, none twice, and gives back its pins.

## Modules

| Module | What it is |
|---|---|
| `PageStore` | what a pool promises: one current content per live page and a durable one behind it |
| `BufferPool` | `BufferPoolManager` and `LRUReplacer`; implements `PageStore` |
| `BufferPoolProofs` | TLAPS proofs: the pool's structures, no frame and no change is lost, and that `BufferPool` implements `PageStore` |
| `PageAllocator` | what a disk manager promises: pages owned by at most one client, with their content |
| `DiskManager` | the file, the cached header and the free chain; implements `PageAllocator` |
| `DiskManagerProofs` | TLAPS proofs: the free chain, no page lost, and that `DiskManager` implements `PageAllocator` |
| `AppendOnlyLog` | what recovery needs of a log |
| `LogManager` | buffer, file, iterator; implements `AppendOnlyLog` |
| `LogManagerProofs` | TLAPS proofs: where records lie and stay, that `LogManager` implements `AppendOnlyLog`, what iterators return |
| `RecordSlots` | what a page promises: numbered slots that keep their records |
| `SlottedPage` | `Page` byte by byte; implements `RecordSlots` |
| `SlottedPageProofs` | TLAPS proofs: the layout, `HasSpaceFor`, and that `SlottedPage` implements `RecordSlots` |
| `PageSlots` | a page as slots and free space, for the two modules below |
| `RecordHeap` | what a heap file promises: records under ids that stay theirs |
| `HeapFile` | `HeapFile` and `HeapFileIterator`; implements `RecordHeap` |
| `HeapFileProofs` | TLAPS proofs: chain, counters and directory, scans, updates, and that `HeapFile` implements `RecordHeap`; then what queries return and leave pinned |
| `OrderedIndex` | what an index promises: a set of entries, added and removed one at a time |
| `BTree` | `BPlusTree`; implements `OrderedIndex` |
| `BTreeProofs` | TLAPS proofs: the nodes, the chain of leaves, and that `BTree` implements `OrderedIndex` |
| `BTreeSearch` | TLAPS proofs: the levels and separators of the tree, and that searches are exact |
| `Executor` | query operators over `HeapFile`, which it extends |
| `Recovery` | `RecoveryManager` over a log, pages and their stored versions |
| `RecoveryProofs` | TLAPS proofs: recovery restores every page, and replays inserts into their slots |
| `MC*` | model-checking instances |

**BufferPool.** Each method is one action because it holds `latch_` throughout; FetchPage is
split by outcome (`FetchHit`, `FetchMiss`, `FetchFails`), NewPage into `NewPage` and
`NewPageThrows`, DeletePage into `DeletePage` and `DeleteOnDisk`. A *holder* is one outstanding
`Page*`; `WriteThrough` is a client changing the page through it, at any time between fetch and
unpin. Clients keep to the interface: unpin once what they fetched, say `is_dirty` if they wrote,
fetch and delete pages that exist (a fetch beyond the end of the file is modelled). `Faults` names
the system calls that may fail. A crash takes the whole pool; it happens between two methods.

**DiskManager.** `pc` says between which two writes of a call the process is. Crashes keep
everything that was written (`pwrite`), as a killed process does. `CrashPoints` and `FailPoints`
say where a crash or a failing header write may occur. A failing extension is rolled back by the
code to the state before and needs no action. Only the buffer pool's module has failing reads
inside AllocatePage, only this one failing header writes.

**LogManager.** File and buffer are sequences of cells; a record is a header cell and payload
cells, so short writes and torn tails are prefixes. `synced` is what fsync covered: a killed
process loses the buffer, a power loss also any suffix behind `synced`. Begin is two steps, as the
latch is released between flushing and reading. `HoldsFirst` says how many of the records returned to
callers a file holds whole; the new process and a new iterator go by it. `promised` are the records a
call has synced on return, `upto` those that `FlushUpTo` returned for without an fsync because they had
left the buffer: `StillBuffered` is the test it makes. The first outlive a power loss, the second only a
killed process.

**SlottedPage.** A page of a few units, whose bytes know which byte of which record they are.
Arithmetic is modulo `Word`, as `uint16_t` is. Saving overwrites the front of `data_` with header
and directory. The loop of `Compact` is the function `PackedOffset`, which recurs over the records
that lie higher.

**HeapFile.** A heap file has no latch and one user, so a call is one action, put together from
operators that take the heap and return it changed (`FindPageWithSpace`, `AllocateNewPage`, `Put`,
`Insert`, `Update`, `Bulk`). Between calls last only pins: `borrowed` are the pages `GetRecord` left
pinned for its callers, and the iterator pins the page it stands on. `CanFetch` and `FrameFree` are
what a pool of `PoolSize` frames answers; clients leave `SpareFrames` of them unpinned
(`LeavesSpare`, asked when a client pins a page and when an iterator begins). There an iterator counts
for itself even where a client has pinned its page too, as it will go on to another page.
`IteratorDropped` leaves the iterator's pin behind, as the class has no destructor. `Reopen` is the
constructor walking an existing chain. `BulkInsertCall` is not taken when the code would insert
through a null page. An id (page and slot) is all that iterators and callers have of a record: `seen`
are the ids a scan stood on, `must` those it still has to come to, the live ones that lie ahead of it in
the chain or have lain there since they became live. An update that moves a record gives up one id and
takes another. Pages behave as `PageSlots`, which is what `SlottedPage` shows of them except
that a grown record may lie under the slot directory; its content is taken as kept here.
`FindPageWithSpace` in the code decrements an iterator that may stand at `begin()` after an erase,
which is undefined; the model takes what a vector's pointer does, that is, goes on with the next page.

**BTree.** A node is its sorted keys with RIDs or children, its parent and, of a leaf, the next one.
An insert that finds its leaf full splits it (`SplitLeaf`); the recursion of `InsertIntoParent` is
then a step per node (`InsertInParent`, `SplitFullParent`, `CreateNewRoot`), with the arguments of
the call in `split`. A binary search over sorted keys is a count of keys. `Delete` takes the entry
out of its leaf and never merges. With `FramesRunOut`, `SplitRefused` ends the climb at any of its
steps, as the code returns when the pool has no page for it, and children may keep their old parent;
`refused` remembers it. A page refused on the way down, before anything has changed, makes an insert
or a delete return empty-handed and is no step. Searches take the leaves they get to see: `Fetched` has
every beginning of the chain from the leaf of the key on, since a page refused on the way down or along
the chain ends a search without a sign.

**Executor.** A plan is a scan of the table or of an index on the record's name, a filter, and
optionally limit, sort, top-N or an aggregation. Limit and filter stream; the others read their whole
input in `Open`, which is the Init of the operators. Between two calls of Next the client inserts
and deletes records, in the heap file's own actions, and the index is kept with the table. It answers
as `OrderedIndex` promises, duplicates included; the tree does so unless the entries of one key lie in
two leaves (`btree_duplicates`), and a query over such an index is as incomplete as the lookup. `must`
are the matching rows present from Init on and not deleted since. `Clashes` names two changes the
code does not survive under an open scan.

**Recovery.** The other components appear as their promises: a log with a forced prefix, a cached
and a stored version of each page, slots with the space left. `WriteBack` is an eviction at any
moment, in the middle of recovery too. Records have one size.

## Runs

| Run | Expect | Shows |
|---|---|---|
| `buffer_pool` | pass | 3 clients, 2 frames, 3 pages, with reads that fail and a file that cannot grow: `OnePageOneFrame`, `FrameLists`, `PinCountExact`, `NoLostUpdate`, `EvictionPersists`, `NoFrameLost`, and the refinement `StoreSpec` |
| `disk_manager` | pass | chains of up to 4 pages in any order, crashes and failing header writes between the writes of a call, except in the reuse of a page: `FreeChainSound`, `RestartChainSound`, `NoPageLeaked`, and the refinement `AllocatorSpec` |
| `disk_crash_in_reuse` | violation | a crash there ends with page 0 on the free list |
| `log_manager` | pass | appends below, at and above the buffer size, writes that fail half-way, truncation, crashes, power loss, a concurrent reader: `LsnIsOffset`, `IteratorFaithful`, `FlushedSurvives`, `WrittenNeverModified`, and the refinement `AppendOnlySpec` |
| `slotted_page` | pass | up to three records: `LayoutSound`, `HasSpaceForExact`, and the refinement `RecordsKept` |
| `slotted_page_grow` | violation | growing updates are accepted that do not fit |
| `recovery` | pass | crashes anywhere, also in checkpoint and recovery, any pages written back: `RecoveredExactly`, `RedoLandsInSlot`, and that recovery ends (`RecoveryCompletes`) |
| `recovery_new_page` | violation | inserts into a page never written back are lost |
| `heap_file` | pass | three pages, moving and vanishing records under a scan, pages kept pinned, reopening: `BookkeepingExact`, `ScanOverRids`, `UpdateKeepsRecord`, and the refinement `HeapSpec` |
| `btree` | pass | seven keys in nodes of two, in every order of inserts and deletes, splits and searches refused a page at each step: `TreeSound`, `SearchExact`, and the refinement `IndexSpec` |
| `btree_duplicates` | violation | two records of one key in two leaves: a lookup finds one |
| `executor` | pass | eight plans over a table that changes under them: `AnswerSound`, `AnswerComplete`, `NoPinLeft` |

**Bounds.** Two frames and three pages are the least for which the victim is a choice and an
evicted page can come back; three clients let two share a page while a third evicts. Four pages
give every order of a free chain that deallocations can build. A log buffer of three cells with
records of one, two and four covers fits, exactly full, flush first, and larger than the buffer. A
page of seven units fills up, has holes, and has room lost to tombstones. Recovery has one page
(the replay of a record touches only its page), five log records (allocation and four changes, so
insert, insert, delete, insert into the freed slot occurs) and two restarts, so that a recovery is
interrupted and repeated. A heap of three pages is the least with a first, a middle and a last one;
two live records among them, each fitting a page alone or not beside another, make pages fill, empty
and be skipped by a scan. Two frames to spare are what the longest call needs, and a pool of four lets an
iterator and a page a client keeps exist beside them. Seven keys in
nodes of two build a tree of three levels, whose inner nodes split; leaves run empty and stay. The
executor has three records on two pages, so that a scan crosses a page and a slot is used again, and
a frame more than pages. Symmetry is used on clients and values only, in runs without liveness.

**Fairness.** Only `Recovery` has a liveness property. Weak fairness of `RedoRecord` and
`RecoveryEnds` says that the loop in `Recover` goes on while its process lives; crashes interrupt
it and are bounded by `MaxRestarts`. Every other specification is a safety specification.

**Switches.** The passing runs leave out, by a constant, what the code does not survive. The
violation runs switch some of it on; the rest can be seen by changing the same constant:

| Constant | Value | What fails | Code |
|---|---|---|---|
| `Faults` | `"write"` | `EvictionPersists`: a failed write is ignored and the dirty page dropped | `src/buffer/buffer_pool_manager.cpp:338-344` |
| `Faults` | `"extend"` | `NullOnlyWhenAllPinned`: the frame taken by a NewPage that throws is lost | `src/buffer/buffer_pool_manager.cpp:191-197` |
| `Faults` | `"alloc_read"` | `OnePageOneFrame`: a page is handed out and stays on the free list | `src/disk/disk_manager.cpp:127-137` |
| `Events` (log) | `"write_fails"`, `"append_on_torn"` | `LsnIsOffset`: `next_lsn_` has moved when the write fails, and every later LSN is off | `src/recovery/log_manager.cpp:76-90` |
| `Events` (log) | `"power_loss"`, `"append_on_torn"` | `IteratorFaithful`: the log goes on behind a torn record, and a reader stops there | `src/recovery/log_manager.cpp:46-52` |
| `MaxLength` (page) | `Word - 1` | `HasSpaceForExact`: the sum wraps | `src/storage/page.cpp:230-234` |
| `Capacity` (recovery) | `3` | `RecoveredExactly`: replay deletes a live record and the full page has no room to put it back | `src/recovery/recovery_manager.cpp:166-170` |
| `PoolSize`, `SpareFrames` (heap) | `2`, `1` | `BookkeepingExact`: the new page takes the last frame and the old last page is not linked to it | `src/storage/heap_file.cpp:290-298` |
| `PoolSize`, `SpareFrames` (heap) | `2`, `0` | `UpdateKeepsRecord`: the old record is deleted and no page can be had for the new one | `src/storage/heap_file.cpp:186-191` |
| `Sizes` (heap) | `{1, 4}` | `UpdateKeepsRecord`: the old record is deleted before the new one turns out too large for any page | `src/storage/heap_file.cpp:186-191` |
| `StaleUpdates` (heap) | `TRUE` | `BookkeepingExact`: an update of a deleted record counts it as deleted again | `src/storage/heap_file.cpp:186-187` |
| `Clashes` (executor) | `"delete_under_iterator"` | `IteratorOnRecord`: the iterator stands on the record and asserts that it is there | `src/storage/heap_file.cpp:370` |
| `Clashes` (executor) | `"reuse_slot"` | `AnswerSound`: an index scan reads another record through a RID it has stored | `src/query/executor.cpp:89-99` |
| `PoolSize`, `MaxPages` (executor) | `2`, `3` | `AnswerComplete`: the pins of scans that were dropped or stopped by Limit fill the pool, and a scan ends early, on an intact chain too | `src/query/executor.cpp:189` |
| `Events` (recovery) | `"write_back_first"` | `RecoveredExactly`: the pool and Checkpoint write pages before the log | `src/recovery/recovery_manager.cpp:105-120` |

No switch is needed for `FlushUpTo`: the run calls it with every LSN. For a record that has left the
buffer it returns without an fsync (`src/recovery/log_manager.cpp:112`). An append
that finds the buffer full writes it, and one larger than the buffer is written at once (`:80-91`), which
moves `flushed_lsn_` but syncs nothing; a power loss then takes a record that the call returned for. The header promises "Flush the log up to (and including)
the specified LSN" (`src/include/recovery/log_manager.h:87`) and says of `flushed_lsn_` "All records up to
this LSN are durable" (`:163`). `FlushedSurvives` states what is true of these records, that a killed
process does not take them; with `synced` in place of `flushed_lsn` in its second line it is violated.
Nothing in the repository calls `FlushUpTo` yet.

A scan of the heap goes by ids. An update that moves a record (`src/storage/heap_file.cpp:184-191`) gives
it another one, and a scan under way returns the record twice if it moves from behind the scan to ahead
of it, and never if it moves the other way. `ScanOverRids` therefore says of ids what it does not say of
records.

A B+ tree that was refused a page in mid-split keeps all its entries on the leaf chain (`IndexSpec`,
`LeavesChained`), but searches from the root miss those of a leaf that no parent names; `Insert` has
returned true by then (`src/index/btree.cpp:518`, `558-561`, `613`). That is why `TreeSound` and
`SearchExact` speak of trees that never were (`Settled`). Duplicates of one key are found in one of
the leaves they lie in; `btree` therefore has a record per key.

`Truncate` restarts LSNs at 0, against docs/06_wal_and_recovery.md:68 ("never reused"); the page
LSN that docs/06 describes (lines 71-72, 147) does not exist in the code, and `Recovery` has none.

## Proofs

All hold for every value of the constants that meets the named assumptions of the modules.

**The pool's structures** (`BufferPoolProofs`), for every pool size, number of pages, set of clients
and values, provided `"alloc_read" \notin Faults`; reads, writes and extensions may fail:

* `TypeCorrect`: `Spec => []TypeOK`;
* `PageInOneFrame`: `Spec => []OnePageOneFrame`;
* `ListsDisjoint`: `Spec => []FrameLists`;
* `PinnedNeverEvicted`: `Spec => [](PinCountExact /\ PointersValid)`.

None of the four is inductive alone. That an evicted frame is unpinned needs the replacer to hold
only unpinned frames; that this survives an unpin needs pin counts to be exact; that needs the page
table and the metadata to be inverse to each other; and that a new page is not resident needs
residents to be live. The inductive invariant `IInv` is their conjunction with the types, stated
over the pool's variables as parameters (`PoolSound`) so that the half-way state after
FindFreeFrame, before the frame gets its new page, can be spoken of: `FrameFound` shows that state
sound and its frame free, `FrameOccupied` that a free frame can be given a page. There is one lemma
per action, lemmas on removing from and adding to a list without duplicates, and on counting
pointers with `Cardinality`.

**What the pool keeps**, from the same invariant:

* `FramesReturned`: `Spec => NoFrameLost`, whatever else fails: each step's lost frames are among
  those before it, as the frame FindFreeFrame takes ends in the page table or the free list;
* `RefusedOnlyWhenAllPinned`: `Spec => []NullOnlyWhenAllPinned` if moreover `"extend" \notin Faults`,
  as then `LostFrames = {}` is invariant, and a frame on neither list is one that clients hold;
* `UpdatesKept`: `Spec => []NoLostUpdate` if moreover `"write" \notin Faults`. With `IInv` it is
  inductive: a frame gets its content from the file or from its holder, and loses its dirty flag only
  when it is written;
* `EvictedPagesWritten`: `Spec => EvictionPersists` under the same assumptions, as a victim is
  unpinned and so, by `NoLostUpdate`, dirty or equal to its copy.

**The pool is a page store**: `PoolIsPageStore`, `Spec => StoreSpec`, under the same assumptions. The mapped content of a page is `Current`: its frame's if it is resident, else
the file's. Every action maps to the client's step, a crash, a write-back or a stutter; the victim is
where `NoLostUpdate` is needed, since its page is the file's from then on.

**The log** (`LogManagerProofs`), for every buffer size, record sizes and log length:

* `WrittenStays`: `Spec => WrittenNeverModified`, without further assumption;
* `RecordsAtTheirLsn`: `Spec => []LsnIsOffset` if `"append_on_torn" \notin Events`;
* `FlushedRecordsSurvive`: `Spec => []FlushedSurvives` under the same assumption;
* `TypeCorrect`: `Spec => []TypeOK`, without further assumption;
* `LogIsAppendOnly`: `Spec => AppendOnlySpec` if `"append_on_torn" \notin Events`;
* `IteratorsAreFaithful`: `Spec => []IteratorFaithful` under the same assumption.

`InOrder` relates the positions: synced and flushed within the file, file and buffer within
`next_lsn`. It suffices for the first theorem, because every write starts at `flushed_lsn` or at
`next_lsn`. The second adds what the log holds (`RecordsInPlace`). It is inductive only with
`TailAgrees`: beyond `flushed_lsn`, where a failed write may have left a part of the buffer, the file
has what the buffer will put there, so that a crash at that point keeps whole records and the repeated
write changes nothing. It also gives that `next_lsn` is the end of the buffer when nothing torn lies
behind the records (`NextIsEnd`), which is why the next record falls into place. The third adds that
records lie one after the other, that promised ones end within `synced`, and that those `FlushUpTo`
skipped end within what is written (`WrittenFirst`: the records before one that is written are written);
order is what shows that the prefix of records surviving a power loss contains every promised one.

Types need the positions of the buffer and the iterator's bounds (`TypeInv`). The refinement rests on
`LogInv`: file and buffer together are the acknowledged records, one directly behind the other, and
then at most a piece of one more. A flush keeps that log as it is, an append adds a record to it, a
crash or a power loss cuts it somewhere (`LaidCut`), and `LogStep` names what each action does of
this. `ParseLaid` is the link to the abstract log: reading such a log from its start yields the
records' names, whatever piece follows. An iterator needs less than the log it stands in: the records
up to the last one it will find are in the file and end before its `file_size`, the next does not
(`ReadsFrom`). Such an iterator reads the next record or stops behind the last (`ReadNext`), and
records and bytes added behind it do not disturb it (`ReaderGrows`). The assumption is needed: a log
continued behind a torn piece is neither readable past it nor addressed by its LSNs (see Switches).

**The file** (`DiskManagerProofs`), for every number of pages and owners, provided `"reuse"` is in
neither `CrashPoints` nor `FailPoints`:

* `TypeCorrect`: `Spec => []TypeOK`;
* `FreeListSound`: `Spec => []FreeChainSound`;
* `RestartSound`: `Spec => []RestartChainSound`;
* `NothingLeaked`: `Spec => NoPageLeaked`;
* `DiskIsAllocator`: `Spec => AllocatorSpec`.

The assumption is what `disk_crash_in_reuse` refutes: the reused page is zeroed before the header that
takes it off the list is written. The invariant `FileInv` asserts two chains, one that starts in the
cached header and one in the header on disk; between the writes of a call they differ by the page the
call takes or gives back. A chain is never computed. It is a sequence whose existence is asserted, and
each call makes it one page longer at its front (`ChainCons`), one shorter (`ChainTail`), or writes to
pages outside it (`ChainStays`). `FileInv` further has the page a call is about to return
(`NewPageSound`), and that the header on disk counts every owned page and no more pages than the cached
one; the latter is why a crash in an extension leaks a page but never gives one away. `NothingLeaked`
is about steps: what was in the old chain is in the new one, owned, or in the call's hands.

**The page** (`SlottedPageProofs`), for every size of page, header, slot and record, provided
`~GrowUnchecked`, that is, an update that moves a record to the free space finds room there
(`slotted_page_grow` shows what happens otherwise):

* `TypeCorrect`: `Spec => []TypeOK`, so no write leaves the page and no `uint16_t` field wraps;
* `LayoutKept`: `Spec => []LayoutSound`;
* `HasSpaceForIsExact`: `Spec => []HasSpaceForExact` if moreover `MaxLength + SLOT_ENTRY_SIZE < Word`,
  as the sum in `HasSpaceFor` wraps for longer records;
* `PageKeepsRecords`: `Spec => RecordsKept`.

The invariant `PageInv` adds to types and layout that the bytes of every live slot are those of one
record (`RecordsWhole`). An insert or a moved record touches only free space (`PutAtEnd`), an update in
place only its own bytes, saving only the directory. `Compact` is the hard one, as records move while
others are yet to be moved: `PackedAbove` shows that no record moves down and `PackedApart` that the
places they move to are disjoint, so that the copy of a record equals the record.
`NoRecordAssumption` says that the model value for an empty slot is not a record.

**Recovery** (`RecoveryProofs`), for every number of pages and values and every size of page, record
and log, provided `"write_back_first" \notin Events`, that is, a page is written after the log that
accounts for it:

* `RecoversWhereRoom`: `Spec /\ []RoomInRedo => []RecoveredExactly`. `RoomInRedo` says that the insert
  to be replayed next finds its slot taken or room in its page; the code ignores an insert that fails;
* `RecoversAll`: `Spec => []RecoveredExactly` if moreover `"new_page_unwritten" \notin Events` and
  `RoomForAll`: a page has room for `MaxLog` inserts in each of the `MaxRestarts + 1` lives of the
  process, as a replay may take new space for an insert that a later record undoes. The run `recovery`
  meets it; `Capacity = 3` (see Switches) does not, and fails;
* `RedoesInSlot`: `Spec => RedoLandsInSlot`, and `TypeCorrect`: `Spec => []TypeOK`, under the same
  assumptions.

Pages carry no LSN, so a replay starts from slots that may hold what any record left. `RecoveryInv`
says of each page that the log is one that clients could have written (`Past`: a history `h` of its
slots, in which each insert takes the first free slot and each delete and update finds a record);
that every slot in the file, and what it holds, comes from the forced part of the log (`FromLog`,
where the write-ahead rule is used); and that with the records before `c` replayed, the slots of
`h[c - 1]` are empty where they were empty then, and one that holds something else is written again by
a record from `c` on (`Redone`). That is why an insert lands in its slot (`LandsInSlot`), why one that
is skipped is skipped rightly (`RedoneSkipped`), and why nothing is left to differ at the end
(`RedoneAll`). `RoomInv` bounds what a page can have spent by the records logged or replayed.
`NoRecordAssumption` says that the mark of an empty slot is not a record.

**The heap file** (`HeapFileProofs`), for every number of pages, records and frames and every size of
page, record and batch, provided `CarefulClients`: `SpareFrames \in 2 .. PoolSize` and `~StaleUpdates`.
Two frames are what `AllocateNewPage` pins at once, the new page and the old last one; with fewer the
chain is cut, and an update of a record that is gone miscounts (see Switches):

* `TypeCorrect`: `Spec => []TypeOK`;
* `BookkeepingKept`: `Spec => []BookkeepingExact`;
* `ScansCoverRids`: `Spec => []ScanOverRids`;
* `UpdatesKeepRecords`: `Spec => []UpdateKeepsRecord` if moreover `RecordsFit`, that is, every record
  fits an empty page;
* `HeapOfRecords`: `Spec => HeapSpec`, for records of every size.

The invariant `HeapInv` has three parts. `Sound` says that page `i` links to page `i + 1`, that the
counters are exact and that the directory lists pages of the heap, each once. It is stronger than
`ChainComplete`, which a chain in another order would meet too: with pages in the order of their
numbers, "behind the iterator" is a fact about two ids that no later insert changes. `PinsSound` says
that clients and iterator leave the two frames; from it every page a call asks for can be had
(`FrameToSpare`), so the branches in which the code finds no frame are not taken. `IteratorSound` says
that an iterator has seen ids in ascending order, none beyond its place, and that an id it must
see has been seen or lies beyond (`Scanning`), and at its end that none is left (`Finished`). Pages are
only added behind the last one, so an id that lies beyond the iterator stays there until it comes to it; an advance goes to the least live id beyond (`AdvanceKeeps`).

There is a lemma on what each page operation leaves (`InsertedPage`, `DeletedPage`,
`ReplacedInPage`), one on what a changed page does to the records of the heap (`RecordAdded`,
`RecordRemoved`, `RecordReplaced`), and one on each operator that calls are built from
(`AllocatedPage`, `FoundPage`, `PutAdds`, `InsertResult`, `DeleteResult`, `UpdateResult`,
`BulkResult`, `ReopenResult`). They say that the heap returned is sound and that its records are those
of the heap given, with some more, one fewer or one replaced. The refinement is read off from that
(`Moves`). `NoRecordAssumption` says that the mark of an empty slot is not a record.

**Queries** (second half of `HeapFileProofs`, as they rest on its lemmas), for every plan, table, limit
and pool, if `Clashes = {}`, in every behaviour in which two frames are left that nothing has pinned
(`TwoFramesLeft`), since a scan that cannot have a page ends there (see Switches):

* `QueriesTypeCorrect`: `ExecutorSpec /\ []TwoFramesLeft => []ExecutorTypeOK`;
* `AnswersAreSound`: `ExecutorSpec /\ []TwoFramesLeft => []AnswerSound`;
* `AnswersAreComplete`: `ExecutorSpec /\ []TwoFramesLeft => []AnswerComplete`;
* `NoPinIsLeft`: `ExecutorSpec /\ []TwoFramesLeft => []NoPinLeft`;
* `AnswersFromALargePool`: the last three without the condition on behaviours if
  `PoolSize >= MaxPages + 2`. The run `executor` has one frame fewer, which is enough there since the
  heap does not grow beyond `MaxPages`.

The invariant `ExecInv` says of a query what its kind of plan has done so far. A table scan
(`TableSound`) has returned rows in the order of their ids, all from before the record its iterator
stands on, and the iterator will come to every row the query still owes (`Reaches`). The iterators a
call of Next goes through are a `Walk` in that order, which has ended after as many steps as there are
records (`WalkEnds`) and passes every record beyond its start (`WalkCovers`). An index scan
(`IndexSound`) still owes rows only to entries it has not read, and none of these has the id of a row
already returned. `Materialized` is a choice, so what it lists depends on a lemma that the entries can
be put in order at all (`EntriesListed`: each goes behind as many as precede it). An operator that
materializes its input (`MaterialSound`) holds, with what it has returned, exactly what the table held
for the plan at Init (`InputIsWanted`). Inserts keep all this because ids are stable, deletes because
a row that is deleted is owed no longer; the two clashes are where it breaks.

**The tree's nodes and leaves** (`BTreeProofs`), for every set of keys and RIDs, every node size of at
least one record in a leaf and two keys in an inner node, and every number of pages, whether the pool
refuses pages or not, and with several records per key:

* `TypeCorrect`: `Spec => []TypeOK`;
* `LeavesStayChained`: `Spec => []LeavesChained`;
* `IndexIsOrdered`: `Spec => IndexSpec`.

Even the types need the shape of the tree, since a search goes down to a leaf only if every child is
nearer to the leaves than its parent. `Shape` asserts a height for each page (`ht`): children are one
lower, a parent pointer names a node one higher or none, and the nodes of a pending `split` are as
high as each other. It survives refused pages, which leave children with their old parent but never
at another height. `Linked` asserts the chain as a sequence that lists each leaf once, as in the other
modules; only `SplitLeaf` changes it, by putting one leaf behind another. `Kept` says that the keys in
every node ascend and that a leaf has no entry twice. That a split loses and doubles no entry is then
a fact about the halves of one sequence (`HalvesHeld`), and steps on inner nodes
leave the leaves alone (`LeavesSame`), which gives the refinement.

**Searches in the tree** (`BTreeSearch`), for the same constants, in every behaviour in which no two
records share a key (`OneRecordPerKey`):

* `StaysSound`: `Spec /\ []OneRecordPerKey => []TreeSound`;
* `SearchesAreExact`: `Spec /\ []OneRecordPerKey => []SearchExact`.

The condition is on what clients insert; the run `btree` meets it by having one RID, and
`btree_duplicates` shows that searches need it. Like the two properties, the invariant speaks of trees
that were never refused a page. `TreeSound` is not inductive: it says what lies under a separator
today, but a leaf that deletes have emptied bounds nothing, and the next insert goes there. `Bounds`
therefore gives every node a range of keys, from `lo[p]` to below `hi[p]`, that it keeps when it is
emptied: the root has all keys, the ranges of children tile their parent's at its separators
(`Tiled`), and a leaf's range ends where that of the next leaf on the chain begins. In mid-split the
new node's range is known before any parent names it (`Pending`): to the parent, the left node still
has the range of both. Each step of the climb moves that gap one level up or closes it.

From the ranges, a search comes to the one leaf whose range has the key (`FoundInside`, `LookupFinds`);
`Level` lists each level of the tree as nodes whose ranges tile all keys (`LevelsAre`), so that the
lowest one is the chain; the leaves a search gets to see are a piece of it (`FetchedIs`); and what a range
scan collects from them, leaf by leaf, ascends up to where the last of them ends (`PiecesScan`) and is
cut at `high` (`RangeFinds`). So a scan that is refused a leaf leaves out only keys from there on.

**Recursive functions.** `PackedOffset`, `Parse`, the slots in `Committed`, the walks in both
`ChainFrom`, the passes of `BulkSteps`, the list built by `Reopen`, the descent in `FindLeafPage` and
the levels of `Level` and the iterators of `Steps` are recursive functions. That they satisfy
their equations and what they return is proved by well-founded induction, in the form of a least
counterexample: the library's induction theorems take a predicate as parameter, which no installed
prover can instantiate, but `WFMin` takes a set (`LeastNatural`; `LoopRuns` for a loop).

**Only model-checked**: liveness (`RecoveryCompletes`), which is outside the prover's reach, and the
behaviours that the assumptions above leave out. Every other property that a passing run checks is a
theorem.

## Not modelled

The record serializer (a stateless encoding); projections, sums and extrema in the executor, the cast
of its results to 16 bits, and updates in place under a scan; a heap file or a tree shared by threads,
which have no latch and are not meant to be; heap pages that cannot be read, and the continuation of
BulkInsert after a null page; how a tree node is laid out in its page; statistics counters; a crash
inside InitializeNewFile; power loss below the buffer pool and the disk manager; clients that break
the interface (double unpin, double delete, writing through a pointer after unpinning it); the
wrap-around of `payload_size` in log records; the benchmarks.

## Plan

1. Models: record widths in the log format; pages of a heap that cannot be read; updates in place
   under a scan.
2. Proofs: what of `AnswerSound` is left to a query when the pool runs out of frames.
