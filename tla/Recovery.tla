------------------------------- MODULE Recovery -------------------------------
(***************************************************************************)
(* RecoveryManager over the buffer pool, the log and slotted pages: what a *)
(* process logs and changes, what is left of both when it dies, and the    *)
(* replay by which the next process starts.                                *)
(*                                                                         *)
(* The other components appear as their own modules show them to behave:   *)
(* the log is a sequence of records of which a crash keeps a prefix no     *)
(* shorter than what was forced (AppendOnlyLog), the pool is what clients  *)
(* see of each page (cache) in front of what is in the file (disk), as in  *)
(* PageStore, and a page is its slots and the space it has left            *)
(* (PageSlots).  Records have one size, so an update is made in place;     *)
(* nobody compacts a page, so the space of a deleted record stays used.    *)
(*                                                                         *)
(* The repository has no caller of RecoveryManager but its tests.  Clients *)
(* follow docs/06_wal_and_recovery.md: log the change, then make it.       *)
(*                                                                         *)
(* The operators named Mut... are deliberate mistakes, each a variant of   *)
(* the definition that follows it; no definition uses them.                *)
(***************************************************************************)
EXTENDS PageSlots

CONSTANTS Pages, Values,
          Capacity,      \* room in a formatted page
          RecordSize,    \* every record takes this much of it
          MaxLog,        \* bound: records in the log
          MaxRestarts,   \* bound: crashes and clean restarts
          Events         \* what clients and the pool may do besides

ASSUME BoundAssumption == MaxLog \in Nat /\ MaxRestarts \in Nat
ASSUME SizeAssumption ==
  Capacity \in Nat /\ RecordSize \in Nat \ {0}
ASSUME NoRecordAssumption == NoRecord \notin Values
ASSUME EventsAssumption == Events \subseteq {"new_page_unwritten", "write_back_first"}

VARIABLES log, forced,           \* the log, and how much of it is in its file
          cache, disk,           \* each page as clients see it, and in the file
          allocated,             \* the pages of the file
          mode, cursor,          \* what RecoveryManager is doing, and LogIterator
          restarts

vars == <<log, forced, cache, disk, allocated, mode, cursor, restarts>>

Slot      == 1 .. MaxLog         \* slot i is slot id i - 1
LogRecord == [type : {"insert", "delete", "update"}, page : Pages, slot : Slot,
              data : Values \cup {NoRecord}]
             \cup [type : {"new_page"}, page : Pages]
             \cup [type : {"checkpoint_begin", "checkpoint_end"}]
Page      == [slots : Seq(Values \cup {NoRecord}), free : 0 .. Capacity]

Formatted == [slots |-> <<>>, free |-> Capacity]
\* A page of zero bytes reads as one without slots and without free space.
Zeros     == [slots |-> <<>>, free |-> 0]

\* Every variable stays in its type; no page is filled beyond its room.
TypeOK ==
  /\ log \in Seq(LogRecord) /\ forced \in 0 .. Len(log)
  /\ cache \in [Pages -> Page] /\ disk \in [Pages -> Page]
  /\ allocated \subseteq Pages
  /\ mode \in {"running", "checkpoint", "flushed", "recovering"}
  /\ cursor \in 1 .. MaxLog + 1
  /\ restarts \in 0 .. MaxRestarts

-----------------------------------------------------------------------------
(* The process at work: each change is logged, then made in the cached page. *)

Logged(r) == Len(log) < MaxLog /\ log' = Append(log, r)

\* AllocatePage puts a page of zeros in the file; the pool's copy is formatted.
\* A careful client has it written before it logs anything about it.
NewPage(p) ==
  /\ mode = "running" /\ p \notin allocated
  /\ Logged([type |-> "new_page", page |-> p])
  /\ allocated' = allocated \cup {p}
  /\ cache' = [cache EXCEPT ![p] = Formatted]
  /\ disk' \in {[disk EXCEPT ![p] = Formatted]}
               \cup IF "new_page_unwritten" \in Events THEN {[disk EXCEPT ![p] = Zeros]} ELSE {}
  /\ UNCHANGED <<forced, mode, cursor, restarts>>

Insert(p, v) ==
  /\ mode = "running" /\ p \in allocated /\ HasSpaceFor(cache[p], RecordSize)
  /\ Logged([type |-> "insert", page |-> p, slot |-> FreeSlot(cache[p]), data |-> v])
  /\ cache' = [cache EXCEPT ![p] = InsertRecord(@, v, RecordSize)]
  /\ UNCHANGED <<forced, disk, allocated, mode, cursor, restarts>>

Delete(p, i) ==
  /\ mode = "running" /\ Holds(cache[p], i)
  /\ Logged([type |-> "delete", page |-> p, slot |-> i, data |-> cache[p].slots[i]])
  /\ cache' = [cache EXCEPT ![p] = DeleteRecord(@, i)]
  /\ UNCHANGED <<forced, disk, allocated, mode, cursor, restarts>>

Update(p, i, v) ==
  /\ mode = "running" /\ Holds(cache[p], i)
  /\ Logged([type |-> "update", page |-> p, slot |-> i, data |-> v])
  /\ cache' = [cache EXCEPT ![p].slots[i] = v]
  /\ UNCHANGED <<forced, disk, allocated, mode, cursor, restarts>>

FlushLog ==
  /\ mode = "running"
  /\ forced' = Len(log)
  /\ UNCHANGED <<log, cache, disk, allocated, mode, cursor, restarts>>

\* The write-ahead rule: what the log says of the page is in the log's file.  The
\* pool knows nothing of the log; it is up to clients to flush one before the
\* other can be written.
LogFirst(p) ==
  \A i \in forced + 1 .. Len(log) : "page" \in DOMAIN log[i] => log[i].page # p

\* An eviction, or a FlushPage, at any time, in the middle of a recovery too.
WriteBack(p) ==
  /\ p \in allocated
  /\ LogFirst(p) \/ "write_back_first" \in Events
  /\ disk' = [disk EXCEPT ![p] = cache[p]]
  /\ UNCHANGED <<log, forced, cache, allocated, mode, cursor, restarts>>

-----------------------------------------------------------------------------
(* Checkpoint: BEGIN, FlushAllPages, END, and only then Flush of the log. *)

CheckpointBegin ==
  /\ mode = "running"
  /\ (\A p \in Pages : LogFirst(p)) \/ "write_back_first" \in Events
  /\ Len(log) + 2 <= MaxLog          \* the bound leaves room for END
  /\ Logged([type |-> "checkpoint_begin"])
  /\ mode' = "checkpoint"
  /\ UNCHANGED <<forced, cache, disk, allocated, cursor, restarts>>

CheckpointFlushes ==
  /\ mode = "checkpoint"
  /\ disk' = cache
  /\ mode' = "flushed"
  /\ UNCHANGED <<log, forced, cache, allocated, cursor, restarts>>

CheckpointEnd ==
  /\ mode = "flushed"
  /\ Logged([type |-> "checkpoint_end"])
  /\ forced' = Len(log')
  /\ mode' = "running"
  /\ UNCHANGED <<cache, disk, allocated, cursor, restarts>>

-----------------------------------------------------------------------------
(* The process ends and the next one recovers. *)

StartsRecovery ==
  /\ restarts < MaxRestarts
  /\ restarts' = restarts + 1
  /\ mode' = "recovering"
  /\ cursor' = 1

\* The process is killed, in its work, in a checkpoint or in a recovery.
Crash ==
  /\ StartsRecovery
  /\ \E n \in forced .. Len(log) : log' = SubSeq(log, 1, n) /\ forced' = n
  /\ cache' = disk
  /\ UNCHANGED <<disk, allocated>>

\* The destructors flush the log and the pool.
CloseAndReopen ==
  /\ mode = "running"
  /\ StartsRecovery
  /\ forced' = Len(log)
  /\ disk' = cache
  /\ UNCHANGED <<log, cache, allocated>>

MutAlwaysInserts(pg, i) == FALSE
AlreadyApplied(pg, i) == Holds(pg, i)

\* What is done to a page depends on whether the slot holds a record, not on what
\* the page has already seen; a failed insert is ignored.
RedoPage(pg, r) ==
  CASE r.type = "insert" -> IF AlreadyApplied(pg, r.slot) THEN pg ELSE InsertRecord(pg, r.data, RecordSize)
    [] r.type = "delete" -> DeleteRecord(pg, r.slot)
    [] r.type = "update" -> IF Holds(pg, r.slot) THEN [pg EXCEPT !.slots[r.slot] = r.data] ELSE pg
    [] OTHER -> pg

MutNoNext == cursor
MutSkipsRecord == cursor + 2
NextRecord == cursor + 1

RedoRecord ==
  /\ mode = "recovering" /\ cursor <= Len(log)
  /\ LET r == log[cursor]
     IN  cache' = IF "page" \in DOMAIN r THEN [cache EXCEPT ![r.page] = RedoPage(@, r)] ELSE cache
  /\ cursor' = NextRecord
  /\ UNCHANGED <<log, forced, disk, allocated, mode, restarts>>

RecoveryEnds ==
  /\ mode = "recovering" /\ cursor > Len(log)
  /\ disk' = cache
  /\ mode' = "running"
  /\ UNCHANGED <<log, forced, cache, allocated, cursor, restarts>>

-----------------------------------------------------------------------------
\* A new database.
Init ==
  /\ log = <<>> /\ forced = 0
  /\ cache = [p \in Pages |-> Zeros] /\ disk = [p \in Pages |-> Zeros]
  /\ allocated = {}
  /\ mode = "running" /\ cursor = 1 /\ restarts = 0

Next ==
  \/ \E p \in Pages :
       \/ NewPage(p) \/ WriteBack(p)
       \/ \E v \in Values : Insert(p, v) \/ \E i \in Slot : Update(p, i, v)
       \/ \E i \in Slot : Delete(p, i)
  \/ FlushLog
  \/ CheckpointBegin \/ CheckpointFlushes \/ CheckpointEnd
  \/ Crash \/ CloseAndReopen \/ RedoRecord \/ RecoveryEnds

\* Recover is a loop of the process that called it: it goes on until it is done.
Fairness == WF_vars(RedoRecord) /\ WF_vars(RecoveryEnds)

Spec == Init /\ [][Next]_vars /\ Fairness

-----------------------------------------------------------------------------
(* Properties. *)

\* The slots of page p after the first n records of the log, read as what
\* the process did.
Committed(p) ==
  LET after[n \in 0 .. Len(log)] ==
        IF n = 0 THEN <<>>
        ELSE LET r == log[n]
             IN  IF r.type \in {"insert", "update", "delete"} /\ r.page = p
                 THEN Stored(after[n - 1], r.slot, IF r.type = "delete" THEN NoRecord ELSE r.data)
                 ELSE after[n - 1]
  IN  after[Len(log)]

\* recovery_manager.h:27-28, "Recovery is idempotent" and "After recovery, the
\* database is in the state of the last committed write": whichever pages had been
\* written when the process died, in a checkpoint or in a recovery too, every page
\* has in its slots what the log that survived says.
RecoveredExactly ==
  mode # "recovering" => \A p \in Pages : cache[p].slots = Committed(p)

\* recovery_manager.cpp:145-149, "we'll insert and hope the slot matches": replaying
\* an insert fills the slot it was logged for and no other.
RedoLandsInSlot ==
  [][RedoRecord /\ log[cursor].type = "insert"
     => \/ UNCHANGED cache
        \/ LET r == log[cursor]
           IN  cache'[r.page].slots = Stored(cache[r.page].slots, r.slot, r.data)]_vars

\* A recovery ends, also one that is itself interrupted.
RecoveryCompletes == (mode = "recovering") ~> (mode = "running")
==============================================================================
