----------------------------- MODULE LogManager -----------------------------
(***************************************************************************)
(* LogManager: the write-ahead log file, the buffer in front of it, and    *)
(* the iterator recovery reads it with.  Appending, flushing and           *)
(* truncating hold latch_ throughout; an iterator does not, so its steps   *)
(* interleave with them.                                                   *)
(*                                                                         *)
(* The file and the buffer are sequences of cells, the unit in which sizes *)
(* and LSNs are counted.  The first cell of a record is its header, where  *)
(* the reader finds total_size; the others are payload.                    *)
(*                                                                         *)
(* `synced` is how much of the file is on stable storage: a killed process *)
(* loses only its buffer, a power loss may also cut the file anywhere      *)
(* beyond synced, in the middle of a record too.                           *)
(*                                                                         *)
(* The operators named Mut... are deliberate mistakes, each a variant of   *)
(* the definition that follows it; no definition uses them.                *)
(***************************************************************************)
EXTENDS Integers, SequencesExt

CONSTANTS BufferSize,    \* log_buffer_.size(), in cells
          RecordSizes,   \* sizes of the records appended
          MaxLog,        \* bound: cells in the log
          MaxAppends,    \* bound: records ever appended
          Events         \* which of the optional events can happen

ASSUME SizeAssumption == BufferSize \in Nat \ {0} /\ RecordSizes \subseteq Nat \ {0}
ASSUME BoundAssumption == MaxLog \in Nat /\ MaxAppends \in Nat
ASSUME EventsAssumption ==
  Events \subseteq {"truncate", "power_loss", "append_on_torn", "write_fails"}

VARIABLES next_lsn, flushed_lsn, log_buffer,   \* LogManager
          file, synced,                        \* the log file
          it,                                  \* one LogIterator
          appends,                             \* records ever appended; the next one's name
          acked,                               \* [rec, lsn, size] returned to callers, still in the log
          promised,                            \* records a call that synced has returned for
          upto                                 \* others FlushUpTo has, since the last power loss

logVars == <<next_lsn, flushed_lsn, log_buffer, file, synced>>
vars    == <<next_lsn, flushed_lsn, log_buffer, file, synced, it, appends, acked, promised, upto>>

Records == 1 .. MaxAppends
Cell    == [rec : Records, pos : Nat, size : Nat]
Hole    == [rec |-> 0, pos |-> 0, size |-> 0]     \* zero bytes between two writes
Garbage == 0                                       \* a record put together from two

Serialize(r, n) == [k \in 1 .. n |-> [rec |-> r, pos |-> k, size |-> n]]

\* stage says whether Begin is still between Flush and the constructor; start is
\* the record it begins at, least how many records it must find from there on.
NoIterator == [stage |-> "none", valid |-> FALSE, offset |-> 0, file_size |-> 0, size |-> 0,
               start |-> 1, least |-> 0, read |-> <<>>, snapshot |-> <<>>]

\* Every variable stays in its type, and offsets within the bound.
TypeOK ==
  /\ next_lsn \in 0 .. MaxLog
  /\ flushed_lsn \in 0 .. MaxLog
  /\ log_buffer \in Seq(Cell) /\ Len(log_buffer) <= BufferSize
  /\ file \in Seq(Cell \cup {Hole}) /\ synced \in 0 .. Len(file)
  /\ appends \in 0 .. MaxAppends
  /\ \A i \in DOMAIN acked : acked[i] \in [rec : Records, lsn : Nat, size : RecordSizes]
  /\ promised \cup upto \subseteq Records
  /\ it.stage \in {"none", "begin", "open"} /\ it.valid \in BOOLEAN /\ it.offset \in 0 .. MaxLog

-----------------------------------------------------------------------------
(* FlushBuffer: one pwrite at flushed_lsn_, no fsync. *)

Pwrite(f, off, cells) ==
  [i \in 1 .. (IF off + Len(cells) > Len(f) THEN off + Len(cells) ELSE Len(f)) |->
     IF i > off /\ i <= off + Len(cells) THEN cells[i - off]
     ELSE IF i <= Len(f) THEN f[i] ELSE Hole]

MutRewritesLastCell == IF flushed_lsn = 0 THEN Pwrite(file, 0, log_buffer)
                       ELSE Pwrite(file, flushed_lsn - 1, log_buffer)
FileFlushed == Pwrite(file, flushed_lsn, log_buffer)
LsnFlushed  == flushed_lsn + Len(log_buffer)

-----------------------------------------------------------------------------
(* AppendLogRecord. *)

EndOfLog == IF acked = <<>> THEN 0 ELSE Last(acked).lsn + Last(acked).size
TornTail == next_lsn # EndOfLog

MayAppend(n) ==
  /\ appends < MaxAppends /\ next_lsn + n <= MaxLog
  /\ TornTail => "append_on_torn" \in Events

MutOneTooMany(n) == Len(log_buffer) + n > BufferSize + 1
BufferFull(n) == Len(log_buffer) + n > BufferSize

LargerThanBuffer(n) == n > BufferSize

Acknowledge(n) ==
  /\ appends' = appends + 1
  /\ acked' = Append(acked, [rec |-> appends + 1, lsn |-> next_lsn, size |-> n])

AppendLogRecord(n) ==
  /\ MayAppend(n)
  /\ Acknowledge(n)
  /\ next_lsn' = next_lsn + n
  /\ LET full    == BufferFull(n)
         flushed == IF full THEN FileFlushed ELSE file
         kept    == IF full THEN <<>> ELSE log_buffer
         bytes   == Serialize(appends + 1, n)
     IN  IF LargerThanBuffer(n)
         THEN /\ file' = Pwrite(flushed, next_lsn, bytes)
              /\ flushed_lsn' = next_lsn + n
              /\ log_buffer' = kept
         ELSE /\ file' = flushed
              /\ flushed_lsn' = IF full THEN LsnFlushed ELSE flushed_lsn
              /\ log_buffer' = kept \o bytes
  /\ UNCHANGED <<synced, it, promised, upto>>

\* A short pwrite, of the buffer or of a large record: next_lsn_ has moved, the
\* record is not in the log, and the caller gets an exception for an LSN.
AppendThrows(n) ==
  /\ "write_fails" \in Events /\ MayAppend(n) /\ BufferFull(n)
  /\ appends' = appends + 1
  /\ next_lsn' = next_lsn + n
  /\ \/ /\ \E k \in 0 .. Len(log_buffer) - 1 :
             file' = Pwrite(file, flushed_lsn, SubSeq(log_buffer, 1, k))
        /\ UNCHANGED <<flushed_lsn, log_buffer>>
     \/ /\ LargerThanBuffer(n)
        /\ \E k \in 0 .. n - 1 :
             file' = Pwrite(FileFlushed, next_lsn, SubSeq(Serialize(appends + 1, n), 1, k))
        /\ flushed_lsn' = LsnFlushed
        /\ log_buffer' = <<>>
  /\ UNCHANGED <<synced, it, acked, promised, upto>>

\* The same short pwrite in Flush, FlushUpTo or Begin, which throw before fsync.
FlushThrows ==
  /\ "write_fails" \in Events
  /\ \E k \in 0 .. Len(log_buffer) - 1 :
       file' = Pwrite(file, flushed_lsn, SubSeq(log_buffer, 1, k))
  /\ UNCHANGED <<next_lsn, flushed_lsn, log_buffer, synced, it, appends, acked, promised, upto>>

-----------------------------------------------------------------------------
(* Flush, FlushUpTo and Truncate. *)

MutNoFsync(f) == synced
Fsync(f) == Len(f)

Recorded(upTo) == {acked[i].rec : i \in {j \in DOMAIN acked : acked[j].lsn <= upTo}}

FlushAndSync ==
  /\ file' = FileFlushed
  /\ flushed_lsn' = LsnFlushed
  /\ log_buffer' = <<>>
  /\ synced' = Fsync(file')

Flush ==
  /\ FlushAndSync
  /\ promised' = promised \cup Recorded(next_lsn) /\ upto' = {}
  /\ UNCHANGED <<next_lsn, it, appends, acked>>

\* Does nothing for an LSN that FlushBuffer has written, synced or not.
MutOnlyBeyond(lsn) == lsn > flushed_lsn
StillBuffered(lsn) == lsn >= flushed_lsn

FlushUpTo(lsn) ==
  /\ IF StillBuffered(lsn) /\ log_buffer # <<>>
     THEN /\ FlushAndSync
          /\ promised' = promised \cup Recorded(lsn) /\ upto' = upto \ promised'
     ELSE /\ upto' = (upto \cup Recorded(lsn)) \ promised
          /\ UNCHANGED <<file, flushed_lsn, log_buffer, synced, promised>>
  /\ UNCHANGED <<next_lsn, it, appends, acked>>

\* Nobody truncates the log while reading it.
Truncate ==
  /\ "truncate" \in Events /\ it = NoIterator
  /\ next_lsn' = 0 /\ flushed_lsn' = 0
  /\ log_buffer' = <<>> /\ file' = <<>> /\ synced' = 0
  /\ acked' = <<>> /\ promised' = {} /\ upto' = {}
  /\ UNCHANGED <<it, appends>>

-----------------------------------------------------------------------------
(* LogIterator. *)

\* What the four bytes at offset o of f may say: zero in a hole, anything at all
\* in the middle of a record.
TotalSizes(f, o) ==
  IF f[o + 1].pos = 1 THEN {f[o + 1].size}
  ELSE IF f[o + 1] = Hole THEN {0} ELSE {0} \cup RecordSizes

Deserialize(f, o, n) ==
  LET r == f[o + 1].rec
  IN  IF SubSeq(f, o + 1, o + n) = Serialize(r, n) THEN r ELSE Garbage

Readable(f, i, o, n) == n # 0 /\ o + n <= i.file_size /\ o + n <= Len(f)

\* The iterator i at offset o: valid, with the record there, or no longer valid.
ReadCurrentRecord(f, i, o) ==
  IF o >= i.file_size \/ o >= Len(f) THEN {[i EXCEPT !.valid = FALSE, !.offset = o]}
  ELSE {IF Readable(f, i, o, n)
        THEN [i EXCEPT !.valid = TRUE, !.offset = o, !.size = n,
                       !.read = Append(@, Deserialize(f, o, n))]
        ELSE [i EXCEPT !.valid = FALSE, !.offset = o] : n \in TotalSizes(f, o)}

\* Of the records returned to callers, f holds as a whole the first n and no more.
HoldsFirst(f, n) ==
  /\ \A i \in 1 .. n : acked[i].lsn + acked[i].size <= Len(f)
  /\ n < Len(acked) => acked[n + 1].lsn + acked[n + 1].size > Len(f)

\* Begin and BeginAt flush under the latch ...
BeginAt(k) ==
  /\ it = NoIterator
  /\ FlushAndSync
  /\ promised' = promised \cup Recorded(next_lsn) /\ upto' = {}
  /\ it' = [NoIterator EXCEPT !.stage = "begin", !.start = k, !.least = Len(acked) - k + 1]
  /\ UNCHANGED <<next_lsn, appends, acked>>

\* ... and take the size of the file and read the first record without it.  The
\* snapshot is what the file holds at that moment, from that record on.
MakeIterator ==
  /\ it.stage = "begin"
  /\ LET k == it.start
     IN  \E n \in 0 .. Len(acked) :
           /\ HoldsFirst(file, n)
           /\ it' \in ReadCurrentRecord(file,
                        [it EXCEPT !.stage = "open", !.file_size = Len(file),
                                   !.snapshot = [j \in 1 .. n - k + 1 |-> acked[k + j - 1].rec]],
                        IF k = 1 THEN 0 ELSE acked[k].lsn)
  /\ UNCHANGED <<logVars, appends, acked, promised, upto>>

IteratorNext ==
  /\ it.valid
  /\ it' \in ReadCurrentRecord(file, it, it.offset + it.size)
  /\ UNCHANGED <<logVars, appends, acked, promised, upto>>

IteratorDropped ==
  /\ it.stage = "open"
  /\ it' = NoIterator
  /\ UNCHANGED <<logVars, appends, acked, promised, upto>>

-----------------------------------------------------------------------------
(* The ways a process ends; the next one takes the file size for next_lsn_. *)

\* Of the records returned to callers, those that f still holds as a whole.
Survive(f) == \E n \in 0 .. Len(acked) : HoldsFirst(f, n) /\ acked' = SubSeq(acked, 1, n)

Reopen(f) ==
  /\ file' = f
  /\ next_lsn' = Len(f) /\ flushed_lsn' = Len(f)
  /\ log_buffer' = <<>>
  /\ it' = NoIterator
  /\ Survive(f)
  /\ UNCHANGED <<appends, promised>>

CloseAndReopen ==
  /\ Reopen(FileFlushed)
  /\ UNCHANGED <<synced, upto>>

ProcessCrash ==
  /\ Reopen(file)
  /\ UNCHANGED <<synced, upto>>

\* What FlushUpTo returned for need not survive this, as it need not be synced.
PowerLoss ==
  /\ "power_loss" \in Events
  /\ upto' = {}
  /\ \E n \in synced .. Len(file) : Reopen(SubSeq(file, 1, n)) /\ synced' = n

-----------------------------------------------------------------------------
Init ==
  /\ next_lsn = 0 /\ flushed_lsn = 0 /\ log_buffer = <<>>
  /\ file = <<>> /\ synced = 0
  /\ it = NoIterator
  /\ appends = 0 /\ acked = <<>> /\ promised = {} /\ upto = {}

Next ==
  \/ \E n \in RecordSizes : AppendLogRecord(n) \/ AppendThrows(n)
  \/ Flush \/ FlushThrows
  \/ \E i \in DOMAIN acked : FlushUpTo(acked[i].lsn)
  \/ Truncate
  \/ \E k \in {1} \cup DOMAIN acked : BeginAt(k)
  \/ MakeIterator \/ IteratorNext \/ IteratorDropped
  \/ CloseAndReopen \/ ProcessCrash \/ PowerLoss

Spec == Init /\ [][Next]_vars

-----------------------------------------------------------------------------
(* Properties. *)

\* The log once the buffer is written.
Log == Pwrite(file, flushed_lsn, log_buffer)

\* log_manager.h:25, "LSNs are the byte offset of the record in the log file":
\* every record a caller was given an LSN for is found whole at that offset, once
\* the buffer is written, however appends, flushes and restarts interleave.
LsnIsOffset ==
  \A i \in DOMAIN acked :
    LET a == acked[i]
    IN  /\ a.lsn + a.size <= Len(Log)
        /\ SubSeq(Log, a.lsn + 1, a.lsn + a.size) = Serialize(a.rec, a.size)

\* log_manager.h:26, "Log records are never modified once written": a write that
\* fails half-way, and the one that repeats it, leave what lies before flushed_lsn_
\* alone.
WrittenNeverModified ==
  [][Truncate \/ PowerLoss
     \/ SubSeq(file', 1, flushed_lsn) = SubSeq(file, 1, flushed_lsn)]_vars

\* An iterator returns the records that were in the file when it was made, all of
\* them, whole and in order, those appended before Begin was called included,
\* although appends, flushes and a power loss that cut a record in two go on
\* around it (docs/06, "Recovery stops at the last complete record").
IteratorFaithful ==
  /\ IsPrefix(it.read, it.snapshot)
  /\ it.stage = "open" => Len(it.snapshot) >= it.least
  /\ it.stage = "open" /\ ~it.valid => it.read = it.snapshot

\* log_manager.h:81, "Force all buffered log records to durable storage": no crash or
\* power loss takes a record once Flush, Begin, which calls it, or a FlushUpTo that still
\* found its record in the buffer has returned for it.  A FlushUpTo whose record has
\* left the buffer syncs nothing: the record is in the file, so it outlives a killed
\* process, but not a power loss.  That falls short of :87, "Flush the log up to (and
\* including) the specified LSN", and of what :163 says of flushed_lsn_, "All records up
\* to this LSN are durable".
FlushedSurvives ==
  /\ \A i \in DOMAIN acked :
       LET a == acked[i]
       IN  /\ a.rec \in promised => a.lsn + a.size <= synced
           /\ a.rec \in upto => a.lsn + a.size <= flushed_lsn
  /\ promised \cup upto \subseteq {acked[i].rec : i \in DOMAIN acked}

-----------------------------------------------------------------------------
\* The records a reader that starts at the front of s would see.
Parse(s) ==
  LET from[o \in 0 .. Len(s)] ==
        IF o < Len(s) /\ s[o + 1].pos = 1 /\ o + s[o + 1].size <= Len(s)
        THEN <<Deserialize(s, o, s[o + 1].size)>> \o from[o + s[o + 1].size]
        ELSE <<>>
  IN  from[0]

Abstract == INSTANCE AppendOnlyLog WITH
  records <- Parse(Log),
  forced  <- Len(Parse(SubSeq(file, 1, synced)))

\* Read back from the bytes, the log only grows at its end, and a crash leaves a
\* prefix that holds everything an fsync covered.
AppendOnlySpec == Abstract!Spec
==============================================================================
