-------------------------- MODULE LogManagerProofs --------------------------
(***************************************************************************)
(* What LogManager guarantees for every buffer size, every set of record   *)
(* sizes and every log length.                                             *)
(*                                                                         *)
(* The log is what LogAt describes: the file up to flushed_lsn, then the   *)
(* buffer.  InOrder says how the positions lie to each other and needs no  *)
(* condition, nor do the types (TypeInv).  With nothing appended behind a  *)
(* torn tail:                                                              *)
(*   RecordsInPlace  every acknowledged record lies in the log;            *)
(*   SyncedFirst     the promised ones lie in its synced part;             *)
(*   WrittenFirst    those FlushUpTo took for durable lie in the file;     *)
(*   LogInv          the log is those records, one behind the other, and   *)
(*                   at most a piece of one more, so that Parse returns    *)
(*                   their names (ParseLaid): the log is append-only;      *)
(*   FaithfulInv     an iterator stands in a log that only grows behind    *)
(*                   what the iterator was made for.                       *)
(* What Parse, a recursive function, returns is proved without induction:  *)
(* the least number of records left for which it would be wrong would have *)
(* a smaller one.                                                          *)
(***************************************************************************)
EXTENDS LogManager, SequenceTheorems, WellFoundedInduction, TLAPS

Bytes == Cell \cup {Hole}
Acks  == [rec : Records, lsn : Nat, size : Nat]

\* The end of what the file up to flushed_lsn and the buffer hold together.
EndOfBuffer == flushed_lsn + Len(log_buffer)

\* Cell j of the log of a file f, flushed up to o, and a buffer b.
CellAt(f, o, b, j) == IF j <= o THEN f[j] ELSE b[j - o]
LogAt(j) == CellAt(file, flushed_lsn, log_buffer, j)

LogTypes ==
  /\ next_lsn \in Nat /\ flushed_lsn \in Nat /\ synced \in Nat /\ appends \in Nat
  /\ log_buffer \in Seq(Bytes) /\ file \in Seq(Bytes) /\ acked \in Seq(Acks)

InOrder ==
  /\ synced <= Len(file)
  /\ flushed_lsn <= Len(file)
  /\ Len(file) <= next_lsn
  /\ EndOfBuffer <= next_lsn

\* What a failed write left beyond flushed_lsn is what the next one puts there.
TailAgrees ==
  \A j \in flushed_lsn + 1 .. EndOfBuffer :
    j <= Len(file) => file[j] = log_buffer[j - flushed_lsn]

AckInPlace(a, f, o, b) ==
  /\ a.lsn + a.size <= o + Len(b)
  /\ \A k \in 1 .. a.size :
       CellAt(f, o, b, a.lsn + k) = [rec |-> a.rec, pos |-> k, size |-> a.size]

AcksInPlace ==
  \A i \in 1 .. Len(acked) : AckInPlace(acked[i], file, flushed_lsn, log_buffer)

RecordsInPlace == TailAgrees /\ AcksInPlace

OneAfterTheOther ==
  /\ \A i, j \in 1 .. Len(acked) : i < j => acked[i].lsn + acked[i].size <= acked[j].lsn
  /\ \A i, j \in 1 .. Len(acked) : i < j => acked[i].rec < acked[j].rec
  /\ \A i \in 1 .. Len(acked) : acked[i].rec <= appends

SyncedFirst ==
  /\ \A i \in 1 .. Len(acked) : acked[i].rec \in promised => acked[i].lsn + acked[i].size <= synced
  /\ \A r \in promised : \E i \in 1 .. Len(acked) : acked[i].rec = r

OrderInv   == LogTypes /\ InOrder
ContentInv == OrderInv /\ RecordsInPlace
\* flushed_lsn lies between two records, and behind every one in upto.
WrittenFirst ==
  /\ \A i \in 1 .. Len(acked) :
       acked[i].lsn < flushed_lsn \/ acked[i].rec \in upto =>
         acked[i].lsn + acked[i].size <= flushed_lsn
  /\ \A r \in upto : \E i \in 1 .. Len(acked) : acked[i].rec = r

PromiseInv == ContentInv /\ OneAfterTheOther /\ SyncedFirst /\ WrittenFirst

-----------------------------------------------------------------------------
(* Writing to the file. *)

\* A write leaves the file as long as it was, or ends it where the write ends; it
\* changes what it covers and fills a gap with holes.
LEMMA PwriteWrites ==
  ASSUME NEW f \in Seq(Bytes), NEW cells \in Seq(Bytes), NEW off \in Nat
  PROVE  LET g == Pwrite(f, off, cells)
         IN  /\ g \in Seq(Bytes)
             /\ Len(g) = IF off + Len(cells) > Len(f) THEN off + Len(cells) ELSE Len(f)
             /\ \A i \in 1 .. Len(g) :
                  g[i] = IF i > off /\ i <= off + Len(cells) THEN cells[i - off]
                         ELSE IF i <= Len(f) THEN f[i] ELSE Hole
<1> DEFINE n == IF off + Len(cells) > Len(f) THEN off + Len(cells) ELSE Len(f)
           g == Pwrite(f, off, cells)
           c(i) == IF i > off /\ i <= off + Len(cells) THEN cells[i - off]
                   ELSE IF i <= Len(f) THEN f[i] ELSE Hole
<1>1. n \in Nat /\ Len(f) \in Nat /\ Len(cells) \in Nat
  BY LenProperties
<1>2. g = [i \in 1 .. n |-> c(i)]
  BY DEF Pwrite
<1>3. \A i \in 1 .. n : c(i) \in Bytes
  <2> SUFFICES ASSUME NEW i \in 1 .. n PROVE c(i) \in Bytes
    OBVIOUS
  <2>1. CASE i > off /\ i <= off + Len(cells)
    <3>1. i - off \in 1 .. Len(cells)
      BY <2>1, <1>1
    <3> QED BY <2>1, <3>1, ElementOfSeq
  <2>2. CASE ~(i > off /\ i <= off + Len(cells)) /\ i <= Len(f)
    <3>1. i \in 1 .. Len(f)
      BY <2>2, <1>1
    <3> QED BY <2>2, <3>1, ElementOfSeq
  <2>3. CASE ~(i > off /\ i <= off + Len(cells)) /\ ~(i <= Len(f))
    BY <2>3 DEF Bytes
  <2> QED BY <2>1, <2>2, <2>3
<1> HIDE DEF g, c, n
<1>4. g \in Seq(Bytes) /\ Len(g) = n /\ \A i \in 1 .. n : g[i] = c(i)
  BY <1>1, <1>2, <1>3
<1> QED BY <1>4 DEF g, c, n

\* The cells of a record.
LEMMA SerializeCells ==
  ASSUME NEW r \in Records, NEW n \in Nat
  PROVE  /\ Serialize(r, n) \in Seq(Bytes)
         /\ Len(Serialize(r, n)) = n
         /\ \A k \in 1 .. n : Serialize(r, n)[k] = [rec |-> r, pos |-> k, size |-> n]
<1>1. \A k \in 1 .. n : [rec |-> r, pos |-> k, size |-> n] \in Bytes
  BY DEF Bytes, Cell
<1> QED BY <1>1 DEF Serialize

\* The file once the buffer is written: as long as the longer of both, the old
\* file up to flushed_lsn and the buffer behind it.
LEMMA BufferWritten ==
  ASSUME OrderInv
  PROVE  /\ FileFlushed \in Seq(Bytes)
         /\ Len(FileFlushed) = IF EndOfBuffer > Len(file) THEN EndOfBuffer ELSE Len(file)
         /\ EndOfBuffer \in Nat /\ flushed_lsn <= EndOfBuffer
         /\ \A j \in 1 .. EndOfBuffer : FileFlushed[j] = LogAt(j)
         /\ \A j \in 1 .. Len(FileFlushed) : j > EndOfBuffer => FileFlushed[j] = file[j]
         /\ \A j \in 1 .. flushed_lsn : j \in 1 .. Len(FileFlushed) /\ FileFlushed[j] = file[j]
<1>1. Len(log_buffer) \in Nat /\ Len(file) \in Nat
  BY LenProperties DEF OrderInv, LogTypes
<1> DEFINE g == FileFlushed
<1>2. /\ g \in Seq(Bytes)
      /\ Len(g) = IF EndOfBuffer > Len(file) THEN EndOfBuffer ELSE Len(file)
      /\ \A i \in 1 .. Len(g) :
           g[i] = IF i > flushed_lsn /\ i <= EndOfBuffer THEN log_buffer[i - flushed_lsn]
                  ELSE IF i <= Len(file) THEN file[i] ELSE Hole
  BY PwriteWrites DEF OrderInv, LogTypes, FileFlushed, EndOfBuffer
<1> HIDE DEF g
<1>3. EndOfBuffer \in Nat /\ flushed_lsn <= EndOfBuffer /\ flushed_lsn <= Len(file)
      /\ flushed_lsn \in Nat
  BY <1>1 DEF OrderInv, LogTypes, InOrder, EndOfBuffer
<1>4. \A j \in 1 .. EndOfBuffer : g[j] = LogAt(j)
  BY <1>1, <1>2, <1>3 DEF LogAt, CellAt
<1>5. \A j \in 1 .. Len(g) : j > EndOfBuffer => g[j] = file[j]
  BY <1>1, <1>2, <1>3
<1>6. \A j \in 1 .. flushed_lsn : j \in 1 .. Len(g) /\ g[j] = file[j]
  BY <1>1, <1>2, <1>3
<1> QED BY <1>2, <1>3, <1>4, <1>5, <1>6 DEF g

\* A write of the first k cells of a sequence, at flushed_lsn or later, keeps what
\* lies before flushed_lsn.
LEMMA PrefixWritten ==
  ASSUME NEW f \in Seq(Bytes), NEW cells \in Seq(Bytes), NEW k \in 0 .. Len(cells),
         NEW off \in Nat
  PROVE  LET g == Pwrite(f, off, SubSeq(cells, 1, k))
         IN  /\ g \in Seq(Bytes)
             /\ Len(g) = IF off + k > Len(f) THEN off + k ELSE Len(f)
             /\ \A i \in 1 .. Len(g) :
                  g[i] = IF i > off /\ i <= off + k THEN cells[i - off]
                         ELSE IF i <= Len(f) THEN f[i] ELSE Hole
<1> DEFINE part == SubSeq(cells, 1, k)
           g    == Pwrite(f, off, part)
<1>1. part \in Seq(Bytes) /\ Len(part) = k /\ \A i \in 1 .. k : part[i] = cells[i]
  BY SubSeqProperties
<1> HIDE DEF part
<1>2. /\ g \in Seq(Bytes)
      /\ Len(g) = IF off + k > Len(f) THEN off + k ELSE Len(f)
      /\ \A i \in 1 .. Len(g) :
           g[i] = IF i > off /\ i <= off + k THEN part[i - off]
                  ELSE IF i <= Len(f) THEN f[i] ELSE Hole
  BY <1>1, PwriteWrites
<1> HIDE DEF g
<1>3. \A i \in 1 .. Len(g) : i > off /\ i <= off + k => part[i - off] = cells[i - off]
  BY <1>1, <1>2
<1> QED BY <1>2, <1>3 DEF g, part

\* The file g after a write, cell by cell.
LEMMA WrittenCells ==
  ASSUME NEW f \in Seq(Bytes), NEW cells \in Seq(Bytes), NEW off \in Nat, NEW g,
         g = Pwrite(f, off, cells), Len(f) <= off
  PROVE  /\ Len(g) = off + Len(cells)
         /\ \A i \in 1 .. Len(f) : g[i] = f[i]
         /\ \A k \in 1 .. Len(cells) : g[off + k] = cells[k]
<1>1. Len(f) \in Nat /\ Len(cells) \in Nat
  BY LenProperties
<1>2. /\ Len(g) = IF off + Len(cells) > Len(f) THEN off + Len(cells) ELSE Len(f)
      /\ \A i \in 1 .. Len(g) :
           g[i] = IF i > off /\ i <= off + Len(cells) THEN cells[i - off]
                  ELSE IF i <= Len(f) THEN f[i] ELSE Hole
  BY PwriteWrites
<1>3. Len(g) = off + Len(cells)
  BY <1>1, <1>2
<1>4. ASSUME NEW i \in 1 .. Len(f) PROVE g[i] = f[i]
  BY <1>1, <1>2, <1>3
<1>5. ASSUME NEW k \in 1 .. Len(cells) PROVE g[off + k] = cells[k]
  <2> DEFINE i == off + k
  <2>1. i \in 1 .. Len(g) /\ i > off /\ i <= off + Len(cells) /\ i - off = k
    BY <1>1, <1>3
  <2> HIDE DEF i
  <2>2. g[i] = cells[k]
    BY <1>2, <2>1
  <2> QED BY <2>2 DEF i
<1> QED BY <1>3, <1>4, <1>5

\* Either write spares what lies before it.
LEMMA WriteSpares ==
  ASSUME NEW f \in Seq(Bytes), NEW cells \in Seq(Bytes), NEW k \in 0 .. Len(cells),
         NEW off \in Nat, NEW g,
         \/ g = Pwrite(f, off, SubSeq(cells, 1, k))
         \/ g = Pwrite(f, off, cells) /\ k = Len(cells)
  PROVE  /\ g \in Seq(Bytes)
         /\ Len(g) = IF off + k > Len(f) THEN off + k ELSE Len(f)
         /\ \A i \in 1 .. Len(g) : i <= off /\ i <= Len(f) => g[i] = f[i]
<1>1. Len(f) \in Nat /\ Len(cells) \in Nat
  BY LenProperties
<1>2. CASE g = Pwrite(f, off, SubSeq(cells, 1, k))
  <2>1. /\ g \in Seq(Bytes)
        /\ Len(g) = IF off + k > Len(f) THEN off + k ELSE Len(f)
        /\ \A i \in 1 .. Len(g) :
             g[i] = IF i > off /\ i <= off + k THEN cells[i - off]
                    ELSE IF i <= Len(f) THEN f[i] ELSE Hole
    BY <1>2, PrefixWritten
  <2> QED BY <2>1, <1>1
<1>3. CASE g = Pwrite(f, off, cells) /\ k = Len(cells)
  <2>1. /\ g \in Seq(Bytes)
        /\ Len(g) = IF off + k > Len(f) THEN off + k ELSE Len(f)
        /\ \A i \in 1 .. Len(g) :
             g[i] = IF i > off /\ i <= off + k THEN cells[i - off]
                    ELSE IF i <= Len(f) THEN f[i] ELSE Hole
    BY <1>3, PwriteWrites
  <2> QED BY <2>1, <1>1
<1> QED BY <1>2, <1>3

\* Two files that agree up to flushed_lsn.
Unmodified == SubSeq(file', 1, flushed_lsn) = SubSeq(file, 1, flushed_lsn)

LEMMA AgreeUpToFlushed ==
  ASSUME OrderInv, \A j \in 1 .. flushed_lsn : file'[j] = file[j]
  PROVE  Unmodified
<1>1. flushed_lsn \in Nat
  BY DEF OrderInv, LogTypes
<1> QED BY <1>1 DEF Unmodified

-----------------------------------------------------------------------------
(* Positions: every action keeps them in order and spares the flushed part. *)

LEMMA OrderAppend ==
  ASSUME OrderInv, NEW n \in RecordSizes, AppendLogRecord(n)
  PROVE  OrderInv' /\ Unmodified
<1> DEFINE bytes == Serialize(appends + 1, n)
<1>1. /\ n \in Nat /\ n > 0 /\ Len(log_buffer) \in Nat /\ Len(file) \in Nat
      /\ BufferSize \in Nat /\ next_lsn \in Nat /\ flushed_lsn \in Nat
      /\ appends \in Nat /\ synced \in Nat
  BY SizeAssumption, LenProperties DEF OrderInv, LogTypes
<1>2. appends + 1 \in Records
  BY <1>1, BoundAssumption DEF AppendLogRecord, MayAppend, Records
<1>3. bytes \in Seq(Bytes) /\ Len(bytes) = n
  BY <1>1, <1>2, SerializeCells
<1>4. next_lsn' \in Nat /\ synced' = synced /\ appends' \in Nat /\ next_lsn' = next_lsn + n
  BY <1>1 DEF AppendLogRecord, Acknowledge
<1>5. acked' \in Seq(Acks)
  BY <1>1, <1>2, AppendProperties DEF AppendLogRecord, Acknowledge, OrderInv, LogTypes, Acks
<1>6. CASE LargerThanBuffer(n)
  <2>1. /\ file' = Pwrite(FileFlushed, next_lsn, bytes)
        /\ flushed_lsn' = next_lsn + n
        /\ log_buffer' = <<>>
    BY <1>1, <1>6 DEF AppendLogRecord, LargerThanBuffer, BufferFull
  <2>2. /\ file' \in Seq(Bytes)
        /\ Len(file') = IF next_lsn + n > Len(FileFlushed) THEN next_lsn + n ELSE Len(FileFlushed)
        /\ \A i \in 1 .. Len(file') : i <= next_lsn /\ i <= Len(FileFlushed)
                                      => file'[i] = FileFlushed[i]
    <3>1. FileFlushed \in Seq(Bytes) /\ n \in 0 .. Len(bytes)
      BY <1>1, <1>3, BufferWritten
    <3> QED BY <3>1, <2>1, <1>1, <1>3, WriteSpares
  <2>3. Len(FileFlushed) <= next_lsn /\ Len(FileFlushed) \in Nat /\ synced <= Len(FileFlushed)
        /\ flushed_lsn <= Len(FileFlushed)
    BY <1>1, BufferWritten DEF OrderInv, InOrder
  <2>4. Len(file') = next_lsn + n
    BY <2>2, <2>3, <1>1
  <2>5. OrderInv'
    BY <2>1, <2>2, <2>3, <2>4, <1>1, <1>4, <1>5, EmptySeq DEF OrderInv, LogTypes, InOrder, EndOfBuffer
  <2>6. \A j \in 1 .. flushed_lsn : file'[j] = FileFlushed[j] /\ FileFlushed[j] = file[j]
    BY <2>2, <2>3, <2>4, <1>1, BufferWritten
  <2> QED BY <2>5, <2>6, AgreeUpToFlushed
<1>7. CASE ~LargerThanBuffer(n) /\ BufferFull(n)
  <2>1. /\ file' = FileFlushed
        /\ flushed_lsn' = EndOfBuffer
        /\ log_buffer' = bytes
    BY <1>3, <1>7, ConcatEmptySeq DEF AppendLogRecord, LsnFlushed, EndOfBuffer
  <2>2. OrderInv'
    BY <2>1, <1>1, <1>3, <1>4, <1>5, BufferWritten DEF OrderInv, LogTypes, InOrder, EndOfBuffer
  <2>3. \A j \in 1 .. flushed_lsn : file'[j] = file[j]
    BY <2>1, <1>1, BufferWritten
  <2> QED BY <2>2, <2>3, AgreeUpToFlushed
<1>8. CASE ~LargerThanBuffer(n) /\ ~BufferFull(n)
  <2>1. /\ file' = file
        /\ flushed_lsn' = flushed_lsn
        /\ log_buffer' = log_buffer \o bytes
    BY <1>8 DEF AppendLogRecord
  <2>2. log_buffer' \in Seq(Bytes) /\ Len(log_buffer') = Len(log_buffer) + n
    BY <2>1, <1>3, ConcatProperties DEF OrderInv, LogTypes
  <2>3. OrderInv'
    BY <2>1, <2>2, <1>1, <1>4, <1>5 DEF OrderInv, LogTypes, InOrder, EndOfBuffer
  <2> QED BY <2>1, <2>3, AgreeUpToFlushed
<1> QED BY <1>6, <1>7, <1>8

LEMMA OrderAppendThrows ==
  ASSUME OrderInv, NEW n \in RecordSizes, AppendThrows(n)
  PROVE  OrderInv' /\ Unmodified
<1> DEFINE bytes == Serialize(appends + 1, n)
<1>1. /\ n \in Nat /\ n > 0 /\ Len(log_buffer) \in Nat /\ Len(file) \in Nat
      /\ next_lsn \in Nat /\ flushed_lsn \in Nat /\ appends \in Nat /\ synced \in Nat
  BY SizeAssumption, LenProperties DEF OrderInv, LogTypes
<1>2. appends + 1 \in Records
  BY <1>1, BoundAssumption DEF AppendThrows, MayAppend, Records
<1>3. bytes \in Seq(Bytes) /\ Len(bytes) = n
  BY <1>1, <1>2, SerializeCells
<1>4. /\ next_lsn' = next_lsn + n /\ synced' = synced /\ appends' \in Nat /\ acked' = acked
  BY <1>1 DEF AppendThrows
<1>5. CASE /\ \E k \in 0 .. Len(log_buffer) - 1 :
                file' = Pwrite(file, flushed_lsn, SubSeq(log_buffer, 1, k))
           /\ UNCHANGED <<flushed_lsn, log_buffer>>
  <2>1. PICK k \in 0 .. Len(log_buffer) - 1 :
          file' = Pwrite(file, flushed_lsn, SubSeq(log_buffer, 1, k))
    BY <1>5
  <2>2. k \in 0 .. Len(log_buffer)
    BY <1>1
  <2>3. /\ file' \in Seq(Bytes)
        /\ Len(file') = IF flushed_lsn + k > Len(file) THEN flushed_lsn + k ELSE Len(file)
        /\ \A i \in 1 .. Len(file') : i <= flushed_lsn /\ i <= Len(file) => file'[i] = file[i]
    <3>1. file \in Seq(Bytes) /\ log_buffer \in Seq(Bytes)
      BY DEF OrderInv, LogTypes
    <3>2. LET g == Pwrite(file, flushed_lsn, SubSeq(log_buffer, 1, k))
          IN  /\ g \in Seq(Bytes)
              /\ Len(g) = IF flushed_lsn + k > Len(file) THEN flushed_lsn + k ELSE Len(file)
              /\ \A i \in 1 .. Len(g) : i <= flushed_lsn /\ i <= Len(file) => g[i] = file[i]
      BY <3>1, <2>2, <1>1, WriteSpares
    <3> QED BY <3>2, <2>1
  <2>4. LogTypes'
    BY <2>3, <1>1, <1>4, <1>5 DEF OrderInv, LogTypes
  <2>5. InOrder'
    <3>1. /\ synced <= Len(file) /\ flushed_lsn <= Len(file) /\ Len(file) <= next_lsn
          /\ flushed_lsn + Len(log_buffer) <= next_lsn
      BY DEF OrderInv, InOrder, EndOfBuffer
    <3>2. k \in Nat /\ k <= Len(log_buffer)
      BY <1>1, <2>2
    <3>3. Len(file') \in Nat /\ Len(file) <= Len(file') /\ Len(file') <= next_lsn
      BY <2>3, <3>1, <3>2, <1>1
    <3> QED BY <3>1, <3>3, <1>1, <1>4, <1>5 DEF InOrder, EndOfBuffer
  <2>6. \A j \in 1 .. flushed_lsn : file'[j] = file[j]
    BY <2>2, <2>3, <1>1 DEF OrderInv, InOrder
  <2> QED BY <2>4, <2>5, <2>6, AgreeUpToFlushed DEF OrderInv
<1>6. CASE /\ \E k \in 0 .. n - 1 :
                file' = Pwrite(FileFlushed, next_lsn, SubSeq(bytes, 1, k))
           /\ flushed_lsn' = LsnFlushed
           /\ log_buffer' = <<>>
  <2>1. PICK k \in 0 .. n - 1 : file' = Pwrite(FileFlushed, next_lsn, SubSeq(bytes, 1, k))
    BY <1>6
  <2>2. k \in 0 .. Len(bytes)
    BY <1>1, <1>3
  <2>3. /\ file' \in Seq(Bytes)
        /\ Len(file') = IF next_lsn + k > Len(FileFlushed) THEN next_lsn + k ELSE Len(FileFlushed)
        /\ \A i \in 1 .. Len(file') : i <= next_lsn /\ i <= Len(FileFlushed)
                                      => file'[i] = FileFlushed[i]
    <3>1. FileFlushed \in Seq(Bytes)
      BY BufferWritten
    <3> QED BY <3>1, <2>1, <2>2, <1>1, <1>3, WriteSpares
  <2>4. Len(FileFlushed) <= next_lsn /\ Len(FileFlushed) \in Nat /\ synced <= Len(FileFlushed)
        /\ flushed_lsn <= Len(FileFlushed)
    BY <1>1, BufferWritten DEF OrderInv, InOrder
  <2>5. flushed_lsn' = EndOfBuffer /\ EndOfBuffer \in Nat /\ EndOfBuffer <= Len(FileFlushed)
    BY <1>1, <1>6, BufferWritten DEF LsnFlushed, EndOfBuffer
  <2>6. log_buffer' \in Seq(Bytes) /\ Len(log_buffer') = 0
    BY <1>6, EmptySeq
  <2>7. LogTypes'
    BY <2>3, <2>5, <2>6, <1>1, <1>4 DEF OrderInv, LogTypes
  <2>8. InOrder'
    <3>1. k \in Nat /\ k < n
      BY <1>1
    <3>2. EndOfBuffer' = EndOfBuffer
      BY <2>5, <2>6 DEF EndOfBuffer
    <3>3. EndOfBuffer <= next_lsn
      BY DEF OrderInv, InOrder
    <3> QED BY <2>3, <2>4, <2>5, <3>1, <3>2, <3>3, <1>1, <1>4 DEF InOrder
  <2>9. \A j \in 1 .. flushed_lsn : file'[j] = FileFlushed[j] /\ FileFlushed[j] = file[j]
    BY <2>2, <2>3, <2>4, <1>1, <1>3, BufferWritten
  <2> QED BY <2>7, <2>8, <2>9, AgreeUpToFlushed DEF OrderInv
<1> QED BY <1>5, <1>6 DEF AppendThrows

LEMMA OrderFlushThrows ==
  ASSUME OrderInv, FlushThrows
  PROVE  OrderInv' /\ Unmodified
<1>1. Len(log_buffer) \in Nat /\ Len(file) \in Nat /\ flushed_lsn \in Nat
  BY LenProperties DEF OrderInv, LogTypes
<1>2. PICK k \in 0 .. Len(log_buffer) - 1 :
        file' = Pwrite(file, flushed_lsn, SubSeq(log_buffer, 1, k))
  BY DEF FlushThrows
<1>3. k \in 0 .. Len(log_buffer)
  BY <1>1
<1>4. /\ file' \in Seq(Bytes)
      /\ Len(file') = IF flushed_lsn + k > Len(file) THEN flushed_lsn + k ELSE Len(file)
      /\ \A i \in 1 .. Len(file') : i <= flushed_lsn /\ i <= Len(file) => file'[i] = file[i]
  <2>1. file \in Seq(Bytes) /\ log_buffer \in Seq(Bytes)
    BY DEF OrderInv, LogTypes
  <2> QED BY <2>1, <1>1, <1>2, <1>3, WriteSpares
<1>5. OrderInv'
  BY <1>1, <1>3, <1>4 DEF FlushThrows, OrderInv, LogTypes, InOrder, EndOfBuffer
<1>6. \A j \in 1 .. flushed_lsn : file'[j] = file[j]
  BY <1>1, <1>3, <1>4 DEF OrderInv, InOrder
<1> QED BY <1>5, <1>6, AgreeUpToFlushed

\* Flush, FlushUpTo and Begin share their effect on the log.
LEMMA OrderFlushAndSync ==
  ASSUME OrderInv, FlushAndSync, UNCHANGED <<next_lsn, appends, acked>>
  PROVE  OrderInv' /\ Unmodified
<1>1. Len(log_buffer) \in Nat /\ Len(file) \in Nat /\ flushed_lsn \in Nat
  BY LenProperties DEF OrderInv, LogTypes
<1>2. /\ file' = FileFlushed /\ flushed_lsn' = EndOfBuffer /\ log_buffer' = <<>>
      /\ synced' = Len(file')
  BY DEF FlushAndSync, Fsync, LsnFlushed, EndOfBuffer
<1>3. OrderInv'
  BY <1>1, <1>2, BufferWritten, EmptySeq DEF OrderInv, LogTypes, InOrder, EndOfBuffer
<1>4. \A j \in 1 .. flushed_lsn : file'[j] = file[j]
  BY <1>1, <1>2, BufferWritten
<1> QED BY <1>3, <1>4, AgreeUpToFlushed

LEMMA OrderReopen ==
  ASSUME OrderInv, NEW f \in Seq(Bytes), Reopen(f), synced' \in Nat, synced' <= Len(f)
  PROVE  OrderInv'
<1>1. Len(f) \in Nat /\ Len(acked) \in Nat
  BY LenProperties DEF OrderInv, LogTypes
<1>2. PICK n \in 0 .. Len(acked) : acked' = SubSeq(acked, 1, n)
  BY DEF Reopen, Survive
<1>3. acked' \in Seq(Acks)
  BY <1>1, <1>2, SubSeqProperties DEF OrderInv, LogTypes
<1> QED BY <1>1, <1>3, EmptySeq DEF Reopen, OrderInv, LogTypes, InOrder, EndOfBuffer

LEMMA OrderKept ==
  OrderInv /\ [Next]_vars => OrderInv' /\ (Truncate \/ PowerLoss \/ Unmodified)
<1> SUFFICES ASSUME OrderInv, [Next]_vars
             PROVE  OrderInv' /\ (Truncate \/ PowerLoss \/ Unmodified)
  OBVIOUS
<1>0. Len(file) \in Nat /\ Len(log_buffer) \in Nat
  BY LenProperties DEF OrderInv, LogTypes
<1>1. CASE \E n \in RecordSizes : AppendLogRecord(n) \/ AppendThrows(n)
  BY <1>1, OrderAppend, OrderAppendThrows
<1>2. CASE Flush
  BY <1>2, OrderFlushAndSync DEF Flush
<1>3. CASE FlushThrows
  BY <1>3, OrderFlushThrows
<1>4. CASE \E i \in DOMAIN acked : FlushUpTo(acked[i].lsn)
  <2>1. UNCHANGED <<next_lsn, appends, acked>>
    BY <1>4 DEF FlushUpTo
  <2>2. FlushAndSync \/ UNCHANGED <<file, flushed_lsn, log_buffer, synced>>
    BY <1>4 DEF FlushUpTo
  <2>3. CASE FlushAndSync
    BY <2>1, <2>3, OrderFlushAndSync
  <2>4. CASE UNCHANGED <<file, flushed_lsn, log_buffer, synced>>
    BY <2>1, <2>4 DEF OrderInv, LogTypes, InOrder, EndOfBuffer, Unmodified
  <2> QED BY <2>2, <2>3, <2>4
<1>5. CASE Truncate
  BY <1>5, EmptySeq DEF Truncate, OrderInv, LogTypes, InOrder, EndOfBuffer
<1>6. CASE \E k \in {1} \cup DOMAIN acked : BeginAt(k)
  <2>1. FlushAndSync /\ UNCHANGED <<next_lsn, appends, acked>>
    BY <1>6 DEF BeginAt
  <2> QED BY <2>1, OrderFlushAndSync
<1>7. CASE MakeIterator \/ IteratorNext \/ IteratorDropped \/ UNCHANGED vars
  <2>1. UNCHANGED <<next_lsn, flushed_lsn, log_buffer, file, synced, appends, acked>>
    BY <1>7 DEF MakeIterator, IteratorNext, IteratorDropped, vars, logVars
  <2> QED BY <2>1 DEF OrderInv, LogTypes, InOrder, EndOfBuffer, Unmodified
<1>8. CASE CloseAndReopen
  <2>1. Reopen(FileFlushed) /\ synced' = synced /\ file' = FileFlushed
    BY <1>8 DEF CloseAndReopen, Reopen
  <2>2. synced <= Len(FileFlushed) /\ synced \in Nat
    BY <1>0, BufferWritten DEF OrderInv, InOrder, LogTypes
  <2>3. \A j \in 1 .. flushed_lsn : file'[j] = file[j]
    BY <2>1, BufferWritten
  <2> QED BY <2>1, <2>2, <2>3, BufferWritten, OrderReopen, AgreeUpToFlushed
<1>9. CASE ProcessCrash
  <2>1. Reopen(file) /\ synced' = synced /\ file' = file
    BY <1>9 DEF ProcessCrash, Reopen
  <2> QED BY <2>1, OrderReopen, AgreeUpToFlushed DEF OrderInv, InOrder, LogTypes
<1>10. CASE PowerLoss
  <2>1. PICK n \in synced .. Len(file) : Reopen(SubSeq(file, 1, n)) /\ synced' = n
    BY <1>10 DEF PowerLoss
  <2>2. n \in 0 .. Len(file) /\ n \in Nat
    BY <1>0 DEF OrderInv, LogTypes
  <2>3. SubSeq(file, 1, n) \in Seq(Bytes) /\ Len(SubSeq(file, 1, n)) = n
    BY <2>2, SubSeqProperties DEF OrderInv, LogTypes
  <2>4. synced' \in Nat /\ synced' <= Len(SubSeq(file, 1, n)) /\ Reopen(SubSeq(file, 1, n))
    BY <2>1, <2>2, <2>3
  <2>5. OrderInv'
    BY <2>3, <2>4, OrderReopen
  <2> QED BY <1>10, <2>5
<1> QED BY <1>1, <1>2, <1>3, <1>4, <1>5, <1>6, <1>7, <1>8, <1>9, <1>10 DEF Next

LEMMA OrderInit == Init => OrderInv
BY EmptySeq DEF Init, OrderInv, LogTypes, InOrder, EndOfBuffer

\* log_manager.h:26, "Log records are never modified once written": no append, flush,
\* failed write or restart changes the file before flushed_lsn, whatever happens.
THEOREM WrittenStays == Spec => WrittenNeverModified
<1>1. OrderInv /\ [Next]_vars
      => OrderInv' /\ [Truncate \/ PowerLoss
                       \/ SubSeq(file', 1, flushed_lsn) = SubSeq(file, 1, flushed_lsn)]_vars
  BY OrderKept DEF Unmodified
<1> QED BY <1>1, OrderInit, PTL DEF Spec, WrittenNeverModified

-----------------------------------------------------------------------------
(* Records: with no append behind a torn tail, each stays where its LSN says. *)

LEMMA AckFields ==
  ASSUME OrderInv, NEW i \in 1 .. Len(acked)
  PROVE  acked[i] \in Acks /\ acked[i].lsn \in Nat /\ acked[i].size \in Nat
<1>1. acked \in Seq(Acks)
  BY DEF OrderInv, LogTypes
<1>2. acked[i] \in Acks
  BY <1>1, ElementOfSeq
<1> QED BY <1>2 DEF Acks

\* A record in place is in place in any log that has the same cells there.
LEMMA AckStays ==
  ASSUME OrderInv, AcksInPlace, NEW i \in 1 .. Len(acked),
         NEW f, NEW o, NEW b, o + Len(b) \in Nat,
         acked[i].lsn + acked[i].size <= o + Len(b),
         \A j \in 1 .. EndOfBuffer : j <= o + Len(b) => CellAt(f, o, b, j) = LogAt(j)
  PROVE  AckInPlace(acked[i], f, o, b)
<1> DEFINE a == acked[i]
<1>1. AckInPlace(a, file, flushed_lsn, log_buffer)
  BY DEF AcksInPlace
<1>2. a.lsn \in Nat /\ a.size \in Nat
  BY AckFields
<1>3. EndOfBuffer \in Nat /\ a.lsn + a.size <= EndOfBuffer
  BY <1>1, BufferWritten DEF AckInPlace, EndOfBuffer
<1>4. ASSUME NEW k \in 1 .. a.size
      PROVE  CellAt(f, o, b, a.lsn + k) = [rec |-> a.rec, pos |-> k, size |-> a.size]
  <2>1. a.lsn + k \in 1 .. EndOfBuffer /\ a.lsn + k <= o + Len(b)
    BY <1>2, <1>3
  <2>2. LogAt(a.lsn + k) = [rec |-> a.rec, pos |-> k, size |-> a.size]
    BY <1>1 DEF AckInPlace, LogAt
  <2> QED BY <2>1, <2>2
<1> QED BY <1>4 DEF AckInPlace

\* A step that only adds to the log leaves every acknowledged record in place.
LEMMA AcksKept ==
  ASSUME OrderInv, AcksInPlace, OrderInv', acked' = acked, EndOfBuffer <= EndOfBuffer',
         \A j \in 1 .. EndOfBuffer : CellAt(file', flushed_lsn', log_buffer', j) = LogAt(j)
  PROVE  AcksInPlace'
<1>1. EndOfBuffer' \in Nat /\ EndOfBuffer' = flushed_lsn' + Len(log_buffer')
  <2>1. flushed_lsn' \in Nat /\ Len(log_buffer') \in Nat
    BY LenProperties DEF OrderInv, LogTypes
  <2> QED BY <2>1 DEF EndOfBuffer
<1>2. EndOfBuffer \in Nat
  BY BufferWritten
<1> SUFFICES ASSUME NEW i \in 1 .. Len(acked)
             PROVE  AckInPlace(acked[i], file', flushed_lsn', log_buffer')
  BY DEF AcksInPlace
<1>3. acked[i].lsn + acked[i].size <= EndOfBuffer'
  <2>1. acked[i].lsn + acked[i].size <= EndOfBuffer
    BY DEF AcksInPlace, AckInPlace, EndOfBuffer
  <2> QED BY <2>1, <1>1, <1>2, AckFields
<1> QED BY <1>1, <1>3, AckStays

\* Where nothing lies torn behind the records, the next LSN is the end of the buffer.
LEMMA NextIsEnd ==
  ASSUME OrderInv, AcksInPlace, ~TornTail
  PROVE  next_lsn = EndOfBuffer
<1>1. EndOfBuffer \in Nat /\ EndOfBuffer <= next_lsn /\ next_lsn \in Nat /\ next_lsn = EndOfLog
  BY BufferWritten DEF OrderInv, LogTypes, InOrder, TornTail
<1>2. CASE acked = <<>>
  BY <1>1, <1>2 DEF EndOfLog
<1>3. CASE acked # <<>>
  <2>1. Len(acked) \in 1 .. Len(acked)
    <3>1. acked \in Seq(Acks)
      BY DEF OrderInv, LogTypes
    <3> QED BY <1>3, <3>1, EmptySeq
  <2>2. EndOfLog = acked[Len(acked)].lsn + acked[Len(acked)].size
    BY <1>3 DEF EndOfLog, Last
  <2>3. EndOfLog <= EndOfBuffer
    BY <2>1, <2>2 DEF AcksInPlace, AckInPlace, EndOfBuffer
  <2> QED BY <1>1, <2>3
<1> QED BY <1>2, <1>3

LEMMA RecordsFlushAndSync ==
  ASSUME ContentInv, FlushAndSync, UNCHANGED <<next_lsn, appends, acked>>
  PROVE  RecordsInPlace'
<1>1. OrderInv /\ OrderInv' /\ AcksInPlace
  BY OrderFlushAndSync DEF ContentInv, RecordsInPlace
<1>2. /\ file' = FileFlushed /\ flushed_lsn' = EndOfBuffer /\ log_buffer' = <<>>
      /\ EndOfBuffer \in Nat
  BY <1>1, BufferWritten DEF FlushAndSync, LsnFlushed, EndOfBuffer
<1>3. EndOfBuffer' = EndOfBuffer
  BY <1>2, EmptySeq DEF EndOfBuffer
<1>4. TailAgrees'
  BY <1>2, <1>3 DEF TailAgrees
<1>5. \A j \in 1 .. EndOfBuffer : CellAt(file', flushed_lsn', log_buffer', j) = LogAt(j)
  BY <1>1, <1>2, BufferWritten DEF CellAt
<1> QED BY <1>1, <1>2, <1>3, <1>4, <1>5, AcksKept DEF RecordsInPlace

\* A write of a part of the buffer, that throws.
LEMMA RecordsPartOfBuffer ==
  ASSUME ContentInv, OrderInv', UNCHANGED <<flushed_lsn, log_buffer, acked>>,
         NEW k \in 0 .. Len(log_buffer) - 1,
         file' = Pwrite(file, flushed_lsn, SubSeq(log_buffer, 1, k))
  PROVE  RecordsInPlace'
<1>1. OrderInv /\ AcksInPlace /\ TailAgrees
  BY DEF ContentInv, RecordsInPlace
<1>2. /\ Len(log_buffer) \in Nat /\ Len(file) \in Nat /\ flushed_lsn \in Nat
      /\ flushed_lsn <= Len(file) /\ EndOfBuffer = flushed_lsn + Len(log_buffer)
      /\ file \in Seq(Bytes) /\ log_buffer \in Seq(Bytes)
  BY <1>1, LenProperties DEF OrderInv, LogTypes, InOrder, EndOfBuffer
<1>3. k \in 0 .. Len(log_buffer)
  BY <1>2
<1>4. LET g == Pwrite(file, flushed_lsn, SubSeq(log_buffer, 1, k))
      IN  /\ g \in Seq(Bytes)
          /\ Len(g) = IF flushed_lsn + k > Len(file) THEN flushed_lsn + k ELSE Len(file)
          /\ \A i \in 1 .. Len(g) :
               g[i] = IF i > flushed_lsn /\ i <= flushed_lsn + k
                      THEN log_buffer[i - flushed_lsn]
                      ELSE IF i <= Len(file) THEN file[i] ELSE Hole
  BY <1>2, <1>3, PrefixWritten
<1>5. /\ Len(file') = IF flushed_lsn + k > Len(file) THEN flushed_lsn + k ELSE Len(file)
      /\ \A i \in 1 .. Len(file') :
           file'[i] = IF i > flushed_lsn /\ i <= flushed_lsn + k
                      THEN log_buffer[i - flushed_lsn]
                      ELSE IF i <= Len(file) THEN file[i] ELSE Hole
  BY <1>4
<1>6. EndOfBuffer' = EndOfBuffer
  BY DEF EndOfBuffer
<1>7. TailAgrees'
  <2> SUFFICES ASSUME NEW j \in flushed_lsn + 1 .. EndOfBuffer, j <= Len(file')
               PROVE  file'[j] = log_buffer[j - flushed_lsn]
    BY <1>6 DEF TailAgrees
  <2>1. j \in 1 .. Len(file') /\ j > flushed_lsn
    BY <1>2, <1>3, <1>5
  <2>2. CASE j <= flushed_lsn + k
    BY <2>1, <2>2, <1>5
  <2>3. CASE ~(j <= flushed_lsn + k)
    <3>1. j <= Len(file) /\ file'[j] = file[j]
      BY <2>1, <2>3, <1>2, <1>3, <1>5
    <3> QED BY <3>1, <1>1 DEF TailAgrees
  <2> QED BY <2>2, <2>3
<1>8. \A j \in 1 .. EndOfBuffer : CellAt(file', flushed_lsn', log_buffer', j) = LogAt(j)
  <2> SUFFICES ASSUME NEW j \in 1 .. EndOfBuffer, j <= flushed_lsn
               PROVE  file'[j] = file[j]
    BY DEF CellAt, LogAt
  <2>1. /\ j \in 1 .. Len(file') /\ j <= Len(file)
        /\ ~(j > flushed_lsn /\ j <= flushed_lsn + k)
    BY <1>2, <1>3, <1>5
  <2> QED BY <2>1, <1>5
<1> QED BY <1>1, <1>2, <1>6, <1>7, <1>8, AcksKept DEF RecordsInPlace

\* The new record lies behind all others, where next_lsn said.
LEMMA RecordsAppend ==
  ASSUME ContentInv, NEW n \in RecordSizes, AppendLogRecord(n), ~TornTail
  PROVE  /\ RecordsInPlace'
         /\ next_lsn = EndOfBuffer /\ EndOfBuffer' = next_lsn + n
<1> DEFINE bytes == Serialize(appends + 1, n)
<1>1. OrderInv /\ OrderInv' /\ AcksInPlace /\ TailAgrees /\ next_lsn = EndOfBuffer
  BY OrderAppend, NextIsEnd DEF ContentInv, RecordsInPlace
<1>2. /\ n \in Nat /\ n > 0 /\ Len(log_buffer) \in Nat /\ Len(file) \in Nat
      /\ next_lsn \in Nat /\ flushed_lsn \in Nat /\ flushed_lsn <= Len(file)
      /\ Len(file) <= next_lsn /\ EndOfBuffer = flushed_lsn + Len(log_buffer)
      /\ log_buffer \in Seq(Bytes)
  BY <1>1, SizeAssumption, LenProperties DEF OrderInv, LogTypes, InOrder, EndOfBuffer
<1>3. appends + 1 \in Records
  <2>1. appends \in Nat
    BY <1>1 DEF OrderInv, LogTypes
  <2> QED BY <2>1, BoundAssumption DEF AppendLogRecord, MayAppend, Records
<1>4. /\ bytes \in Seq(Bytes) /\ Len(bytes) = n
      /\ \A k \in 1 .. n : bytes[k] = [rec |-> appends + 1, pos |-> k, size |-> n]
  BY <1>2, <1>3, SerializeCells
<1> HIDE DEF bytes
<1>5. /\ FileFlushed \in Seq(Bytes) /\ Len(FileFlushed) = EndOfBuffer
      /\ \A j \in 1 .. EndOfBuffer : FileFlushed[j] = LogAt(j)
  BY <1>1, <1>2, BufferWritten
\* Whichever way it is written, the log is what it was, then the record.
<1> DEFINE Grown == /\ TailAgrees'
                    /\ flushed_lsn' + Len(log_buffer') = EndOfBuffer + n
                    /\ \A j \in 1 .. EndOfBuffer :
                         CellAt(file', flushed_lsn', log_buffer', j) = LogAt(j)
                    /\ \A k \in 1 .. n :
                         CellAt(file', flushed_lsn', log_buffer', EndOfBuffer + k) = bytes[k]
<1>6. ASSUME LargerThanBuffer(n) PROVE Grown
  <2>1. /\ file' = Pwrite(FileFlushed, next_lsn, bytes)
        /\ flushed_lsn' = next_lsn + n
        /\ log_buffer' = <<>> /\ Len(log_buffer') = 0
    BY <1>2, <1>6, SizeAssumption, EmptySeq DEF AppendLogRecord, LargerThanBuffer, BufferFull, bytes
  <2>2. Len(FileFlushed) = next_lsn
    BY <1>1, <1>5
  <2>3. /\ Len(file') = next_lsn + n
        /\ \A i \in 1 .. EndOfBuffer : file'[i] = FileFlushed[i]
        /\ \A k \in 1 .. n : file'[EndOfBuffer + k] = bytes[k]
    <3>1. Len(FileFlushed) <= next_lsn /\ next_lsn \in Nat
          /\ FileFlushed \in Seq(Bytes) /\ bytes \in Seq(Bytes)
      BY <2>2, <1>2, <1>4, <1>5
    <3>2. /\ Len(file') = next_lsn + Len(bytes)
          /\ \A i \in 1 .. Len(FileFlushed) : file'[i] = FileFlushed[i]
          /\ \A k \in 1 .. Len(bytes) : file'[next_lsn + k] = bytes[k]
      BY <2>1, <3>1, WrittenCells
    <3> QED BY <2>2, <3>2, <1>1, <1>4
  <2>4. TailAgrees'
    BY <2>1, <1>2, <1>1 DEF TailAgrees, EndOfBuffer
  <2>5. \A j \in 1 .. EndOfBuffer : CellAt(file', flushed_lsn', log_buffer', j) = LogAt(j)
    BY <2>1, <2>3, <1>1, <1>2, <1>5 DEF CellAt
  <2>6. \A k \in 1 .. n : CellAt(file', flushed_lsn', log_buffer', EndOfBuffer + k) = bytes[k]
    BY <2>1, <2>3, <1>1, <1>2 DEF CellAt
  <2>7. flushed_lsn' + Len(log_buffer') = EndOfBuffer + n
    BY <2>1, <1>1, <1>2
  <2> QED BY <2>4, <2>5, <2>6, <2>7
<1>7. ASSUME ~LargerThanBuffer(n), BufferFull(n) PROVE Grown
  <2>1. file' = FileFlushed /\ flushed_lsn' = EndOfBuffer /\ log_buffer' = bytes
    BY <1>4, <1>7, ConcatEmptySeq DEF AppendLogRecord, LsnFlushed, EndOfBuffer, bytes
  <2>2. TailAgrees'
    BY <2>1, <1>1, <1>2, <1>5 DEF TailAgrees, EndOfBuffer
  <2>3. \A j \in 1 .. EndOfBuffer : CellAt(file', flushed_lsn', log_buffer', j) = LogAt(j)
    BY <2>1, <1>5 DEF CellAt
  <2>4. \A k \in 1 .. n : CellAt(file', flushed_lsn', log_buffer', EndOfBuffer + k) = bytes[k]
    BY <2>1, <1>1, <1>2 DEF CellAt
  <2> QED BY <2>1, <2>2, <2>3, <2>4, <1>4
<1>8. ASSUME ~LargerThanBuffer(n), ~BufferFull(n) PROVE Grown
  <2>1. file' = file /\ flushed_lsn' = flushed_lsn /\ log_buffer' = log_buffer \o bytes
    BY <1>8 DEF AppendLogRecord, bytes
  <2>2. /\ Len(log_buffer') = Len(log_buffer) + n
        /\ \A i \in 1 .. Len(log_buffer) + n :
             log_buffer'[i] = IF i <= Len(log_buffer) THEN log_buffer[i]
                              ELSE bytes[i - Len(log_buffer)]
    BY <2>1, <1>2, <1>4, ConcatProperties
  <2>3. \A j \in flushed_lsn + 1 .. EndOfBuffer :
          log_buffer'[j - flushed_lsn] = log_buffer[j - flushed_lsn]
    <3> SUFFICES ASSUME NEW j \in flushed_lsn + 1 .. EndOfBuffer
                 PROVE  log_buffer'[j - flushed_lsn] = log_buffer[j - flushed_lsn]
      OBVIOUS
    <3>1. j - flushed_lsn \in 1 .. Len(log_buffer)
      BY <1>2
    <3>2. \A i \in 1 .. Len(log_buffer) : log_buffer'[i] = log_buffer[i]
      BY <2>2, <1>2
    <3> QED BY <3>1, <3>2
  <2>4. TailAgrees'
    <3> SUFFICES ASSUME NEW j \in flushed_lsn + 1 .. EndOfBuffer', j <= Len(file)
                 PROVE  file[j] = log_buffer'[j - flushed_lsn]
      BY <2>1 DEF TailAgrees
    <3>1. j \in flushed_lsn + 1 .. EndOfBuffer
      <4>1. EndOfBuffer' \in Nat
        BY <2>1, <2>2, <1>2 DEF EndOfBuffer
      <4> QED BY <4>1, <1>1, <1>2
    <3>2. file[j] = log_buffer[j - flushed_lsn]
      BY <3>1, <1>1 DEF TailAgrees
    <3> QED BY <3>1, <3>2, <2>3
  <2>5. \A j \in 1 .. EndOfBuffer : CellAt(file', flushed_lsn', log_buffer', j) = LogAt(j)
    <3> SUFFICES ASSUME NEW j \in 1 .. EndOfBuffer, ~(j <= flushed_lsn)
                 PROVE  log_buffer'[j - flushed_lsn] = log_buffer[j - flushed_lsn]
      BY <2>1 DEF CellAt, LogAt
    <3>1. j \in flushed_lsn + 1 .. EndOfBuffer
      BY <1>2
    <3> QED BY <3>1, <2>3
  <2>6. \A k \in 1 .. n : CellAt(file', flushed_lsn', log_buffer', EndOfBuffer + k) = bytes[k]
    <3> SUFFICES ASSUME NEW k \in 1 .. n
                 PROVE  CellAt(file, flushed_lsn, log_buffer', EndOfBuffer + k) = bytes[k]
      BY <2>1
    <3> DEFINE j == EndOfBuffer + k
    <3>1. ~(j <= flushed_lsn) /\ j - flushed_lsn = Len(log_buffer) + k
      BY <1>2
    <3>2. log_buffer'[Len(log_buffer) + k] = bytes[k]
      BY <2>2, <1>2
    <3>3. ~(j <= flushed_lsn) /\ log_buffer'[j - flushed_lsn] = bytes[k]
      BY <3>1, <3>2
    <3> HIDE DEF j
    <3>4. CellAt(file, flushed_lsn, log_buffer', j) = bytes[k]
      BY <3>3 DEF CellAt
    <3> QED BY <3>4 DEF j
  <2>7. flushed_lsn' + Len(log_buffer') = EndOfBuffer + n
    BY <2>1, <2>2, <1>2
  <2> QED BY <2>4, <2>5, <2>6, <2>7
<1>9. Grown
  BY <1>6, <1>7, <1>8
<1> HIDE DEF Grown
<1>10. EndOfBuffer' = EndOfBuffer + n
  BY <1>9 DEF Grown, EndOfBuffer
<1>11. AcksInPlace'
  <2> DEFINE a == [rec |-> appends + 1, lsn |-> next_lsn, size |-> n]
  <2>1. a \in Acks /\ acked \in Seq(Acks) /\ acked' = Append(acked, a)
    BY <1>1, <1>2, <1>3 DEF Acks, OrderInv, LogTypes, AppendLogRecord, Acknowledge
  <2>2. /\ Len(acked') = Len(acked) + 1 /\ Len(acked) \in Nat
        /\ \A i \in 1 .. Len(acked) : acked'[i] = acked[i]
        /\ acked'[Len(acked) + 1] = a
    BY <2>1, AppendProperties, LenProperties
  <2> SUFFICES ASSUME NEW i \in 1 .. Len(acked')
               PROVE  AckInPlace(acked'[i], file', flushed_lsn', log_buffer')
    BY DEF AcksInPlace
  <2>3. CASE i \in 1 .. Len(acked)
    <3>1. acked[i].lsn + acked[i].size <= EndOfBuffer + n
      <4>1. acked[i].lsn + acked[i].size <= EndOfBuffer
        BY <2>3, <1>1 DEF AcksInPlace, AckInPlace, EndOfBuffer
      <4>2. acked[i].lsn \in Nat /\ acked[i].size \in Nat
        BY <2>3, <1>1, AckFields
      <4> QED BY <4>1, <4>2, <1>1, <1>2
    <3>2. \A j \in 1 .. EndOfBuffer : CellAt(file', flushed_lsn', log_buffer', j) = LogAt(j)
      BY <1>9 DEF Grown
    <3>3. flushed_lsn' + Len(log_buffer') = EndOfBuffer + n /\ EndOfBuffer + n \in Nat
      BY <1>9, <1>1, <1>2 DEF Grown
    <3>4. AckInPlace(acked[i], file', flushed_lsn', log_buffer')
      BY <2>3, <3>1, <3>2, <3>3, <1>1, AckStays
    <3> QED BY <2>2, <2>3, <3>4
  <2>4. CASE i = Len(acked) + 1
    <3>1. acked'[i] = a /\ a.lsn = EndOfBuffer /\ a.size = n /\ a.rec = appends + 1
      BY <2>2, <2>4, <1>1
    <3>2. \A k \in 1 .. n : CellAt(file', flushed_lsn', log_buffer', EndOfBuffer + k)
                            = [rec |-> appends + 1, pos |-> k, size |-> n]
      BY <1>4, <1>9 DEF Grown
    <3>3. EndOfBuffer + n <= flushed_lsn' + Len(log_buffer')
      BY <1>9, <1>1, <1>2 DEF Grown
    <3> HIDE DEF a
    <3> QED BY <3>1, <3>2, <3>3 DEF AckInPlace
  <2> QED BY <2>2, <2>3, <2>4
<1> QED BY <1>1, <1>9, <1>10, <1>11 DEF RecordsInPlace, Grown

\* A record larger than the buffer, of which only a part reaches the file.
LEMMA RecordsPartOfRecord ==
  ASSUME ContentInv, OrderInv', NEW bytes \in Seq(Bytes), NEW k \in 0 .. Len(bytes),
         file' = Pwrite(FileFlushed, next_lsn, SubSeq(bytes, 1, k)),
         flushed_lsn' = LsnFlushed, log_buffer' = <<>>, acked' = acked
  PROVE  RecordsInPlace'
<1>1. OrderInv /\ AcksInPlace
  BY DEF ContentInv, RecordsInPlace
<1>2. /\ next_lsn \in Nat /\ Len(file) \in Nat /\ Len(file) <= next_lsn
      /\ EndOfBuffer <= next_lsn /\ EndOfBuffer \in Nat /\ flushed_lsn' = EndOfBuffer
  BY <1>1, LenProperties, BufferWritten DEF OrderInv, LogTypes, InOrder, EndOfBuffer, LsnFlushed
<1>3. /\ FileFlushed \in Seq(Bytes)
      /\ Len(FileFlushed) = IF EndOfBuffer > Len(file) THEN EndOfBuffer ELSE Len(file)
      /\ \A j \in 1 .. EndOfBuffer : FileFlushed[j] = LogAt(j)
  BY <1>1, BufferWritten
<1>4. LET g == Pwrite(FileFlushed, next_lsn, SubSeq(bytes, 1, k))
      IN  /\ Len(g) = IF next_lsn + k > Len(FileFlushed) THEN next_lsn + k ELSE Len(FileFlushed)
          /\ \A i \in 1 .. Len(g) :
               g[i] = IF i > next_lsn /\ i <= next_lsn + k THEN bytes[i - next_lsn]
                      ELSE IF i <= Len(FileFlushed) THEN FileFlushed[i] ELSE Hole
  BY <1>2, <1>3, PrefixWritten
<1>5. \A j \in 1 .. EndOfBuffer : file'[j] = FileFlushed[j]
  <2>1. k \in Nat
    BY LenProperties
  <2> QED BY <2>1, <1>2, <1>3, <1>4
<1>6. EndOfBuffer' = EndOfBuffer
  BY <1>2, EmptySeq DEF EndOfBuffer
<1>7. TailAgrees'
  BY <1>2, <1>6 DEF TailAgrees
<1>8. \A j \in 1 .. EndOfBuffer : CellAt(file', flushed_lsn', log_buffer', j) = LogAt(j)
  BY <1>2, <1>3, <1>5 DEF CellAt
<1> QED BY <1>1, <1>2, <1>6, <1>7, <1>8, AcksKept DEF RecordsInPlace

\* A restart on a file that holds the log as far as it goes.
LEMMA RecordsReopen ==
  ASSUME ContentInv, NEW f \in Seq(Bytes), Reopen(f),
         \A j \in 1 .. EndOfBuffer : j <= Len(f) => f[j] = LogAt(j)
  PROVE  RecordsInPlace'
<1>1. OrderInv /\ AcksInPlace
  BY DEF ContentInv, RecordsInPlace
<1>2. Len(f) \in Nat /\ Len(acked) \in Nat
  BY <1>1, LenProperties DEF OrderInv, LogTypes
<1>3. /\ file' = f /\ flushed_lsn' = Len(f) /\ log_buffer' = <<>> /\ Len(log_buffer') = 0
      /\ EndOfBuffer' = Len(f)
  BY <1>2, EmptySeq DEF Reopen, EndOfBuffer
<1>4. PICK n \in 0 .. Len(acked) :
        /\ \A i \in 1 .. n : acked[i].lsn + acked[i].size <= Len(f)
        /\ acked' = SubSeq(acked, 1, n)
  BY DEF Reopen, Survive, HoldsFirst
<1>5. Len(acked') = n /\ \A i \in 1 .. n : acked'[i] = acked[i] /\ i \in 1 .. Len(acked)
  <2>1. \A i \in 1 .. n : acked[i] \in Acks /\ i \in 1 .. Len(acked)
    BY <1>1, <1>2, AckFields
  <2> QED BY <1>2, <1>4, <2>1, SubSeqProperties
<1>6. TailAgrees'
  BY <1>2, <1>3 DEF TailAgrees
<1>7. ASSUME NEW i \in 1 .. n
      PROVE  AckInPlace(acked[i], file', flushed_lsn', log_buffer')
  <2>1. i \in 1 .. Len(acked) /\ acked[i].lsn + acked[i].size <= Len(f) + Len(<<>>)
    BY <1>2, <1>4, <1>5, <1>1, AckFields, <1>3
  <2>2. \A j \in 1 .. EndOfBuffer : j <= Len(f) + Len(<<>>) => CellAt(f, Len(f), <<>>, j) = LogAt(j)
    BY <1>2, <1>3 DEF CellAt
  <2>3. Len(f) + Len(<<>>) \in Nat
    BY <1>2, <1>3
  <2>4. AckInPlace(acked[i], f, Len(f), <<>>)
    BY <1>1, <2>1, <2>2, <2>3, AckStays
  <2> QED BY <1>3, <2>4
<1>8. AcksInPlace'
  BY <1>5, <1>7 DEF AcksInPlace
<1> QED BY <1>6, <1>8 DEF RecordsInPlace

LEMMA RecordsKept ==
  ASSUME "append_on_torn" \notin Events
  PROVE  ContentInv /\ [Next]_vars => ContentInv'
<1> SUFFICES ASSUME ContentInv, [Next]_vars PROVE ContentInv'
  OBVIOUS
<1>0. OrderInv /\ OrderInv' /\ TailAgrees /\ AcksInPlace
  BY OrderKept DEF ContentInv, RecordsInPlace
<1> SUFFICES RecordsInPlace'
  BY <1>0 DEF ContentInv
<1>1. CASE \E n \in RecordSizes : AppendLogRecord(n)
  BY <1>1, RecordsAppend DEF AppendLogRecord, MayAppend
<1>2. CASE \E n \in RecordSizes : AppendThrows(n)
  <2>1. PICK n \in RecordSizes : AppendThrows(n)
    BY <1>2
  <2>2. /\ acked' = acked /\ appends + 1 \in Records /\ n \in Nat
    <3>1. appends \in Nat
      BY <1>0 DEF OrderInv, LogTypes
    <3> QED BY <2>1, <3>1, SizeAssumption, BoundAssumption DEF AppendThrows, MayAppend, Records
  <2>3. Serialize(appends + 1, n) \in Seq(Bytes) /\ Len(Serialize(appends + 1, n)) = n
    BY <2>2, SerializeCells
  <2>4. CASE /\ \E k \in 0 .. Len(log_buffer) - 1 :
                  file' = Pwrite(file, flushed_lsn, SubSeq(log_buffer, 1, k))
             /\ UNCHANGED <<flushed_lsn, log_buffer>>
    BY <2>2, <2>4, <1>0, RecordsPartOfBuffer
  <2>5. CASE /\ \E k \in 0 .. n - 1 :
                  file' = Pwrite(FileFlushed, next_lsn, SubSeq(Serialize(appends + 1, n), 1, k))
             /\ flushed_lsn' = LsnFlushed
             /\ log_buffer' = <<>>
    <3>1. PICK k \in 0 .. n - 1 :
            file' = Pwrite(FileFlushed, next_lsn, SubSeq(Serialize(appends + 1, n), 1, k))
      BY <2>5
    <3>2. k \in 0 .. Len(Serialize(appends + 1, n))
      BY <2>2, <2>3
    <3> QED BY <2>2, <2>3, <2>5, <3>1, <3>2, <1>0, RecordsPartOfRecord
  <2> QED BY <2>1, <2>4, <2>5 DEF AppendThrows
<1>3. CASE Flush
  BY <1>3, RecordsFlushAndSync DEF Flush
<1>4. CASE FlushThrows
  <2>1. PICK k \in 0 .. Len(log_buffer) - 1 :
          file' = Pwrite(file, flushed_lsn, SubSeq(log_buffer, 1, k))
    BY <1>4 DEF FlushThrows
  <2>2. UNCHANGED <<flushed_lsn, log_buffer, acked>>
    BY <1>4 DEF FlushThrows
  <2> QED BY <2>1, <2>2, <1>0, RecordsPartOfBuffer
<1>5. CASE \E i \in DOMAIN acked : FlushUpTo(acked[i].lsn)
  <2>1. UNCHANGED <<next_lsn, appends, acked>>
    BY <1>5 DEF FlushUpTo
  <2>2. FlushAndSync \/ UNCHANGED <<file, flushed_lsn, log_buffer, synced>>
    BY <1>5 DEF FlushUpTo
  <2>3. CASE FlushAndSync
    BY <2>1, <2>3, RecordsFlushAndSync
  <2>4. CASE UNCHANGED <<file, flushed_lsn, log_buffer, synced>>
    BY <2>1, <2>4, <1>0 DEF RecordsInPlace, TailAgrees, AcksInPlace, EndOfBuffer
  <2> QED BY <2>2, <2>3, <2>4
<1>6. CASE Truncate
  <2>1. /\ flushed_lsn' = 0 /\ Len(log_buffer') = 0 /\ Len(acked') = 0
    BY <1>6, EmptySeq DEF Truncate
  <2> QED BY <2>1 DEF RecordsInPlace, TailAgrees, AcksInPlace, EndOfBuffer
<1>7. CASE \E k \in {1} \cup DOMAIN acked : BeginAt(k)
  <2>1. FlushAndSync /\ UNCHANGED <<next_lsn, appends, acked>>
    BY <1>7 DEF BeginAt
  <2> QED BY <2>1, RecordsFlushAndSync
<1>8. CASE MakeIterator \/ IteratorNext \/ IteratorDropped \/ UNCHANGED vars
  <2>1. UNCHANGED <<flushed_lsn, log_buffer, file, acked>>
    BY <1>8 DEF MakeIterator, IteratorNext, IteratorDropped, vars, logVars
  <2> QED BY <2>1, <1>0 DEF RecordsInPlace, TailAgrees, AcksInPlace, EndOfBuffer
\* What the file holds of the log, synced or not.
<1>9. \A j \in 1 .. EndOfBuffer : j <= Len(file) => file[j] = LogAt(j)
  <2> SUFFICES ASSUME NEW j \in 1 .. EndOfBuffer, j <= Len(file), ~(j <= flushed_lsn)
               PROVE  file[j] = log_buffer[j - flushed_lsn]
    BY DEF LogAt, CellAt
  <2>1. j \in flushed_lsn + 1 .. EndOfBuffer
    <3>1. flushed_lsn \in Nat /\ EndOfBuffer \in Nat
      BY <1>0, BufferWritten DEF OrderInv, LogTypes
    <3> QED BY <3>1
  <2> QED BY <2>1, <1>0 DEF TailAgrees
<1>10. CASE CloseAndReopen
  <2>1. Reopen(FileFlushed)
    BY <1>10 DEF CloseAndReopen
  <2>2. FileFlushed \in Seq(Bytes) /\ \A j \in 1 .. EndOfBuffer : FileFlushed[j] = LogAt(j)
    BY <1>0, BufferWritten
  <2> QED BY <2>1, <2>2, RecordsReopen
<1>11. CASE ProcessCrash
  <2>1. Reopen(file) /\ file \in Seq(Bytes)
    BY <1>0, <1>11 DEF ProcessCrash, OrderInv, LogTypes
  <2> QED BY <2>1, <1>9, RecordsReopen
<1>12. CASE PowerLoss
  <2>1. PICK n \in synced .. Len(file) : Reopen(SubSeq(file, 1, n))
    BY <1>12 DEF PowerLoss
  <2> DEFINE f == SubSeq(file, 1, n)
  <2>2. /\ file \in Seq(Bytes) /\ Len(file) \in Nat /\ EndOfBuffer \in Nat /\ n \in 0 .. Len(file)
    <3>1. file \in Seq(Bytes) /\ synced \in Nat
      BY <1>0 DEF OrderInv, LogTypes
    <3> QED BY <3>1, <1>0, LenProperties, BufferWritten
  <2>3. f \in Seq(Bytes) /\ Len(f) = n /\ \A j \in 1 .. n : f[j] = file[j]
    BY <2>2, SubSeqProperties
  <2>4. Reopen(f)
    BY <2>1
  <2> HIDE DEF f
  <2>5. \A j \in 1 .. EndOfBuffer : j <= Len(f) => f[j] = LogAt(j)
    BY <2>2, <2>3, <1>9
  <2> QED BY <2>3, <2>4, <2>5, RecordsReopen
<1> QED BY <1>1, <1>2, <1>3, <1>4, <1>5, <1>6, <1>7, <1>8, <1>10, <1>11, <1>12 DEF Next

LEMMA RecordsInit == Init => ContentInv
<1> SUFFICES ASSUME Init PROVE ContentInv
  OBVIOUS
<1>1. OrderInv
  BY OrderInit
<1>2. flushed_lsn = 0 /\ Len(log_buffer) = 0 /\ Len(acked) = 0
  BY EmptySeq DEF Init
<1> QED BY <1>1, <1>2 DEF ContentInv, RecordsInPlace, TailAgrees, AcksInPlace, EndOfBuffer

LEMMA ContentLsnIsOffset == ContentInv => LsnIsOffset
<1> SUFFICES ASSUME ContentInv, NEW i \in DOMAIN acked
             PROVE  LET a == acked[i]
                    IN  /\ a.lsn + a.size <= Len(Log)
                        /\ SubSeq(Log, a.lsn + 1, a.lsn + a.size) = Serialize(a.rec, a.size)
  BY DEF LsnIsOffset
<1> DEFINE a == acked[i]
<1>1. OrderInv /\ AcksInPlace /\ acked \in Seq(Acks)
  BY DEF ContentInv, RecordsInPlace, OrderInv, LogTypes
<1>2. i \in 1 .. Len(acked)
  BY <1>1, LenProperties
<1>3. a \in Acks /\ a.lsn \in Nat /\ a.size \in Nat /\ a.rec \in Records
  BY <1>1, <1>2, AckFields DEF Acks
<1>4. /\ a.lsn + a.size <= EndOfBuffer
      /\ \A k \in 1 .. a.size : LogAt(a.lsn + k) = [rec |-> a.rec, pos |-> k, size |-> a.size]
  BY <1>1, <1>2 DEF AcksInPlace, AckInPlace, LogAt, EndOfBuffer
<1>5. /\ Log \in Seq(Bytes) /\ Len(Log) \in Nat /\ EndOfBuffer \in Nat /\ EndOfBuffer <= Len(Log)
      /\ \A j \in 1 .. EndOfBuffer : Log[j] = LogAt(j)
  <2>1. Log = FileFlushed
    BY DEF Log, FileFlushed
  <2>2. FileFlushed \in Seq(Bytes) /\ Len(file) \in Nat
    BY <1>1, BufferWritten, LenProperties DEF OrderInv, LogTypes
  <2> QED BY <1>1, <2>1, <2>2, BufferWritten, LenProperties
<1> HIDE DEF a
<1>6. \A k \in 1 .. a.size : Log[a.lsn + k] = [rec |-> a.rec, pos |-> k, size |-> a.size]
  BY <1>3, <1>4, <1>5
<1>7. SubSeq(Log, a.lsn + 1, a.lsn + a.size) = Serialize(a.rec, a.size)
  <2> DEFINE s == SubSeq(Log, a.lsn + 1, a.lsn + a.size)
             t == Serialize(a.rec, a.size)
  <2>1. /\ t \in Seq(Bytes) /\ Len(t) = a.size
        /\ \A k \in 1 .. a.size : t[k] = [rec |-> a.rec, pos |-> k, size |-> a.size]
    BY <1>3, SerializeCells
  <2>2. \A j \in a.lsn + 1 .. a.lsn + a.size : Log[j] \in Bytes
    BY <1>3, <1>4, <1>5, ElementOfSeq
  <2>3. /\ s \in Seq(Bytes) /\ Len(s) = a.size
        /\ \A k \in 1 .. a.size : s[k] = Log[a.lsn + k]
    <3> DEFINE m == a.lsn + 1
               n == a.lsn + a.size
    <3>1. m \in Int /\ n \in Int /\ n - m + 1 = a.size
      BY <1>3
    <3>2. s = SubSeq(Log, m, n) /\ \A j \in m .. n : Log[j] \in Bytes
      BY <2>2
    <3>3. ASSUME NEW k \in 1 .. a.size PROVE m + k - 1 = a.lsn + k
      BY <1>3
    <3>4. (IF m <= n THEN n - m + 1 ELSE 0) = a.size
      BY <1>3
    <3> HIDE DEF m, n, s
    <3>5. /\ s \in Seq(Bytes) /\ Len(s) = a.size
          /\ \A k \in 1 .. a.size : s[k] = Log[m + k - 1]
      BY <3>1, <3>2, <3>4, SubSeqProperties
    <3> QED BY <3>3, <3>5
  <2> HIDE DEF s, t
  <2>4. \A k \in 1 .. a.size : s[k] = t[k]
    BY <2>1, <2>3, <1>6
  <2>5. s = t
    BY <2>1, <2>3, <2>4, SeqEqual
  <2> QED BY <2>5 DEF s, t
<1> QED BY <1>3, <1>4, <1>5, <1>7 DEF a

\* log_manager.h:25, "LSNs are the byte offset of the record in the log file": for
\* every buffer and record size, provided nobody appends behind the torn tail that a
\* failed append or a power loss leaves.
THEOREM RecordsAtTheirLsn ==
  ASSUME "append_on_torn" \notin Events
  PROVE  Spec => []LsnIsOffset
<1>1. ContentInv /\ [Next]_vars => ContentInv'
  BY RecordsKept
<1> QED BY <1>1, RecordsInit, ContentLsnIsOffset, PTL DEF Spec

-----------------------------------------------------------------------------
(* Promises: what a flush has returned for lies in the synced part of the file, *)
(* what FlushUpTo left alone in the part that is written.                       *)

LEMMA EndsBeforeBuffer ==
  ASSUME ContentInv, NEW i \in 1 .. Len(acked)
  PROVE  /\ acked[i].lsn + acked[i].size <= EndOfBuffer
         /\ acked[i].lsn + acked[i].size \in Nat
<1>1. OrderInv /\ AcksInPlace
  BY DEF ContentInv, RecordsInPlace
<1> QED BY <1>1, AckFields DEF AcksInPlace, AckInPlace, EndOfBuffer

LEMMA PromiseFlushAndSync ==
  ASSUME PromiseInv, FlushAndSync, UNCHANGED <<next_lsn, appends, acked>>,
         NEW upTo, promised' = promised \cup Recorded(upTo)
  PROVE  OneAfterTheOther' /\ SyncedFirst'
<1>1. ContentInv /\ OrderInv /\ OneAfterTheOther /\ SyncedFirst /\ acked \in Seq(Acks)
  BY DEF PromiseInv, ContentInv, OrderInv, LogTypes
<1>2. synced' = Len(FileFlushed) /\ EndOfBuffer <= synced' /\ EndOfBuffer \in Nat /\ synced' \in Nat
  <2>1. synced' = Len(FileFlushed)
    BY DEF FlushAndSync, Fsync
  <2>2. Len(FileFlushed) \in Nat /\ Len(file) \in Nat
    BY <1>1, BufferWritten, LenProperties DEF OrderInv, LogTypes
  <2> QED BY <1>1, <2>1, <2>2, BufferWritten
<1>3. \A i \in 1 .. Len(acked) : acked[i].lsn + acked[i].size <= synced'
  BY <1>1, <1>2, EndsBeforeBuffer
<1>4. \A r \in promised' : \E i \in 1 .. Len(acked) : acked[i].rec = r
  <2>1. DOMAIN acked = 1 .. Len(acked)
    BY <1>1, LenProperties
  <2> QED BY <1>1, <2>1 DEF SyncedFirst, Recorded
<1> QED BY <1>1, <1>3, <1>4 DEF OneAfterTheOther, SyncedFirst

LEMMA PromiseAppend ==
  ASSUME PromiseInv, NEW n \in RecordSizes, AppendLogRecord(n), ~TornTail
  PROVE  OneAfterTheOther' /\ SyncedFirst'
<1>1. ContentInv /\ OrderInv /\ OneAfterTheOther /\ SyncedFirst
  BY DEF PromiseInv, ContentInv
<1>2. next_lsn = EndOfBuffer /\ appends \in Nat /\ n \in Nat /\ acked \in Seq(Acks) /\ next_lsn \in Nat
  BY <1>1, RecordsAppend, SizeAssumption DEF OrderInv, LogTypes
<1> DEFINE a == [rec |-> appends + 1, lsn |-> next_lsn, size |-> n]
<1>3. /\ a.rec = appends + 1 /\ a.lsn = next_lsn /\ a.size = n /\ a \in Acks
      /\ acked' = Append(acked, a) /\ appends' = appends + 1
      /\ synced' = synced /\ promised' = promised
  BY <1>2, BoundAssumption DEF AppendLogRecord, MayAppend, Acknowledge, Acks, Records
<1> HIDE DEF a
<1>4. /\ Len(acked') = Len(acked) + 1 /\ Len(acked) \in Nat
      /\ \A i \in 1 .. Len(acked) : acked'[i] = acked[i]
      /\ acked'[Len(acked) + 1] = a
  BY <1>2, <1>3, AppendProperties, LenProperties
<1>5. \A i \in 1 .. Len(acked) : acked[i].lsn + acked[i].size <= next_lsn /\ acked[i].rec <= appends
  BY <1>1, <1>2, EndsBeforeBuffer DEF OneAfterTheOther
<1>6. \A i \in 1 .. Len(acked) : acked[i].rec \in Nat
  <2>1. \A i \in 1 .. Len(acked) : acked[i] \in Acks
    BY <1>1, AckFields
  <2> QED BY <2>1, BoundAssumption DEF Acks, Records
<1>7. OneAfterTheOther'
  <2>1. ASSUME NEW i \in 1 .. Len(acked'), NEW j \in 1 .. Len(acked'), i < j
        PROVE  /\ acked'[i].lsn + acked'[i].size <= acked'[j].lsn
               /\ acked'[i].rec < acked'[j].rec
    <3>1. i \in 1 .. Len(acked)
      BY <2>1, <1>4
    <3>2. CASE j \in 1 .. Len(acked)
      BY <2>1, <3>1, <3>2, <1>1, <1>4 DEF OneAfterTheOther
    <3>3. CASE j = Len(acked) + 1
      <4>1. acked'[i] = acked[i] /\ acked'[j] = a /\ acked[i].rec \in Nat
        BY <3>1, <3>3, <1>4, <1>6
      <4>2. acked[i].lsn + acked[i].size <= next_lsn /\ acked[i].rec < appends + 1
        BY <3>1, <4>1, <1>2, <1>5
      <4> QED BY <4>1, <4>2, <1>3
    <3> QED BY <3>2, <3>3, <1>4
  <2>2. ASSUME NEW i \in 1 .. Len(acked')
        PROVE  acked'[i].rec <= appends'
    <3>1. CASE i \in 1 .. Len(acked)
      BY <3>1, <1>2, <1>3, <1>4, <1>5, <1>6
    <3>2. CASE i = Len(acked) + 1
      BY <3>2, <1>2, <1>3, <1>4
    <3> QED BY <3>1, <3>2, <1>4
  <2> QED BY <2>1, <2>2 DEF OneAfterTheOther
\* The new record's name is none that was promised.
<1>8. appends + 1 \notin promised
  <2> SUFFICES ASSUME appends + 1 \in promised PROVE FALSE
    OBVIOUS
  <2>1. PICK i \in 1 .. Len(acked) : acked[i].rec = appends + 1
    BY <1>1 DEF SyncedFirst
  <2> QED BY <2>1, <1>2, <1>5
<1>9. SyncedFirst'
  <2>1. ASSUME NEW i \in 1 .. Len(acked'), acked'[i].rec \in promised'
        PROVE  acked'[i].lsn + acked'[i].size <= synced'
    <3>1. i # Len(acked) + 1
      BY <2>1, <1>3, <1>4, <1>8
    <3>2. i \in 1 .. Len(acked)
      BY <3>1, <1>4
    <3> QED BY <2>1, <3>2, <1>1, <1>3, <1>4 DEF SyncedFirst
  <2>2. ASSUME NEW r \in promised'
        PROVE  \E i \in 1 .. Len(acked') : acked'[i].rec = r
    <3>1. PICK i \in 1 .. Len(acked) : acked[i].rec = r
      BY <1>1, <1>3 DEF SyncedFirst
    <3>2. i \in 1 .. Len(acked') /\ acked'[i].rec = r
      BY <3>1, <1>4
    <3> QED BY <3>2
  <2> QED BY <2>1, <2>2 DEF SyncedFirst
<1> QED BY <1>7, <1>9

\* A restart keeps the records before the first that the file no longer holds; as
\* they lie in order, every promised one is among them.
LEMMA PromiseReopen ==
  ASSUME PromiseInv, NEW f \in Seq(Bytes), Reopen(f),
         synced' \in Nat, synced <= synced', synced' <= Len(f),
         upto' = {} \/ (upto' = upto /\ flushed_lsn <= Len(f))
  PROVE  OneAfterTheOther' /\ SyncedFirst' /\ WrittenFirst'
<1>1. ContentInv /\ OrderInv /\ OneAfterTheOther /\ SyncedFirst /\ WrittenFirst
  BY DEF PromiseInv, ContentInv
<1>2. /\ Len(f) \in Nat /\ Len(acked) \in Nat /\ synced \in Nat /\ flushed_lsn \in Nat
      /\ appends' = appends /\ promised' = promised /\ flushed_lsn' = Len(f)
  BY <1>1, LenProperties DEF OrderInv, LogTypes, Reopen
<1>3. PICK n \in 0 .. Len(acked) :
        /\ \A i \in 1 .. n : acked[i].lsn + acked[i].size <= Len(f)
        /\ n < Len(acked) => acked[n + 1].lsn + acked[n + 1].size > Len(f)
        /\ acked' = SubSeq(acked, 1, n)
  BY DEF Reopen, Survive, HoldsFirst
<1>4. Len(acked') = n /\ \A i \in 1 .. n : acked'[i] = acked[i] /\ i \in 1 .. Len(acked)
  <2>1. \A i \in 1 .. n : acked[i] \in Acks /\ i \in 1 .. Len(acked)
    BY <1>1, <1>2, AckFields
  <2> QED BY <1>2, <1>3, <2>1, SubSeqProperties
<1>5. OneAfterTheOther'
  BY <1>1, <1>2, <1>4 DEF OneAfterTheOther
<1>6. ASSUME NEW i \in 1 .. Len(acked), acked[i].lsn + acked[i].size <= Len(f)
      PROVE  i \in 1 .. n
  <2> SUFFICES ASSUME ~(i <= n) PROVE FALSE
    BY <1>2
  <2>1. n + 1 \in 1 .. Len(acked) /\ n < Len(acked) /\ n + 1 <= i
    BY <1>2
  <2>2. /\ acked[i].lsn \in Nat /\ acked[i].size \in Nat
        /\ acked[n + 1].lsn \in Nat /\ acked[n + 1].size \in Nat
    BY <2>1, <1>1, AckFields
  <2>4. CASE n + 1 = i
    BY <2>1, <2>2, <2>4, <1>2, <1>3, <1>6
  <2>5. CASE n + 1 < i
    <3> DEFINE end   == acked[n + 1].lsn + acked[n + 1].size
               start == acked[i].lsn
    <3>1. end <= start
      BY <2>1, <2>5, <1>1 DEF OneAfterTheOther
    <3>2. end > Len(f)
      BY <2>1, <1>3
    <3>3. start <= Len(f)
      BY <2>2, <1>2, <1>6
    <3>4. end \in Nat
      BY <1>1, <2>1, EndsBeforeBuffer
    <3>5. start \in Nat
      BY <2>2
    <3> HIDE DEF end, start
    <3> QED BY <3>1, <3>2, <3>3, <3>4, <3>5, <1>2
  <2> QED BY <2>1, <2>4, <2>5, <1>2
<1>7. SyncedFirst'
  <2>1. ASSUME NEW i \in 1 .. Len(acked'), acked'[i].rec \in promised'
        PROVE  acked'[i].lsn + acked'[i].size <= synced'
    <3>1. i \in 1 .. Len(acked) /\ acked'[i] = acked[i]
      BY <1>4
    <3>2. acked[i].lsn + acked[i].size <= synced
      BY <2>1, <3>1, <1>1, <1>2 DEF SyncedFirst
    <3> QED BY <3>1, <3>2, <1>1, <1>2, AckFields
  <2>2. ASSUME NEW r \in promised'
        PROVE  \E i \in 1 .. Len(acked') : acked'[i].rec = r
    <3>1. PICK i \in 1 .. Len(acked) : acked[i].rec = r
      BY <1>1, <1>2 DEF SyncedFirst
    <3>2. acked[i].lsn + acked[i].size <= synced /\ acked[i].lsn + acked[i].size \in Nat
      BY <2>2, <3>1, <1>1, <1>2, EndsBeforeBuffer DEF SyncedFirst
    <3>3. i \in 1 .. n
      BY <3>2, <1>2, <1>6
    <3> QED BY <3>1, <3>3, <1>4
  <2> QED BY <2>1, <2>2 DEF SyncedFirst
<1>8. WrittenFirst'
  <2>1. \A i \in 1 .. Len(acked') : acked'[i].lsn + acked'[i].size <= flushed_lsn'
    BY <1>2, <1>3, <1>4
  <2>2. ASSUME NEW r \in upto'
        PROVE  \E i \in 1 .. Len(acked') : acked'[i].rec = r
    <3>1. r \in upto /\ flushed_lsn <= Len(f)
      BY <2>2
    <3>2. PICK i \in 1 .. Len(acked) : acked[i].rec = r
      BY <3>1, <1>1 DEF WrittenFirst
    <3>3. acked[i].lsn + acked[i].size <= flushed_lsn /\ acked[i].lsn + acked[i].size \in Nat
      BY <3>1, <3>2, <1>1, EndsBeforeBuffer DEF WrittenFirst
    <3>4. i \in 1 .. n
      BY <3>1, <3>3, <1>2, <1>6
    <3> QED BY <3>2, <3>4, <1>4
  <2> QED BY <2>1, <2>2 DEF WrittenFirst
<1> QED BY <1>5, <1>7, <1>8

\* Writing the buffer out as a whole puts flushed_lsn behind every record.
LEMMA WrittenAll ==
  ASSUME PromiseInv, acked' = acked, flushed_lsn' = EndOfBuffer, upto' \subseteq upto
  PROVE  WrittenFirst'
<1>1. ContentInv /\ WrittenFirst
  BY DEF PromiseInv
<1>2. \A i \in 1 .. Len(acked) : acked[i].lsn + acked[i].size <= flushed_lsn'
  BY <1>1, EndsBeforeBuffer
<1> QED BY <1>1, <1>2 DEF WrittenFirst

LEMMA WrittenAppend ==
  ASSUME PromiseInv, NEW n \in RecordSizes, AppendLogRecord(n), ~TornTail
  PROVE  WrittenFirst'
<1>1. ContentInv /\ OrderInv /\ OneAfterTheOther /\ WrittenFirst
  BY DEF PromiseInv, ContentInv
<1>2. /\ next_lsn = EndOfBuffer /\ EndOfBuffer \in Nat /\ flushed_lsn <= EndOfBuffer
      /\ appends \in Nat /\ n \in Nat /\ acked \in Seq(Acks) /\ flushed_lsn \in Nat
  BY <1>1, RecordsAppend, BufferWritten, SizeAssumption DEF OrderInv, LogTypes
<1> DEFINE a == [rec |-> appends + 1, lsn |-> next_lsn, size |-> n]
<1>3. /\ a.rec = appends + 1 /\ a.lsn = next_lsn /\ a.size = n /\ a \in Acks
      /\ acked' = Append(acked, a) /\ upto' = upto
  BY <1>2, BoundAssumption DEF AppendLogRecord, MayAppend, Acknowledge, Acks, Records
<1> HIDE DEF a
<1>4. /\ Len(acked') = Len(acked) + 1 /\ Len(acked) \in Nat
      /\ \A i \in 1 .. Len(acked) : acked'[i] = acked[i]
      /\ acked'[Len(acked) + 1] = a
  BY <1>2, <1>3, AppendProperties, LenProperties
<1>5. flushed_lsn' \in {flushed_lsn, EndOfBuffer, next_lsn + n}
  BY DEF AppendLogRecord, LsnFlushed, EndOfBuffer
<1>6. appends + 1 \notin upto
  <2> SUFFICES ASSUME appends + 1 \in upto PROVE FALSE
    OBVIOUS
  <2>1. PICK i \in 1 .. Len(acked) : acked[i].rec = appends + 1
    BY <1>1 DEF WrittenFirst
  <2> QED BY <2>1, <1>1, <1>2 DEF OneAfterTheOther
<1>7. ASSUME NEW i \in 1 .. Len(acked'),
             acked'[i].lsn < flushed_lsn' \/ acked'[i].rec \in upto'
      PROVE  acked'[i].lsn + acked'[i].size <= flushed_lsn'
  <2>1. CASE i \in 1 .. Len(acked)
    <3>1. /\ acked'[i] = acked[i]
          /\ acked[i].lsn + acked[i].size <= EndOfBuffer /\ acked[i].lsn + acked[i].size \in Nat
      BY <2>1, <1>1, <1>4, EndsBeforeBuffer
    <3>2. CASE flushed_lsn' = flushed_lsn
      BY <2>1, <3>1, <3>2, <1>1, <1>3, <1>7 DEF WrittenFirst
    <3>3. CASE flushed_lsn' \in {EndOfBuffer, next_lsn + n}
      <4>1. EndOfBuffer <= flushed_lsn' /\ flushed_lsn' \in Nat
        BY <3>3, <1>2
      <4> QED BY <3>1, <4>1, <1>2
    <3> QED BY <3>2, <3>3, <1>5
  <2>2. CASE i = Len(acked) + 1
    <3>1. next_lsn < flushed_lsn'
      BY <2>2, <1>3, <1>4, <1>6, <1>7
    <3>2. flushed_lsn' = next_lsn + n
      BY <3>1, <1>2, <1>5
    <3> QED BY <2>2, <3>2, <1>2, <1>3, <1>4
  <2> QED BY <2>1, <2>2, <1>4
<1>8. ASSUME NEW r \in upto'
      PROVE  \E i \in 1 .. Len(acked') : acked'[i].rec = r
  <2>1. PICK i \in 1 .. Len(acked) : acked[i].rec = r
    BY <1>1, <1>3 DEF WrittenFirst
  <2>2. i \in 1 .. Len(acked') /\ acked'[i].rec = r
    BY <2>1, <1>4
  <2> QED BY <2>2
<1> QED BY <1>7, <1>8 DEF WrittenFirst

\* FlushUpTo leaves alone what lies before flushed_lsn, and an empty buffer.
LEMMA WrittenFlushUpTo ==
  ASSUME PromiseInv, NEW i \in DOMAIN acked, FlushUpTo(acked[i].lsn)
  PROVE  WrittenFirst'
<1> DEFINE lsn == acked[i].lsn
<1>1. ContentInv /\ OrderInv /\ OneAfterTheOther /\ WrittenFirst /\ acked \in Seq(Acks)
  BY DEF PromiseInv, ContentInv, OrderInv, LogTypes
<1>2. i \in 1 .. Len(acked) /\ DOMAIN acked = 1 .. Len(acked)
  BY <1>1, LenProperties
<1>3. CASE StillBuffered(lsn) /\ log_buffer # <<>>
  <2>1. acked' = acked /\ flushed_lsn' = EndOfBuffer /\ upto' \subseteq upto
    BY <1>3 DEF FlushUpTo, FlushAndSync, LsnFlushed, EndOfBuffer
  <2> QED BY <2>1, WrittenAll
<1>4. CASE ~(StillBuffered(lsn) /\ log_buffer # <<>>)
  <2>1. /\ acked' = acked /\ flushed_lsn' = flushed_lsn
        /\ upto' = (upto \cup Recorded(lsn)) \ promised
    BY <1>4 DEF FlushUpTo
  <2>2. ASSUME NEW j \in 1 .. Len(acked), acked[j].lsn <= lsn
        PROVE  acked[j].lsn + acked[j].size <= flushed_lsn
    <3>1. lsn \in Nat /\ acked[j].lsn \in Nat /\ flushed_lsn \in Nat
      BY <1>1, <1>2, AckFields DEF OrderInv, LogTypes
    <3>2. CASE log_buffer = <<>>
      <4>1. EndOfBuffer = flushed_lsn
        BY <3>1, <3>2, EmptySeq DEF EndOfBuffer
      <4> QED BY <4>1, <1>1, EndsBeforeBuffer
    <3>3. CASE ~StillBuffered(lsn)
      <4>1. acked[j].lsn < flushed_lsn
        BY <2>2, <3>1, <3>3 DEF StillBuffered
      <4> QED BY <4>1, <1>1 DEF WrittenFirst
    <3> QED BY <3>2, <3>3, <1>4
  <2>3. ASSUME NEW j \in 1 .. Len(acked), acked[j].rec \in Recorded(lsn)
        PROVE  acked[j].lsn + acked[j].size <= flushed_lsn
    <3>1. PICK k \in 1 .. Len(acked) : acked[k].lsn <= lsn /\ acked[j].rec = acked[k].rec
      BY <2>3, <1>2 DEF Recorded
    <3>2. j = k
      <4>1. acked[j].rec \in Nat /\ acked[k].rec \in Nat
        <5>1. acked[j] \in Acks /\ acked[k] \in Acks
          BY <1>1, AckFields
        <5> QED BY <5>1, BoundAssumption DEF Acks, Records
      <4>2. ~(j < k) /\ ~(k < j)
        BY <3>1, <4>1, <1>1 DEF OneAfterTheOther
      <4> QED BY <4>2
    <3> QED BY <3>1, <3>2, <2>2
  <2>4. \A r \in upto' : \E j \in 1 .. Len(acked) : acked[j].rec = r
    BY <2>1, <1>1, <1>2 DEF WrittenFirst, Recorded
  <2> QED BY <2>1, <2>3, <2>4, <1>1 DEF WrittenFirst
<1> QED BY <1>3, <1>4

LEMMA PromisesKept ==
  ASSUME "append_on_torn" \notin Events
  PROVE  PromiseInv /\ [Next]_vars => PromiseInv'
<1> SUFFICES ASSUME PromiseInv, [Next]_vars PROVE PromiseInv'
  OBVIOUS
<1>0. /\ ContentInv /\ OrderInv /\ ContentInv' /\ OrderInv'
      /\ OneAfterTheOther /\ SyncedFirst /\ WrittenFirst
  BY RecordsKept DEF PromiseInv, ContentInv
<1> SUFFICES OneAfterTheOther' /\ SyncedFirst' /\ WrittenFirst'
  BY <1>0 DEF PromiseInv
<1>1. CASE \E n \in RecordSizes : AppendLogRecord(n)
  BY <1>1, PromiseAppend, WrittenAppend DEF AppendLogRecord, MayAppend
<1>2. CASE \E n \in RecordSizes : AppendThrows(n)
  <2>1. /\ UNCHANGED <<acked, promised, synced, upto>>
        /\ appends' = appends + 1 /\ appends \in Nat
        /\ flushed_lsn' \in {flushed_lsn, EndOfBuffer}
    BY <1>0, <1>2 DEF AppendThrows, OrderInv, LogTypes, LsnFlushed, EndOfBuffer
  <2>2. \A i \in 1 .. Len(acked) : acked[i].rec \in Nat
    <3>1. \A i \in 1 .. Len(acked) : acked[i] \in Acks
      BY <1>0, AckFields
    <3> QED BY <3>1, BoundAssumption DEF Acks, Records
  <2>3. WrittenFirst'
    <3>1. CASE flushed_lsn' = flushed_lsn
      BY <3>1, <2>1, <1>0 DEF WrittenFirst
    <3>2. CASE flushed_lsn' = EndOfBuffer
      BY <3>2, <2>1, WrittenAll
    <3> QED BY <3>1, <3>2, <2>1
  <2> QED BY <2>1, <2>2, <2>3, <1>0, SMTT(30) DEF OneAfterTheOther, SyncedFirst
<1>3. CASE Flush
  <2>1. /\ FlushAndSync /\ UNCHANGED <<next_lsn, appends, acked>> /\ upto' = {}
        /\ promised' = promised \cup Recorded(next_lsn)
    BY <1>3 DEF Flush
  <2>2. flushed_lsn' = EndOfBuffer
    BY <2>1 DEF FlushAndSync, LsnFlushed, EndOfBuffer
  <2> QED BY <2>1, <2>2, PromiseFlushAndSync, WrittenAll
<1>4. CASE \E i \in DOMAIN acked : FlushUpTo(acked[i].lsn)
  <2>1. PICK i \in DOMAIN acked : FlushUpTo(acked[i].lsn)
    BY <1>4
  <2>2. CASE StillBuffered(acked[i].lsn) /\ log_buffer # <<>>
    <3>1. /\ FlushAndSync /\ UNCHANGED <<next_lsn, appends, acked>>
          /\ promised' = promised \cup Recorded(acked[i].lsn)
      BY <2>1, <2>2 DEF FlushUpTo
    <3> QED BY <2>1, <3>1, PromiseFlushAndSync, WrittenFlushUpTo
  <2>3. CASE ~(StillBuffered(acked[i].lsn) /\ log_buffer # <<>>)
    <3>1. UNCHANGED <<synced, promised, appends, acked>>
      BY <2>1, <2>3 DEF FlushUpTo
    <3> QED BY <2>1, <3>1, <1>0, WrittenFlushUpTo DEF OneAfterTheOther, SyncedFirst
  <2> QED BY <2>2, <2>3
<1>5. CASE Truncate
  <2>1. Len(acked') = 0 /\ promised' = {} /\ upto' = {}
    BY <1>5, EmptySeq DEF Truncate
  <2> QED BY <2>1 DEF OneAfterTheOther, SyncedFirst, WrittenFirst
<1>6. CASE \E k \in {1} \cup DOMAIN acked : BeginAt(k)
  <2>1. /\ FlushAndSync /\ UNCHANGED <<next_lsn, appends, acked>> /\ upto' = {}
        /\ promised' = promised \cup Recorded(next_lsn)
    BY <1>6 DEF BeginAt
  <2>2. flushed_lsn' = EndOfBuffer
    BY <2>1 DEF FlushAndSync, LsnFlushed, EndOfBuffer
  <2> QED BY <2>1, <2>2, PromiseFlushAndSync, WrittenAll
<1>7. CASE FlushThrows \/ MakeIterator \/ IteratorNext \/ IteratorDropped \/ UNCHANGED vars
  <2>1. UNCHANGED <<synced, promised, appends, acked, flushed_lsn, upto>>
    BY <1>7 DEF FlushThrows, MakeIterator, IteratorNext, IteratorDropped, vars, logVars
  <2> QED BY <2>1, <1>0 DEF OneAfterTheOther, SyncedFirst, WrittenFirst
<1>8. /\ synced \in Nat /\ synced <= Len(file) /\ file \in Seq(Bytes) /\ Len(file) \in Nat
      /\ flushed_lsn \in Nat /\ flushed_lsn <= Len(file)
  BY <1>0, LenProperties DEF OrderInv, LogTypes, InOrder
<1>9. CASE CloseAndReopen
  <2>1. Reopen(FileFlushed) /\ synced' = synced /\ upto' = upto
    BY <1>9 DEF CloseAndReopen
  <2>2. /\ FileFlushed \in Seq(Bytes) /\ synced <= Len(FileFlushed)
        /\ flushed_lsn <= Len(FileFlushed)
    BY <1>0, <1>8, BufferWritten
  <2> QED BY <2>1, <2>2, <1>8, PromiseReopen
<1>10. CASE ProcessCrash
  <2>1. Reopen(file) /\ synced' = synced /\ upto' = upto
    BY <1>10 DEF ProcessCrash
  <2> QED BY <2>1, <1>8, PromiseReopen
<1>11. CASE PowerLoss
  <2>1. PICK n \in synced .. Len(file) :
          Reopen(SubSeq(file, 1, n)) /\ synced' = n /\ upto' = {}
    BY <1>11 DEF PowerLoss
  <2>2. SubSeq(file, 1, n) \in Seq(Bytes) /\ Len(SubSeq(file, 1, n)) = n
    BY <1>8, SubSeqProperties
  <2>3. synced' \in Nat /\ synced <= synced' /\ synced' <= Len(SubSeq(file, 1, n))
    BY <2>1, <2>2, <1>8
  <2> QED BY <2>1, <2>2, <2>3, PromiseReopen
<1> QED BY <1>1, <1>2, <1>3, <1>4, <1>5, <1>6, <1>7, <1>9, <1>10, <1>11 DEF Next

LEMMA PromiseInit == Init => PromiseInv
<1> SUFFICES ASSUME Init PROVE PromiseInv
  OBVIOUS
<1>1. Len(acked) = 0 /\ promised = {} /\ upto = {}
  BY EmptySeq DEF Init
<1> QED BY <1>1, RecordsInit DEF PromiseInv, OneAfterTheOther, SyncedFirst, WrittenFirst

LEMMA InvFlushedSurvives == PromiseInv => FlushedSurvives
<1> SUFFICES ASSUME PromiseInv PROVE FlushedSurvives
  OBVIOUS
<1>1. DOMAIN acked = 1 .. Len(acked)
  BY LenProperties DEF PromiseInv, ContentInv, OrderInv, LogTypes
<1>2. SyncedFirst /\ WrittenFirst
  BY DEF PromiseInv
<1> QED BY <1>1, <1>2 DEF SyncedFirst, WrittenFirst, FlushedSurvives

\* log_manager.h:81, "Force all buffered log records to durable storage": no crash,
\* power loss or failed write takes a record that Flush, Begin or a FlushUpTo that
\* still found it in the buffer has returned for.  What FlushUpTo returned for
\* without syncing outlives a killed process, but not a power loss.  No torn tail is
\* written on.
THEOREM FlushedRecordsSurvive ==
  ASSUME "append_on_torn" \notin Events
  PROVE  Spec => []FlushedSurvives
<1>1. PromiseInv /\ [Next]_vars => PromiseInv'
  BY PromisesKept
<1> QED BY <1>1, PromiseInit, InvFlushedSurvives, PTL DEF Spec

-----------------------------------------------------------------------------
(* Types: the bounds of the log, and the iterator. *)

Iterators ==
  [stage : {"none", "begin", "open"}, valid : BOOLEAN, offset : 0 .. MaxLog, file_size : 0 .. MaxLog,
   size : Nat, start : Nat, least : Int, read : Seq(Nat), snapshot : Seq(Nat)]

\* What the bounds of the guards keep, and the buffer its capacity.
BoundsInv ==
  /\ next_lsn <= MaxLog /\ appends <= MaxAppends /\ promised \cup upto \subseteq Records
  /\ log_buffer \in Seq(Cell) /\ Len(log_buffer) <= BufferSize
  /\ \A i \in 1 .. Len(acked) : acked[i].lsn <= MaxLog /\ acked[i].size \in RecordSizes

\* A valid iterator is at a record that ends within the file it was made for.
ReaderInv ==
  /\ it \in Iterators
  /\ it.valid => it.offset + it.size <= it.file_size
  /\ it.stage = "begin" => it.start \in {1} \cup 1 .. Len(acked)

TypeInv == OrderInv /\ BoundsInv /\ ReaderInv

LEMMA NoIteratorTypes ==
  NoIterator \in Iterators /\ ~NoIterator.valid /\ NoIterator.stage # "begin"
<1>1. <<>> \in Seq(Nat)
  OBVIOUS
<1> QED BY <1>1, BoundAssumption DEF NoIterator, Iterators

LEMMA SerializeIsCells ==
  ASSUME NEW r \in Records, NEW n \in Nat
  PROVE  Serialize(r, n) \in Seq(Cell) /\ Len(Serialize(r, n)) = n
<1>1. \A k \in 1 .. n : [rec |-> r, pos |-> k, size |-> n] \in Cell
  BY DEF Cell
<1> QED BY <1>1 DEF Serialize

\* A cell of the file has a size and the name of a record, or 0.
LEMMA CellFields ==
  ASSUME NEW f \in Seq(Bytes), NEW o \in Nat, o < Len(f)
  PROVE  f[o + 1].rec \in Nat /\ f[o + 1].pos \in Nat /\ f[o + 1].size \in Nat
<1>1. o + 1 \in 1 .. Len(f)
  BY LenProperties
<1>2. f[o + 1] \in Bytes
  BY <1>1, ElementOfSeq
<1> QED BY <1>2, BoundAssumption DEF Bytes, Cell, Hole, Records

\* Reading leaves the iterator past the end, or at a record that ends within it.
LEMMA ReadTypes ==
  ASSUME NEW f \in Seq(Bytes), NEW i \in Iterators, NEW o \in 0 .. MaxLog,
         NEW j \in ReadCurrentRecord(f, i, o)
  PROVE  /\ j \in Iterators /\ j.stage = i.stage
         /\ j.valid => j.offset + j.size <= j.file_size
<1>1. CASE j = [i EXCEPT !.valid = FALSE, !.offset = o]
  BY <1>1 DEF Iterators
<1>2. CASE o < Len(f) /\ \E n \in TotalSizes(f, o) :
             /\ Readable(f, i, o, n)
             /\ j = [i EXCEPT !.valid = TRUE, !.offset = o, !.size = n,
                              !.read = Append(@, Deserialize(f, o, n))]
  <2>1. PICK n \in TotalSizes(f, o) :
             /\ Readable(f, i, o, n)
             /\ j = [i EXCEPT !.valid = TRUE, !.offset = o, !.size = n,
                              !.read = Append(@, Deserialize(f, o, n))]
    BY <1>2
  <2>2. o \in Nat /\ MaxLog \in Nat
    BY BoundAssumption
  <2>3. f[o + 1].rec \in Nat /\ f[o + 1].size \in Nat
    BY <1>2, <2>2, CellFields
  <2>4. n \in Nat
    <3>1. n \in {f[o + 1].size} \cup {0} \cup RecordSizes
      BY DEF TotalSizes
    <3>2. \A m \in RecordSizes : m \in Nat
      BY SizeAssumption
    <3>3. n = f[o + 1].size \/ n = 0 \/ n \in RecordSizes
      BY <3>1
    <3> QED BY <2>3, <3>2, <3>3
  <2>5. Deserialize(f, o, n) \in Nat
    BY <2>3 DEF Deserialize, Garbage
  <2>6. Append(i.read, Deserialize(f, o, n)) \in Seq(Nat)
    <3>1. i.read \in Seq(Nat)
      BY DEF Iterators
    <3> QED BY <2>5, <3>1, AppendProperties
  <2>7. o + n <= i.file_size
    BY <2>1 DEF Readable
  <2> QED BY <2>1, <2>4, <2>6, <2>7 DEF Iterators
<1>3. i.file_size \in Nat /\ Len(f) \in Nat /\ o \in Nat
  BY BoundAssumption, LenProperties DEF Iterators
<1>4. CASE o >= i.file_size \/ o >= Len(f)
  BY <1>1, <1>4 DEF ReadCurrentRecord
<1>5. CASE ~(o >= i.file_size \/ o >= Len(f))
  <2>1. o < Len(f)
    BY <1>3, <1>5
  <2>2. \E n \in TotalSizes(f, o) :
          j = IF Readable(f, i, o, n)
              THEN [i EXCEPT !.valid = TRUE, !.offset = o, !.size = n,
                             !.read = Append(@, Deserialize(f, o, n))]
              ELSE [i EXCEPT !.valid = FALSE, !.offset = o]
    BY <1>5 DEF ReadCurrentRecord
  <2> QED BY <2>1, <2>2, <1>1, <1>2
<1> QED BY <1>4, <1>5

LEMMA TypesAppend ==
  ASSUME TypeInv, NEW n \in RecordSizes, AppendLogRecord(n)
  PROVE  BoundsInv'
<1> DEFINE bytes == Serialize(appends + 1, n)
<1>1. OrderInv /\ BoundsInv
  BY DEF TypeInv
<1>2. /\ n \in Nat /\ n > 0 /\ Len(log_buffer) \in Nat /\ BufferSize \in Nat /\ BufferSize > 0
      /\ next_lsn \in Nat /\ appends \in Nat /\ MaxLog \in Nat /\ MaxAppends \in Nat
  BY <1>1, SizeAssumption, BoundAssumption, LenProperties DEF OrderInv, LogTypes
<1>3. appends < MaxAppends /\ next_lsn + n <= MaxLog
  BY DEF AppendLogRecord, MayAppend
<1>4. appends + 1 \in Records
  BY <1>2, <1>3 DEF Records
<1>5. bytes \in Seq(Cell) /\ Len(bytes) = n
  BY <1>2, <1>4, SerializeIsCells
<1> HIDE DEF bytes
<1>6. log_buffer' \in Seq(Cell) /\ Len(log_buffer') <= BufferSize
  <2>1. CASE log_buffer' = <<>>
    BY <2>1, <1>2
  <2>2. CASE log_buffer' = log_buffer
    BY <2>2, <1>1 DEF BoundsInv
  <2>3. CASE log_buffer' = <<>> \o bytes /\ ~LargerThanBuffer(n)
    <3>1. log_buffer' = bytes
      BY <2>3, <1>5, ConcatEmptySeq
    <3> QED BY <2>3, <3>1, <1>2, <1>5 DEF LargerThanBuffer
  <2>4. CASE log_buffer' = log_buffer \o bytes /\ ~BufferFull(n)
    <3>1. log_buffer' \in Seq(Cell) /\ Len(log_buffer') = Len(log_buffer) + n
      BY <2>4, <1>1, <1>5, ConcatProperties DEF BoundsInv
    <3> QED BY <2>4, <3>1, <1>2 DEF BufferFull
  <2> QED BY <2>1, <2>2, <2>3, <2>4 DEF AppendLogRecord, bytes
<1>7. \A i \in 1 .. Len(acked') : acked'[i].lsn <= MaxLog /\ acked'[i].size \in RecordSizes
  <2> DEFINE a == [rec |-> appends + 1, lsn |-> next_lsn, size |-> n]
  <2>1. a \in Acks /\ a.lsn = next_lsn /\ a.size = n
    BY <1>2, <1>4 DEF Acks
  <2>2. acked \in Seq(Acks) /\ acked' = Append(acked, a)
    BY <1>1 DEF OrderInv, LogTypes, AppendLogRecord, Acknowledge
  <2> HIDE DEF a
  <2>3. /\ Len(acked') = Len(acked) + 1 /\ Len(acked) \in Nat
        /\ \A i \in 1 .. Len(acked) : acked'[i] = acked[i]
        /\ acked'[Len(acked) + 1] = a
    BY <2>1, <2>2, AppendProperties, LenProperties
  <2>4. ASSUME NEW i \in 1 .. Len(acked') PROVE acked'[i].lsn <= MaxLog /\ acked'[i].size \in RecordSizes
    <3>1. CASE i \in 1 .. Len(acked)
      BY <2>3, <3>1, <1>1 DEF BoundsInv
    <3>2. CASE i = Len(acked) + 1
      BY <2>1, <2>3, <3>2, <1>2, <1>3
    <3> QED BY <2>3, <3>1, <3>2
  <2> QED BY <2>4
<1> QED BY <1>1, <1>2, <1>3, <1>6, <1>7 DEF BoundsInv, AppendLogRecord, Acknowledge

LEMMA TypesReopen ==
  ASSUME TypeInv, NEW f \in Seq(Bytes), Reopen(f), Len(f) <= next_lsn, upto' \subseteq upto
  PROVE  BoundsInv' /\ ReaderInv'
<1>1. OrderInv /\ BoundsInv /\ acked \in Seq(Acks) /\ next_lsn \in Nat
  BY DEF TypeInv, OrderInv, LogTypes
<1>2. Len(f) \in Nat /\ Len(acked) \in Nat /\ MaxLog \in Nat /\ BufferSize \in Nat
  BY <1>1, LenProperties, BoundAssumption, SizeAssumption
<1>3. PICK n \in 0 .. Len(acked) : acked' = SubSeq(acked, 1, n)
  BY DEF Reopen, Survive
<1>4. Len(acked') = n /\ \A i \in 1 .. n : acked'[i] = acked[i] /\ i \in 1 .. Len(acked)
  <2>1. \A i \in 1 .. n : acked[i] \in Acks /\ i \in 1 .. Len(acked)
    BY <1>1, <1>2, AckFields
  <2> QED BY <1>2, <1>3, <2>1, SubSeqProperties
<1>5. \A i \in 1 .. Len(acked') : acked'[i].lsn <= MaxLog /\ acked'[i].size \in RecordSizes
  BY <1>1, <1>4 DEF BoundsInv
<1>6. next_lsn' <= MaxLog
  BY <1>1, <1>2 DEF Reopen, BoundsInv
<1>7. log_buffer' \in Seq(Cell) /\ Len(log_buffer') = 0
  BY EmptySeq DEF Reopen
<1>8. BoundsInv'
  BY <1>1, <1>2, <1>5, <1>6, <1>7 DEF BoundsInv, Reopen
<1>9. ReaderInv'
  BY NoIteratorTypes DEF Reopen, ReaderInv
<1> QED BY <1>8, <1>9

\* Flush, FlushUpTo and Begin promise records that were acknowledged.
LEMMA TypesFlush ==
  ASSUME TypeInv, \/ log_buffer' = <<>>
                  \/ log_buffer' = log_buffer,
         UNCHANGED <<next_lsn, appends, acked>>,
         NEW upTo, promised' \cup upto' \subseteq promised \cup upto \cup Recorded(upTo)
  PROVE  BoundsInv'
<1>1. BoundsInv /\ acked \in Seq(Acks)
  BY DEF TypeInv, OrderInv, LogTypes
<1>2. Recorded(upTo) \subseteq Records
  <2>1. \A i \in DOMAIN acked : acked[i].rec \in Records
    <3>1. DOMAIN acked = 1 .. Len(acked) /\ \A i \in 1 .. Len(acked) : acked[i] \in Acks
      BY <1>1, LenProperties, ElementOfSeq
    <3> QED BY <3>1 DEF Acks
  <2> QED BY <2>1 DEF Recorded
<1>3. log_buffer' \in Seq(Cell) /\ Len(log_buffer') <= BufferSize
  <2>1. CASE log_buffer' = <<>>
    BY <2>1, EmptySeq, SizeAssumption
  <2>2. CASE log_buffer' = log_buffer
    BY <2>2, <1>1 DEF BoundsInv
  <2> QED BY <2>1, <2>2
<1>4. promised' \cup upto' \subseteq Records
  BY <1>1, <1>2 DEF BoundsInv
<1> QED BY <1>1, <1>3, <1>4 DEF BoundsInv

\* What is not an iterator's step leaves it alone, and its start acknowledged.
LEMMA ReaderLeftAlone ==
  ASSUME TypeInv, it' = it, Len(acked) <= Len(acked'), Len(acked') \in Nat
  PROVE  ReaderInv'
<1>1. Len(acked) \in Nat /\ ReaderInv
  BY LenProperties DEF TypeInv, OrderInv, LogTypes
<1>2. 1 .. Len(acked) \subseteq 1 .. Len(acked')
  BY <1>1
<1> QED BY <1>1, <1>2 DEF ReaderInv

LEMMA TypesKept == TypeInv /\ [Next]_vars => TypeInv'
<1> SUFFICES ASSUME TypeInv, [Next]_vars PROVE TypeInv'
  OBVIOUS
<1>0. /\ OrderInv /\ OrderInv' /\ BoundsInv /\ ReaderInv
      /\ Len(acked) \in Nat /\ Len(file) \in Nat /\ next_lsn \in Nat /\ MaxLog \in Nat
      /\ file \in Seq(Bytes) /\ acked \in Seq(Acks) /\ Len(file) <= next_lsn
  BY OrderKept, LenProperties, BoundAssumption DEF TypeInv, OrderInv, LogTypes, InOrder
<1> SUFFICES BoundsInv' /\ ReaderInv'
  BY <1>0 DEF TypeInv
<1>1. CASE \E n \in RecordSizes : AppendLogRecord(n)
  <2>1. PICK n \in RecordSizes : AppendLogRecord(n)
    BY <1>1
  <2>2. it' = it /\ \E a : acked' = Append(acked, a)
    BY <2>1 DEF AppendLogRecord, Acknowledge
  <2>3. Len(acked') \in Nat /\ Len(acked) <= Len(acked')
    BY <2>2, <1>0
  <2> QED BY <2>1, <2>2, <2>3, TypesAppend, ReaderLeftAlone
<1>2. CASE \E n \in RecordSizes : AppendThrows(n)
  <2>1. PICK n \in RecordSizes : AppendThrows(n)
    BY <1>2
  <2>2. /\ acked' = acked /\ it' = it /\ UNCHANGED <<promised, upto>>
        /\ next_lsn' = next_lsn + n /\ next_lsn + n <= MaxLog
        /\ appends' = appends + 1 /\ appends < MaxAppends
        /\ log_buffer' \in {log_buffer, <<>>}
    BY <2>1 DEF AppendThrows, MayAppend
  <2>3. appends + 1 <= MaxAppends
    BY <2>2, <1>0, BoundAssumption DEF OrderInv, LogTypes
  <2>4. log_buffer' \in Seq(Cell) /\ Len(log_buffer') <= BufferSize
    <3>1. CASE log_buffer' = log_buffer
      BY <3>1, <1>0 DEF BoundsInv
    <3>2. CASE log_buffer' = <<>>
      BY <3>2, EmptySeq, SizeAssumption
    <3> QED BY <2>2, <3>1, <3>2
  <2>5. BoundsInv'
    BY <2>2, <2>3, <2>4, <1>0 DEF BoundsInv
  <2> QED BY <2>2, <2>5, <1>0, ReaderLeftAlone
<1>3. CASE Flush
  <2>1. /\ log_buffer' = <<>> /\ UNCHANGED <<next_lsn, appends, acked, it>>
        /\ promised' \cup upto' \subseteq promised \cup upto \cup Recorded(next_lsn)
    BY <1>3 DEF Flush, FlushAndSync
  <2> QED BY <2>1, <1>0, TypesFlush, ReaderLeftAlone
<1>4. CASE \E i \in DOMAIN acked : FlushUpTo(acked[i].lsn)
  <2>1. PICK i \in DOMAIN acked : FlushUpTo(acked[i].lsn)
    BY <1>4
  <2>2. /\ log_buffer' = <<>> \/ log_buffer' = log_buffer
        /\ UNCHANGED <<next_lsn, appends, acked, it>>
        /\ promised' \cup upto' \subseteq promised \cup upto \cup Recorded(acked[i].lsn)
    BY <2>1 DEF FlushUpTo, FlushAndSync
  <2>3. BoundsInv'
    BY <2>2, TypesFlush
  <2> QED BY <2>2, <2>3, <1>0, ReaderLeftAlone
<1>5. CASE Truncate
  <2>1. it = NoIterator /\ it' = it /\ Len(acked') = 0
    BY <1>5, EmptySeq DEF Truncate
  <2>2. ReaderInv'
    BY <2>1, NoIteratorTypes DEF ReaderInv
  <2>3. BoundsInv'
    BY <1>5, <1>0, <2>1, EmptySeq, SizeAssumption DEF Truncate, BoundsInv
  <2> QED BY <2>2, <2>3
<1>6. CASE \E k \in {1} \cup DOMAIN acked : BeginAt(k)
  <2>1. PICK k \in {1} \cup DOMAIN acked : BeginAt(k)
    BY <1>6
  <2>2. /\ log_buffer' = <<>> /\ UNCHANGED <<next_lsn, appends, acked>>
        /\ promised' \cup upto' \subseteq promised \cup upto \cup Recorded(next_lsn)
        /\ it' = [NoIterator EXCEPT !.stage = "begin", !.start = k, !.least = Len(acked) - k + 1]
    BY <2>1 DEF BeginAt, FlushAndSync
  <2>3. BoundsInv'
    BY <2>2, TypesFlush
  <2>4. k \in {1} \cup 1 .. Len(acked) /\ k \in Nat
    BY <1>0, LenProperties
  <2>5. it' \in Iterators /\ ~it'.valid /\ it'.start = k
    <3>1. Len(acked) - k + 1 \in Int
      BY <2>4, <1>0
    <3> QED BY <2>2, <2>4, <3>1, NoIteratorTypes DEF Iterators
  <2>6. ReaderInv'
    BY <2>2, <2>4, <2>5 DEF ReaderInv
  <2> QED BY <2>3, <2>6
<1>7. CASE FlushThrows \/ IteratorDropped \/ UNCHANGED vars
  <2>1. UNCHANGED <<next_lsn, appends, acked, log_buffer, promised, upto>>
    BY <1>7 DEF FlushThrows, IteratorDropped, vars, logVars
  <2>2. it' = it \/ it' = NoIterator
    BY <1>7 DEF FlushThrows, IteratorDropped, vars
  <2>3. CASE it' = NoIterator
    BY <2>1, <2>3, <1>0, NoIteratorTypes DEF BoundsInv, ReaderInv
  <2>4. CASE it' = it
    BY <2>1, <2>4, <1>0, ReaderLeftAlone DEF BoundsInv
  <2> QED BY <2>2, <2>3, <2>4
<1>8. CASE MakeIterator
  <2>0. UNCHANGED <<next_lsn, appends, acked, log_buffer, promised, upto>> /\ it.stage = "begin"
    BY <1>8 DEF MakeIterator, logVars
  <2> DEFINE k == it.start
             o == IF k = 1 THEN 0 ELSE acked[k].lsn
             opened(m) == [it EXCEPT !.stage = "open", !.file_size = Len(file),
                             !.snapshot = [j \in 1 .. m - k + 1 |-> acked[k + j - 1].rec]]
  <2>1. PICK n \in 0 .. Len(acked) : it' \in ReadCurrentRecord(file, opened(n), o)
    BY <1>8 DEF MakeIterator
  <2>2. k \in {1} \cup 1 .. Len(acked) /\ k \in Nat
    BY <1>0, <2>0 DEF ReaderInv
  <2>3. o \in 0 .. MaxLog
    BY <2>2, <1>0, AckFields DEF BoundsInv
  <2>4. [j \in 1 .. n - k + 1 |-> acked[k + j - 1].rec] \in Seq(Nat)
    <3> DEFINE m == IF n - k + 1 > 0 THEN n - k + 1 ELSE 0
               e(j) == acked[k + j - 1].rec
    <3>1. m \in Nat /\ 1 .. n - k + 1 = 1 .. m
      BY <2>2, <1>0
    <3>2. ASSUME NEW j \in 1 .. m PROVE e(j) \in Nat
      <4>1. k + j - 1 \in 1 .. Len(acked)
        BY <2>2, <1>0, SMTT(30)
      <4>2. acked[k + j - 1] \in Acks
        BY <4>1, <1>0, ElementOfSeq
      <4> QED BY <4>2, BoundAssumption DEF Acks, Records
    <3> HIDE DEF m, e
    <3>3. [j \in 1 .. m |-> e(j)] \in Seq(Nat)
      BY <3>1, <3>2
    <3>4. [j \in 1 .. m |-> acked[k + j - 1].rec] = [j \in 1 .. m |-> e(j)]
      BY DEF e
    <3> QED BY <3>1, <3>3, <3>4
  <2>5. opened(n) \in Iterators /\ opened(n).stage = "open"
    <3>1. Len(file) \in 0 .. MaxLog
      BY <1>0 DEF BoundsInv
    <3> QED BY <2>4, <3>1, <1>0 DEF ReaderInv, Iterators
  <2> HIDE DEF opened, o, k
  <2>6. ReaderInv'
    BY <2>1, <2>3, <2>5, <1>0, ReadTypes DEF ReaderInv
  <2> QED BY <2>0, <2>6, <1>0 DEF BoundsInv
<1>9. CASE IteratorNext
  <2>0. /\ UNCHANGED <<next_lsn, appends, acked, log_buffer, promised, upto>> /\ it.valid
        /\ it' \in ReadCurrentRecord(file, it, it.offset + it.size)
    BY <1>9 DEF IteratorNext, logVars
  <2>1. it.offset + it.size \in 0 .. MaxLog
    BY <2>0, <1>0 DEF ReaderInv, Iterators
  <2>2. it' \in Iterators /\ it'.stage = it.stage /\ (it'.valid => it'.offset + it'.size <= it'.file_size)
    BY <2>0, <2>1, <1>0, ReadTypes DEF ReaderInv
  <2>3. it'.start = it.start
    <3>1. \/ it' = [it EXCEPT !.valid = FALSE, !.offset = it.offset + it.size]
          \/ \E n : it' = [it EXCEPT !.valid = TRUE, !.offset = it.offset + it.size, !.size = n,
                              !.read = Append(@, Deserialize(file, it.offset + it.size, n))]
      BY <2>0 DEF ReadCurrentRecord
    <3> QED BY <3>1, <1>0 DEF ReaderInv, Iterators
  <2>4. ReaderInv'
    BY <2>0, <2>2, <2>3, <1>0 DEF ReaderInv
  <2> QED BY <2>0, <2>4, <1>0 DEF BoundsInv
<1>10. CASE CloseAndReopen
  <2>1. Reopen(FileFlushed) /\ FileFlushed \in Seq(Bytes) /\ upto' = upto
    BY <1>0, <1>10, BufferWritten DEF CloseAndReopen
  <2>2. Len(FileFlushed) <= next_lsn
    BY <1>0, BufferWritten DEF OrderInv, InOrder
  <2> QED BY <2>1, <2>2, TypesReopen
<1>11. CASE ProcessCrash
  BY <1>0, <1>11, TypesReopen DEF ProcessCrash
<1>12. CASE PowerLoss
  <2>1. PICK n \in synced .. Len(file) : Reopen(SubSeq(file, 1, n)) /\ upto' = {}
    BY <1>12 DEF PowerLoss
  <2>2. n \in 0 .. Len(file) /\ n \in Nat
    BY <1>0 DEF OrderInv, LogTypes
  <2>3. SubSeq(file, 1, n) \in Seq(Bytes) /\ Len(SubSeq(file, 1, n)) = n
    BY <2>2, <1>0, SubSeqProperties
  <2>4. n <= next_lsn
    BY <2>2, <1>0
  <2> QED BY <2>1, <2>3, <2>4, TypesReopen
<1> QED BY <1>1, <1>2, <1>3, <1>4, <1>5, <1>6, <1>7, <1>8, <1>9, <1>10, <1>11, <1>12 DEF Next

LEMMA TypesInit == Init => TypeInv
<1> SUFFICES ASSUME Init PROVE TypeInv
  OBVIOUS
<1>1. Len(acked) = 0 /\ log_buffer \in Seq(Cell) /\ Len(log_buffer) = 0
  BY EmptySeq DEF Init
<1> QED BY <1>1, OrderInit, NoIteratorTypes, SizeAssumption, BoundAssumption
        DEF Init, TypeInv, BoundsInv, ReaderInv

LEMMA InvTypeOK == TypeInv => TypeOK
<1> SUFFICES ASSUME TypeInv PROVE TypeOK
  OBVIOUS
<1>1. OrderInv /\ LogTypes /\ InOrder /\ BoundsInv /\ it \in Iterators /\ acked \in Seq(Acks)
  BY DEF TypeInv, OrderInv, LogTypes, ReaderInv
<1>2. Len(file) \in Nat /\ Len(acked) \in Nat /\ DOMAIN acked = 1 .. Len(acked)
      /\ MaxLog \in Nat /\ MaxAppends \in Nat
  BY <1>1, LenProperties, BoundAssumption DEF LogTypes
<1>3. next_lsn \in 0 .. MaxLog /\ flushed_lsn \in 0 .. MaxLog /\ appends \in 0 .. MaxAppends
      /\ synced \in 0 .. Len(file)
  BY <1>1, <1>2 DEF LogTypes, InOrder, BoundsInv
<1>4. \A i \in DOMAIN acked : acked[i] \in [rec : Records, lsn : Nat, size : RecordSizes]
  <2> SUFFICES ASSUME NEW i \in 1 .. Len(acked)
               PROVE  acked[i] \in [rec : Records, lsn : Nat, size : RecordSizes]
    BY <1>2
  <2>1. acked[i] \in Acks /\ acked[i].size \in RecordSizes
    BY <1>1, ElementOfSeq DEF BoundsInv
  <2> QED BY <2>1 DEF Acks
<1> QED BY <1>1, <1>3, <1>4 DEF TypeOK, LogTypes, BoundsInv, Bytes, Iterators

\* log_manager.h:25-26, the log of every buffer size and record size: the buffer
\* never holds more than its capacity, the offsets stay within the log, and an
\* iterator never leaves the file it was made for.
THEOREM TypeCorrect == Spec => []TypeOK
<1>1. TypeInv /\ [Next]_vars => TypeInv'
  BY TypesKept
<1> QED BY <1>1, TypesInit, InvTypeOK, PTL DEF Spec
-----------------------------------------------------------------------------
(* Reading a log back: what Parse returns for records laid one behind the other. *)

LEMMA NatOrder == \E R : IsWellFoundedOn(R, Nat) /\ R = {ss \in Nat \X Nat : ss[1] < ss[2]}
<1>1. OpToRel(<, Nat) = {ss \in Nat \X Nat : ss[1] < ss[2]}
  BY DEF OpToRel
<1> QED BY <1>1, NatLessThanWellFounded, Zenon

LEMMA LeastNatural ==
  ASSUME NEW U, U \subseteq Nat, U # {}
  PROVE  \E m \in U : \A k \in U : m <= k
<1>1. PICK R : IsWellFoundedOn(R, Nat) /\ R = {ss \in Nat \X Nat : ss[1] < ss[2]}
  BY NatOrder
<1>2. PICK m \in U : \A k \in U : <<k, m>> \notin R
  BY <1>1, WFMin
<1>3. ASSUME NEW k \in U PROVE m <= k
  <2>1. k \in Nat /\ m \in Nat /\ <<k, m>> \in Nat \X Nat
    OBVIOUS
  <2> QED BY <1>1, <1>2, <2>1
<1> QED BY <1>3

\* Where the first i records of a end.
EndAt(a, i) == IF i = 0 THEN 0 ELSE a[i].lsn + a[i].size

\* The names of the records of a that follow the first i.
Rest(a, i) == [j \in 1 .. Len(a) - i |-> a[i + j].rec]

HoldsRecord(s, b) ==
  /\ b.lsn + b.size <= Len(s)
  /\ \A k \in 1 .. b.size : s[b.lsn + k] = [rec |-> b.rec, pos |-> k, size |-> b.size]

\* Behind e there is nothing, or the front of a record that is cut off.
TornBehind(s, e) ==
  \E r \in Nat, n \in Nat :
    /\ Len(s) < e + n
    /\ \A k \in 1 .. Len(s) - e : s[e + k] = [rec |-> r, pos |-> k, size |-> n]

LEMMA TornFrom ==
  ASSUME NEW s, NEW e, NEW r \in Nat, NEW n \in Nat, Len(s) < e + n,
         \A k \in 1 .. Len(s) - e : s[e + k] = [rec |-> r, pos |-> k, size |-> n]
  PROVE  TornBehind(s, e)
BY DEF TornBehind

Adjacent(a) ==
  /\ \A i \in 1 .. Len(a) : a[i].lsn = EndAt(a, i - 1) /\ a[i].size > 0
  /\ \A i, j \in 1 .. Len(a) : i < j => a[i].lsn + a[i].size <= a[j].lsn

Laid(s, a) ==
  /\ Adjacent(a)
  /\ \A i \in 1 .. Len(a) : HoldsRecord(s, a[i])
  /\ TornBehind(s, EndAt(a, Len(a)))

LEMMA AckOf ==
  ASSUME NEW a \in Seq(Acks), NEW i \in 1 .. Len(a)
  PROVE  /\ a[i] \in Acks /\ a[i].lsn \in Nat /\ a[i].size \in Nat /\ a[i].rec \in Records
         /\ EndAt(a, i) = a[i].lsn + a[i].size /\ EndAt(a, i) \in Nat
<1>1. a[i] \in Acks /\ i # 0
  BY ElementOfSeq
<1> QED BY <1>1 DEF Acks, EndAt

\* The ends of the records grow.
LEMMA EndsGrow ==
  ASSUME NEW a \in Seq(Acks), Adjacent(a)
  PROVE  /\ \A i \in 0 .. Len(a) : EndAt(a, i) \in Nat
         /\ \A i, j \in 0 .. Len(a) : i < j => EndAt(a, i) < EndAt(a, j)
<1>0. Len(a) \in Nat
  BY LenProperties
<1>1. ASSUME NEW i \in 0 .. Len(a) PROVE EndAt(a, i) \in Nat
  <2>1. CASE i = 0
    BY <2>1 DEF EndAt
  <2>2. CASE i # 0
    <3>1. i \in 1 .. Len(a)
      BY <1>0, <2>2
    <3> QED BY <3>1, AckOf
  <2> QED BY <2>1, <2>2
<1>2. ASSUME NEW i \in 0 .. Len(a), NEW j \in 0 .. Len(a), i < j
      PROVE  EndAt(a, i) < EndAt(a, j)
  <2>1. j \in 1 .. Len(a)
    BY <1>0, <1>2
  <2>2. /\ EndAt(a, j) = a[j].lsn + a[j].size /\ a[j].lsn \in Nat /\ a[j].size \in Nat
        /\ a[j].size > 0
    BY <2>1, AckOf DEF Adjacent
  <2>3. EndAt(a, i) <= a[j].lsn
    <3>1. CASE i = 0
      BY <2>2, <3>1 DEF EndAt
    <3>2. CASE i # 0
      <4>1. i \in 1 .. Len(a)
        BY <1>0, <3>2
      <4> QED BY <1>2, <2>1, <4>1, AckOf DEF Adjacent
    <3> QED BY <3>1, <3>2
  <2>4. EndAt(a, i) \in Nat
    BY <1>1
  <2> QED BY <2>2, <2>3, <2>4
<1> QED BY <1>1, <1>2

\* A record that is held is the one that is deserialized.
LEMMA RecordRead ==
  ASSUME NEW s \in Seq(Bytes), NEW b \in Acks, HoldsRecord(s, b), b.size > 0
  PROVE  /\ b.lsn < Len(s) /\ s[b.lsn + 1].pos = 1 /\ s[b.lsn + 1].size = b.size
         /\ s[b.lsn + 1].rec = b.rec
         /\ SubSeq(s, b.lsn + 1, b.lsn + b.size) = Serialize(b.rec, b.size)
         /\ Deserialize(s, b.lsn, b.size) = b.rec
<1>1. /\ Len(s) \in Nat /\ b.lsn \in Nat /\ b.size \in Nat /\ b.rec \in Records
      /\ b.lsn + b.size <= Len(s)
  BY LenProperties DEF Acks, HoldsRecord
<1>2. \A k \in 1 .. b.size : s[b.lsn + k] = [rec |-> b.rec, pos |-> k, size |-> b.size]
  BY DEF HoldsRecord
<1>3. s[b.lsn + 1] = [rec |-> b.rec, pos |-> 1, size |-> b.size]
  BY <1>1, <1>2
<1>4. SubSeq(s, b.lsn + 1, b.lsn + b.size) = Serialize(b.rec, b.size)
  <2> DEFINE m == b.lsn + 1
             n == b.lsn + b.size
             u == SubSeq(s, m, n)
             t == Serialize(b.rec, b.size)
  <2>1. /\ t \in Seq(Bytes) /\ Len(t) = b.size
        /\ \A k \in 1 .. b.size : t[k] = [rec |-> b.rec, pos |-> k, size |-> b.size]
    BY <1>1, SerializeCells
  <2>2. m \in Int /\ n \in Int /\ n - m + 1 = b.size /\ (IF m <= n THEN n - m + 1 ELSE 0) = b.size
    BY <1>1
  <2>3. \A j \in m .. n : s[j] \in Bytes
    <3>1. \A j \in m .. n : j \in 1 .. Len(s)
      BY <1>1
    <3> QED BY <3>1, ElementOfSeq
  <2>4. ASSUME NEW k \in 1 .. b.size PROVE m + k - 1 = b.lsn + k
    BY <1>1
  <2> HIDE DEF m, n, t
  <2>5. u \in Seq(Bytes) /\ Len(u) = b.size /\ \A k \in 1 .. b.size : u[k] = s[m + k - 1]
    BY <2>2, <2>3, SubSeqProperties
  <2> HIDE DEF u
  <2>6. \A k \in 1 .. b.size : u[k] = t[k]
    BY <2>1, <2>4, <2>5, <1>2
  <2>7. u = t
    BY <2>1, <2>5, <2>6, SeqEqual
  <2> QED BY <2>7 DEF u, t, m, n
<1>5. s[b.lsn + 1].rec = b.rec
  BY <1>3
<1> QED BY <1>1, <1>3, <1>4, <1>5 DEF Deserialize

\* What the reader meets where the first i records end: the next record, or, behind
\* the last, the end of the log or of a record that is cut off.
LEMMA AtRecord ==
  ASSUME NEW s \in Seq(Bytes), NEW a \in Seq(Acks), Laid(s, a),
         NEW i \in 0 .. Len(a), i # Len(a), NEW o, o = EndAt(a, i)
  PROVE  /\ o \in Nat /\ o < Len(s) /\ s[o + 1].pos = 1
         /\ s[o + 1].size = a[i + 1].size /\ a[i + 1].size \in Nat /\ a[i + 1].size > 0
         /\ o = a[i + 1].lsn
         /\ o + s[o + 1].size = EndAt(a, i + 1) /\ EndAt(a, i + 1) <= Len(s)
         /\ Deserialize(s, o, s[o + 1].size) = a[i + 1].rec
<1>1. i + 1 \in 1 .. Len(a) /\ (i + 1) - 1 = i /\ Len(a) \in Nat
  BY LenProperties
<1> DEFINE b == a[i + 1]
<1>2. b \in Acks /\ HoldsRecord(s, b) /\ b.size > 0 /\ b.lsn = o
  BY <1>1, AckOf DEF Laid, Adjacent
<1>3. EndAt(a, i + 1) = b.lsn + b.size /\ b.lsn \in Nat /\ b.size \in Nat
  BY <1>1, AckOf
<1> HIDE DEF b
<1>4. /\ b.lsn < Len(s) /\ s[b.lsn + 1].pos = 1 /\ s[b.lsn + 1].size = b.size
      /\ Deserialize(s, b.lsn, b.size) = b.rec /\ b.lsn + b.size <= Len(s)
  BY <1>2, RecordRead DEF HoldsRecord
<1> QED BY <1>2, <1>3, <1>4 DEF b

LEMMA BehindRecords ==
  ASSUME NEW s \in Seq(Bytes), NEW a \in Seq(Acks), Laid(s, a),
         NEW o, o = EndAt(a, Len(a)), o < Len(s)
  PROVE  /\ s[o + 1].pos = 1 /\ s[o + 1].size \in Nat
         /\ o + s[o + 1].size > Len(s)
<1>1. o \in Nat /\ Len(s) \in Nat /\ Len(a) \in Nat
  <2>1. Len(a) \in 0 .. Len(a) /\ Len(s) \in Nat /\ Len(a) \in Nat
    BY LenProperties
  <2> QED BY <2>1, EndsGrow DEF Laid
<1>2. PICK r \in Nat, n \in Nat :
        /\ Len(s) < o + n
        /\ \A k \in 1 .. Len(s) - o : s[o + k] = [rec |-> r, pos |-> k, size |-> n]
  BY DEF Laid, TornBehind
<1>3. s[o + 1] = [rec |-> r, pos |-> 1, size |-> n]
  BY <1>1, <1>2
<1> QED BY <1>1, <1>2, <1>3

LEMMA ElsewhereNoHeader ==
  ASSUME NEW s \in Seq(Bytes), NEW a \in Seq(Acks), Laid(s, a), NEW o \in Nat, o < Len(s),
         \A i \in 0 .. Len(a) : o # EndAt(a, i)
  PROVE  s[o + 1].pos # 1
<1>1. /\ Len(s) \in Nat /\ Len(a) \in Nat
      /\ \A i \in 0 .. Len(a) : EndAt(a, i) \in Nat
  BY LenProperties, EndsGrow DEF Laid
<1> DEFINE U == {i \in 0 .. Len(a) : EndAt(a, i) > o}
<1>2. CASE U = {}
  <2> DEFINE e == EndAt(a, Len(a))
  <2>1. e < o /\ e \in Nat
    BY <1>1, <1>2
  <2>2. PICK r \in Nat, n \in Nat :
          \A k \in 1 .. Len(s) - e : s[e + k] = [rec |-> r, pos |-> k, size |-> n]
    BY DEF Laid, TornBehind
  <2> HIDE DEF e
  <2>3. (o + 1) - e \in 1 .. Len(s) - e /\ e + ((o + 1) - e) = o + 1 /\ (o + 1) - e # 1
    BY <1>1, <2>1
  <2>4. s[o + 1] = [rec |-> r, pos |-> (o + 1) - e, size |-> n]
    BY <2>2, <2>3
  <2> QED BY <2>3, <2>4
<1>3. CASE U # {}
  <2>1. PICK m \in U : \A i \in U : m <= i
    <3>1. U \subseteq Nat
      BY <1>1
    <3> HIDE DEF U
    <3> QED BY <3>1, <1>3, LeastNatural
  <2>2. m \in 1 .. Len(a) /\ m - 1 \in 0 .. Len(a)
    <3>1. m # 0
      BY <2>1 DEF EndAt
    <3> QED BY <3>1, <1>1
  <2>3. EndAt(a, m - 1) < o
    <3>1. m - 1 \notin U
      BY <2>1, <2>2
    <3> QED BY <3>1, <2>2, <1>1
  <2> DEFINE b == a[m]
             k == (o + 1) - b.lsn
  <2>4. /\ b.lsn \in Nat /\ b.size \in Nat /\ b.lsn < o /\ b.lsn + b.size > o
        /\ HoldsRecord(s, b)
    BY <2>1, <2>2, <2>3, AckOf DEF Laid, Adjacent
  <2> HIDE DEF b
  <2>5. k \in 1 .. b.size /\ b.lsn + k = o + 1 /\ k # 1
    BY <2>4
  <2> HIDE DEF k
  <2>6. s[o + 1] = [rec |-> b.rec, pos |-> k, size |-> b.size]
    BY <2>4, <2>5 DEF HoldsRecord
  <2> QED BY <2>5, <2>6
<1> QED BY <1>2, <1>3

LEMMA RestIsSeq ==
  ASSUME NEW a \in Seq(Acks), NEW i \in 0 .. Len(a)
  PROVE  /\ Rest(a, i) \in Seq(Records) /\ Len(Rest(a, i)) = Len(a) - i
         /\ \A j \in 1 .. Len(a) - i : Rest(a, i)[j] = a[i + j].rec
         /\ i = Len(a) => Rest(a, i) = <<>>
         /\ i # Len(a) => Rest(a, i) = <<a[i + 1].rec>> \o Rest(a, i + 1)
<1>0. Len(a) \in Nat /\ Len(a) - i \in Nat
  BY LenProperties
<1>1. \A j \in 0 .. Len(a) : /\ Len(a) - j \in Nat
                             /\ Rest(a, j) \in Seq(Records) /\ Len(Rest(a, j)) = Len(a) - j
                             /\ \A k \in 1 .. Len(a) - j : Rest(a, j)[k] = a[j + k].rec
  <2> SUFFICES ASSUME NEW j \in 0 .. Len(a)
               PROVE  /\ Len(a) - j \in Nat
                      /\ Rest(a, j) \in Seq(Records) /\ Len(Rest(a, j)) = Len(a) - j
                      /\ \A k \in 1 .. Len(a) - j : Rest(a, j)[k] = a[j + k].rec
    OBVIOUS
  <2> DEFINE n == Len(a) - j
             e(k) == a[j + k].rec
  <2>1. n \in Nat /\ \A k \in 1 .. n : e(k) \in Records
    <3>1. \A k \in 1 .. n : j + k \in 1 .. Len(a)
      BY <1>0
    <3> QED BY <3>1, <1>0, AckOf
  <2> HIDE DEF n, e
  <2>2. /\ [k \in 1 .. n |-> e(k)] \in Seq(Records) /\ Len([k \in 1 .. n |-> e(k)]) = n
        /\ \A k \in 1 .. n : [x \in 1 .. n |-> e(x)][k] = e(k)
    BY <2>1
  <2>3. Rest(a, j) = [k \in 1 .. n |-> e(k)]
    BY DEF Rest, n, e
  <2> QED BY <2>1, <2>2, <2>3 DEF n, e
<1>2. ASSUME i = Len(a) PROVE Rest(a, i) = <<>>
  BY <1>0, <1>1, <1>2, EmptySeq
<1>3. ASSUME i # Len(a) PROVE Rest(a, i) = <<a[i + 1].rec>> \o Rest(a, i + 1)
  <2> DEFINE h == <<a[i + 1].rec>>
  <2>1. i + 1 \in 0 .. Len(a) /\ i + 1 \in 1 .. Len(a)
    BY <1>0, <1>3
  <2>2. h \in Seq(Records) /\ Len(h) = 1 /\ h[1] = a[i + 1].rec
    BY <2>1, AckOf
  <2> HIDE DEF h
  <2>3. /\ h \o Rest(a, i + 1) \in Seq(Records)
        /\ Len(h \o Rest(a, i + 1)) = Len(a) - i
        /\ \A k \in 1 .. Len(a) - i : (h \o Rest(a, i + 1))[k] = IF k <= 1 THEN h[k] ELSE Rest(a, i + 1)[k - 1]
    <3>1. Rest(a, i + 1) \in Seq(Records) /\ Len(Rest(a, i + 1)) = Len(a) - (i + 1)
      BY <2>1, <1>1
    <3>2. Len(h) + (Len(a) - (i + 1)) = Len(a) - i
      BY <1>0, <2>2
    <3> DEFINE t == Rest(a, i + 1)
    <3>3. t \in Seq(Records) /\ Len(h) + Len(t) = Len(a) - i
      BY <3>1, <3>2
    <3> HIDE DEF t
    <3>4. /\ h \o t \in Seq(Records) /\ Len(h \o t) = Len(h) + Len(t)
          /\ \A k \in 1 .. Len(h) + Len(t) : (h \o t)[k] = IF k <= Len(h) THEN h[k] ELSE t[k - Len(h)]
      BY <2>2, <3>3, ConcatProperties
    <3> QED BY <2>2, <3>3, <3>4 DEF t
  <2>4. ASSUME NEW k \in 1 .. Len(a) - i
        PROVE  Rest(a, i)[k] = (h \o Rest(a, i + 1))[k]
    <3>1. Rest(a, i)[k] = a[i + k].rec
      BY <1>1
    <3>2. CASE k = 1
      BY <3>1, <3>2, <2>2, <2>3
    <3>3. CASE k # 1
      <4>1. k - 1 \in 1 .. Len(a) - (i + 1) /\ (i + 1) + (k - 1) = i + k /\ ~(k <= 1)
        BY <1>0, <3>3
      <4>2. Rest(a, i + 1)[k - 1] = a[i + k].rec
        BY <4>1, <2>1, <1>1
      <4> QED BY <3>1, <4>1, <4>2, <2>3
    <3> QED BY <3>2, <3>3
  <2>5. Rest(a, i) = h \o Rest(a, i + 1)
    BY <1>1, <2>3, <2>4, SeqEqual
  <2> QED BY <2>5 DEF h
<1> QED BY <1>1, <1>2, <1>3

\* One step of the reader, at offset o, given what it finds behind it.
ParseAt(s, from, o) ==
  IF o < Len(s) /\ s[o + 1].pos = 1 /\ o + s[o + 1].size <= Len(s)
  THEN <<Deserialize(s, o, s[o + 1].size)>> \o from[o + s[o + 1].size]
  ELSE <<>>

LEMMA ParseUnfolded ==
  ASSUME NEW s, NEW from, from = [o \in 0 .. Len(s) |-> ParseAt(s, from, o)]
  PROVE  \E g : g = [o \in 0 .. Len(s) |-> ParseAt(s, g, o)] /\ Parse(s) = g[0]
<1> DEFINE P(g) == g = [o \in 0 .. Len(s) |-> ParseAt(s, g, o)]
           f == CHOOSE g : P(g)
<1>1. P(from)
  OBVIOUS
<1>2. P(f)
  <2> HIDE DEF P
  <2> QED BY <1>1
<1>3. Parse(s) = f[0]
  BY DEF Parse, ParseAt
<1> HIDE DEF f
<1> QED BY <1>2, <1>3

\* The function the reader computes: the remaining records where one begins, and
\* nothing at any other offset.
LEMMA ParseExists ==
  ASSUME NEW s \in Seq(Bytes), NEW a \in Seq(Acks), Laid(s, a)
  PROVE  \E from : from = [o \in 0 .. Len(s) |-> ParseAt(s, from, o)]
<1> DEFINE At(o) == {i \in 0 .. Len(a) : o = EndAt(a, i)}
           from == [o \in 0 .. Len(s) |-> IF At(o) = {} THEN <<>>
                                          ELSE Rest(a, CHOOSE i \in At(o) : TRUE)]
<1>0. Len(a) \in Nat /\ Len(s) \in Nat
  BY LenProperties
<1>1. \A i \in 0 .. Len(a) : EndAt(a, i) \in 0 .. Len(s) => from[EndAt(a, i)] = Rest(a, i)
  <2> SUFFICES ASSUME NEW i \in 0 .. Len(a), EndAt(a, i) \in 0 .. Len(s)
               PROVE  from[EndAt(a, i)] = Rest(a, i)
    OBVIOUS
  <2>1. At(EndAt(a, i)) = {i}
    <3>1. \A j \in 0 .. Len(a) : j # i => EndAt(a, j) # EndAt(a, i)
      <4> SUFFICES ASSUME NEW j \in 0 .. Len(a), j # i PROVE EndAt(a, j) # EndAt(a, i)
        OBVIOUS
      <4>1. j < i \/ i < j
        BY <1>0
      <4>2. EndAt(a, j) \in Nat /\ EndAt(a, i) \in Nat
        BY EndsGrow DEF Laid
      <4>3. EndAt(a, j) < EndAt(a, i) \/ EndAt(a, i) < EndAt(a, j)
        BY <4>1, EndsGrow DEF Laid
      <4> QED BY <4>2, <4>3
    <3> QED BY <3>1
  <2>2. (CHOOSE j \in At(EndAt(a, i)) : TRUE) = i
    BY <2>1
  <2> QED BY <2>1, <2>2
<1>2. \A o \in 0 .. Len(s) : At(o) = {} => from[o] = <<>>
  OBVIOUS
<1>3. DOMAIN from = 0 .. Len(s)
  OBVIOUS
<1>4. from = [o \in 0 .. Len(s) |-> from[o]]
  OBVIOUS
<1> HIDE DEF from
<1>5. ASSUME NEW o \in 0 .. Len(s) PROVE from[o] = ParseAt(s, from, o)
  <2>1. CASE \A i \in 0 .. Len(a) : o # EndAt(a, i)
    <3>1. from[o] = <<>>
      BY <2>1, <1>2
    <3>2. o < Len(s) => s[o + 1].pos # 1
      BY <2>1, ElsewhereNoHeader
    <3> QED BY <3>1, <3>2 DEF ParseAt
  <2>2. ASSUME NEW i \in 0 .. Len(a), o = EndAt(a, i) PROVE from[o] = ParseAt(s, from, o)
    <3>1. from[o] = Rest(a, i)
      BY <2>2, <1>1
    <3>2. CASE i = Len(a)
      <4>1. from[o] = <<>>
        BY <3>1, <3>2, RestIsSeq
      <4>2. o < Len(s) => /\ s[o + 1].size \in Nat
                          /\ o + s[o + 1].size > Len(s)
        BY <2>2, <3>2, BehindRecords
      <4>3. o < Len(s) => ~(o + s[o + 1].size <= Len(s))
        BY <4>2, <1>0
      <4> QED BY <4>1, <4>3 DEF ParseAt
    <3>3. CASE i # Len(a)
      <4>1. /\ o < Len(s) /\ s[o + 1].pos = 1
            /\ o + s[o + 1].size = EndAt(a, i + 1) /\ EndAt(a, i + 1) <= Len(s)
            /\ Deserialize(s, o, s[o + 1].size) = a[i + 1].rec
        BY <2>2, <3>3, AtRecord
      <4>2. i + 1 \in 0 .. Len(a)
        BY <1>0, <3>3
      <4>3. EndAt(a, i + 1) \in 0 .. Len(s)
        BY <1>0, <4>1, <4>2, EndsGrow DEF Laid
      <4>4. from[o + s[o + 1].size] = Rest(a, i + 1)
        BY <4>1, <4>2, <4>3, <1>1
      <4>5. Rest(a, i) = <<a[i + 1].rec>> \o Rest(a, i + 1)
        BY <3>3, RestIsSeq
      <4> QED BY <3>1, <4>1, <4>4, <4>5 DEF ParseAt
    <3> QED BY <3>2, <3>3
  <2> QED BY <2>1, <2>2
<1> QED BY <1>4, <1>5

LEMMA ParseLaid ==
  ASSUME NEW s \in Seq(Bytes), NEW a \in Seq(Acks), Laid(s, a)
  PROVE  Parse(s) = Rest(a, 0)
<1>0. Len(a) \in Nat /\ Len(s) \in Nat
  BY LenProperties
<1>1. PICK g : g = [o \in 0 .. Len(s) |-> ParseAt(s, g, o)] /\ Parse(s) = g[0]
  BY ParseExists, ParseUnfolded
<1> DEFINE Read(k) == g[EndAt(a, Len(a) - k)] = Rest(a, Len(a) - k)
           U == {k \in 0 .. Len(a) : ~Read(k)}
<1>2. \A i \in 0 .. Len(a) : EndAt(a, i) \in 0 .. Len(s)
  <2> SUFFICES ASSUME NEW i \in 0 .. Len(a) PROVE EndAt(a, i) \in 0 .. Len(s)
    OBVIOUS
  <2>1. EndAt(a, i) \in Nat
    BY EndsGrow DEF Laid
  <2>2. EndAt(a, i) <= Len(s)
    <3>1. CASE i = 0
      BY <3>1, <1>0 DEF EndAt
    <3>2. CASE i # 0
      <4>1. i \in 1 .. Len(a)
        BY <3>2, <1>0
      <4> QED BY <4>1, AckOf DEF Laid, HoldsRecord
    <3> QED BY <3>1, <3>2
  <2> QED BY <2>1, <2>2, <1>0
<1>3. Read(0)
  <2> DEFINE o == EndAt(a, Len(a))
  <2>1. o \in 0 .. Len(s) /\ Len(a) - 0 = Len(a) /\ Len(a) \in 0 .. Len(a)
    BY <1>0, <1>2
  <2>2. o < Len(s) => ~(o + s[o + 1].size <= Len(s))
    BY <1>0, <2>1, BehindRecords
  <2>3. g[o] = ParseAt(s, g, o)
    BY <1>1, <2>1
  <2> HIDE DEF o
  <2>4. g[o] = <<>>
    BY <2>2, <2>3 DEF ParseAt
  <2> QED BY <2>1, <2>4, RestIsSeq DEF o
<1>4. ASSUME NEW k \in 1 .. Len(a), Read(k - 1) PROVE Read(k)
  <2> DEFINE i == Len(a) - k
             o == EndAt(a, i)
  <2>1. i \in 0 .. Len(a) /\ i # Len(a) /\ i + 1 = Len(a) - (k - 1)
    BY <1>0
  <2>2. o \in 0 .. Len(s)
    BY <1>2, <2>1
  <2> HIDE DEF i
  <2>3. /\ o < Len(s) /\ s[o + 1].pos = 1
        /\ o + s[o + 1].size = EndAt(a, i + 1) /\ EndAt(a, i + 1) <= Len(s)
        /\ Deserialize(s, o, s[o + 1].size) = a[i + 1].rec
    BY <2>1, AtRecord
  <2>4. g[EndAt(a, i + 1)] = Rest(a, i + 1)
    BY <1>4, <2>1
  <2>5. g[o] = ParseAt(s, g, o)
    BY <1>1, <2>2
  <2> HIDE DEF o
  <2>6. g[o] = <<a[i + 1].rec>> \o Rest(a, i + 1)
    BY <2>3, <2>4, <2>5 DEF ParseAt
  <2>7. g[o] = Rest(a, i)
    BY <2>1, <2>6, RestIsSeq
  <2> QED BY <2>7 DEF o, i
<1> HIDE DEF Read
<1>5. U = {}
  <2> SUFFICES ASSUME U # {} PROVE FALSE
    OBVIOUS
  <2>1. PICK m \in U : \A k \in U : m <= k
    <3>1. U \subseteq Nat
      BY <1>0
    <3> HIDE DEF U
    <3> QED BY <3>1, LeastNatural
  <2>2. m \in 1 .. Len(a) /\ m - 1 \in 0 .. Len(a)
    BY <1>0, <1>3, <2>1
  <2>3. Read(m - 1)
    BY <2>1, <2>2
  <2> QED BY <1>4, <2>1, <2>2, <2>3
<1>6. Read(Len(a))
  BY <1>0, <1>5
<1>7. Len(a) - Len(a) = 0
  BY <1>0
<1>8. EndAt(a, 0) = 0
  BY DEF EndAt
<1> QED BY <1>1, <1>6, <1>7, <1>8 DEF Read
-----------------------------------------------------------------------------
(* The log as a whole: the acknowledged records one behind the other, then at most *)
(* a piece of one more.                                                            *)

LogInv == /\ ContentInv /\ Adjacent(acked)
          /\ TornBehind(Log, EndAt(acked, Len(acked)))

\* The file is a prefix of the log, and stays one of what it becomes.
FileGrows == Len(file) <= Len(file') /\ \A j \in 1 .. Len(file) : file'[j] = file[j]

LEMMA LogCells ==
  ASSUME OrderInv, TailAgrees
  PROVE  /\ Log \in Seq(Bytes) /\ Log = FileFlushed
         /\ Len(Log) = IF EndOfBuffer > Len(file) THEN EndOfBuffer ELSE Len(file)
         /\ EndOfBuffer <= Len(Log) /\ Len(file) <= Len(Log) /\ Len(Log) <= next_lsn
         /\ \A j \in 1 .. EndOfBuffer : Log[j] = LogAt(j)
         /\ \A j \in 1 .. Len(file) : Log[j] = file[j]
<1>1. Log = FileFlushed
  BY DEF Log, FileFlushed
<1>2. /\ FileFlushed \in Seq(Bytes)
      /\ Len(FileFlushed) = IF EndOfBuffer > Len(file) THEN EndOfBuffer ELSE Len(file)
      /\ EndOfBuffer \in Nat /\ flushed_lsn <= EndOfBuffer
      /\ \A j \in 1 .. EndOfBuffer : FileFlushed[j] = LogAt(j)
      /\ \A j \in 1 .. Len(FileFlushed) : j > EndOfBuffer => FileFlushed[j] = file[j]
  BY BufferWritten
<1>3. Len(file) \in Nat /\ flushed_lsn \in Nat /\ EndOfBuffer <= next_lsn /\ Len(file) <= next_lsn
  BY LenProperties DEF OrderInv, LogTypes, InOrder
<1>4. ASSUME NEW j \in 1 .. Len(file) PROVE FileFlushed[j] = file[j]
  <2>1. CASE j > EndOfBuffer
    BY <1>2, <1>3, <2>1
  <2>2. CASE ~(j > EndOfBuffer)
    <3>1. j \in 1 .. EndOfBuffer /\ FileFlushed[j] = LogAt(j)
      BY <1>2, <1>3, <2>2
    <3>2. CASE j <= flushed_lsn
      BY <3>1, <3>2 DEF LogAt, CellAt
    <3>3. CASE ~(j <= flushed_lsn)
      <4>1. j \in flushed_lsn + 1 .. EndOfBuffer /\ j <= Len(file)
        BY <1>2, <1>3, <3>1, <3>3
      <4>2. file[j] = log_buffer[j - flushed_lsn]
        BY <4>1 DEF TailAgrees
      <4> QED BY <3>1, <3>3, <4>2 DEF LogAt, CellAt
    <3> QED BY <3>2, <3>3
  <2> QED BY <2>1, <2>2
<1>5. EndOfBuffer <= Len(FileFlushed) /\ Len(file) <= Len(FileFlushed) /\ Len(FileFlushed) <= next_lsn
  BY <1>2, <1>3
<1> QED BY <1>1, <1>2, <1>4, <1>5

LEMMA LogLaid ==
  ASSUME LogInv
  PROVE  Laid(Log, acked) /\ Log \in Seq(Bytes) /\ acked \in Seq(Acks)
<1>1. OrderInv /\ TailAgrees /\ AcksInPlace /\ acked \in Seq(Acks)
  BY DEF LogInv, ContentInv, RecordsInPlace, OrderInv, LogTypes
<1>2. /\ Log \in Seq(Bytes) /\ EndOfBuffer <= Len(Log) /\ EndOfBuffer \in Nat /\ Len(Log) \in Nat
      /\ \A j \in 1 .. EndOfBuffer : Log[j] = LogAt(j)
  BY <1>1, LogCells, LenProperties, BufferWritten
<1>3. ASSUME NEW i \in 1 .. Len(acked) PROVE HoldsRecord(Log, acked[i])
  <2> DEFINE b == acked[i]
  <2>1. b.lsn \in Nat /\ b.size \in Nat
    BY <1>1, AckOf
  <2>2. /\ b.lsn + b.size <= EndOfBuffer
        /\ \A k \in 1 .. b.size : LogAt(b.lsn + k) = [rec |-> b.rec, pos |-> k, size |-> b.size]
    BY <1>1 DEF AcksInPlace, AckInPlace, EndOfBuffer, LogAt
  <2> HIDE DEF b
  <2>3. \A k \in 1 .. b.size : b.lsn + k \in 1 .. EndOfBuffer
    BY <1>2, <2>1, <2>2
  <2>4. HoldsRecord(Log, b)
    BY <1>2, <2>1, <2>2, <2>3 DEF HoldsRecord
  <2> QED BY <2>4 DEF b
<1> QED BY <1>1, <1>2, <1>3 DEF LogInv, Laid

LEMMA PwriteNothing ==
  ASSUME NEW f \in Seq(Bytes), NEW off \in 0 .. Len(f)
  PROVE  Pwrite(f, off, <<>>) = f
<1>1. <<>> \in Seq(Bytes) /\ Len(<<>>) = 0 /\ Len(f) \in Nat /\ off \in Nat
  BY LenProperties
<1> DEFINE g == Pwrite(f, off, <<>>)
<1>2. /\ g \in Seq(Bytes) /\ Len(g) = Len(f)
      /\ \A i \in 1 .. Len(f) : g[i] = f[i]
  <2> DEFINE c == <<>>
  <2>1. c \in Seq(Bytes) /\ Len(c) = 0
    BY <1>1
  <2> HIDE DEF c
  <2>2. LET h == Pwrite(f, off, c)
        IN  /\ h \in Seq(Bytes)
            /\ Len(h) = IF off + Len(c) > Len(f) THEN off + Len(c) ELSE Len(f)
            /\ \A i \in 1 .. Len(h) :
                 h[i] = IF i > off /\ i <= off + Len(c) THEN c[i - off]
                        ELSE IF i <= Len(f) THEN f[i] ELSE Hole
    BY <1>1, <2>1, PwriteWrites
  <2> DEFINE h == Pwrite(f, off, c)
  <2>3. /\ h \in Seq(Bytes)
        /\ Len(h) = IF off + Len(c) > Len(f) THEN off + Len(c) ELSE Len(f)
        /\ \A i \in 1 .. Len(h) :
             h[i] = IF i > off /\ i <= off + Len(c) THEN c[i - off]
                    ELSE IF i <= Len(f) THEN f[i] ELSE Hole
    BY <2>2
  <2> HIDE DEF h
  <2>4. h \in Seq(Bytes) /\ Len(h) = Len(f) /\ \A i \in 1 .. Len(f) : h[i] = f[i]
    BY <1>1, <2>1, <2>3
  <2> QED BY <2>4 DEF h, c
<1> HIDE DEF g
<1>3. g = f
  BY <1>2, SeqEqual
<1> QED BY <1>3 DEF g

LEMMA EndOfLogIs ==
  ASSUME OrderInv, AcksInPlace
  PROVE  /\ EndOfLog = EndAt(acked, Len(acked)) /\ EndOfLog \in Nat /\ EndOfLog <= EndOfBuffer
         /\ Len(acked) \in Nat
<1>1. acked \in Seq(Acks) /\ Len(acked) \in Nat /\ EndOfBuffer \in Nat
  BY BufferWritten, LenProperties DEF OrderInv, LogTypes
<1>2. CASE acked = <<>>
  <2>1. Len(acked) = 0
    BY <1>2, EmptySeq
  <2> QED BY <1>1, <1>2, <2>1 DEF EndOfLog, EndAt
<1>3. CASE acked # <<>>
  <2>1. Len(acked) \in 1 .. Len(acked)
    BY <1>1, <1>3, EmptySeq
  <2>2. EndOfLog = acked[Len(acked)].lsn + acked[Len(acked)].size
    BY <1>3 DEF EndOfLog, Last
  <2>3. EndOfLog <= EndOfBuffer
    BY <2>1, <2>2 DEF AcksInPlace, AckInPlace, EndOfBuffer
  <2> QED BY <1>1, <2>1, <2>2, <2>3, AckOf
<1> QED BY <1>2, <1>3

\* A log that is cut holds the records before the cut, and the front of the next.
LEMMA LaidCut ==
  ASSUME NEW s \in Seq(Bytes), NEW a \in Seq(Acks), Laid(s, a),
         NEW t \in Seq(Bytes), Len(t) <= Len(s), \A j \in 1 .. Len(t) : t[j] = s[j],
         NEW n \in 0 .. Len(a),
         \A i \in 1 .. n : a[i].lsn + a[i].size <= Len(t),
         n < Len(a) => a[n + 1].lsn + a[n + 1].size > Len(t)
  PROVE  LET b == SubSeq(a, 1, n)
         IN  /\ b \in Seq(Acks) /\ Len(b) = n /\ \A i \in 1 .. n : b[i] = a[i]
             /\ Laid(t, b)
<1> DEFINE b == SubSeq(a, 1, n)
<1>1. Len(s) \in Nat /\ Len(t) \in Nat /\ Len(a) \in Nat
  BY LenProperties
<1>2. b \in Seq(Acks) /\ Len(b) = n /\ \A i \in 1 .. n : b[i] = a[i]
  <2>1. \A i \in 1 .. n : a[i] \in Acks
    BY <1>1, AckOf
  <2> QED BY <1>1, <2>1, SubSeqProperties
<1> HIDE DEF b
<1>3. \A i \in 0 .. n : EndAt(b, i) = EndAt(a, i)
  BY <1>1, <1>2 DEF EndAt
<1>4. Adjacent(b)
  <2>1. ASSUME NEW i \in 1 .. n PROVE b[i].lsn = EndAt(b, i - 1) /\ b[i].size > 0
    <3>1. i \in 1 .. Len(a) /\ i - 1 \in 0 .. n
      BY <1>1
    <3> QED BY <3>1, <1>2, <1>3 DEF Laid, Adjacent
  <2>2. ASSUME NEW i \in 1 .. n, NEW j \in 1 .. n, i < j PROVE b[i].lsn + b[i].size <= b[j].lsn
    <3>1. i \in 1 .. Len(a) /\ j \in 1 .. Len(a)
      BY <1>1
    <3> QED BY <2>2, <3>1, <1>2 DEF Laid, Adjacent
  <2> QED BY <2>1, <2>2, <1>2 DEF Adjacent
<1>5. ASSUME NEW i \in 1 .. n PROVE HoldsRecord(t, b[i])
  <2> DEFINE c == a[i]
  <2>1. i \in 1 .. Len(a)
    BY <1>1
  <2>2. c.lsn \in Nat /\ c.size \in Nat /\ HoldsRecord(s, c) /\ c.lsn + c.size <= Len(t)
    BY <2>1, AckOf DEF Laid
  <2> HIDE DEF c
  <2>3. \A k \in 1 .. c.size : c.lsn + k \in 1 .. Len(t)
    BY <1>1, <2>2
  <2>4. HoldsRecord(t, c)
    BY <2>2, <2>3 DEF HoldsRecord
  <2> QED BY <2>4, <1>2 DEF c
<1>6. TornBehind(t, EndAt(a, n))
  <2>1. CASE n = Len(a)
    <3> DEFINE e == EndAt(a, n)
    <3>0. TornBehind(s, e)
      BY <2>1 DEF Laid
    <3>2. e \in Nat
      BY EndsGrow DEF Laid
    <3> HIDE DEF e
    <3>1. PICK r \in Nat, m \in Nat :
            /\ Len(s) < e + m
            /\ \A k \in 1 .. Len(s) - e : s[e + k] = [rec |-> r, pos |-> k, size |-> m]
      BY <3>0 DEF TornBehind
    <3>3. Len(t) < e + m
      BY <1>1, <3>1, <3>2
    <3>4. \A k \in 1 .. Len(t) - e : k \in 1 .. Len(s) - e /\ e + k \in 1 .. Len(t)
      BY <1>1, <3>2
    <3>5. \A k \in 1 .. Len(t) - e : t[e + k] = [rec |-> r, pos |-> k, size |-> m]
      BY <3>1, <3>4
    <3>6. TornBehind(t, e)
      BY <3>3, <3>5 DEF TornBehind
    <3> QED BY <3>6 DEF e
  <2>2. CASE n # Len(a)
    <3> DEFINE c == a[n + 1]
               e == EndAt(a, n)
    <3>1. n + 1 \in 1 .. Len(a) /\ (n + 1) - 1 = n /\ n < Len(a)
      BY <1>1, <2>2
    <3>2. /\ c.lsn \in Nat /\ c.size \in Nat /\ c.rec \in Nat /\ HoldsRecord(s, c) /\ c.lsn = e
          /\ c.lsn + c.size > Len(t)
      <4>1. c.rec \in Nat
        <5>1. c.rec \in Records
          BY <3>1, AckOf
        <5> HIDE DEF c
        <5> QED BY <5>1, BoundAssumption DEF Records
      <4>2. c.lsn \in Nat /\ c.size \in Nat
        BY <3>1, AckOf
      <4>3. HoldsRecord(s, c) /\ c.lsn = EndAt(a, (n + 1) - 1)
        BY <3>1 DEF Laid, Adjacent
      <4> QED BY <3>1, <4>1, <4>2, <4>3
    <3> HIDE DEF c, e
    <3>3. \A k \in 1 .. Len(t) - e : k \in 1 .. c.size /\ e + k \in 1 .. Len(t)
      BY <1>1, <3>2
    <3>4. \A k \in 1 .. Len(t) - e : t[e + k] = [rec |-> c.rec, pos |-> k, size |-> c.size]
      BY <3>2, <3>3 DEF HoldsRecord
    <3>5. Len(t) < e + c.size
      BY <1>1, <3>2
    <3>6. TornBehind(t, e)
      BY <3>2, <3>4, <3>5, TornFrom
    <3> QED BY <3>6 DEF e
  <2> QED BY <2>1, <2>2
<1>7. Laid(t, b)
  <2>1. n \in 0 .. n
    BY <1>1
  <2>2. EndAt(b, Len(b)) = EndAt(a, n)
    BY <1>2, <1>3, <2>1
  <2> QED BY <1>2, <1>4, <1>5, <1>6, <2>2 DEF Laid
<1> QED BY <1>2, <1>7 DEF b

\* Flush, FlushUpTo and Begin leave the log as it is, and all of it in the file.
LEMMA LogFlush ==
  ASSUME LogInv, FlushAndSync, UNCHANGED <<next_lsn, appends, acked>>
  PROVE  LogInv' /\ FileGrows /\ Log' = Log /\ file' = Log /\ synced' = Len(file')
<1>1. OrderInv /\ TailAgrees /\ ContentInv
  BY DEF LogInv, ContentInv, RecordsInPlace
<1>2. ContentInv'
  BY <1>1, RecordsFlushAndSync, OrderFlushAndSync DEF ContentInv
<1>3. /\ file' = FileFlushed /\ flushed_lsn' = EndOfBuffer /\ log_buffer' = <<>>
      /\ synced' = Len(file')
  BY DEF FlushAndSync, Fsync, LsnFlushed, EndOfBuffer
<1>4. /\ Log \in Seq(Bytes) /\ Log = FileFlushed /\ Len(Log) \in Nat
      /\ EndOfBuffer \in 0 .. Len(Log) /\ Len(file) <= Len(Log)
      /\ \A j \in 1 .. Len(file) : Log[j] = file[j]
  BY <1>1, LogCells, BufferWritten, LenProperties
<1>5. Log' = Pwrite(file', flushed_lsn', log_buffer')
  BY DEF Log
<1>6. Log' = Log
  BY <1>3, <1>4, <1>5, PwriteNothing
<1>7. FileGrows
  BY <1>3, <1>4 DEF FileGrows
<1>8. Adjacent(acked') /\ TornBehind(Log', EndAt(acked', Len(acked')))
  BY <1>6 DEF LogInv
<1> QED BY <1>2, <1>3, <1>4, <1>6, <1>7, <1>8 DEF LogInv

\* A short write of the buffer adds to the file what the log has there already.
LEMMA LogPartOfBuffer ==
  ASSUME LogInv, ContentInv', UNCHANGED <<flushed_lsn, log_buffer, acked>>,
         NEW k \in 0 .. Len(log_buffer) - 1,
         file' = Pwrite(file, flushed_lsn, SubSeq(log_buffer, 1, k))
  PROVE  LogInv' /\ FileGrows /\ Log' = Log
<1>1. OrderInv /\ TailAgrees /\ OrderInv' /\ TailAgrees'
  BY DEF LogInv, ContentInv, RecordsInPlace
<1>2. /\ Len(log_buffer) \in Nat /\ Len(file) \in Nat /\ flushed_lsn \in Nat
      /\ flushed_lsn <= Len(file) /\ EndOfBuffer = flushed_lsn + Len(log_buffer)
      /\ file \in Seq(Bytes) /\ log_buffer \in Seq(Bytes)
  BY <1>1, LenProperties DEF OrderInv, LogTypes, InOrder, EndOfBuffer
<1>3. k \in 0 .. Len(log_buffer)
  BY <1>2
<1>4. LET g == Pwrite(file, flushed_lsn, SubSeq(log_buffer, 1, k))
      IN  /\ g \in Seq(Bytes)
          /\ Len(g) = IF flushed_lsn + k > Len(file) THEN flushed_lsn + k ELSE Len(file)
          /\ \A i \in 1 .. Len(g) :
               g[i] = IF i > flushed_lsn /\ i <= flushed_lsn + k
                      THEN log_buffer[i - flushed_lsn]
                      ELSE IF i <= Len(file) THEN file[i] ELSE Hole
  BY <1>2, <1>3, PrefixWritten
<1>5. /\ file' \in Seq(Bytes)
      /\ Len(file') = IF flushed_lsn + k > Len(file) THEN flushed_lsn + k ELSE Len(file)
      /\ \A i \in 1 .. Len(file') :
           file'[i] = IF i > flushed_lsn /\ i <= flushed_lsn + k
                      THEN log_buffer[i - flushed_lsn]
                      ELSE IF i <= Len(file) THEN file[i] ELSE Hole
  BY <1>4
<1>6. /\ Log \in Seq(Bytes)
      /\ Len(Log) = IF EndOfBuffer > Len(file) THEN EndOfBuffer ELSE Len(file)
      /\ \A j \in 1 .. EndOfBuffer : Log[j] = LogAt(j)
      /\ \A j \in 1 .. Len(file) : Log[j] = file[j]
  BY <1>1, LogCells
\* Every cell the file now has is a cell of the log.
<1>7. /\ Len(file) <= Len(file') /\ Len(file') <= Len(Log) /\ Len(file') \in Nat
      /\ Len(Log) = IF EndOfBuffer > Len(file') THEN EndOfBuffer ELSE Len(file')
  BY <1>2, <1>3, <1>5, <1>6
<1>8. ASSUME NEW j \in 1 .. Len(file') PROVE file'[j] = Log[j]
  <2>1. CASE j > flushed_lsn /\ j <= flushed_lsn + k
    <3>1. j \in 1 .. EndOfBuffer /\ ~(j <= flushed_lsn)
      BY <1>2, <1>3, <2>1
    <3>2. Log[j] = log_buffer[j - flushed_lsn]
      BY <3>1, <1>6 DEF LogAt, CellAt
    <3> QED BY <2>1, <3>2, <1>5
  <2>2. CASE ~(j > flushed_lsn /\ j <= flushed_lsn + k)
    <3>1. j \in 1 .. Len(file)
      BY <1>2, <1>3, <1>5, <2>2
    <3>2. file'[j] = file[j]
      BY <1>5, <2>2, <3>1
    <3> QED BY <3>1, <3>2, <1>6
  <2> QED BY <2>1, <2>2
<1>9. FileGrows
  <2>1. ASSUME NEW j \in 1 .. Len(file) PROVE file'[j] = file[j]
    <3>1. j \in 1 .. Len(file')
      BY <1>2, <1>7
    <3> QED BY <3>1, <1>6, <1>8
  <2> QED BY <2>1, <1>7 DEF FileGrows
<1>10. Log' = Log
  <2> DEFINE h == Pwrite(file', flushed_lsn, log_buffer)
  <2>1. Log' = h
    BY DEF Log
  <2>2. LET g == Pwrite(file', flushed_lsn, log_buffer)
        IN  /\ g \in Seq(Bytes)
            /\ Len(g) = IF flushed_lsn + Len(log_buffer) > Len(file')
                        THEN flushed_lsn + Len(log_buffer) ELSE Len(file')
            /\ \A i \in 1 .. Len(g) :
                 g[i] = IF i > flushed_lsn /\ i <= flushed_lsn + Len(log_buffer)
                        THEN log_buffer[i - flushed_lsn]
                        ELSE IF i <= Len(file') THEN file'[i] ELSE Hole
    <3>1. file' \in Seq(Bytes) /\ log_buffer \in Seq(Bytes) /\ flushed_lsn \in Nat
      BY <1>2, <1>5
    <3> QED BY <3>1, PwriteWrites
  <2>3. /\ h \in Seq(Bytes)
        /\ Len(h) = IF EndOfBuffer > Len(file') THEN EndOfBuffer ELSE Len(file')
        /\ \A i \in 1 .. Len(h) :
             h[i] = IF i > flushed_lsn /\ i <= EndOfBuffer THEN log_buffer[i - flushed_lsn]
                    ELSE IF i <= Len(file') THEN file'[i] ELSE Hole
    BY <2>2, <1>2
  <2> HIDE DEF h
  <2>4. Len(h) = Len(Log)
    BY <2>3, <1>7
  <2>5. ASSUME NEW j \in 1 .. Len(Log) PROVE h[j] = Log[j]
    <3>1. CASE j > flushed_lsn /\ j <= EndOfBuffer
      <4>1. j \in 1 .. EndOfBuffer /\ ~(j <= flushed_lsn)
        BY <1>2, <3>1
      <4>2. Log[j] = log_buffer[j - flushed_lsn]
        BY <4>1, <1>6 DEF LogAt, CellAt
      <4> QED BY <2>3, <2>4, <3>1, <4>2
    <3>2. CASE ~(j > flushed_lsn /\ j <= EndOfBuffer)
      <4>1. j \in 1 .. Len(file')
        BY <1>2, <1>7, <3>2
      <4> QED BY <2>3, <2>4, <3>2, <4>1, <1>8
    <3> QED BY <3>1, <3>2
  <2>6. h = Log
    BY <2>3, <2>4, <2>5, <1>6, SeqEqual
  <2> QED BY <2>1, <2>6
<1> QED BY <1>9, <1>10 DEF LogInv

\* A large record of which a part reaches the file is torn behind all others.
LEMMA LogPartOfRecord ==
  ASSUME LogInv, ContentInv', ~TornTail, NEW r \in Records, NEW n \in Nat, NEW k \in 0 .. n - 1,
         file' = Pwrite(FileFlushed, next_lsn, SubSeq(Serialize(r, n), 1, k)),
         flushed_lsn' = LsnFlushed, log_buffer' = <<>>, acked' = acked
  PROVE  LogInv' /\ FileGrows
<1>1. OrderInv /\ TailAgrees /\ AcksInPlace
  BY DEF LogInv, ContentInv, RecordsInPlace
<1>2. next_lsn = EndOfBuffer /\ next_lsn = EndAt(acked, Len(acked)) /\ next_lsn \in Nat
  BY <1>1, NextIsEnd, EndOfLogIs DEF TornTail
<1>3. /\ Log \in Seq(Bytes) /\ Log = FileFlushed /\ Len(Log) = next_lsn /\ Len(file) <= Len(Log)
      /\ \A j \in 1 .. Len(file) : Log[j] = file[j]
      /\ Len(file) \in Nat
  <2>1. Len(file) \in Nat /\ Len(file) <= next_lsn
    BY <1>1, LenProperties DEF OrderInv, LogTypes, InOrder
  <2> QED BY <1>1, <1>2, <2>1, LogCells
<1> DEFINE bytes == Serialize(r, n)
<1>4. /\ bytes \in Seq(Bytes) /\ Len(bytes) = n /\ k \in 0 .. Len(bytes) /\ k \in Nat /\ k < n
      /\ \A j \in 1 .. n : bytes[j] = [rec |-> r, pos |-> j, size |-> n]
  BY SerializeCells
<1> HIDE DEF bytes
<1>13. FileFlushed \in Seq(Bytes) /\ Len(FileFlushed) = next_lsn
  BY <1>3
<1>5. LET g == Pwrite(FileFlushed, next_lsn, SubSeq(bytes, 1, k))
      IN  /\ g \in Seq(Bytes)
          /\ Len(g) = IF next_lsn + k > Len(FileFlushed) THEN next_lsn + k ELSE Len(FileFlushed)
          /\ \A i \in 1 .. Len(g) :
               g[i] = IF i > next_lsn /\ i <= next_lsn + k THEN bytes[i - next_lsn]
                      ELSE IF i <= Len(FileFlushed) THEN FileFlushed[i] ELSE Hole
  BY <1>2, <1>4, <1>13, PrefixWritten
<1>6. file' = Pwrite(FileFlushed, next_lsn, SubSeq(bytes, 1, k))
  BY DEF bytes
<1>7. /\ file' \in Seq(Bytes) /\ Len(file') = next_lsn + k
      /\ \A i \in 1 .. Len(file') : file'[i] = IF i > next_lsn THEN bytes[i - next_lsn] ELSE Log[i]
  BY <1>2, <1>3, <1>4, <1>5, <1>6, SMTT(30)
<1>8. FileGrows
  <2>1. ASSUME NEW j \in 1 .. Len(file) PROVE file'[j] = file[j]
    <3>1. j \in 1 .. Len(file') /\ ~(j > next_lsn)
      BY <1>2, <1>3, <1>4, <1>7
    <3> QED BY <3>1, <1>3, <1>7
  <2>2. Len(file) <= Len(file')
    BY <1>2, <1>3, <1>4, <1>7
  <2> QED BY <2>1, <2>2 DEF FileGrows
<1>9. Log' = file'
  <2>1. Log' = Pwrite(file', flushed_lsn', log_buffer')
    BY DEF Log
  <2>2. flushed_lsn' = EndOfBuffer
    BY DEF LsnFlushed, EndOfBuffer
  <2>3. flushed_lsn' \in 0 .. Len(file')
    BY <1>2, <1>4, <1>7, <2>2
  <2> QED BY <1>7, <2>1, <2>3, PwriteNothing
<1>10. TornBehind(file', next_lsn)
  <2>1. Len(file') < next_lsn + n
    BY <1>2, <1>4, <1>7
  <2>2. ASSUME NEW j \in 1 .. Len(file') - next_lsn
        PROVE  file'[next_lsn + j] = [rec |-> r, pos |-> j, size |-> n]
    <3> DEFINE i == next_lsn + j
    <3>1. i \in 1 .. Len(file') /\ i > next_lsn /\ i - next_lsn = j /\ j \in 1 .. n
      <4> DEFINE m == Len(file')
      <4>1. m \in Nat /\ m < next_lsn + n
        BY <1>2, <1>4, <1>7, SMTT(30)
      <4> HIDE DEF m
      <4>2. j \in Nat /\ j >= 1 /\ next_lsn + j <= m /\ n \in Nat
        BY <1>2, <1>4, <4>1 DEF m
      <4>3. i \in 1 .. m /\ i > next_lsn /\ i - next_lsn = j /\ j \in 1 .. n
        BY <1>2, <4>1, <4>2
      <4> QED BY <4>3 DEF m
    <3> HIDE DEF i
    <3>2. file'[i] = bytes[j]
      BY <1>7, <3>1
    <3>3. file'[i] = [rec |-> r, pos |-> j, size |-> n]
      BY <1>4, <3>1, <3>2
    <3> QED BY <3>3 DEF i
  <2>3. r \in Nat
    BY BoundAssumption DEF Records
  <2> QED BY <2>1, <2>2, <2>3 DEF TornBehind
<1>11. TornBehind(Log', EndAt(acked', Len(acked')))
  BY <1>2, <1>9, <1>10
<1>12. Adjacent(acked')
  BY DEF LogInv
<1> QED BY <1>8, <1>11, <1>12 DEF LogInv

LEMMA LogAppend ==
  ASSUME LogInv, ContentInv', NEW n \in RecordSizes, AppendLogRecord(n), ~TornTail
  PROVE  /\ LogInv' /\ FileGrows
         /\ \E b \in Acks : /\ b.rec = appends + 1 /\ b.lsn = next_lsn /\ b.size = n
                            /\ acked' = Append(acked, b)
<1>1. ContentInv /\ OrderInv /\ TailAgrees /\ AcksInPlace /\ acked \in Seq(Acks)
  BY DEF LogInv, ContentInv, RecordsInPlace, OrderInv, LogTypes
<1>2. /\ next_lsn = EndOfBuffer /\ next_lsn = EndAt(acked, Len(acked)) /\ next_lsn \in Nat
      /\ EndOfBuffer' = next_lsn + n /\ n \in Nat /\ n > 0 /\ next_lsn' = next_lsn + n
  <2>1. next_lsn = EndOfBuffer /\ EndOfBuffer' = next_lsn + n
    BY <1>1, RecordsAppend
  <2>2. next_lsn = EndAt(acked, Len(acked)) /\ next_lsn \in Nat
    BY <1>1, EndOfLogIs DEF TornTail
  <2>3. n \in Nat /\ n > 0
    BY SizeAssumption
  <2>4. next_lsn' = next_lsn + n
    BY DEF AppendLogRecord
  <2> QED BY <2>1, <2>2, <2>3, <2>4
<1> DEFINE b == [rec |-> appends + 1, lsn |-> next_lsn, size |-> n]
<1>3. /\ b.rec = appends + 1 /\ b.lsn = next_lsn /\ b.size = n /\ b \in Acks
      /\ acked' = Append(acked, b)
  <2>1. appends \in Nat
    BY <1>1 DEF OrderInv, LogTypes
  <2> QED BY <1>2, <2>1, BoundAssumption DEF AppendLogRecord, MayAppend, Acknowledge, Acks, Records
<1> HIDE DEF b
<1>4. /\ acked' \in Seq(Acks) /\ Len(acked') = Len(acked) + 1 /\ Len(acked) \in Nat
      /\ \A i \in 1 .. Len(acked) : acked'[i] = acked[i]
      /\ acked'[Len(acked) + 1] = b
  BY <1>1, <1>3, AppendProperties, LenProperties
<1>5. Adjacent(acked')
  <2>1. \A i \in 0 .. Len(acked) : EndAt(acked', i) = EndAt(acked, i)
    BY <1>4 DEF EndAt
  <2>2. ASSUME NEW i \in 1 .. Len(acked')
        PROVE  acked'[i].lsn = EndAt(acked', i - 1) /\ acked'[i].size > 0
    <3>1. CASE i \in 1 .. Len(acked)
      <4>1. i - 1 \in 0 .. Len(acked)
        BY <1>4, <3>1
      <4> QED BY <3>1, <4>1, <2>1, <1>4 DEF LogInv, Adjacent
    <3>2. CASE i = Len(acked) + 1
      <4>1. i - 1 = Len(acked) /\ Len(acked) \in 0 .. Len(acked)
        BY <1>4, <3>2
      <4> QED BY <3>2, <4>1, <2>1, <1>2, <1>3, <1>4
    <3> QED BY <3>1, <3>2, <1>4
  <2>3. ASSUME NEW i \in 1 .. Len(acked'), NEW j \in 1 .. Len(acked'), i < j
        PROVE  acked'[i].lsn + acked'[i].size <= acked'[j].lsn
    <3>1. i \in 1 .. Len(acked)
      BY <2>3, <1>4
    <3>2. CASE j \in 1 .. Len(acked)
      BY <2>3, <3>1, <3>2, <1>4 DEF LogInv, Adjacent
    <3>3. CASE j = Len(acked) + 1
      <4>1. acked[i].lsn + acked[i].size <= EndOfBuffer
        BY <3>1, <1>1 DEF AcksInPlace, AckInPlace, EndOfBuffer
      <4> QED BY <3>1, <3>3, <4>1, <1>2, <1>3, <1>4
    <3> QED BY <3>2, <3>3, <1>4
  <2> QED BY <2>2, <2>3 DEF Adjacent
<1>6. TornBehind(Log', EndAt(acked', Len(acked')))
  <2>1. EndAt(acked', Len(acked')) = next_lsn + n
    BY <1>2, <1>3, <1>4 DEF EndAt
  <2>2. file' \in Seq(Bytes) /\ log_buffer' \in Seq(Bytes) /\ flushed_lsn' \in Nat
        /\ Len(file') <= next_lsn + n /\ Len(file') \in Nat
    BY <1>2, LenProperties DEF ContentInv, OrderInv, LogTypes, InOrder
  <2>3. Len(Log') = IF flushed_lsn' + Len(log_buffer') > Len(file')
                    THEN flushed_lsn' + Len(log_buffer') ELSE Len(file')
    BY <2>2, PwriteWrites DEF Log
  <2>4. Len(Log') = next_lsn + n
    BY <1>2, <2>2, <2>3 DEF EndOfBuffer
  <2>5. Len(Log') < (next_lsn + n) + 1 /\ 1 .. Len(Log') - (next_lsn + n) = {}
    BY <1>2, <2>4
  <2>6. TornBehind(Log', next_lsn + n)
    <3> DEFINE e == next_lsn + n
    <3>1. Len(Log') < e + 1 /\ 1 .. Len(Log') - e = {}
      BY <2>5
    <3> HIDE DEF e
    <3>2. TornBehind(Log', e)
      BY <3>1 DEF TornBehind
    <3> QED BY <3>2 DEF e
  <2> QED BY <2>1, <2>6
<1>7. FileGrows
  <2>1. /\ Log \in Seq(Bytes) /\ Log = FileFlushed /\ Len(Log) = next_lsn /\ Len(file) <= Len(Log)
        /\ \A j \in 1 .. Len(file) : Log[j] = file[j]
        /\ Len(file) \in Nat
    <3>1. Len(file) \in Nat /\ Len(file) <= next_lsn
      BY <1>1, LenProperties DEF OrderInv, LogTypes, InOrder
    <3> QED BY <1>1, <1>2, <3>1, LogCells
  <2>2. CASE file' = file
    BY <2>1, <2>2 DEF FileGrows
  <2>3. CASE file' = FileFlushed
    BY <2>1, <2>3 DEF FileGrows
  <2>4. ASSUME NEW f \in {file, FileFlushed}, file' = Pwrite(f, next_lsn, Serialize(appends + 1, n))
        PROVE  FileGrows
    <3> DEFINE bytes == Serialize(appends + 1, n)
    <3>1. f \in Seq(Bytes) /\ Len(f) <= next_lsn /\ Len(file) <= Len(f) /\ Len(f) \in Nat
          /\ \A j \in 1 .. Len(file) : f[j] = file[j]
      BY <1>1, <1>2, <2>1 DEF OrderInv, LogTypes
    <3>2. bytes \in Seq(Bytes) /\ Len(bytes) = n
      BY <1>2, <1>3, SerializeCells DEF Acks
    <3> HIDE DEF bytes
    <3>3. file' = Pwrite(f, next_lsn, bytes)
      BY <2>4 DEF bytes
    <3>4. Len(file') = next_lsn + n /\ \A i \in 1 .. Len(f) : file'[i] = f[i]
      <4>1. next_lsn \in Nat /\ f \in Seq(Bytes) /\ bytes \in Seq(Bytes) /\ Len(f) <= next_lsn
        BY <1>2, <3>1, <3>2
      <4>2. /\ Len(file') = next_lsn + Len(bytes)
            /\ \A i \in 1 .. Len(f) : file'[i] = f[i]
        BY <3>3, <4>1, WrittenCells
      <4> QED BY <3>2, <4>2
    <3>5. ASSUME NEW j \in 1 .. Len(file) PROVE file'[j] = file[j]
      <4>1. j \in 1 .. Len(f)
        BY <2>1, <3>1
      <4> QED BY <4>1, <3>1, <3>4
    <3>6. Len(file) <= Len(file')
      BY <1>2, <2>1, <3>1, <3>4
    <3> QED BY <3>5, <3>6 DEF FileGrows
  <2> QED BY <2>2, <2>3, <2>4 DEF AppendLogRecord
<1> QED BY <1>3, <1>5, <1>6, <1>7 DEF LogInv

\* A restart on a file that holds the front of the log, or all of it.
LEMMA LogReopen ==
  ASSUME LogInv, ContentInv', NEW f \in Seq(Bytes), Reopen(f),
         Len(f) <= Len(Log), \A j \in 1 .. Len(f) : f[j] = Log[j]
  PROVE  /\ LogInv' /\ Log' = f /\ file' = f
         /\ \E n \in 0 .. Len(acked) :
              /\ HoldsFirst(f, n) /\ acked' = SubSeq(acked, 1, n)
              /\ Len(acked') = n /\ \A i \in 1 .. n : acked'[i] = acked[i]
<1>1. Laid(Log, acked) /\ Log \in Seq(Bytes) /\ acked \in Seq(Acks)
  BY LogLaid
<1>2. PICK n \in 0 .. Len(acked) : HoldsFirst(f, n) /\ acked' = SubSeq(acked, 1, n)
  BY DEF Reopen, Survive
<1> DEFINE b == SubSeq(acked, 1, n)
<1>3. b \in Seq(Acks) /\ Len(b) = n /\ (\A i \in 1 .. n : b[i] = acked[i]) /\ Laid(f, b)
  BY <1>1, <1>2, LaidCut DEF HoldsFirst
<1> HIDE DEF b
<1>4. acked' = b
  BY <1>2 DEF b
<1>5. Log' = f
  <2>1. Log' = Pwrite(file', flushed_lsn', log_buffer')
    BY DEF Log
  <2>2. file' = f /\ flushed_lsn' = Len(f) /\ log_buffer' = <<>>
    BY DEF Reopen
  <2>3. Len(f) \in 0 .. Len(f)
    BY LenProperties
  <2> QED BY <2>1, <2>2, <2>3, PwriteNothing
<1>6. LogInv'
  BY <1>3, <1>4, <1>5 DEF LogInv, Laid
<1> QED BY <1>2, <1>3, <1>4, <1>5, <1>6 DEF Reopen
-----------------------------------------------------------------------------
(* What a step does to the log. *)

\* A record is acknowledged behind all others.
Appended ==
  /\ FileGrows /\ synced' = synced /\ it' = it
  /\ \E b \in Acks : /\ b.rec = appends + 1 /\ b.lsn = next_lsn /\ b.size > 0
                     /\ acked' = Append(acked, b)

\* The file may grow; no record is lost or acknowledged.
Wrote == FileGrows /\ synced' = synced /\ acked' = acked /\ it' = it

\* The file is the log, all of it on stable storage.
Synced ==
  /\ FileGrows /\ acked' = acked /\ Log' = Log /\ file' = Log /\ synced' = Len(file')
  /\ it' = it \/ \E k \in {1} \cup DOMAIN acked : BeginAt(k)

ReadOnly == UNCHANGED <<logVars, acked>> /\ (MakeIterator \/ IteratorNext \/ IteratorDropped)

\* The process came back to a file f: the front of the log, with all that was synced.
ReopenedOn(f) ==
  /\ Len(f) <= Len(Log) /\ (\A j \in 1 .. Len(f) : f[j] = Log[j])
  /\ synced <= Len(f) /\ synced' \in {synced, Len(f)}
  /\ Log' = f /\ file' = f /\ it' = NoIterator
  /\ \E n \in 0 .. Len(acked) :
       /\ HoldsFirst(f, n) /\ acked' = SubSeq(acked, 1, n)
       /\ Len(acked') = n /\ \A i \in 1 .. n : acked'[i] = acked[i]

LogStep ==
  \/ Appended \/ Wrote \/ Synced \/ ReadOnly \/ Truncate
  \/ \E f \in Seq(Bytes) : ReopenedOn(f)
  \/ UNCHANGED vars

\* The file after a step that leaves it alone.
LEMMA FileSame == file' = file /\ Len(file) \in Nat => FileGrows
BY DEF FileGrows

LEMMA LogKept ==
  ASSUME "append_on_torn" \notin Events, LogInv, [Next]_vars
  PROVE  LogInv' /\ LogStep
<1>0. /\ ContentInv /\ ContentInv' /\ OrderInv /\ TailAgrees /\ file \in Seq(Bytes) /\ Len(file) \in Nat
      /\ synced \in Nat /\ synced <= Len(file)
  BY RecordsKept, LenProperties DEF LogInv, ContentInv, RecordsInPlace, OrderInv, LogTypes, InOrder
<1>1. CASE \E n \in RecordSizes : AppendLogRecord(n)
  <2>1. PICK n \in RecordSizes : AppendLogRecord(n)
    BY <1>1
  <2>2. ~TornTail /\ UNCHANGED <<synced, it>> /\ n > 0
    BY <2>1, SizeAssumption DEF AppendLogRecord, MayAppend
  <2>3. /\ LogInv' /\ FileGrows
        /\ \E b \in Acks : /\ b.rec = appends + 1 /\ b.lsn = next_lsn /\ b.size = n
                           /\ acked' = Append(acked, b)
    BY <2>1, <2>2, <1>0, LogAppend
  <2>4. Appended
    BY <2>2, <2>3 DEF Appended
  <2> QED BY <2>3, <2>4 DEF LogStep
<1>2. CASE \E n \in RecordSizes : AppendThrows(n)
  <2>1. PICK n \in RecordSizes : AppendThrows(n)
    BY <1>2
  <2>2. /\ acked' = acked /\ it' = it /\ synced' = synced /\ ~TornTail
        /\ appends + 1 \in Records /\ n \in Nat
    <3>1. appends \in Nat
      BY <1>0 DEF OrderInv, LogTypes
    <3> QED BY <2>1, <3>1, SizeAssumption, BoundAssumption DEF AppendThrows, MayAppend, Records
  <2>3. LogInv' /\ FileGrows
    <3>1. CASE /\ \E k \in 0 .. Len(log_buffer) - 1 :
                    file' = Pwrite(file, flushed_lsn, SubSeq(log_buffer, 1, k))
               /\ UNCHANGED <<flushed_lsn, log_buffer>>
      BY <2>2, <3>1, <1>0, LogPartOfBuffer
    <3>2. CASE /\ \E k \in 0 .. n - 1 :
                    file' = Pwrite(FileFlushed, next_lsn, SubSeq(Serialize(appends + 1, n), 1, k))
               /\ flushed_lsn' = LsnFlushed
               /\ log_buffer' = <<>>
      BY <2>2, <3>2, <1>0, LogPartOfRecord
    <3> QED BY <2>1, <3>1, <3>2 DEF AppendThrows
  <2> QED BY <2>2, <2>3 DEF LogStep, Wrote
<1>3. CASE Flush
  <2>1. FlushAndSync /\ UNCHANGED <<next_lsn, appends, acked, it>>
    BY <1>3 DEF Flush
  <2> QED BY <2>1, LogFlush DEF LogStep, Synced
<1>4. CASE FlushThrows
  <2>1. PICK k \in 0 .. Len(log_buffer) - 1 :
          file' = Pwrite(file, flushed_lsn, SubSeq(log_buffer, 1, k))
    BY <1>4 DEF FlushThrows
  <2>2. UNCHANGED <<flushed_lsn, log_buffer, acked, synced, it>>
    BY <1>4 DEF FlushThrows
  <2>3. LogInv' /\ FileGrows
    BY <2>1, <2>2, <1>0, LogPartOfBuffer
  <2> QED BY <2>2, <2>3 DEF LogStep, Wrote
<1>5. CASE \E i \in DOMAIN acked : FlushUpTo(acked[i].lsn)
  <2>1. UNCHANGED <<next_lsn, appends, acked, it>>
    BY <1>5 DEF FlushUpTo
  <2>2. FlushAndSync \/ UNCHANGED <<file, flushed_lsn, log_buffer, synced>>
    BY <1>5 DEF FlushUpTo
  <2>3. CASE FlushAndSync
    BY <2>1, <2>3, LogFlush DEF LogStep, Synced
  <2>4. CASE UNCHANGED <<file, flushed_lsn, log_buffer, synced>>
    BY <2>1, <2>4, <1>0, FileSame DEF LogStep, Wrote, LogInv, Log
  <2> QED BY <2>2, <2>3, <2>4
<1>6. CASE Truncate
  <2>1. file' = <<>> /\ flushed_lsn' = 0 /\ log_buffer' = <<>> /\ Len(acked') = 0
    BY <1>6, EmptySeq DEF Truncate
  <2>2. Log' = <<>>
    <3>1. <<>> \in Seq(Bytes) /\ 0 \in 0 .. Len(<<>>)
      BY EmptySeq
    <3>2. Log' = Pwrite(<<>>, 0, <<>>)
      BY <2>1 DEF Log
    <3> QED BY <3>1, <3>2, PwriteNothing
  <2>3. TornBehind(Log', EndAt(acked', Len(acked')))
    <3>1. EndAt(acked', Len(acked')) = 0
      BY <2>1 DEF EndAt
    <3>2. TornBehind(<<>>, 0)
      BY EmptySeq DEF TornBehind
    <3> QED BY <2>2, <3>1, <3>2
  <2>4. Adjacent(acked')
    BY <2>1 DEF Adjacent
  <2> QED BY <1>0, <1>6, <2>3, <2>4 DEF LogInv, LogStep
<1>7. CASE \E k \in {1} \cup DOMAIN acked : BeginAt(k)
  <2>1. FlushAndSync /\ UNCHANGED <<next_lsn, appends, acked>>
    BY <1>7 DEF BeginAt
  <2> QED BY <1>7, <2>1, LogFlush DEF LogStep, Synced
<1>8. CASE MakeIterator \/ IteratorNext \/ IteratorDropped
  <2>1. UNCHANGED <<logVars, acked>>
    BY <1>8 DEF MakeIterator, IteratorNext, IteratorDropped
  <2>2. LogInv'
    BY <2>1, <1>0 DEF LogInv, Log, logVars
  <2> QED BY <1>8, <2>1, <2>2 DEF LogStep, ReadOnly
<1>9. CASE UNCHANGED vars
  <2>1. LogInv'
    BY <1>9, <1>0 DEF LogInv, Log, vars
  <2> QED BY <1>9, <2>1 DEF LogStep
<1>10. ASSUME NEW f \in Seq(Bytes), Reopen(f), Len(f) <= Len(Log), \A j \in 1 .. Len(f) : f[j] = Log[j],
              synced <= Len(f), synced' \in {synced, Len(f)}
       PROVE  LogInv' /\ LogStep
  <2>1. /\ LogInv' /\ Log' = f /\ file' = f
        /\ \E n \in 0 .. Len(acked) :
             /\ HoldsFirst(f, n) /\ acked' = SubSeq(acked, 1, n)
             /\ Len(acked') = n /\ \A i \in 1 .. n : acked'[i] = acked[i]
    BY <1>0, <1>10, LogReopen
  <2>2. it' = NoIterator
    BY <1>10 DEF Reopen
  <2> QED BY <1>10, <2>1, <2>2 DEF LogStep, ReopenedOn
<1>11. /\ Log \in Seq(Bytes) /\ Log = FileFlushed /\ Len(file) <= Len(Log) /\ Len(Log) \in Nat
       /\ \A j \in 1 .. Len(file) : Log[j] = file[j]
  BY <1>0, LogCells, LenProperties
<1>12. CASE CloseAndReopen
  <2>1. Reopen(Log) /\ synced' = synced
    BY <1>11, <1>12 DEF CloseAndReopen
  <2>2. synced <= Len(Log)
    BY <1>0, <1>11
  <2>3. PICK f : f = Log
    OBVIOUS
  <2>4. f \in Seq(Bytes) /\ Reopen(f) /\ Len(f) <= Len(Log) /\ (\A j \in 1 .. Len(f) : f[j] = Log[j])
        /\ synced <= Len(f)
    BY <1>11, <2>1, <2>2, <2>3
  <2> QED BY <2>1, <2>4, <1>10
<1>13. CASE ProcessCrash
  <2>1. Reopen(file) /\ synced' = synced
    BY <1>13 DEF ProcessCrash
  <2>2. PICK f : f = file
    OBVIOUS
  <2>3. f \in Seq(Bytes) /\ Reopen(f) /\ Len(f) <= Len(Log) /\ (\A j \in 1 .. Len(f) : f[j] = Log[j])
        /\ synced <= Len(f)
    BY <1>0, <1>11, <2>1, <2>2
  <2> QED BY <2>1, <2>3, <1>10
<1>14. CASE PowerLoss
  <2>1. PICK n \in synced .. Len(file) : Reopen(SubSeq(file, 1, n)) /\ synced' = n
    BY <1>14 DEF PowerLoss
  <2>2. PICK f : f = SubSeq(file, 1, n)
    OBVIOUS
  <2>3. n \in 0 .. Len(file) /\ synced <= n /\ n \in Nat
    BY <1>0
  <2>4. f \in Seq(Bytes) /\ Len(f) = n /\ \A j \in 1 .. n : f[j] = file[j]
    BY <1>0, <2>2, <2>3, SubSeqProperties
  <2>5. Reopen(f) /\ Len(f) <= Len(Log) /\ (\A j \in 1 .. Len(f) : f[j] = Log[j])
        /\ synced <= Len(f) /\ synced' = Len(f)
    BY <1>0, <1>11, <2>1, <2>2, <2>3, <2>4
  <2> QED BY <2>4, <2>5, <1>10
<1> QED BY <1>1, <1>2, <1>3, <1>4, <1>5, <1>6, <1>7, <1>8, <1>9, <1>12, <1>13, <1>14 DEF Next

LEMMA LogInit == Init => LogInv
<1> SUFFICES ASSUME Init PROVE LogInv
  OBVIOUS
<1>1. file = <<>> /\ flushed_lsn = 0 /\ log_buffer = <<>> /\ Len(acked) = 0
  BY EmptySeq DEF Init
<1>2. Log = <<>>
  <2>1. <<>> \in Seq(Bytes) /\ 0 \in 0 .. Len(<<>>)
    BY EmptySeq
  <2>2. Log = Pwrite(<<>>, 0, <<>>)
    BY <1>1 DEF Log
  <2> QED BY <2>1, <2>2, PwriteNothing
<1>3. TornBehind(Log, EndAt(acked, Len(acked)))
  <2>1. EndAt(acked, Len(acked)) = 0
    BY <1>1 DEF EndAt
  <2>2. TornBehind(<<>>, 0)
    BY EmptySeq DEF TornBehind
  <2> QED BY <1>2, <2>1, <2>2
<1>4. Adjacent(acked)
  BY <1>1 DEF Adjacent
<1> QED BY <1>3, <1>4, RecordsInit DEF LogInv

-----------------------------------------------------------------------------
(* The log implements AppendOnlyLog. *)

LogRecords == Parse(Log)
Forced     == Len(Parse(SubSeq(file, 1, synced)))

LEMMA LogRecordsAre ==
  ASSUME LogInv
  PROVE  LogRecords = Rest(acked, 0)
BY LogLaid, ParseLaid DEF LogRecords

\* As many records are forced as lie whole in the synced part of the file.
LEMMA ForcedAre ==
  ASSUME LogInv
  PROVE  /\ Forced \in 0 .. Len(acked)
         /\ \A i \in 1 .. Forced : acked[i].lsn + acked[i].size <= synced
         /\ Forced < Len(acked) => acked[Forced + 1].lsn + acked[Forced + 1].size > synced
<1>1. /\ OrderInv /\ TailAgrees /\ acked \in Seq(Acks) /\ Len(acked) \in Nat /\ synced \in Nat
      /\ file \in Seq(Bytes) /\ Len(file) \in Nat /\ synced <= Len(file)
  BY LenProperties DEF LogInv, ContentInv, RecordsInPlace, OrderInv, LogTypes, InOrder
<1> DEFINE Past(i) == acked[i].lsn + acked[i].size > synced
           U == {i \in 1 .. Len(acked) : Past(i)}
<1>2. \A i \in 1 .. Len(acked) : ~Past(i) => acked[i].lsn + acked[i].size <= synced
  <2>1. \A i \in 1 .. Len(acked) : acked[i].lsn \in Nat /\ acked[i].size \in Nat
    BY <1>1, AckOf
  <2> QED BY <1>1, <2>1
<1>3. PICK n \in 0 .. Len(acked) : /\ \A i \in 1 .. n : ~Past(i)
                                   /\ n < Len(acked) => Past(n + 1)
  <2> HIDE DEF Past
  <2>1. CASE U = {}
    <3>1. \A i \in 1 .. Len(acked) : ~Past(i)
      BY <2>1
    <3>2. Len(acked) \in 0 .. Len(acked) /\ ~(Len(acked) < Len(acked))
      BY <1>1
    <3> QED BY <3>1, <3>2
  <2>2. CASE U # {}
    <3>0. U \subseteq Nat
      BY <1>1
    <3>1. PICK m \in U : \A i \in U : m <= i
      <4> HIDE DEF U
      <4> QED BY <2>2, <3>0, LeastNatural
    <3>2. m - 1 \in 0 .. Len(acked) /\ (m - 1) + 1 = m /\ Past(m)
      BY <1>1, <3>1
    <3>3. \A i \in 1 .. m - 1 : ~Past(i)
      <4> SUFFICES ASSUME NEW i \in 1 .. m - 1, Past(i) PROVE FALSE
        OBVIOUS
      <4>1. i \in U /\ i < m
        BY <1>1, <3>1
      <4> QED BY <1>1, <3>1, <4>1
    <3> QED BY <3>2, <3>3
  <2> QED BY <2>1, <2>2
<1> DEFINE t == SubSeq(file, 1, synced)
           b == SubSeq(acked, 1, n)
<1>4. t \in Seq(Bytes) /\ Len(t) = synced /\ \A j \in 1 .. synced : t[j] = file[j]
  <2>1. \A j \in 1 .. synced : file[j] \in Bytes
    BY <1>1, ElementOfSeq
  <2> QED BY <1>1, <2>1, SubSeqProperties
<1>5. Laid(Log, acked) /\ Log \in Seq(Bytes) /\ synced <= Len(Log)
      /\ \A j \in 1 .. synced : t[j] = Log[j]
  <2>1. Len(file) <= Len(Log) /\ Len(Log) \in Nat /\ \A j \in 1 .. Len(file) : Log[j] = file[j]
    BY <1>1, LogCells, LenProperties
  <2> QED BY <1>1, <1>4, <2>1, LogLaid
<1> HIDE DEF t
<1>6. b \in Seq(Acks) /\ Len(b) = n /\ Laid(t, b)
  <2>1. \A i \in 1 .. n : acked[i].lsn + acked[i].size <= Len(t)
    BY <1>1, <1>2, <1>3, <1>4
  <2>2. n < Len(acked) => acked[n + 1].lsn + acked[n + 1].size > Len(t)
    BY <1>3, <1>4
  <2>3. t \in Seq(Bytes) /\ Len(t) <= Len(Log) /\ \A j \in 1 .. Len(t) : t[j] = Log[j]
    BY <1>4, <1>5
  <2>4. n \in 0 .. Len(acked) /\ acked \in Seq(Acks)
    BY <1>1
  <2> QED BY <1>5, <2>1, <2>2, <2>3, <2>4, LaidCut
<1> HIDE DEF b
<1>7. Len(Parse(t)) = n
  <2>1. 0 \in 0 .. Len(b)
    BY <1>6
  <2>2. Parse(t) = Rest(b, 0)
    BY <1>4, <1>6, ParseLaid
  <2>3. Len(Rest(b, 0)) = Len(b) - 0
    BY <1>6, <2>1, RestIsSeq
  <2> QED BY <1>6, <2>2, <2>3
<1>8. Forced = n
  BY <1>7 DEF Forced, t
<1> QED BY <1>1, <1>2, <1>3, <1>8

\* Where the synced part of the file stays, so does the number of forced records.
LEMMA ForcedSame ==
  ASSUME LogInv, synced' = synced, \A j \in 1 .. synced : file'[j] = file[j]
  PROVE  Forced' = Forced
<1>1. synced \in Nat
  BY DEF LogInv, ContentInv, OrderInv, LogTypes
<1>2. SubSeq(file', 1, synced) = SubSeq(file, 1, synced)
  BY <1>1
<1> QED BY <1>2 DEF Forced

\* A file that is all synced has all its records forced.
LEMMA ForcedAll ==
  ASSUME file' \in Seq(Bytes), synced' = Len(file'), Log' = file'
  PROVE  Forced' = Len(LogRecords')
<1>1. SubSeq(file', 1, Len(file')) = file'
  BY SubSeqFull
<1> QED BY <1>1 DEF Forced, LogRecords

LEMMA LogRefines ==
  ASSUME "append_on_torn" \notin Events, LogInv, LogInv', [Next]_vars, LogStep
  PROVE  [Abstract!Next]_(Abstract!vars)
<1>0. /\ OrderInv /\ acked \in Seq(Acks) /\ Len(acked) \in Nat /\ synced \in Nat /\ synced <= Len(file)
      /\ Len(file) \in Nat
  BY LenProperties DEF LogInv, ContentInv, OrderInv, LogTypes, InOrder
<1>1. /\ acked' \in Seq(Acks) /\ Len(acked') \in Nat /\ file' \in Seq(Bytes)
  BY LenProperties DEF LogInv, ContentInv, OrderInv, LogTypes
<1>2. LogRecords = Rest(acked, 0) /\ LogRecords' = Rest(acked', 0)
  <2>1. LogInv' => (LogRecords = Rest(acked, 0))'
    BY LogRecordsAre, PTL
  <2> QED BY <2>1, LogRecordsAre
<1>3. LogRecords \in Seq(Records) /\ Len(LogRecords) = Len(acked)
      /\ \A i \in 1 .. Len(acked) : LogRecords[i] = acked[i].rec
  <2>1. 0 \in 0 .. Len(acked)
    BY <1>0
  <2>2. /\ Rest(acked, 0) \in Seq(Records) /\ Len(Rest(acked, 0)) = Len(acked) - 0
        /\ \A i \in 1 .. Len(acked) - 0 : Rest(acked, 0)[i] = acked[0 + i].rec
    BY <1>0, <2>1, RestIsSeq
  <2>3. Len(acked) - 0 = Len(acked) /\ \A i \in 1 .. Len(acked) : 0 + i = i
    BY <1>0
  <2> QED BY <1>2, <2>2, <2>3
<1>4. LogRecords' \in Seq(Records) /\ Len(LogRecords') = Len(acked')
      /\ \A i \in 1 .. Len(acked') : LogRecords'[i] = acked'[i].rec
  <2>1. 0 \in 0 .. Len(acked')
    BY <1>1
  <2>2. /\ Rest(acked', 0) \in Seq(Records) /\ Len(Rest(acked', 0)) = Len(acked') - 0
        /\ \A i \in 1 .. Len(acked') - 0 : Rest(acked', 0)[i] = acked'[0 + i].rec
    BY <1>1, <2>1, RestIsSeq
  <2>3. Len(acked') - 0 = Len(acked') /\ \A i \in 1 .. Len(acked') : 0 + i = i
    BY <1>1
  <2> QED BY <1>2, <2>2, <2>3
<1>5. Forced \in 0 .. Len(acked)
  BY ForcedAre
<1>6. CASE Appended
  <2>1. PICK b \in Acks : b.rec = appends + 1 /\ acked' = Append(acked, b)
    BY <1>6 DEF Appended
  <2>2. b.rec \in Records
    BY DEF Acks
  <2>3. LogRecords' = Append(LogRecords, b.rec)
    <3>1. /\ Len(acked') = Len(acked) + 1 /\ acked'[Len(acked) + 1] = b
          /\ \A i \in 1 .. Len(acked) : acked'[i] = acked[i]
      BY <1>0, <2>1, AppendProperties
    <3> DEFINE u == Append(LogRecords, b.rec)
    <3>2. /\ u \in Seq(Records) /\ Len(u) = Len(acked) + 1 /\ u[Len(acked) + 1] = b.rec
          /\ \A i \in 1 .. Len(acked) : u[i] = acked[i].rec
      BY <1>3, <2>2, AppendProperties
    <3> HIDE DEF u
    <3>3. ASSUME NEW i \in 1 .. Len(acked') PROVE LogRecords'[i] = u[i]
      <4>1. CASE i \in 1 .. Len(acked)
        BY <4>1, <1>4, <3>1, <3>2
      <4>2. CASE i = Len(acked) + 1
        BY <4>2, <1>4, <3>1, <3>2
      <4> QED BY <1>0, <3>1, <4>1, <4>2
    <3>4. LogRecords' = u
      BY <1>4, <3>1, <3>2, <3>3, SeqEqual
    <3> QED BY <3>4 DEF u
  <2>4. Forced' = Forced
    <3>1. \A j \in 1 .. synced : file'[j] = file[j]
      BY <1>0, <1>6 DEF Appended, FileGrows
    <3> QED BY <1>6, <3>1, ForcedSame DEF Appended
  <2> QED BY <2>2, <2>3, <2>4 DEF Abstract!Next, Abstract!AppendRecord, LogRecords, Forced
<1>7. CASE Wrote \/ ReadOnly
  <2>1. synced' = synced /\ acked' = acked /\ \A j \in 1 .. synced : file'[j] = file[j]
    BY <1>0, <1>7 DEF Wrote, ReadOnly, FileGrows, logVars
  <2>2. Forced' = Forced /\ LogRecords' = LogRecords
    BY <2>1, <1>2, ForcedSame
  <2> QED BY <2>2 DEF Abstract!vars, LogRecords, Forced
<1>8. CASE Synced
  <2>1. Forced' = Len(LogRecords') /\ LogRecords' = LogRecords
    BY <1>1, <1>2, <1>8, ForcedAll DEF Synced
  <2> QED BY <2>1 DEF Abstract!Next, Abstract!Force, LogRecords, Forced
<1>9. CASE Truncate
  <2>1. file' = <<>> /\ synced' = 0 /\ Len(acked') = 0 /\ flushed_lsn' = 0 /\ log_buffer' = <<>>
    BY <1>9, EmptySeq DEF Truncate
  <2>2. LogRecords' = <<>>
    BY <1>4, <2>1, EmptySeq
  <2>3. Forced' = 0
    <3>1. LogInv' => (Forced \in 0 .. Len(acked))'
      BY ForcedAre, PTL
    <3> QED BY <2>1, <3>1
  <2> QED BY <2>2, <2>3 DEF Abstract!Next, Abstract!Truncate, LogRecords, Forced
<1>10. ASSUME NEW f \in Seq(Bytes), ReopenedOn(f) PROVE Abstract!Next
  <2>1. PICK n \in 0 .. Len(acked) :
          /\ HoldsFirst(f, n) /\ Len(acked') = n /\ \A i \in 1 .. n : acked'[i] = acked[i]
    BY <1>10 DEF ReopenedOn
  <2>2. /\ Len(f) \in Nat /\ synced <= Len(f) /\ Log' = f /\ file' = f
        /\ synced' = synced \/ synced' = Len(f)
    BY <1>10, LenProperties DEF ReopenedOn
\* The forced records are among those that survive.
  <2>3. Forced <= n
    <3> SUFFICES ASSUME n < Forced PROVE FALSE
      BY <1>0, <1>5
    <3>1. n + 1 \in 1 .. Forced /\ n + 1 \in 1 .. Len(acked) /\ n < Len(acked)
      BY <1>0, <1>5
    <3>2. acked[n + 1].lsn + acked[n + 1].size <= synced
      BY <3>1, ForcedAre
    <3>3. acked[n + 1].lsn + acked[n + 1].size > Len(f)
      BY <2>1, <3>1 DEF HoldsFirst
    <3>4. acked[n + 1].lsn \in Nat /\ acked[n + 1].size \in Nat
      BY <1>0, <3>1, AckOf
    <3> QED BY <1>0, <2>2, <3>2, <3>3, <3>4
  <2>4. LogRecords' = SubSeq(LogRecords, 1, n)
    <3> DEFINE u == SubSeq(LogRecords, 1, n)
    <3>1. u \in Seq(Records) /\ Len(u) = n /\ \A i \in 1 .. n : u[i] = LogRecords[i]
      <4>1. \A i \in 1 .. n : LogRecords[i] \in Records
        BY <1>0, <1>3, ElementOfSeq
      <4> QED BY <1>0, <4>1, SubSeqProperties
    <3> HIDE DEF u
    <3>2. ASSUME NEW i \in 1 .. n PROVE LogRecords'[i] = u[i]
      <4>1. i \in 1 .. Len(acked) /\ i \in 1 .. Len(acked')
        BY <1>0, <2>1
      <4> QED BY <4>1, <1>3, <1>4, <2>1, <3>1
    <3>3. LogRecords' = u
      BY <1>4, <2>1, <3>1, <3>2, SeqEqual
    <3> QED BY <3>3 DEF u
  <2>5. Forced' \in {Forced, n}
    <3>1. CASE synced' = synced
      <4>1. \A j \in 1 .. synced : file'[j] = file[j]
        <5>1. OrderInv /\ TailAgrees
          BY DEF LogInv, ContentInv, RecordsInPlace
        <5>2. \A j \in 1 .. Len(file) : Log[j] = file[j]
          BY <5>1, LogCells
        <5>3. \A j \in 1 .. synced : j \in 1 .. Len(file) /\ j \in 1 .. Len(f)
          BY <1>0, <2>2
        <5> QED BY <1>10, <2>2, <5>2, <5>3 DEF ReopenedOn
      <4> QED BY <3>1, <4>1, ForcedSame
    <3>2. CASE synced' = Len(f)
      <4>1. Forced' = Len(LogRecords')
        BY <1>1, <2>2, <3>2, ForcedAll
      <4> QED BY <4>1, <1>4, <2>1
    <3> QED BY <2>2, <3>1, <3>2
  <2>6. n \in Forced .. Len(LogRecords)
    BY <1>0, <1>3, <1>5, <2>3
  <2> QED BY <2>4, <2>5, <2>6 DEF Abstract!Next, Abstract!Crash, LogRecords, Forced
<1>11. CASE UNCHANGED vars
  <2>1. synced' = synced /\ acked' = acked /\ file' = file
    BY <1>11 DEF vars
  <2>2. Forced' = Forced /\ LogRecords' = LogRecords
    BY <2>1, <1>2 DEF Forced
  <2> QED BY <2>2 DEF Abstract!vars, LogRecords, Forced
<1> QED BY <1>6, <1>7, <1>8, <1>9, <1>10, <1>11 DEF LogStep

LEMMA LogRefinesInit == Init => Abstract!Init
<1> SUFFICES ASSUME Init PROVE Abstract!Init
  OBVIOUS
<1>1. LogInv /\ Len(acked) = 0
  BY LogInit, EmptySeq DEF Init
<1>2. acked \in Seq(Acks) /\ 0 \in 0 .. Len(acked)
  BY <1>1 DEF LogInv, ContentInv, OrderInv, LogTypes
<1>3. LogRecords = <<>>
  BY <1>1, <1>2, LogRecordsAre, RestIsSeq
<1>4. Forced = 0
  BY <1>1, ForcedAre
<1> QED BY <1>3, <1>4 DEF Abstract!Init, LogRecords, Forced

\* log_manager.h:24-27 and docs/06: read back from its bytes, the log only grows at
\* its end, and a crash, a power loss or a failed write leaves a prefix of it that
\* holds every record an fsync covered; nothing is appended behind a torn tail.
THEOREM LogIsAppendOnly ==
  ASSUME "append_on_torn" \notin Events
  PROVE  Spec => AppendOnlySpec
<1>1. LogInv /\ [Next]_vars => LogInv' /\ [Abstract!Next]_(Abstract!vars)
  BY LogKept, LogRefines
<1> QED BY <1>1, LogInit, LogRefinesInit, PTL DEF Spec, AppendOnlySpec, Abstract!Spec
-----------------------------------------------------------------------------
(* The iterator: it reads what the file held when it was made. *)

\* The record an iterator i stands at, and the last one it will find.
Found(i) == i.start - 1 + Len(i.read)
Held(i)  == i.start - 1 + Len(i.snapshot)

\* What was read and what is there to read are the records a, from start on, and the
\* file of length n still holds what is there to read and no more.
ReadsFrom(i, a, n) ==
  /\ i.start >= 1 /\ Found(i) <= Held(i) /\ Held(i) <= Len(a) /\ Len(i.snapshot) >= i.least
  /\ \A j \in 1 .. Len(i.read) : i.read[j] = a[i.start - 1 + j].rec
  /\ \A j \in 1 .. Len(i.snapshot) : i.snapshot[j] = a[i.start - 1 + j].rec
  /\ i.file_size <= n
  /\ \A k \in 1 .. Held(i) : a[k].lsn + a[k].size <= i.file_size
  /\ Held(i) < Len(a) => a[Held(i) + 1].lsn + a[Held(i) + 1].size > i.file_size

StandsAt(i, a) ==
  /\ i.valid => /\ Found(i) >= i.start
                /\ i.offset = a[Found(i)].lsn /\ i.size = a[Found(i)].size
  /\ ~i.valid => Found(i) = Held(i)

\* Between Begin's flush and the constructor: the flushed records are in the file.
Begun(i, a, n) ==
  /\ i.start >= 1 /\ i.least >= 0 /\ i.start + i.least - 1 <= Len(a)
  /\ ~i.valid /\ i.read = <<>> /\ i.snapshot = <<>>
  /\ \A k \in 1 .. i.start + i.least - 1 : a[k].lsn + a[k].size <= n

ReaderOn(i, a, n) ==
  /\ i.stage = "none" => i = NoIterator
  /\ i.stage = "begin" => Begun(i, a, n)
  /\ i.stage = "open" => ReadsFrom(i, a, n) /\ StandsAt(i, a)

FaithfulInv == TypeInv /\ LogInv /\ ReaderOn(it, acked, Len(file))

LEMMA ReaderCounts ==
  ASSUME NEW i \in Iterators
  PROVE  /\ Len(i.read) \in Nat /\ Len(i.snapshot) \in Nat /\ i.start \in Nat /\ i.least \in Int
         /\ i.file_size \in Nat /\ i.size \in Nat /\ i.offset \in Nat
         /\ i.read \in Seq(Nat) /\ i.snapshot \in Seq(Nat)
         /\ i.stage \in {"none", "begin", "open"} /\ i.valid \in BOOLEAN
<1>1. i.read \in Seq(Nat) /\ i.snapshot \in Seq(Nat)
  BY DEF Iterators
<1>2. Len(i.read) \in Nat /\ Len(i.snapshot) \in Nat
  BY <1>1, LenProperties
<1> QED BY <1>1, <1>2, BoundAssumption DEF Iterators

\* Where the records an iterator has read, and those it will find, lie in the log.
LEMMA ReaderPlaces ==
  ASSUME NEW i \in Iterators, i.start >= 1, Found(i) <= Held(i)
  PROVE  /\ Found(i) \in Nat /\ Held(i) \in Nat /\ Len(i.read) <= Len(i.snapshot)
         /\ Found(i) = Held(i) => Len(i.read) = Len(i.snapshot)
         /\ \A k \in 1 .. Len(i.read) : i.start - 1 + k \in 1 .. Held(i) /\ k \in 1 .. Len(i.snapshot)
         /\ \A k \in 1 .. Len(i.snapshot) : i.start - 1 + k \in 1 .. Held(i)
<1> DEFINE s == i.start - 1
           r == Len(i.read)
           t == Len(i.snapshot)
           f == Found(i)
           h == Held(i)
<1>1. s \in Nat /\ r \in Nat /\ t \in Nat
  BY ReaderCounts
<1>2. f = s + r /\ h = s + t /\ f <= h
  BY DEF Found, Held
<1> HIDE DEF s, r, t, f, h
<1>3. f \in Nat /\ h \in Nat /\ r <= t /\ (f = h => r = t)
  BY <1>1, <1>2
<1>4. \A k \in 1 .. r : s + k \in 1 .. h /\ k \in 1 .. t
  BY <1>1, <1>2
<1>5. \A k \in 1 .. t : s + k \in 1 .. h
  BY <1>1, <1>2
<1> QED BY <1>3, <1>4, <1>5 DEF s, r, t, f, h

\* Records are added to a, behind a file of length n.
AddedBehind(a, b, n) ==
  /\ Len(a) <= Len(b)
  /\ \A k \in 1 .. Len(a) : b[k] = a[k]
  /\ \A k \in Len(a) + 1 .. Len(b) : b[k].lsn + b[k].size > n

\* Records that are added behind the file, and a file that grows, change nothing for
\* an iterator.
LEMMA ReaderGrows ==
  ASSUME NEW i \in Iterators, NEW a \in Seq(Acks), NEW b \in Seq(Acks), NEW n \in Nat, NEW m \in Nat,
         ReaderOn(i, a, n), n <= m, AddedBehind(a, b, n)
  PROVE  ReaderOn(i, b, m)
<1>1. /\ Len(i.read) \in Nat /\ Len(i.snapshot) \in Nat /\ i.start \in Nat /\ i.least \in Int
      /\ i.file_size \in Nat /\ Len(a) \in Nat /\ Len(b) \in Nat
  BY ReaderCounts, LenProperties
<1>2. CASE i.stage = "none"
  BY <1>2 DEF ReaderOn
<1>3. CASE i.stage = "begin"
  <2>1. Begun(i, a, n)
    BY <1>3 DEF ReaderOn
  <2>2. ASSUME NEW k \in 1 .. i.start + i.least - 1 PROVE b[k].lsn + b[k].size <= m
    <3>1. k \in 1 .. Len(a) /\ a[k].lsn + a[k].size <= n
      BY <1>1, <2>1 DEF Begun
    <3>2. a[k].lsn \in Nat /\ a[k].size \in Nat
      BY <3>1, AckOf
    <3>3. b[k] = a[k]
      BY <3>1 DEF AddedBehind
    <3> QED BY <3>1, <3>2, <3>3
  <2>3. Begun(i, b, m)
    <3>1. i.start + i.least - 1 <= Len(b)
      BY <1>1, <2>1 DEF Begun, AddedBehind
    <3> QED BY <2>1, <2>2, <3>1 DEF Begun
  <2> QED BY <1>3, <2>3 DEF ReaderOn
<1>4. CASE i.stage = "open"
  <2>1. ReadsFrom(i, a, n) /\ StandsAt(i, a)
    BY <1>4 DEF ReaderOn
  <2>2. /\ Found(i) <= Held(i) /\ Held(i) <= Len(a) /\ i.start >= 1 /\ i.file_size <= n
    BY <2>1 DEF ReadsFrom
  <2>3. /\ Found(i) \in Nat /\ Held(i) \in Nat
        /\ \A k \in 1 .. Len(i.read) : i.start - 1 + k \in 1 .. Held(i)
        /\ \A k \in 1 .. Len(i.snapshot) : i.start - 1 + k \in 1 .. Held(i)
    BY <2>2, ReaderPlaces
  <2>4. \A k \in 1 .. Held(i) : b[k] = a[k]
    <3>1. \A k \in 1 .. Held(i) : k \in 1 .. Len(a)
      BY <1>1, <2>2, <2>3
    <3> QED BY <3>1 DEF AddedBehind
  <2>5. /\ \A j \in 1 .. Len(i.read) : i.read[j] = b[i.start - 1 + j].rec
        /\ \A j \in 1 .. Len(i.snapshot) : i.snapshot[j] = b[i.start - 1 + j].rec
    <3>1. /\ \A j \in 1 .. Len(i.read) : i.read[j] = a[i.start - 1 + j].rec
          /\ \A j \in 1 .. Len(i.snapshot) : i.snapshot[j] = a[i.start - 1 + j].rec
      BY <2>1 DEF ReadsFrom
    <3> QED BY <2>3, <2>4, <3>1
  <2>6. \A k \in 1 .. Held(i) : b[k].lsn + b[k].size <= i.file_size
    BY <2>1, <2>4 DEF ReadsFrom
  <2>7. Held(i) < Len(b) => b[Held(i) + 1].lsn + b[Held(i) + 1].size > i.file_size
    <3> DEFINE h == Held(i)
    <3>1. h \in Nat /\ h <= Len(a)
      BY <2>2, <2>3
    <3>2. h < Len(a) => a[h + 1].lsn + a[h + 1].size > i.file_size
      BY <2>1 DEF ReadsFrom
    <3> HIDE DEF h
    <3>3. ASSUME h < Len(a) PROVE b[h + 1].lsn + b[h + 1].size > i.file_size
      <4>1. h + 1 \in 1 .. Len(a)
        BY <1>1, <3>1, <3>3
      <4>2. b[h + 1] = a[h + 1]
        BY <4>1 DEF AddedBehind
      <4> QED BY <3>2, <3>3, <4>2
    <3>4. ASSUME h = Len(a), h < Len(b) PROVE b[h + 1].lsn + b[h + 1].size > i.file_size
      <4>1. h + 1 \in Len(a) + 1 .. Len(b) /\ h + 1 \in 1 .. Len(b)
        BY <1>1, <3>1, <3>4
      <4>2. b[h + 1].lsn + b[h + 1].size > n
        BY <4>1 DEF AddedBehind
      <4>3. b[h + 1].lsn + b[h + 1].size \in Nat
        BY <4>1, AckOf
      <4> DEFINE e == b[h + 1].lsn + b[h + 1].size
      <4>4. e \in Nat /\ e > n
        BY <4>2, <4>3
      <4> HIDE DEF e
      <4>5. e > i.file_size
        BY <1>1, <2>2, <4>4
      <4> QED BY <4>5 DEF e
    <3>5. h < Len(a) \/ h = Len(a)
      BY <1>1, <3>1
    <3> QED BY <3>3, <3>4, <3>5 DEF h
  <2>8. ReadsFrom(i, b, m)
    <3>1. i.file_size <= m
      BY <1>1, <2>2
    <3>2. Held(i) <= Len(b)
      <4>1. Len(a) <= Len(b)
        BY DEF AddedBehind
      <4> QED BY <1>1, <2>2, <2>3, <4>1
    <3>3. /\ i.start >= 1 /\ Found(i) <= Held(i) /\ Len(i.snapshot) >= i.least
      BY <2>1 DEF ReadsFrom
    <3> QED BY <2>5, <2>6, <2>7, <3>1, <3>2, <3>3 DEF ReadsFrom
  <2>9. StandsAt(i, b)
    <3>1. i.valid => Found(i) \in 1 .. Held(i)
      <4>1. i.valid => Found(i) >= i.start
        BY <2>1 DEF StandsAt
      <4> QED BY <1>1, <2>2, <2>3, <4>1
    <3> QED BY <2>1, <2>4, <3>1 DEF StandsAt
  <2> QED BY <1>4, <2>8, <2>9 DEF ReaderOn
<1> QED BY <1>2, <1>3, <1>4, ReaderCounts

LEMMA ReadsOne ==
  ASSUME NEW f, NEW i, NEW o, NEW n, TotalSizes(f, o) = {n}, ~(o >= i.file_size \/ o >= Len(f)),
         NEW j \in ReadCurrentRecord(f, i, o)
  PROVE  j = IF Readable(f, i, o, n)
             THEN [i EXCEPT !.valid = TRUE, !.offset = o, !.size = n,
                            !.read = Append(@, Deserialize(f, o, n))]
             ELSE [i EXCEPT !.valid = FALSE, !.offset = o]
BY DEF ReadCurrentRecord

\* Reading where the records found so far end: the next one, if the file held it when
\* the iterator was made, and otherwise nothing.
LEMMA ReadNext ==
  ASSUME LogInv, NEW i \in Iterators, ReadsFrom(i, acked, Len(file)),
         NEW o, o = EndAt(acked, Found(i)), NEW j \in ReadCurrentRecord(file, i, o)
  PROVE  \/ /\ Found(i) = Held(i)
            /\ j = [i EXCEPT !.valid = FALSE, !.offset = o]
         \/ /\ Found(i) < Held(i)
            /\ o = acked[Found(i) + 1].lsn
            /\ j = [i EXCEPT !.valid = TRUE, !.offset = o, !.size = acked[Found(i) + 1].size,
                             !.read = Append(@, acked[Found(i) + 1].rec)]
<1>0. /\ Laid(Log, acked) /\ Log \in Seq(Bytes) /\ acked \in Seq(Acks) /\ Len(acked) \in Nat
      /\ file \in Seq(Bytes) /\ Len(file) \in Nat /\ Len(Log) \in Nat
      /\ Len(file) <= Len(Log) /\ \A k \in 1 .. Len(file) : Log[k] = file[k]
  <2>1. OrderInv /\ TailAgrees /\ file \in Seq(Bytes) /\ acked \in Seq(Acks)
    BY DEF LogInv, ContentInv, RecordsInPlace, OrderInv, LogTypes
  <2> QED BY <2>1, LogLaid, LogCells, LenProperties
<1>1. /\ Found(i) \in Nat /\ Held(i) \in Nat /\ Found(i) <= Held(i) /\ Held(i) <= Len(acked)
      /\ i.file_size \in Nat /\ i.file_size <= Len(file)
  BY ReaderCounts DEF ReadsFrom, Found, Held
<1>2. o \in Nat
  <2>1. Found(i) \in 0 .. Len(acked)
    BY <1>0, <1>1
  <2> QED BY <1>0, <2>1, EndsGrow DEF Laid
<1>3. CASE Found(i) < Held(i)
  <2> DEFINE b == acked[Found(i) + 1]
  <2>1. Found(i) + 1 \in 1 .. Len(acked) /\ Found(i) + 1 \in 1 .. Held(i) /\ (Found(i) + 1) - 1 = Found(i)
    BY <1>0, <1>1, <1>3
  <2>2. b \in Acks /\ b.lsn = o /\ b.size > 0 /\ HoldsRecord(Log, b)
    BY <1>0, <2>1, AckOf DEF Laid, Adjacent
  <2>3. b.lsn + b.size <= i.file_size
    BY <2>1 DEF ReadsFrom
  <2> HIDE DEF b
  <2>4. HoldsRecord(file, b)
    <3>1. b.lsn \in Nat /\ b.size \in Nat /\ b.lsn + b.size <= Len(file)
      BY <1>0, <1>1, <2>2, <2>3 DEF Acks
    <3>2. \A k \in 1 .. b.size : b.lsn + k \in 1 .. Len(file)
      BY <1>0, <3>1
    <3> QED BY <1>0, <2>2, <3>1, <3>2 DEF HoldsRecord
  <2>5. /\ o < Len(file) /\ file[o + 1].pos = 1 /\ file[o + 1].size = b.size
        /\ Deserialize(file, o, b.size) = b.rec
    BY <1>0, <2>2, <2>4, RecordRead
  <2>6. TotalSizes(file, o) = {b.size}
    BY <2>5 DEF TotalSizes
  <2>7. o < i.file_size /\ Readable(file, i, o, b.size)
    BY <1>0, <1>1, <1>2, <2>2, <2>3 DEF Acks, Readable
  <2>8. ~(o >= i.file_size \/ o >= Len(file))
    BY <1>0, <1>1, <1>2, <2>5, <2>7
  <2>9. j = [i EXCEPT !.valid = TRUE, !.offset = o, !.size = b.size, !.read = Append(@, b.rec)]
    <3>1. j = [i EXCEPT !.valid = TRUE, !.offset = o, !.size = b.size,
                        !.read = Append(@, Deserialize(file, o, b.size))]
      BY <2>6, <2>7, <2>8, ReadsOne
    <3> QED BY <2>5, <3>1
  <2> QED BY <1>3, <2>2, <2>9 DEF b
<1>4. CASE Found(i) = Held(i)
  <2>1. CASE o >= i.file_size \/ o >= Len(file)
    BY <1>4, <2>1 DEF ReadCurrentRecord
  <2>2. CASE ~(o >= i.file_size \/ o >= Len(file))
    <3>1. o < i.file_size /\ o < Len(file) /\ o < Len(Log) /\ o + 1 \in 1 .. Len(file)
      BY <1>0, <1>1, <1>2, <2>2
    <3>2. Log[o + 1] = file[o + 1]
      BY <1>0, <3>1
    <3>3. /\ file[o + 1].pos = 1 /\ file[o + 1].size \in Nat
          /\ o + file[o + 1].size > i.file_size
      <4>1. CASE Held(i) = Len(acked)
        <5>1. o = EndAt(acked, Len(acked))
          BY <1>4, <4>1
        <5>2. Log[o + 1].pos = 1 /\ Log[o + 1].size \in Nat /\ o + Log[o + 1].size > Len(Log)
          BY <1>0, <3>1, <5>1, BehindRecords
        <5> QED BY <1>0, <1>1, <1>2, <3>2, <5>2
      <4>2. CASE Held(i) # Len(acked)
        <5>1. Held(i) \in 0 .. Len(acked) /\ Held(i) < Len(acked) /\ Held(i) + 1 \in 1 .. Len(acked)
          BY <1>0, <1>1, <4>2
        <5>2. /\ Log[o + 1].pos = 1 /\ Log[o + 1].size = acked[Held(i) + 1].size
              /\ o + Log[o + 1].size = EndAt(acked, Held(i) + 1)
          BY <1>0, <1>4, <4>2, <5>1, AtRecord
        <5>3. EndAt(acked, Held(i) + 1) > i.file_size /\ acked[Held(i) + 1].size \in Nat
          BY <1>0, <5>1, AckOf DEF ReadsFrom
        <5> QED BY <3>2, <5>2, <5>3
      <4> QED BY <4>1, <4>2
    <3>4. TotalSizes(file, o) = {file[o + 1].size} /\ ~Readable(file, i, o, file[o + 1].size)
      BY <1>0, <1>1, <1>2, <3>3 DEF TotalSizes, Readable
    <3> QED BY <1>4, <2>2, <3>4, ReadsOne
  <2> QED BY <2>1, <2>2
<1> QED BY <1>1, <1>3, <1>4

LEMMA ReaderRead ==
  ASSUME LogInv, NEW i \in Iterators, i.stage = "open", ReadsFrom(i, acked, Len(file)),
         NEW o, o = EndAt(acked, Found(i)), NEW j \in ReadCurrentRecord(file, i, o)
  PROVE  ReaderOn(j, acked, Len(file))
<1>0. acked \in Seq(Acks) /\ Len(acked) \in Nat
  BY LenProperties DEF LogInv, ContentInv, OrderInv, LogTypes
<1>1. /\ Len(i.read) \in Nat /\ Len(i.snapshot) \in Nat /\ i.start \in Nat /\ i.start >= 1
      /\ i.read \in Seq(Nat)
      /\ Found(i) = i.start - 1 + Len(i.read) /\ Held(i) = i.start - 1 + Len(i.snapshot)
      /\ Found(i) \in Nat /\ Held(i) \in Nat /\ Held(i) <= Len(acked) /\ Found(i) <= Held(i)
  <2>1. i.start >= 1 /\ Found(i) <= Held(i) /\ Held(i) <= Len(acked)
    BY DEF ReadsFrom
  <2>2. Found(i) = i.start - 1 + Len(i.read) /\ Held(i) = i.start - 1 + Len(i.snapshot)
    BY DEF Found, Held
  <2> QED BY <2>1, <2>2, ReaderCounts, ReaderPlaces
<1>2. CASE Found(i) = Held(i) /\ j = [i EXCEPT !.valid = FALSE, !.offset = o]
  <2>1. /\ j.stage = "open" /\ j.start = i.start /\ j.read = i.read /\ j.snapshot = i.snapshot
        /\ j.least = i.least /\ j.file_size = i.file_size /\ ~j.valid
    BY <1>2 DEF Iterators
  <2>2. Found(j) = Found(i) /\ Held(j) = Held(i)
    BY <2>1 DEF Found, Held
  <2>3. ReadsFrom(j, acked, Len(file))
    BY <2>1, <2>2 DEF ReadsFrom
  <2>4. StandsAt(j, acked)
    BY <1>2, <2>1, <2>2 DEF StandsAt
  <2> QED BY <2>1, <2>3, <2>4 DEF ReaderOn
<1>3. CASE /\ Found(i) < Held(i)
           /\ o = acked[Found(i) + 1].lsn
           /\ j = [i EXCEPT !.valid = TRUE, !.offset = o, !.size = acked[Found(i) + 1].size,
                            !.read = Append(@, acked[Found(i) + 1].rec)]
  <2> DEFINE r == acked[Found(i) + 1].rec
  <2>1. Found(i) + 1 \in 1 .. Len(acked)
    BY <1>0, <1>1, <1>3
  <2>2. r \in Nat
    <3>1. r \in Records
      BY <1>0, <2>1, AckOf
    <3> HIDE DEF r
    <3> QED BY <3>1, BoundAssumption DEF Records
  <2>3. /\ j.stage = "open" /\ j.start = i.start /\ j.read = Append(i.read, r) /\ j.snapshot = i.snapshot
        /\ j.least = i.least /\ j.file_size = i.file_size /\ j.valid
        /\ j.offset = acked[Found(i) + 1].lsn /\ j.size = acked[Found(i) + 1].size
    BY <1>3 DEF Iterators
  <2> HIDE DEF r
  <2>4. /\ Len(j.read) = Len(i.read) + 1 /\ j.read[Len(i.read) + 1] = r
        /\ \A k \in 1 .. Len(i.read) : j.read[k] = i.read[k]
    BY <1>1, <2>2, <2>3, AppendProperties
  <2>5. Found(j) = Found(i) + 1 /\ Held(j) = Held(i) /\ Found(i) + 1 = i.start - 1 + (Len(i.read) + 1)
    <3>1. /\ Found(j) = j.start - 1 + Len(j.read) /\ Held(j) = j.start - 1 + Len(j.snapshot)
          /\ Found(i) = i.start - 1 + Len(i.read) /\ Held(i) = i.start - 1 + Len(i.snapshot)
      BY DEF Found, Held
    <3>2. Found(j) = i.start - 1 + (Len(i.read) + 1) /\ Held(j) = Held(i)
      BY <2>3, <2>4, <3>1
    <3>3. Found(j) = Found(i) + 1
      <4> DEFINE s == i.start - 1
                 c == Len(i.read)
      <4>1. s \in Int /\ c \in Nat /\ Found(i) = s + c /\ Found(j) = s + (c + 1)
        BY <1>1, <3>1, <3>2
      <4> HIDE DEF s, c
      <4> QED BY <4>1
    <3> QED BY <3>1, <3>2, <3>3
  <2>6. ASSUME NEW k \in 1 .. Len(j.read) PROVE j.read[k] = acked[j.start - 1 + k].rec
    <3>1. CASE k \in 1 .. Len(i.read)
      BY <2>3, <2>4, <3>1 DEF ReadsFrom
    <3>2. CASE k = Len(i.read) + 1
      BY <2>3, <2>4, <2>5, <3>2 DEF r
    <3> QED BY <1>1, <2>4, <3>1, <3>2
  <2>7. Found(j) <= Held(j) /\ Found(j) >= j.start
    <3>1. Found(j) <= Held(j)
      BY <1>1, <1>3, <2>5
    <3>2. i.start - 1 + (Len(i.read) + 1) >= i.start
      BY <1>1
    <3>3. Found(j) = i.start - 1 + (Len(i.read) + 1)
      BY <2>5
    <3> QED BY <2>3, <3>1, <3>2, <3>3
  <2>8. ReadsFrom(j, acked, Len(file))
    BY <2>3, <2>5, <2>6, <2>7 DEF ReadsFrom
  <2>9. StandsAt(j, acked)
    BY <2>3, <2>5, <2>7 DEF StandsAt
  <2> QED BY <2>3, <2>8, <2>9 DEF ReaderOn
<1> QED BY <1>2, <1>3, ReadNext

LEMMA ReaderBegins ==
  ASSUME FaithfulInv, LogInv', acked' = acked, file' = Log, Log' = Log,
         NEW k \in {1} \cup DOMAIN acked, BeginAt(k)
  PROVE  ReaderOn(it', acked', Len(file'))
<1>1. LogInv /\ acked \in Seq(Acks) /\ Len(acked) \in Nat /\ k \in {1} \cup 1 .. Len(acked) /\ k \in Nat
  BY LenProperties DEF FaithfulInv, LogInv, ContentInv, OrderInv, LogTypes
<1>2. it' = [NoIterator EXCEPT !.stage = "begin", !.start = k, !.least = Len(acked) - k + 1]
  BY DEF BeginAt
<1>3. /\ it'.stage = "begin" /\ it'.start = k /\ it'.least = Len(acked) - k + 1
      /\ ~it'.valid /\ it'.read = <<>> /\ it'.snapshot = <<>>
  BY <1>2 DEF NoIterator
<1>4. it'.start + it'.least - 1 = Len(acked) /\ it'.least >= 0 /\ it'.start >= 1
  BY <1>1, <1>3
<1>5. \A m \in 1 .. Len(acked) : acked[m].lsn + acked[m].size <= Len(Log)
  BY <1>1, LogLaid DEF Laid, HoldsRecord
<1>6. Begun(it', acked', Len(file'))
  BY <1>1, <1>3, <1>4, <1>5 DEF Begun
<1> QED BY <1>3, <1>6 DEF ReaderOn

LEMMA ReaderMade ==
  ASSUME FaithfulInv, MakeIterator
  PROVE  ReaderOn(it', acked, Len(file))
<1>1. /\ LogInv /\ acked \in Seq(Acks) /\ Len(acked) \in Nat /\ file \in Seq(Bytes) /\ Len(file) \in Nat
      /\ it \in Iterators /\ it.stage = "begin" /\ Len(file) \in 0 .. MaxLog /\ Adjacent(acked)
  <2>1. OrderInv /\ BoundsInv /\ ReaderInv /\ LogInv
    BY DEF FaithfulInv, TypeInv
  <2>2. next_lsn \in Nat /\ file \in Seq(Bytes) /\ Len(file) <= next_lsn /\ acked \in Seq(Acks)
    BY <2>1 DEF OrderInv, LogTypes, InOrder
  <2> QED BY <2>1, <2>2, LenProperties, BoundAssumption DEF BoundsInv, ReaderInv, MakeIterator, LogInv
<1> DEFINE k == it.start
<1>2. /\ k \in Nat /\ k >= 1 /\ it.least \in Int /\ it.least >= 0 /\ k + it.least - 1 <= Len(acked)
      /\ it.read = <<>> /\ k \in {1} \cup 1 .. Len(acked)
      /\ \A m \in 1 .. k + it.least - 1 : acked[m].lsn + acked[m].size <= Len(file)
  BY <1>1, ReaderCounts DEF FaithfulInv, ReaderOn, Begun, TypeInv, ReaderInv
<1> DEFINE o == IF k = 1 THEN 0 ELSE acked[k].lsn
           w(n) == [j \in 1 .. n - k + 1 |-> acked[k + j - 1].rec]
           opened(n) == [it EXCEPT !.stage = "open", !.file_size = Len(file), !.snapshot = w(n)]
<1>3. PICK n \in 0 .. Len(acked) : HoldsFirst(file, n) /\ it' \in ReadCurrentRecord(file, opened(n), o)
  BY DEF MakeIterator
<1> HIDE DEF k
\* All that Begin flushed is still whole in the file.
<1>4. k + it.least - 1 <= n /\ n - k + 1 \in Nat /\ n \in Nat
  <2>1. k + it.least - 1 <= n
    <3> SUFFICES ASSUME n < k + it.least - 1 PROVE FALSE
      BY <1>1, <1>2
    <3>1. n + 1 \in 1 .. k + it.least - 1 /\ n + 1 \in 1 .. Len(acked) /\ n < Len(acked)
      BY <1>1, <1>2
    <3>2. acked[n + 1].lsn + acked[n + 1].size <= Len(file)
      BY <1>2, <3>1
    <3>3. acked[n + 1].lsn + acked[n + 1].size > Len(file)
      BY <1>3, <3>1 DEF HoldsFirst
    <3>4. acked[n + 1].lsn \in Nat /\ acked[n + 1].size \in Nat
      BY <1>1, <3>1, AckOf
    <3> QED BY <1>1, <3>2, <3>3, <3>4
  <2> QED BY <1>1, <1>2, <2>1
<1>5. /\ w(n) \in Seq(Nat) /\ Len(w(n)) = n - k + 1
      /\ \A j \in 1 .. n - k + 1 : w(n)[j] = acked[k - 1 + j].rec
  <2> DEFINE m == n - k + 1
             e(j) == acked[k + j - 1].rec
  <2>1. \A j \in 1 .. m : k + j - 1 \in 1 .. Len(acked) /\ k + j - 1 = k - 1 + j
    BY <1>1, <1>2, <1>4
  <2>2. \A j \in 1 .. m : e(j) \in Nat
    <3> SUFFICES ASSUME NEW j \in 1 .. m PROVE e(j) \in Nat
      OBVIOUS
    <3>1. e(j) \in Records
      BY <1>1, <2>1, AckOf
    <3> HIDE DEF e
    <3> QED BY <3>1, BoundAssumption DEF Records
  <2>3. m \in Nat
    BY <1>4
  <2> HIDE DEF m, e
  <2>4. /\ [j \in 1 .. m |-> e(j)] \in Seq(Nat) /\ Len([j \in 1 .. m |-> e(j)]) = m
        /\ \A j \in 1 .. m : [x \in 1 .. m |-> e(x)][j] = e(j)
    BY <2>2, <2>3
  <2>5. w(n) = [j \in 1 .. m |-> e(j)]
    BY DEF m, e
  <2>6. \A j \in 1 .. m : e(j) = acked[k - 1 + j].rec
    BY <2>1 DEF e
  <2> HIDE DEF w
  <2> QED BY <2>4, <2>5, <2>6 DEF m
<1> HIDE DEF w
<1> DEFINE i == opened(n)
<1>6. /\ i.stage = "open" /\ i.start = k /\ i.least = it.least /\ i.read = <<>> /\ i.snapshot = w(n)
      /\ i.file_size = Len(file) /\ i \in Iterators
  <2>1. it.start = k
    BY DEF k
  <2> QED BY <1>1, <1>2, <1>5, <2>1 DEF Iterators
<1> HIDE DEF opened
<1>7. it' \in ReadCurrentRecord(file, i, o)
  BY <1>3
<1> HIDE DEF i
<1>8. Found(i) = k - 1 /\ Held(i) = n
  BY <1>2, <1>4, <1>5, <1>6, EmptySeq DEF Found, Held
<1>9. ReadsFrom(i, acked, Len(file))
  <2>1. \A m \in 1 .. n : acked[m].lsn + acked[m].size <= Len(file)
    BY <1>3 DEF HoldsFirst
  <2>2. n < Len(acked) => acked[n + 1].lsn + acked[n + 1].size > Len(file)
    BY <1>3 DEF HoldsFirst
  <2>3. Len(i.read) = 0
    BY <1>6, EmptySeq
  <2>4. Len(i.snapshot) >= i.least /\ Found(i) <= Held(i) /\ Held(i) <= Len(acked) /\ i.start >= 1
    BY <1>1, <1>2, <1>4, <1>5, <1>6, <1>8
  <2>5. \A j \in 1 .. Len(i.snapshot) : i.snapshot[j] = acked[i.start - 1 + j].rec
    BY <1>5, <1>6
  <2>6. i.file_size <= Len(file)
    BY <1>1, <1>6
  <2> QED BY <1>6, <1>8, <2>1, <2>2, <2>3, <2>4, <2>5, <2>6 DEF ReadsFrom
<1>10. o = EndAt(acked, Found(i))
  <2>1. CASE k = 1
    BY <1>8, <2>1 DEF EndAt
  <2>2. CASE k # 1
    <3>1. k \in 1 .. Len(acked)
      BY <1>2, <2>2
    <3> QED BY <1>1, <1>8, <2>2, <3>1 DEF Adjacent
  <2> QED BY <2>1, <2>2
<1> HIDE DEF o
<1> QED BY <1>1, <1>6, <1>7, <1>9, <1>10, ReaderRead

LEMMA ReaderMoves ==
  ASSUME FaithfulInv, IteratorNext
  PROVE  ReaderOn(it', acked, Len(file))
<1>1. /\ LogInv /\ acked \in Seq(Acks) /\ Len(acked) \in Nat /\ it \in Iterators
      /\ it.valid /\ it' \in ReadCurrentRecord(file, it, it.offset + it.size)
  BY LenProperties DEF FaithfulInv, LogInv, ContentInv, OrderInv, LogTypes, TypeInv, ReaderInv, IteratorNext
<1>2. it.stage = "open" /\ ReadsFrom(it, acked, Len(file)) /\ StandsAt(it, acked)
  <2>1. it.stage \in {"none", "begin", "open"}
    BY <1>1, ReaderCounts
  <2> QED BY <1>1, <2>1 DEF FaithfulInv, ReaderOn, Begun, NoIterator
<1>3. it.offset + it.size = EndAt(acked, Found(it))
  <2>1. /\ Found(it) >= it.start /\ it.start >= 1 /\ it.start \in Nat /\ Found(it) \in Int
        /\ it.offset = acked[Found(it)].lsn /\ it.size = acked[Found(it)].size
    BY <1>1, <1>2, ReaderCounts DEF StandsAt, ReadsFrom, Found
  <2> QED BY <2>1 DEF EndAt
<1> QED BY <1>1, <1>2, <1>3, ReaderRead

LEMMA FaithfulKept ==
  ASSUME "append_on_torn" \notin Events
  PROVE  FaithfulInv /\ [Next]_vars => FaithfulInv'
<1> SUFFICES ASSUME FaithfulInv, [Next]_vars PROVE FaithfulInv'
  OBVIOUS
<1>1. /\ TypeInv /\ TypeInv' /\ LogInv /\ LogInv' /\ LogStep /\ ReaderOn(it, acked, Len(file))
      /\ it \in Iterators
  BY TypesKept, LogKept DEF FaithfulInv, TypeInv, ReaderInv
<1>2. /\ acked \in Seq(Acks) /\ acked' \in Seq(Acks) /\ Len(file) \in Nat /\ Len(file') \in Nat
      /\ Len(acked) \in Nat /\ Len(file) <= next_lsn /\ next_lsn \in Nat
  BY <1>1, LenProperties DEF LogInv, ContentInv, OrderInv, LogTypes, InOrder
<1> SUFFICES ReaderOn(it', acked', Len(file'))
  BY <1>1 DEF FaithfulInv
<1>3. ASSUME it' = NoIterator PROVE ReaderOn(it', acked', Len(file'))
  BY <1>3 DEF ReaderOn, NoIterator
<1>4. ASSUME FileGrows, acked' = acked, it' = it PROVE ReaderOn(it', acked', Len(file'))
  <2>1. Len(file) <= Len(file')
    BY <1>4 DEF FileGrows
  <2>2. AddedBehind(acked, acked', Len(file))
    BY <1>2, <1>4 DEF AddedBehind
  <2> QED BY <1>1, <1>2, <1>4, <2>1, <2>2, ReaderGrows
<1>5. CASE Appended
  <2>1. PICK b \in Acks : b.lsn = next_lsn /\ b.size > 0 /\ acked' = Append(acked, b)
    BY <1>5 DEF Appended
  <2>2. /\ Len(acked') = Len(acked) + 1 /\ acked'[Len(acked) + 1] = b
        /\ \A k \in 1 .. Len(acked) : acked'[k] = acked[k]
    BY <1>2, <2>1, AppendProperties
  <2>3. b.lsn + b.size > Len(file)
    BY <1>2, <2>1 DEF Acks
  <2>4. \A k \in Len(acked) + 1 .. Len(acked') : acked'[k].lsn + acked'[k].size > Len(file)
    BY <1>2, <2>2, <2>3
  <2>5. Len(file) <= Len(file') /\ it' = it /\ Len(acked) <= Len(acked')
    BY <1>2, <1>5, <2>2 DEF Appended, FileGrows
  <2>6. AddedBehind(acked, acked', Len(file))
    BY <2>2, <2>4, <2>5 DEF AddedBehind
  <2> QED BY <1>1, <1>2, <2>5, <2>6, ReaderGrows
<1>6. CASE Wrote
  BY <1>4, <1>6 DEF Wrote
<1>7. CASE Synced
  <2>1. CASE it' = it
    BY <1>4, <1>7, <2>1 DEF Synced
  <2>2. CASE \E k \in {1} \cup DOMAIN acked : BeginAt(k)
    BY <1>1, <1>7, <2>2, ReaderBegins DEF Synced
  <2> QED BY <1>7, <2>1, <2>2 DEF Synced
<1>8. CASE ReadOnly
  <2>1. acked' = acked /\ file' = file
    BY <1>8 DEF ReadOnly, logVars
  <2>2. CASE MakeIterator
    BY <2>1, <2>2, ReaderMade
  <2>3. CASE IteratorNext
    BY <2>1, <2>3, ReaderMoves
  <2>4. CASE IteratorDropped
    BY <2>4, <1>3 DEF IteratorDropped
  <2> QED BY <1>8, <2>2, <2>3, <2>4 DEF ReadOnly
<1>9. CASE Truncate
  BY <1>3, <1>9 DEF Truncate
<1>10. CASE \E f \in Seq(Bytes) : ReopenedOn(f)
  BY <1>3, <1>10 DEF ReopenedOn
<1>11. CASE UNCHANGED vars
  BY <1>1, <1>11 DEF vars
<1> QED BY <1>1, <1>5, <1>6, <1>7, <1>8, <1>9, <1>10, <1>11 DEF LogStep

LEMMA FaithfulInit == Init => FaithfulInv
<1> SUFFICES ASSUME Init PROVE FaithfulInv
  OBVIOUS
<1>1. it = NoIterator
  BY DEF Init
<1> QED BY <1>1, TypesInit, LogInit DEF FaithfulInv, ReaderOn, NoIterator

LEMMA InvIteratorFaithful == FaithfulInv => IteratorFaithful
<1> SUFFICES ASSUME FaithfulInv PROVE IteratorFaithful
  OBVIOUS
<1>1. it \in Iterators /\ ReaderOn(it, acked, Len(file))
  BY DEF FaithfulInv, TypeInv, ReaderInv
<1>2. CASE it.stage # "open"
  <2>1. it.read = <<>> /\ it.snapshot = <<>>
    BY <1>1, <1>2, ReaderCounts DEF ReaderOn, Begun, NoIterator
  <2> QED BY <1>2, <2>1 DEF IteratorFaithful, IsPrefix
<1>3. CASE it.stage = "open"
  <2>1. ReadsFrom(it, acked, Len(file)) /\ StandsAt(it, acked)
    BY <1>1, <1>3 DEF ReaderOn
  <2>2. /\ Len(it.read) \in Nat /\ Len(it.snapshot) \in Nat /\ it.start \in Nat
        /\ it.read \in Seq(Nat) /\ it.snapshot \in Seq(Nat)
    BY <1>1, ReaderCounts
  <2>3. /\ Len(it.read) <= Len(it.snapshot)
        /\ Found(it) = Held(it) => Len(it.read) = Len(it.snapshot)
        /\ \A j \in 1 .. Len(it.read) : j \in 1 .. Len(it.snapshot)
    <3>1. it.start >= 1 /\ Found(it) <= Held(it)
      BY <2>1 DEF ReadsFrom
    <3> QED BY <1>1, <3>1, ReaderPlaces
  <2>4. \A j \in 1 .. Len(it.read) : j \in 1 .. Len(it.snapshot) /\ it.read[j] = it.snapshot[j]
    BY <2>1, <2>3 DEF ReadsFrom
  <2>5. IsPrefix(it.read, it.snapshot)
    <3> DEFINE p == SubSeq(it.snapshot, 1, Len(it.read))
    <3>0. /\ p \in Seq(Nat) /\ Len(p) = Len(it.read)
          /\ \A j \in 1 .. Len(it.read) : p[j] = it.snapshot[j]
      <4> DEFINE r == Len(it.read)
                 w == it.snapshot
      <4>1. r \in Nat /\ w \in Seq(Nat) /\ r <= Len(w) /\ Len(w) \in Nat /\ p = SubSeq(w, 1, r)
        BY <2>2, <2>3
      <4> HIDE DEF r, w, p
      <4>2. \A j \in 1 .. r : j \in 1 .. Len(w) /\ w[j] \in Nat
        BY <4>1, ElementOfSeq
      <4>3. p \in Seq(Nat) /\ Len(p) = r /\ \A j \in 1 .. r : p[j] = w[j]
        BY <4>1, <4>2, SubSeqProperties
      <4> QED BY <4>3 DEF r, w
    <3> HIDE DEF p
    <3>2. it.read = p
      BY <2>2, <2>4, <3>0, SeqEqual
    <3>3. SubSeq(it.read, 1, Len(it.read)) = it.read
      BY <2>2, SubSeqFull
    <3>1. SubSeq(it.read, 1, Len(it.read)) = SubSeq(it.snapshot, 1, Len(it.read))
      BY <3>2, <3>3 DEF p
    <3> QED BY <2>3, <3>1 DEF IsPrefix
  <2>6. ~it.valid => it.read = it.snapshot
    <3>1. ~it.valid => Len(it.read) = Len(it.snapshot)
      BY <2>1, <2>3 DEF StandsAt
    <3> QED BY <2>2, <2>4, <3>1, SeqEqual
  <2>7. Len(it.snapshot) >= it.least
    BY <2>1 DEF ReadsFrom
  <2> QED BY <2>5, <2>6, <2>7 DEF IteratorFaithful
<1> QED BY <1>2, <1>3

\* docs/06, "Recovery stops at the last complete record": an iterator returns every
\* record that the file held whole when it was made, in order and unharmed, and then
\* stops, whatever is appended, flushed, torn or cut while it reads.
THEOREM IteratorsAreFaithful ==
  ASSUME "append_on_torn" \notin Events
  PROVE  Spec => []IteratorFaithful
<1>1. FaithfulInv /\ [Next]_vars => FaithfulInv'
  BY FaithfulKept
<1> QED BY <1>1, FaithfulInit, InvIteratorFaithful, PTL DEF Spec
=============================================================================
