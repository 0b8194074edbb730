----------------------------- MODULE SlottedPage -----------------------------
(***************************************************************************)
(* Page: variable-length records in a fixed number of bytes.  The slot     *)
(* directory grows forward from the header, record bytes grow backward     *)
(* from the end.  The header and the directory live in header_ and slots_  *)
(* and are copied over the front of data_ when the page is saved.          *)
(*                                                                         *)
(* Sizes are counted in a unit that makes a page a handful of units long.  *)
(* A byte of a record is the pair of the record's value and the byte's     *)
(* place in it, so that a byte of another record, or of the directory, is  *)
(* told apart from it.                                                     *)
(*                                                                         *)
(* The operators named Mut... are deliberate mistakes, each a variant of   *)
(* the definition that follows it; no definition uses them.                *)
(***************************************************************************)
EXTENDS Integers, FiniteSets, SequencesExt

CONSTANTS PAGE_SIZE, HEADER_SIZE, SLOT_ENTRY_SIZE,
          Word,         \* 2^16: offsets and lengths are uint16_t
          Values,       \* what a record may say
          Junk,         \* a byte of the header, of the directory, or zero
          NoRecord,     \* an empty slot
          MaxLength,    \* bound: the longest record clients store
          GrowUnchecked \* may clients grow a record that does not fit as a whole?

ASSUME LayoutAssumption ==
  /\ HEADER_SIZE \in Nat \ {0} /\ SLOT_ENTRY_SIZE \in Nat \ {0}
  /\ PAGE_SIZE \in Nat /\ HEADER_SIZE < PAGE_SIZE
  /\ Word \in Nat /\ PAGE_SIZE < Word /\ MaxLength < Word
ASSUME InputAssumption == MaxLength \in Nat /\ GrowUnchecked \in BOOLEAN

VARIABLES data,                                                \* data_
          slots,                                               \* slots_
          free_space_offset, free_space_end, num_records       \* header_

vars == <<data, slots, free_space_offset, free_space_end, num_records>>

Offsets == 0 .. PAGE_SIZE - 1
Lengths == 0 .. MaxLength
Bytes   == (Values \X (1 .. MaxLength)) \cup {Junk}

SlotEntry    == [offset : 0 .. Word - 1, length : 0 .. Word - 1]
Tombstone    == [offset |-> 0, length |-> 0]
IsEmpty(s)   == s.offset = 0 /\ s.length = 0
num_slots    == Len(slots)
Record(v, n) == [k \in 1 .. n |-> <<v, k>>]
Records      == {Record(v, n) : v \in Values, n \in Lengths}

ASSUME NoRecordAssumption == NoRecord \notin Records

\* Every variable stays in its type; in particular no write leaves the page.
TypeOK ==
  /\ data \in [Offsets -> Bytes]
  /\ slots \in Seq(SlotEntry)
  /\ \A i \in DOMAIN slots : slots[i].offset + slots[i].length <= PAGE_SIZE
  /\ free_space_offset \in 0 .. PAGE_SIZE
  /\ free_space_end \in 0 .. PAGE_SIZE
  /\ num_records \in 0 .. Len(slots)

-----------------------------------------------------------------------------
(* Room. *)

EmptySlots == {i \in DOMAIN slots : IsEmpty(slots[i])}

\* The first empty slot, or the one a new entry would get.
FindEmptySlot == IF EmptySlots = {} THEN num_slots + 1
                 ELSE CHOOSE i \in EmptySlots : \A j \in EmptySlots : i <= j

SlotOverhead == IF EmptySlots = {} THEN SLOT_ENTRY_SIZE ELSE 0

GetFreeSpace == IF free_space_end <= free_space_offset THEN 0
                ELSE free_space_end - free_space_offset

HasSpaceFor(n) == GetFreeSpace >= (n + SlotOverhead) % Word

MutNoSlotOverhead(n) == n # 0 /\ n <= free_space_end - free_space_offset
Fits(n) == n # 0 /\ n + SlotOverhead <= free_space_end - free_space_offset

Sub(a, n) == (a - n) % Word         \* subtraction of uint16_t

\* memcpy(data_ + off, ...)
Copied(d, off, bytes) ==
  [o \in Offsets |-> IF o >= off /\ o < off + Len(bytes) THEN bytes[o - off + 1] ELSE d[o]]

-----------------------------------------------------------------------------
(* Record operations.  A call that returns false or nullopt changes nothing. *)

InsertRecord(v, n) ==
  /\ Fits(n)
  /\ LET off   == Sub(free_space_end, n)
         entry == [offset |-> off, length |-> n]
         id    == FindEmptySlot
     IN  /\ data' = Copied(data, off, Record(v, n))
         /\ slots' = IF id <= num_slots THEN [slots EXCEPT ![id] = entry] ELSE Append(slots, entry)
         /\ free_space_offset' = free_space_offset + SlotOverhead
         /\ free_space_end' = off
  /\ num_records' = num_records + 1

MutStillCounted == num_records
RecordsAfterDelete == num_records - 1

DeleteRecord(i) ==
  /\ ~IsEmpty(slots[i])
  /\ slots' = [slots EXCEPT ![i] = Tombstone]
  /\ num_records' = RecordsAfterDelete
  /\ UNCHANGED <<data, free_space_offset, free_space_end>>

UpdateInPlace(i, v, n) ==
  /\ ~IsEmpty(slots[i]) /\ n <= slots[i].length
  /\ data' = Copied(data, slots[i].offset, Record(v, n))
  /\ slots' = [slots EXCEPT ![i].length = n]
  /\ UNCHANGED <<free_space_offset, free_space_end, num_records>>

\* The check asks for the bytes the record grows by; the write takes them all.
RoomToGrow(i, n) == n - slots[i].length <= GetFreeSpace

UpdateMoved(i, v, n) ==
  /\ ~IsEmpty(slots[i]) /\ n > slots[i].length
  /\ RoomToGrow(i, n)
  /\ GrowUnchecked \/ n <= GetFreeSpace
  /\ LET off == Sub(free_space_end, n)
     IN  /\ data' = Copied(data, off, Record(v, n))
         /\ slots' = [slots EXCEPT ![i] = [offset |-> off, length |-> n]]
         /\ free_space_end' = off
  /\ UNCHANGED <<free_space_offset, num_records>>

-----------------------------------------------------------------------------
(* Compact: live records are packed at the end, the highest first.  Two live *)
(* records have one offset only if one of them is empty; where std::sort puts *)
(* that one is left open by the code, and it has no bytes to move.            *)

LiveSlots == {i \in DOMAIN slots : ~IsEmpty(slots[i])}

LiveAbove(i) == {j \in LiveSlots : slots[j].offset > slots[i].offset}

\* write_pos, once the records at these offsets are packed.
WritePos(offsets) == Min({PAGE_SIZE} \cup offsets)

MutPacksOverlapping ==
  LET packed[i \in LiveSlots] == WritePos({packed[j] - slots[j].length : j \in LiveAbove(i)})
  IN  packed
PackedOffset ==
  LET packed[i \in LiveSlots] == WritePos({packed[j] : j \in LiveAbove(i)}) - slots[i].length
  IN  packed

Compact ==
  LET packed  == PackedOffset
      here(o) == {i \in LiveSlots : o >= packed[i] /\ o < packed[i] + slots[i].length}
  IN  /\ slots' = [i \in DOMAIN slots |-> IF i \in LiveSlots
                                          THEN [slots[i] EXCEPT !.offset = packed[i]]
                                          ELSE slots[i]]
      /\ data' = [o \in Offsets |->
                    IF here(o) = {} THEN data[o]
                    ELSE LET i == CHOOSE i \in here(o) : TRUE
                         IN  data[slots[i].offset + o - packed[i]]]
      /\ free_space_end' = WritePos({packed[i] : i \in LiveSlots})
      /\ UNCHANGED <<free_space_offset, num_records>>

-----------------------------------------------------------------------------
(* SerializeToBuffer, then DeserializeFromBuffer of the same bytes: the header *)
(* and the directory come back as they were, and their bytes in data_ are      *)
(* theirs.                                                                     *)

SlotDirectoryEnd == HEADER_SIZE + num_slots * SLOT_ENTRY_SIZE

SaveAndLoad ==
  /\ data' = [o \in Offsets |-> IF o < SlotDirectoryEnd THEN Junk ELSE data[o]]
  /\ UNCHANGED <<slots, free_space_offset, free_space_end, num_records>>

-----------------------------------------------------------------------------
Init ==
  /\ data = [o \in Offsets |-> Junk]
  /\ slots = <<>>
  /\ free_space_offset = HEADER_SIZE
  /\ free_space_end = PAGE_SIZE
  /\ num_records = 0

Next ==
  \/ \E v \in Values, n \in Lengths :
       \/ InsertRecord(v, n)
       \/ \E i \in DOMAIN slots : UpdateInPlace(i, v, n) \/ UpdateMoved(i, v, n)
  \/ \E i \in DOMAIN slots : DeleteRecord(i)
  \/ Compact \/ SaveAndLoad

Spec == Init /\ [][Next]_vars

-----------------------------------------------------------------------------
(* Properties. *)

\* page.h:112-115 draws the layout: the directory, then free space, then records
\* that do not overlap; free_space_offset and free_space_end mark the two
\* boundaries (page.h:26), and num_records counts the live slots.
LayoutSound ==
  /\ free_space_offset = SlotDirectoryEnd
  /\ free_space_offset <= free_space_end
  /\ \A i \in LiveSlots : free_space_end <= slots[i].offset
  /\ \A i, j \in LiveSlots :
       i # j => \/ slots[i].offset + slots[i].length <= slots[j].offset
                \/ slots[j].offset + slots[j].length <= slots[i].offset
  /\ num_records = Cardinality(LiveSlots)

\* A caller that asked HasSpaceFor first is never refused, and one that was told
\* there is no room would have been.
HasSpaceForExact == \A n \in 1 .. MaxLength : HasSpaceFor(n) <=> Fits(n)

Byte(o) == IF o \in Offsets THEN data[o] ELSE Junk

GetRecord(i) == IF IsEmpty(slots[i]) THEN NoRecord
                ELSE [k \in 1 .. slots[i].length |-> Byte(slots[i].offset + k - 1)]

Slots == INSTANCE RecordSlots WITH slot <- [i \in DOMAIN slots |-> GetRecord(i)]

\* page.h:146-186: GetRecord gives back the bytes that were stored in that slot,
\* through every insert, delete, in-place or moving update, compaction and
\* save of the page.
RecordsKept == Slots!Spec
==============================================================================
