------------------------------ MODULE PageSlots ------------------------------
(***************************************************************************)
(* A slotted page as heap files and recovery see it: its slots, each empty *)
(* or holding a record, and the space left in it.  SlottedPage shows that  *)
(* the bytes of a page behave like this, as long as no record is grown     *)
(* into space that is not there.                                           *)
(*                                                                         *)
(* The operators named Mut... are deliberate mistakes, each a variant of   *)
(* the definition that follows it; no definition uses them.                *)
(***************************************************************************)
EXTENDS Integers, SequencesExt

CONSTANTS NoRecord, SLOT_ENTRY_SIZE

ASSUME SlotSizeAssumption == SLOT_ENTRY_SIZE \in Nat \ {0}

LiveSlots(pg) == {i \in DOMAIN pg.slots : pg.slots[i] # NoRecord}

Holds(pg, i) == i \in LiveSlots(pg)

MutNeverReuses(pg) == Len(pg.slots) + 1
FreeSlot(pg) ==
  LET empty == DOMAIN pg.slots \ LiveSlots(pg)
  IN  IF empty = {} THEN Len(pg.slots) + 1 ELSE Min(empty)

\* The space a record of size n takes; a slot that is used again is free.
Cost(pg, n) == n + IF FreeSlot(pg) > Len(pg.slots) THEN SLOT_ENTRY_SIZE ELSE 0

GetFreeSpace(pg) == IF pg.free < 0 THEN 0 ELSE pg.free

HasSpaceFor(pg, n) == Cost(pg, n) <= GetFreeSpace(pg)

Stored(slots, i, r) == IF i > Len(slots) THEN Append(slots, r) ELSE [slots EXCEPT ![i] = r]

InsertRecord(pg, r, n) ==
  IF Cost(pg, n) <= pg.free
  THEN [pg EXCEPT !.slots = Stored(@, FreeSlot(pg), r), !.free = @ - Cost(pg, n)]
  ELSE pg

DeleteRecord(pg, i) == IF Holds(pg, i) THEN [pg EXCEPT !.slots[i] = NoRecord] ELSE pg
==============================================================================
