-------------------------- MODULE SlottedPageProofs --------------------------
(***************************************************************************)
(* For pages, records and slot directories of every size: the layout is    *)
(* kept, HasSpaceFor is exact, and a page implements RecordSlots.          *)
(*                                                                         *)
(* Compact is the one operation that loops.  That its loop is well defined *)
(* (PackedEquation) and that it only moves records up, into no other       *)
(* record (PackedAbove, PackedApart), is proved by induction from the end  *)
(* of the page, in the form of a least counterexample.                     *)
(***************************************************************************)
EXTENDS SlottedPage, SequenceTheorems, FiniteSetTheorems, WellFoundedInduction, TLAPS

-----------------------------------------------------------------------------
(* Least elements. *)

LEMMA NatOrder == \E R : IsWellFoundedOn(R, Nat) /\ R = {ss \in Nat \X Nat : ss[1] < ss[2]}
<1>1. OpToRel(<, Nat) = {ss \in Nat \X Nat : ss[1] < ss[2]}
  BY DEF OpToRel
<1> QED BY <1>1, NatLessThanWellFounded, Zenon

LEMMA LeastNatural ==
  ASSUME NEW U, U \subseteq Nat, U # {}
  PROVE  \E m \in U : \A k \in U : m <= k
<1>1. PICK R : IsWellFoundedOn(R, Nat) /\ R = {ss \in Nat \X Nat : ss[1] < ss[2]}
  BY NatOrder
<1>2. PICK m \in U : \A k \in U : <<k, m>> \notin R
  BY <1>1, WFMin
<1>3. ASSUME NEW k \in U PROVE m <= k
  <2>1. k \in Nat /\ m \in Nat /\ <<k, m>> \in Nat \X Nat
    OBVIOUS
  <2> QED BY <1>1, <1>2, <2>1
<1> QED BY <1>3

LEMMA MinIsLeast ==
  ASSUME NEW S, S \subseteq Nat, S # {}
  PROVE  Min(S) \in S /\ \A k \in S : Min(S) <= k
BY LeastNatural DEF Min

\* write_pos is one of the offsets, or the end of the page, and below all of them.
LEMMA WritePosIsLeast ==
  ASSUME NEW S, S \subseteq Nat
  PROVE  /\ WritePos(S) \in S \cup {PAGE_SIZE} /\ WritePos(S) \in Nat
         /\ WritePos(S) <= PAGE_SIZE /\ \A k \in S : WritePos(S) <= k
<1>1. {PAGE_SIZE} \cup S \subseteq Nat /\ {PAGE_SIZE} \cup S # {}
  BY LayoutAssumption
<1>2. Min({PAGE_SIZE} \cup S) \in {PAGE_SIZE} \cup S /\ \A k \in {PAGE_SIZE} \cup S : Min({PAGE_SIZE} \cup S) <= k
  BY <1>1, MinIsLeast
<1> QED BY <1>1, <1>2 DEF WritePos

-----------------------------------------------------------------------------
(* Slots. *)

\* What the type invariant says of a slot.
LEMMA SlotTypes ==
  ASSUME TypeOK
  PROVE  /\ Len(slots) \in Nat /\ DOMAIN slots = 1 .. Len(slots) /\ LiveSlots \subseteq DOMAIN slots
         /\ \A i \in DOMAIN slots :
              /\ slots[i] = [offset |-> slots[i].offset, length |-> slots[i].length]
              /\ slots[i].offset \in Nat /\ slots[i].length \in Nat
              /\ slots[i].offset + slots[i].length <= PAGE_SIZE
              /\ slots[i].offset < Word /\ slots[i].length < Word
<1>1. Len(slots) \in Nat /\ DOMAIN slots = 1 .. Len(slots)
  BY LenProperties DEF TypeOK
<1>2. LiveSlots \subseteq DOMAIN slots
  BY DEF LiveSlots
<1>3. ASSUME NEW i \in DOMAIN slots
      PROVE  /\ slots[i] = [offset |-> slots[i].offset, length |-> slots[i].length]
             /\ slots[i].offset \in Nat /\ slots[i].length \in Nat
             /\ slots[i].offset + slots[i].length <= PAGE_SIZE
             /\ slots[i].offset < Word /\ slots[i].length < Word
  <2>1. slots[i] \in SlotEntry
    BY <1>1, ElementOfSeq DEF TypeOK
  <2>2. slots[i].offset \in 0 .. Word - 1 /\ slots[i].length \in 0 .. Word - 1
    BY <2>1 DEF SlotEntry
  <2>3. slots[i] = [offset |-> slots[i].offset, length |-> slots[i].length]
    BY <2>1 DEF SlotEntry
  <2> QED BY <2>2, <2>3, LayoutAssumption DEF TypeOK
<1> QED BY <1>1, <1>2, <1>3

-----------------------------------------------------------------------------
(* The loop of Compact. *)

\* g is packed as far down as the slots of T.
Packs(g, T) == \A i \in T : g[i] = WritePos({g[j] : j \in LiveAbove(i)}) - slots[i].length

\* The live slots in the last k units of the range of offsets.
TopSlots(k) == {i \in LiveSlots : slots[i].offset + k >= Word}

\* One pass of the loop packs what is one unit further down.
LEMMA PackOneMore ==
  ASSUME TypeOK, NEW k \in Nat, NEW g, Packs(g, TopSlots(k))
  PROVE  \E f : f \in [LiveSlots -> {f[i] : i \in LiveSlots}] /\ Packs(f, TopSlots(k + 1))
<1> DEFINE f == [i \in LiveSlots |->
                   IF i \in TopSlots(k) THEN g[i]
                   ELSE WritePos({g[j] : j \in LiveAbove(i)}) - slots[i].length]
<1>1. ASSUME NEW i \in TopSlots(k + 1)
      PROVE  /\ \A j \in LiveAbove(i) : j \in TopSlots(k) /\ j \in LiveSlots
             /\ i \in LiveSlots
  <2>1. \A j \in LiveSlots : slots[j].offset \in Nat
    BY SlotTypes
  <2> QED BY <2>1, LayoutAssumption DEF TopSlots, LiveAbove
<1>2. ASSUME NEW i \in TopSlots(k + 1)
      PROVE  f[i] = WritePos({f[j] : j \in LiveAbove(i)}) - slots[i].length
  <2>1. \A j \in LiveAbove(i) : f[j] = g[j]
    BY <1>1, <1>2
  <2>2. {f[j] : j \in LiveAbove(i)} = {g[j] : j \in LiveAbove(i)}
    BY <2>1
  <2>3. f[i] = WritePos({g[j] : j \in LiveAbove(i)}) - slots[i].length
    BY <1>1 DEF Packs
  <2> QED BY <2>2, <2>3
<1>3. f \in [LiveSlots -> {f[i] : i \in LiveSlots}]
  OBVIOUS
<1> QED BY <1>2, <1>3 DEF Packs

\* PackedOffset is what its defining equation says.
LEMMA PackedEquation ==
  ASSUME TypeOK
  PROVE  \A i \in LiveSlots :
           PackedOffset[i] = WritePos({PackedOffset[j] : j \in LiveAbove(i)}) - slots[i].length
<1> DEFINE Packable(k) == \E g : g \in [LiveSlots -> {g[i] : i \in LiveSlots}] /\ Packs(g, TopSlots(k))
           U == {k \in Nat : ~Packable(k)}
<1>1. \A i \in LiveSlots : slots[i].offset \in 0 .. Word - 1
  BY SlotTypes, LayoutAssumption
<1>2. Packable(0)
  <2>1. TopSlots(0) = {}
    BY <1>1, LayoutAssumption DEF TopSlots
  <2>2. PICK g : g = [i \in LiveSlots |-> i]
    OBVIOUS
  <2> QED BY <2>1, <2>2 DEF Packs
<1>3. ASSUME NEW k \in Nat, Packable(k) PROVE Packable(k + 1)
  BY <1>3, PackOneMore
<1>4. U = {}
  <2> SUFFICES ASSUME U # {} PROVE FALSE
    OBVIOUS
  <2>1. PICK m \in U : \A k \in U : m <= k
    <3> HIDE DEF Packable
    <3> QED BY LeastNatural
  <2> HIDE DEF Packable
  <2>2. m \in Nat /\ m # 0 /\ ~Packable(m)
    BY <1>2
  <2>3. m - 1 \in Nat /\ Packable(m - 1)
    BY <2>1, <2>2
  <2>4. Packable((m - 1) + 1)
    BY <2>3, <1>3
  <2> QED BY <2>2, <2>4
<1>5. PICK g : g \in [LiveSlots -> {g[i] : i \in LiveSlots}] /\ Packs(g, TopSlots(Word))
  BY <1>4, LayoutAssumption
<1>6. TopSlots(Word) = LiveSlots
  BY <1>1, LayoutAssumption DEF TopSlots
<1>7. g = [i \in LiveSlots |-> WritePos({g[j] : j \in LiveAbove(i)}) - slots[i].length]
  BY <1>5, <1>6 DEF Packs
<1>8. PackedOffset = CHOOSE f : f = [i \in LiveSlots |->
                                       WritePos({f[j] : j \in LiveAbove(i)}) - slots[i].length]
  BY DEF PackedOffset
<1>9. PackedOffset = [i \in LiveSlots |->
                        WritePos({PackedOffset[j] : j \in LiveAbove(i)}) - slots[i].length]
  <2> DEFINE IsPacked(f) == f = [i \in LiveSlots |->
                                   WritePos({f[j] : j \in LiveAbove(i)}) - slots[i].length]
  <2>1. IsPacked(g)
    BY <1>7
  <2>2. PackedOffset = CHOOSE f : IsPacked(f)
    BY <1>8
  <2> HIDE DEF IsPacked
  <2>3. IsPacked(PackedOffset)
    BY <2>1, <2>2
  <2> QED BY <2>3 DEF IsPacked
<1> QED BY <1>9

\* The directory begins behind the header, so no live record is at offset 0.
LEMMA LiveOffsets ==
  ASSUME TypeOK, LayoutSound
  PROVE  /\ free_space_end > 0 /\ free_space_end \in Nat /\ free_space_offset \in Nat
         /\ \A i \in LiveSlots : slots[i].offset > 0 /\ free_space_end <= slots[i].offset
<1>1. num_slots * SLOT_ENTRY_SIZE \in Nat
  BY SlotTypes, LayoutAssumption DEF num_slots
<1>2. free_space_offset > 0 /\ free_space_offset <= free_space_end
  BY <1>1, LayoutAssumption DEF LayoutSound, SlotDirectoryEnd
<1>3. free_space_end \in Nat /\ free_space_offset \in Nat
  BY LayoutAssumption DEF TypeOK
<1>4. \A i \in LiveSlots : free_space_end <= slots[i].offset /\ slots[i].offset \in Nat
  BY SlotTypes DEF LayoutSound
<1> QED BY <1>2, <1>3, <1>4

\* No record is moved down: there is room above it for all that is above it.
LEMMA PackedAbove ==
  ASSUME TypeOK, LayoutSound
  PROVE  \A i \in LiveSlots : PackedOffset[i] \in Nat /\ slots[i].offset <= PackedOffset[i]
<1> DEFINE Raised(i) == PackedOffset[i] \in Nat /\ slots[i].offset <= PackedOffset[i]
           U == {PAGE_SIZE - slots[i].offset : i \in {i \in LiveSlots : ~Raised(i)}}
<1>1. ASSUME NEW i \in LiveSlots, \A j \in LiveAbove(i) : Raised(j)
      PROVE  Raised(i)
  <2> DEFINE above == {PackedOffset[j] : j \in LiveAbove(i)}
  <2>1. ASSUME NEW j \in LiveAbove(i)
        PROVE  slots[i].offset + slots[i].length <= PackedOffset[j]
    <3>1. j \in LiveSlots /\ slots[j].offset > slots[i].offset /\ j # i
      BY SlotTypes DEF LiveAbove
    <3>2. slots[i].offset + slots[i].length <= slots[j].offset
      BY <3>1, SlotTypes DEF LayoutSound
    <3> QED BY <1>1, <2>1, <3>1, <3>2, SlotTypes
  <2>2. above \subseteq Nat
    BY <1>1
  <2>3. WritePos(above) \in above \cup {PAGE_SIZE} /\ WritePos(above) \in Nat
    BY <2>2, WritePosIsLeast
  <2>4. slots[i].offset + slots[i].length <= WritePos(above)
    BY <2>1, <2>3, SlotTypes
  <2>5. PackedOffset[i] = WritePos(above) - slots[i].length
    BY PackedEquation
  <2> HIDE DEF above
  <2> QED BY <2>3, <2>4, <2>5, SlotTypes
<1>2. \A i \in LiveSlots : slots[i].offset \in 0 .. PAGE_SIZE
  BY SlotTypes, LayoutAssumption
<1>3. U \subseteq Nat
  <2> HIDE DEF Raised
  <2> QED BY <1>2, LayoutAssumption
<1>4. U = {}
  <2> SUFFICES ASSUME U # {} PROVE FALSE
    OBVIOUS
  <2>1. PICK m \in U : \A k \in U : m <= k
    <3> HIDE DEF U
    <3> QED BY <1>3, LeastNatural
  <2>2. PICK i \in LiveSlots : ~Raised(i) /\ m = PAGE_SIZE - slots[i].offset
    OBVIOUS
  <2>3. ASSUME NEW j \in LiveAbove(i) PROVE Raised(j)
    <3>1. j \in LiveSlots /\ slots[j].offset > slots[i].offset
      BY DEF LiveAbove
    <3>2. PAGE_SIZE - slots[j].offset < m
      BY <2>2, <3>1, <1>2, LayoutAssumption
    <3>3. PAGE_SIZE - slots[j].offset \notin U
      <4> HIDE DEF U
      <4> QED BY <3>1, <3>2, <2>1, <2>2, <1>2, LayoutAssumption
    <3> QED BY <3>1, <3>3
  <2> QED BY <1>1, <2>2, <2>3
<1> QED BY <1>4

\* Nor into another one, nor off the page.
LEMMA PackedApart ==
  ASSUME TypeOK, LayoutSound
  PROVE  /\ \A i \in LiveSlots : PackedOffset[i] + slots[i].length <= PAGE_SIZE
         /\ \A i, j \in LiveSlots :
              i # j => \/ PackedOffset[i] + slots[i].length <= PackedOffset[j]
                       \/ PackedOffset[j] + slots[j].length <= PackedOffset[i]
<1> DEFINE pos(i) == WritePos({PackedOffset[j] : j \in LiveAbove(i)})
<1>1. ASSUME NEW i \in LiveSlots
      PROVE  /\ PackedOffset[i] + slots[i].length = pos(i) /\ pos(i) \in Nat /\ pos(i) <= PAGE_SIZE
             /\ \A j \in LiveAbove(i) : pos(i) <= PackedOffset[j]
  <2> DEFINE above == {PackedOffset[j] : j \in LiveAbove(i)}
  <2>1. above \subseteq Nat
    BY PackedAbove DEF LiveAbove
  <2>2. /\ pos(i) \in Nat /\ pos(i) <= PAGE_SIZE /\ \A k \in above : pos(i) <= k
    <3> HIDE DEF above
    <3>1. /\ WritePos(above) \in Nat /\ WritePos(above) <= PAGE_SIZE
          /\ \A k \in above : WritePos(above) <= k
      BY <2>1, WritePosIsLeast
    <3> QED BY <3>1 DEF above
  <2>3. PackedOffset[i] = pos(i) - slots[i].length
    BY PackedEquation
  <2> HIDE DEF pos
  <2> QED BY <2>2, <2>3, SlotTypes
<1> HIDE DEF pos
<1>2. ASSUME NEW i \in LiveSlots, NEW j \in LiveSlots, slots[j].offset > slots[i].offset
      PROVE  PackedOffset[i] + slots[i].length <= PackedOffset[j]
  BY <1>1, <1>2 DEF LiveAbove
<1>3. ASSUME NEW i \in LiveSlots, NEW j \in LiveSlots, i # j, slots[j].offset = slots[i].offset,
             slots[i].length = 0
      PROVE  PackedOffset[j] + slots[j].length <= PackedOffset[i]
  <2>1. LiveAbove(i) = LiveAbove(j)
    BY <1>3 DEF LiveAbove
  <2>2. pos(i) = pos(j)
    BY <2>1 DEF pos
  <2> QED BY <1>1, <1>3, <2>2, PackedAbove
<1>4. ASSUME NEW i \in LiveSlots, NEW j \in LiveSlots, i # j, slots[j].offset = slots[i].offset
      PROVE  slots[i].length = 0 \/ slots[j].length = 0
  BY <1>4, SlotTypes DEF LayoutSound
<1>5. ASSUME NEW i \in LiveSlots, NEW j \in LiveSlots, i # j
      PROVE  \/ PackedOffset[i] + slots[i].length <= PackedOffset[j]
             \/ PackedOffset[j] + slots[j].length <= PackedOffset[i]
  <2>1. slots[i].offset \in Nat /\ slots[j].offset \in Nat
    BY SlotTypes
  <2>2. CASE slots[i].offset = slots[j].offset
    BY <1>3, <1>4, <1>5, <2>2
  <2>3. CASE slots[i].offset > slots[j].offset
    BY <1>2, <2>3
  <2>4. CASE slots[j].offset > slots[i].offset
    BY <1>2, <2>4
  <2> QED BY <2>1, <2>2, <2>3, <2>4
<1> QED BY <1>1, <1>5

-----------------------------------------------------------------------------
(* The invariant, and what the operations are made of. *)

\* A live slot holds a record as a whole, and never bytes of two.
RecordsWhole == \A i \in LiveSlots : GetRecord(i) \in Records

PageInv == TypeOK /\ LayoutSound /\ RecordsWhole

LEMMA RecordIsSeq ==
  ASSUME NEW v \in Values, NEW n \in Lengths
  PROVE  /\ n \in Nat /\ Len(Record(v, n)) = n /\ Record(v, n) \in Records
         /\ \A k \in 1 .. n : Record(v, n)[k] = <<v, k>> /\ <<v, k>> \in Bytes
<1>1. n \in Nat /\ n <= MaxLength
  BY InputAssumption DEF Lengths
<1>2. Record(v, n) \in [1 .. n -> Values \X (1 .. MaxLength)]
  BY <1>1, InputAssumption DEF Record
<1>3. Record(v, n) \in Seq(Values \X (1 .. MaxLength))
  BY <1>1, <1>2, SeqDef
<1>4. Len(Record(v, n)) = n
  BY <1>1, <1>2, <1>3, LenProperties
<1>5. \A k \in 1 .. n : Record(v, n)[k] = <<v, k>> /\ <<v, k>> \in Bytes
  BY <1>1, InputAssumption DEF Record, Bytes
<1> QED BY <1>1, <1>4, <1>5 DEF Records

\* memcpy of a record into the page.
LEMMA CopiedBytes ==
  ASSUME NEW d \in [Offsets -> Bytes], NEW v \in Values, NEW n \in Lengths, NEW off \in Nat,
         off + n <= PAGE_SIZE
  PROVE  /\ Copied(d, off, Record(v, n)) \in [Offsets -> Bytes]
         /\ \A o \in Offsets : o < off \/ o >= off + n => Copied(d, off, Record(v, n))[o] = d[o]
         /\ \A k \in 1 .. n : /\ off + k - 1 \in Offsets
                             /\ Copied(d, off, Record(v, n))[off + k - 1] = <<v, k>>
<1>1. /\ n \in Nat /\ Len(Record(v, n)) = n
      /\ \A k \in 1 .. n : Record(v, n)[k] = <<v, k>> /\ <<v, k>> \in Bytes
  BY RecordIsSeq
<1>2. \A o \in Offsets : o \in Nat /\ (o >= off /\ o < off + n => o - off + 1 \in 1 .. n)
  BY <1>1, LayoutAssumption DEF Offsets
<1>3. Copied(d, off, Record(v, n)) =
        [o \in Offsets |-> IF o >= off /\ o < off + n THEN Record(v, n)[o - off + 1] ELSE d[o]]
  BY <1>1 DEF Copied
<1>4. \A k \in 1 .. n : off + k - 1 \in Offsets /\ off + k - 1 >= off /\ off + k - 1 < off + n
                        /\ (off + k - 1) - off + 1 = k
  BY <1>1, LayoutAssumption DEF Offsets
<1>5. Copied(d, off, Record(v, n)) \in [Offsets -> Bytes]
  BY <1>1, <1>2, <1>3
<1>6. \A o \in Offsets : o < off \/ o >= off + n => Copied(d, off, Record(v, n))[o] = d[o]
  BY <1>1, <1>2, <1>3
<1>7. \A k \in 1 .. n : Copied(d, off, Record(v, n))[off + k - 1] = <<v, k>>
  BY <1>1, <1>3, <1>4
<1> QED BY <1>4, <1>5, <1>6, <1>7

\* A call that gives one slot an entry, be it a new one.
LEMMA OneSlot ==
  ASSUME TypeOK, NEW i \in 1 .. Len(slots) + 1, NEW e \in SlotEntry,
         slots' = IF i <= num_slots THEN [slots EXCEPT ![i] = e] ELSE Append(slots, e)
  PROVE  /\ slots' \in Seq(SlotEntry) /\ DOMAIN slots' = 1 .. Len(slots')
         /\ Len(slots') = IF i <= Len(slots) THEN Len(slots) ELSE Len(slots) + 1
         /\ i \in DOMAIN slots' /\ DOMAIN slots' = DOMAIN slots \cup {i}
         /\ slots'[i] = e /\ \A j \in DOMAIN slots : j # i => slots'[j] = slots[j]
         /\ LiveSlots' = IF IsEmpty(e) THEN LiveSlots \ {i} ELSE LiveSlots \cup {i}
<1>1. /\ slots \in Seq(SlotEntry) /\ Len(slots) \in Nat /\ DOMAIN slots = 1 .. Len(slots)
      /\ i \in Nat /\ i >= 1
  BY SlotTypes DEF TypeOK
<1>2. CASE i <= Len(slots)
  <2>1. i \in 1 .. Len(slots) /\ slots' = [slots EXCEPT ![i] = e]
    BY <1>1, <1>2 DEF num_slots
  <2>2. /\ slots' \in Seq(SlotEntry) /\ Len(slots') = Len(slots)
        /\ \A j \in 1 .. Len(slots) : slots'[j] = IF j = i THEN e ELSE slots[j]
    <3>1. /\ [slots EXCEPT ![i] = e] \in Seq(SlotEntry)
          /\ Len([slots EXCEPT ![i] = e]) = Len(slots)
          /\ \A j \in 1 .. Len(slots) : [slots EXCEPT ![i] = e][j] = IF j = i THEN e ELSE slots[j]
      BY <2>1, <1>1, ExceptSeq
    <3> QED BY <2>1, <3>1
  <2>3. DOMAIN slots' = 1 .. Len(slots')
    BY <2>2, LenProperties
  <2>4. LiveSlots' = IF IsEmpty(e) THEN LiveSlots \ {i} ELSE LiveSlots \cup {i}
    BY <1>1, <2>1, <2>2, <2>3 DEF LiveSlots
  <2> QED BY <1>1, <1>2, <2>1, <2>2, <2>3, <2>4
<1>3. CASE i = Len(slots) + 1
  <2>0. ~(i <= num_slots)
    BY <1>1, <1>3 DEF num_slots
  <2>1. slots' = Append(slots, e)
    BY <2>0, Zenon
  <2>2. /\ slots' \in Seq(SlotEntry) /\ Len(slots') = Len(slots) + 1
        /\ slots'[i] = e /\ \A j \in 1 .. Len(slots) : slots'[j] = slots[j]
    <3>1. /\ Append(slots, e) \in Seq(SlotEntry) /\ Len(Append(slots, e)) = Len(slots) + 1
          /\ Append(slots, e)[Len(slots) + 1] = e
          /\ \A j \in 1 .. Len(slots) : Append(slots, e)[j] = slots[j]
      BY <1>1, AppendProperties
    <3> QED BY <1>3, <2>1, <3>1
  <2>3. DOMAIN slots' = 1 .. Len(slots')
    BY <2>2, LenProperties
  <2>4. DOMAIN slots' = DOMAIN slots \cup {i}
    BY <1>1, <1>3, <2>2, <2>3
  <2>5. LiveSlots' = IF IsEmpty(e) THEN LiveSlots \ {i} ELSE LiveSlots \cup {i}
    BY <1>1, <1>3, <2>2, <2>4 DEF LiveSlots
  <2> QED BY <1>1, <1>3, <2>2, <2>3, <2>4, <2>5
<1> QED BY <1>1, <1>2, <1>3

LEMMA FindsEmptySlot ==
  ASSUME TypeOK
  PROVE  /\ FindEmptySlot \in 1 .. Len(slots) + 1 /\ FindEmptySlot \notin LiveSlots
         /\ EmptySlots = {} => FindEmptySlot = Len(slots) + 1
         /\ EmptySlots # {} => FindEmptySlot <= Len(slots)
         /\ \A j \in 1 .. FindEmptySlot - 1 : j \in LiveSlots
<1>1. Len(slots) \in Nat /\ DOMAIN slots = 1 .. Len(slots) /\ EmptySlots = DOMAIN slots \ LiveSlots
  BY SlotTypes DEF EmptySlots, LiveSlots
<1>2. CASE EmptySlots = {}
  <2>1. FindEmptySlot = Len(slots) + 1 /\ LiveSlots = 1 .. Len(slots)
    BY <1>1, <1>2, SlotTypes DEF FindEmptySlot, num_slots
  <2> QED BY <1>1, <1>2, <2>1
<1>3. CASE EmptySlots # {}
  <2>1. EmptySlots \subseteq Nat
    BY <1>1
  <2>2. FindEmptySlot \in EmptySlots /\ \A j \in EmptySlots : FindEmptySlot <= j
    BY <1>3, <2>1, LeastNatural DEF FindEmptySlot
  <2> QED BY <1>1, <1>3, <2>2
<1> QED BY <1>2, <1>3

LEMMA UpTo ==
  ASSUME NEW m \in Nat
  PROVE  IsFiniteSet(1 .. m) /\ Cardinality(1 .. m) = m
BY FS_Interval

\* The bytes of a slot are bytes of the page.
LEMMA InSlot ==
  ASSUME TypeOK, NEW j \in LiveSlots, NEW k \in 0 .. slots[j].length - 1
  PROVE  /\ slots[j].offset + k \in Offsets /\ slots[j].offset <= slots[j].offset + k
         /\ slots[j].offset + k < slots[j].offset + slots[j].length
<1>1. /\ slots[j].offset \in Nat /\ slots[j].length \in Nat
      /\ slots[j].offset + slots[j].length <= PAGE_SIZE
  BY SlotTypes
<1> QED BY <1>1, LayoutAssumption DEF Offsets

LEMMA LiveSlotsFinite ==
  ASSUME TypeOK
  PROVE  /\ IsFiniteSet(LiveSlots) /\ Cardinality(LiveSlots) \in Nat
         /\ Cardinality(LiveSlots) <= Len(slots)
<1>1. Len(slots) \in Nat /\ LiveSlots \in SUBSET (1 .. Len(slots))
  BY SlotTypes
<1>2. IsFiniteSet(1 .. Len(slots)) /\ Cardinality(1 .. Len(slots)) = Len(slots)
  BY <1>1, FS_Interval
<1>3. IsFiniteSet(LiveSlots) /\ Cardinality(LiveSlots) <= Len(slots)
  BY <1>1, <1>2, FS_Subset
<1> QED BY <1>3, FS_CardinalityType

-----------------------------------------------------------------------------
(* What a slot holds afterwards. *)

\* A record that is where it was, or whose bytes have been moved with it.
LEMMA RecordStays ==
  ASSUME TypeOK, NEW i \in LiveSlots, i \in DOMAIN slots',
         slots'[i].offset \in Nat, slots'[i].offset > 0,
         slots'[i].length = slots[i].length, slots'[i].offset + slots[i].length <= PAGE_SIZE,
         \A k \in 0 .. slots[i].length - 1 : data'[slots'[i].offset + k] = data[slots[i].offset + k]
  PROVE  i \in LiveSlots' /\ GetRecord(i)' = GetRecord(i)
<1>1. ~IsEmpty(slots[i]) /\ ~IsEmpty(slots'[i])
  BY DEF LiveSlots, IsEmpty
<1>2. ASSUME NEW k \in 1 .. slots[i].length
      PROVE  Byte(slots[i].offset + k - 1)' = Byte(slots[i].offset + k - 1)
  <2>1. /\ slots[i].offset \in Nat /\ slots[i].length \in Nat
        /\ slots[i].offset + slots[i].length <= PAGE_SIZE
    BY SlotTypes
  <2>2. k - 1 \in 0 .. slots[i].length - 1
    BY <2>1
  <2>3. /\ slots'[i].offset + k - 1 = slots'[i].offset + (k - 1)
        /\ slots[i].offset + k - 1 = slots[i].offset + (k - 1)
    BY <2>1
  <2>4. slots'[i].offset + k - 1 \in Offsets /\ slots[i].offset + k - 1 \in Offsets
    BY <2>1, LayoutAssumption DEF Offsets
  <2>5. data'[slots'[i].offset + k - 1] = data[slots[i].offset + k - 1]
    BY <2>2, <2>3
  <2> QED BY <2>4, <2>5 DEF Byte
<1>3. i \in LiveSlots'
  BY <1>1 DEF LiveSlots
<1>4. /\ GetRecord(i) = [k \in 1 .. slots[i].length |-> Byte(slots[i].offset + k - 1)]
      /\ GetRecord(i)' = [k \in 1 .. slots[i].length |-> Byte(slots[i].offset + k - 1)']
  BY <1>1 DEF GetRecord
<1> QED BY <1>2, <1>3, <1>4

\* A record that has just been written.
LEMMA RecordWritten ==
  ASSUME TypeOK, NEW v \in Values, NEW n \in Lengths, NEW off \in Nat, NEW i \in DOMAIN slots',
         slots'[i].offset = off, slots'[i].length = n, off > 0, off + n <= PAGE_SIZE,
         data' = Copied(data, off, Record(v, n))
  PROVE  i \in LiveSlots' /\ GetRecord(i)' = Record(v, n)
<1>1. ~IsEmpty(slots'[i])
  BY DEF IsEmpty
<1>2. \A k \in 1 .. n : off + k - 1 \in Offsets /\ data'[off + k - 1] = <<v, k>>
  <2>1. data \in [Offsets -> Bytes]
    BY DEF TypeOK
  <2> QED BY <2>1, CopiedBytes
<1>3. \A k \in 1 .. n : Byte(off + k - 1)' = <<v, k>>
  BY <1>2 DEF Byte
<1>4. GetRecord(i)' = [k \in 1 .. n |-> Byte(off + k - 1)']
  BY <1>1 DEF GetRecord
<1>5. i \in LiveSlots'
  BY <1>1 DEF LiveSlots
<1> QED BY <1>3, <1>4, <1>5 DEF Record

-----------------------------------------------------------------------------
(* The record operations. *)

\* A record written where free space ends joins or moves to the others.
LEMMA PutAtEnd ==
  ASSUME PageInv, NEW v \in Values, NEW n \in Lengths, NEW i \in 1 .. Len(slots) + 1,
         NEW off \in Nat, off + n = free_space_end, free_space_offset' <= off,
         data' = Copied(data, off, Record(v, n)), free_space_end' = off,
         slots' = IF i <= num_slots THEN [slots EXCEPT ![i] = [offset |-> off, length |-> n]]
                  ELSE Append(slots, [offset |-> off, length |-> n]),
         free_space_offset' = SlotDirectoryEnd', free_space_offset' \in Nat,
         num_records' = Cardinality(LiveSlots \cup {i})
  PROVE  /\ TypeOK' /\ LayoutSound'
         /\ DOMAIN slots' = DOMAIN slots \cup {i} /\ LiveSlots' = LiveSlots \cup {i}
         /\ Len(slots') = IF i <= Len(slots) THEN Len(slots) ELSE Len(slots) + 1
         /\ GetRecord(i)' = Record(v, n)
         /\ \A j \in LiveSlots : j # i => GetRecord(j)' = GetRecord(j)
<1> DEFINE e == [offset |-> off, length |-> n]
<1>1. TypeOK /\ LayoutSound
  BY DEF PageInv
<1>2. /\ free_space_end > 0 /\ free_space_end \in Nat /\ free_space_end <= PAGE_SIZE
      /\ \A j \in LiveSlots : slots[j].offset > 0 /\ free_space_end <= slots[j].offset
  BY <1>1, LiveOffsets DEF TypeOK
<1>3. n \in Nat /\ n <= MaxLength /\ off + n <= PAGE_SIZE /\ off > 0
  <2>1. free_space_offset' > 0
    <3>1. Len(slots') * SLOT_ENTRY_SIZE \in Nat
      <4>1. Len(slots') \in Nat
        <5>1. e \in SlotEntry
          BY <1>2, LayoutAssumption, InputAssumption DEF SlotEntry, Lengths
        <5>2. slots' \in Seq(SlotEntry)
          BY <1>1, <5>1, OneSlot
        <5> QED BY <5>2, LenProperties
      <4> QED BY <4>1, LayoutAssumption
    <3> QED BY <3>1, LayoutAssumption DEF SlotDirectoryEnd, num_slots
  <2> QED BY <1>2, <2>1, InputAssumption DEF Lengths
<1>4. e \in SlotEntry /\ ~IsEmpty(e)
  BY <1>2, <1>3, LayoutAssumption DEF SlotEntry, IsEmpty
<1>5. /\ slots' \in Seq(SlotEntry) /\ DOMAIN slots' = 1 .. Len(slots')
      /\ Len(slots') = IF i <= Len(slots) THEN Len(slots) ELSE Len(slots) + 1
      /\ i \in DOMAIN slots' /\ DOMAIN slots' = DOMAIN slots \cup {i}
      /\ slots'[i] = e /\ \A j \in DOMAIN slots : j # i => slots'[j] = slots[j]
      /\ LiveSlots' = LiveSlots \cup {i}
  BY <1>1, <1>4, OneSlot
<1>6. /\ data' \in [Offsets -> Bytes]
      /\ \A o \in Offsets : o >= free_space_end => data'[o] = data[o]
  <2>1. data \in [Offsets -> Bytes]
    BY <1>1 DEF TypeOK
  <2> QED BY <1>3, <2>1, CopiedBytes
<1>7. TypeOK'
  <2>1. \A j \in DOMAIN slots' : slots'[j].offset + slots'[j].length <= PAGE_SIZE
    BY <1>1, <1>3, <1>5 DEF TypeOK
  <2>2. num_records' \in 0 .. Len(slots')
    <3>1. LiveSlots \cup {i} \subseteq 1 .. Len(slots') /\ Len(slots') \in Nat
      BY <1>1, <1>5, SlotTypes
    <3>2. Cardinality(LiveSlots \cup {i}) \in Nat /\ Cardinality(LiveSlots \cup {i}) <= Len(slots')
      <4>1. IsFiniteSet(1 .. Len(slots')) /\ Cardinality(1 .. Len(slots')) = Len(slots')
        BY <3>1, UpTo
      <4>2. /\ IsFiniteSet(LiveSlots \cup {i})
            /\ Cardinality(LiveSlots \cup {i}) <= Cardinality(1 .. Len(slots'))
        BY <3>1, <4>1, FS_Subset
      <4> QED BY <4>1, <4>2, FS_CardinalityType
    <3> QED BY <3>1, <3>2
  <2>3. free_space_offset' \in 0 .. PAGE_SIZE /\ free_space_end' \in 0 .. PAGE_SIZE
    BY <1>2, <1>3, LayoutAssumption
  <2> QED BY <1>5, <1>6, <2>1, <2>2, <2>3 DEF TypeOK
<1>8. ASSUME NEW j \in LiveSlots, j # i
      PROVE  /\ j \in DOMAIN slots' /\ slots'[j] = slots[j]
             /\ slots'[i].offset + slots'[i].length <= slots'[j].offset
             /\ off <= slots'[j].offset
  BY <1>1, <1>2, <1>3, <1>5, <1>8, SlotTypes
<1>9. LayoutSound'
  <2>1. \A j \in LiveSlots' : free_space_end' <= slots'[j].offset
    BY <1>5, <1>8
  <2>2. ASSUME NEW j \in LiveSlots', NEW k \in LiveSlots', j # k
        PROVE  \/ slots'[j].offset + slots'[j].length <= slots'[k].offset
               \/ slots'[k].offset + slots'[k].length <= slots'[j].offset
    <3>1. CASE j = i \/ k = i
      BY <1>5, <1>8, <2>2, <3>1
    <3>2. CASE j # i /\ k # i
      BY <1>1, <1>5, <1>8, <2>2, <3>2 DEF LayoutSound
    <3> QED BY <3>1, <3>2
  <2> QED BY <1>5, <2>1, <2>2 DEF LayoutSound
<1>10. GetRecord(i)' = Record(v, n)
  BY <1>1, <1>3, <1>5, RecordWritten
<1>11. ASSUME NEW j \in LiveSlots, j # i PROVE GetRecord(j)' = GetRecord(j)
  <2>1. /\ slots[j].offset \in Nat /\ slots[j].length \in Nat /\ slots[j].offset > 0
        /\ slots[j].offset + slots[j].length <= PAGE_SIZE /\ free_space_end <= slots[j].offset
    BY <1>1, <1>2, SlotTypes
  <2>2. ASSUME NEW k \in 0 .. slots[j].length - 1
        PROVE  data'[slots[j].offset + k] = data[slots[j].offset + k]
    <3>1. slots[j].offset + k \in Offsets /\ slots[j].offset <= slots[j].offset + k
      BY <1>1, InSlot
    <3>2. slots[j].offset + k >= free_space_end
      BY <1>2, <2>1, <3>1, LayoutAssumption DEF Offsets
    <3> QED BY <1>6, <3>1, <3>2
  <2> QED BY <1>1, <1>8, <1>11, <2>1, <2>2, RecordStays
<1> QED BY <1>5, <1>7, <1>9, <1>10, <1>11

LEMMA InsertStep ==
  ASSUME PageInv, NEW v \in Values, NEW n \in Lengths, InsertRecord(v, n),
         NEW id, id = FindEmptySlot
  PROVE  /\ TypeOK' /\ LayoutSound'
         /\ DOMAIN slots' = DOMAIN slots \cup {id}
         /\ LiveSlots' = LiveSlots \cup {id}
         /\ Len(slots') = IF id <= Len(slots) THEN Len(slots) ELSE Len(slots) + 1
         /\ GetRecord(id)' = Record(v, n)
         /\ \A j \in LiveSlots : j # id => GetRecord(j)' = GetRecord(j)
<1>0. PICK off : off = free_space_end - n
  OBVIOUS
<1> DEFINE e == [offset |-> off, length |-> n]
<1>1. TypeOK /\ LayoutSound /\ Len(slots) \in Nat
  BY SlotTypes DEF PageInv
<1>2. /\ id \in 1 .. Len(slots) + 1 /\ id \notin LiveSlots
      /\ EmptySlots = {} => id = Len(slots) + 1
      /\ EmptySlots # {} => id <= Len(slots)
  BY <1>1, FindsEmptySlot
<1>3. /\ free_space_end \in Nat /\ free_space_offset \in Nat /\ free_space_end <= PAGE_SIZE
      /\ n \in Nat /\ SlotOverhead \in Nat
  BY <1>1, LayoutAssumption, InputAssumption DEF TypeOK, Lengths, SlotOverhead
<1>4. n + SlotOverhead <= free_space_end - free_space_offset
  BY DEF InsertRecord, Fits
<1>5. off \in Nat /\ off + n = free_space_end /\ free_space_offset + SlotOverhead <= off
  BY <1>0, <1>3, <1>4
<1>6. Sub(free_space_end, n) = off
  BY <1>0, <1>3, <1>5, LayoutAssumption DEF Sub
<1>7. /\ data' = Copied(data, off, Record(v, n)) /\ free_space_end' = off
      /\ slots' = IF id <= num_slots THEN [slots EXCEPT ![id] = e] ELSE Append(slots, e)
      /\ free_space_offset' = free_space_offset + SlotOverhead
      /\ num_records' = num_records + 1
  BY <1>6 DEF InsertRecord
<1>8. num_records' = Cardinality(LiveSlots \cup {id})
  BY <1>1, <1>2, <1>7, LiveSlotsFinite, FS_AddElement DEF LayoutSound
<1>9. free_space_offset' = SlotDirectoryEnd' /\ free_space_offset' \in Nat
  <2>1. e \in SlotEntry
    BY <1>3, <1>5, LayoutAssumption, InputAssumption DEF SlotEntry, Lengths
  <2>2. Len(slots') = IF id <= Len(slots) THEN Len(slots) ELSE Len(slots) + 1
    BY <1>1, <1>2, <1>7, <2>1, OneSlot
  <2>3. (Len(slots) + 1) * SLOT_ENTRY_SIZE = Len(slots) * SLOT_ENTRY_SIZE + SLOT_ENTRY_SIZE
    BY <1>1, LayoutAssumption
  <2>4. free_space_offset = HEADER_SIZE + Len(slots) * SLOT_ENTRY_SIZE
    BY <1>1 DEF LayoutSound, SlotDirectoryEnd, num_slots
  <2>5. Len(slots') * SLOT_ENTRY_SIZE = Len(slots) * SLOT_ENTRY_SIZE + SlotOverhead
    <3>1. CASE EmptySlots = {}
      BY <1>1, <1>2, <2>2, <2>3, <3>1 DEF SlotOverhead
    <3>2. CASE EmptySlots # {}
      <4>1. Len(slots') = Len(slots) /\ SlotOverhead = 0
        BY <1>2, <2>2, <3>2 DEF SlotOverhead
      <4>2. Len(slots) * SLOT_ENTRY_SIZE \in Nat
        BY <1>1, LayoutAssumption
      <4> QED BY <4>1, <4>2
    <3> QED BY <3>1, <3>2
  <2>6. Len(slots) * SLOT_ENTRY_SIZE \in Nat
    BY <1>1, LayoutAssumption
  <2>7. SlotDirectoryEnd' = HEADER_SIZE + Len(slots') * SLOT_ENTRY_SIZE
    BY DEF SlotDirectoryEnd, num_slots
  <2>8. SlotDirectoryEnd' = HEADER_SIZE + (Len(slots) * SLOT_ENTRY_SIZE + SlotOverhead)
    BY <2>5, <2>7
  <2>9. free_space_offset' = (HEADER_SIZE + Len(slots) * SLOT_ENTRY_SIZE) + SlotOverhead
    BY <1>7, <2>4
  <2>10. HEADER_SIZE \in Nat
    BY LayoutAssumption
  <2> QED BY <1>3, <2>6, <2>8, <2>9, <2>10
<1>10. free_space_offset' <= off
  BY <1>5, <1>7
<1> QED BY <1>2, <1>5, <1>7, <1>8, <1>9, <1>10, PutAtEnd

LEMMA UpdateMovedStep ==
  ASSUME ~GrowUnchecked, PageInv, NEW i \in DOMAIN slots, NEW v \in Values, NEW n \in Lengths,
         UpdateMoved(i, v, n)
  PROVE  /\ TypeOK' /\ LayoutSound' /\ i \in LiveSlots
         /\ DOMAIN slots' = DOMAIN slots /\ LiveSlots' = LiveSlots
         /\ GetRecord(i)' = Record(v, n)
         /\ \A j \in LiveSlots : j # i => GetRecord(j)' = GetRecord(j)
<1>1. PICK off : off = free_space_end - n
  OBVIOUS
<1> DEFINE e == [offset |-> off, length |-> n]
<1>2. TypeOK /\ LayoutSound /\ Len(slots) \in Nat /\ i \in 1 .. Len(slots)
  BY SlotTypes DEF PageInv
<1>3. i \in LiveSlots
  BY DEF UpdateMoved, LiveSlots
<1>4. /\ free_space_end \in Nat /\ free_space_offset \in Nat /\ free_space_end <= PAGE_SIZE
      /\ n \in Nat /\ slots[i].length \in Nat
  BY <1>2, SlotTypes, LayoutAssumption, InputAssumption DEF TypeOK, Lengths
<1>5. n > 0 /\ n <= free_space_end - free_space_offset
  BY <1>4 DEF UpdateMoved, GetFreeSpace
<1>6. off \in Nat /\ off + n = free_space_end /\ free_space_offset <= off
  BY <1>1, <1>4, <1>5
<1>7. Sub(free_space_end, n) = off
  BY <1>1, <1>4, <1>6, LayoutAssumption DEF Sub
<1>8. /\ data' = Copied(data, off, Record(v, n)) /\ free_space_end' = off
      /\ slots' = [slots EXCEPT ![i] = e]
      /\ free_space_offset' = free_space_offset /\ num_records' = num_records
  BY <1>7 DEF UpdateMoved
<1>9. slots' = IF i <= num_slots THEN [slots EXCEPT ![i] = e] ELSE Append(slots, e)
  BY <1>2, <1>8 DEF num_slots
<1>10. num_records' = Cardinality(LiveSlots \cup {i})
  <2>1. LiveSlots \cup {i} = LiveSlots
    BY <1>3
  <2> QED BY <1>2, <1>8, <2>1 DEF LayoutSound
<1>11. free_space_offset' = SlotDirectoryEnd' /\ free_space_offset' \in Nat
  <2>1. e \in SlotEntry
    BY <1>4, <1>6, LayoutAssumption, InputAssumption DEF SlotEntry, Lengths
  <2>2. Len(slots') = Len(slots)
    BY <1>2, <1>9, <2>1, OneSlot
  <2> QED BY <1>2, <1>4, <1>8, <2>2 DEF LayoutSound, SlotDirectoryEnd, num_slots
<1>12. /\ TypeOK' /\ LayoutSound'
       /\ DOMAIN slots' = DOMAIN slots \cup {i} /\ LiveSlots' = LiveSlots \cup {i}
       /\ GetRecord(i)' = Record(v, n)
       /\ \A j \in LiveSlots : j # i => GetRecord(j)' = GetRecord(j)
  <2>1. i \in 1 .. Len(slots) + 1 /\ free_space_offset' <= off
    BY <1>2, <1>6, <1>8
  <2> QED BY <1>6, <1>8, <1>9, <1>10, <1>11, <2>1, PutAtEnd
<1>13. LiveSlots \cup {i} = LiveSlots /\ DOMAIN slots \cup {i} = DOMAIN slots
  BY <1>3
<1> QED BY <1>3, <1>12, <1>13

\* A record that has become shorter leaves a hole behind it.
LEMMA UpdateInPlaceStep ==
  ASSUME PageInv, NEW i \in DOMAIN slots, NEW v \in Values, NEW n \in Lengths,
         UpdateInPlace(i, v, n)
  PROVE  /\ TypeOK' /\ LayoutSound' /\ i \in LiveSlots
         /\ DOMAIN slots' = DOMAIN slots /\ LiveSlots' = LiveSlots
         /\ GetRecord(i)' = Record(v, n)
         /\ \A j \in LiveSlots : j # i => GetRecord(j)' = GetRecord(j)
<1>1. PICK off : off = slots[i].offset
  OBVIOUS
<1> DEFINE e == [offset |-> off, length |-> n]
<1>2. TypeOK /\ LayoutSound /\ Len(slots) \in Nat /\ i \in 1 .. Len(slots)
  BY SlotTypes DEF PageInv
<1>3. i \in LiveSlots
  BY DEF UpdateInPlace, LiveSlots
<1>4. /\ off \in Nat /\ off > 0 /\ off < Word /\ slots[i].length \in Nat
      /\ off + slots[i].length <= PAGE_SIZE /\ n \in Nat /\ n <= slots[i].length
      /\ slots[i] = [offset |-> off, length |-> slots[i].length]
  BY <1>1, <1>2, <1>3, SlotTypes, LiveOffsets, InputAssumption DEF UpdateInPlace, Lengths
<1>5. off + n <= PAGE_SIZE
  BY <1>4, LayoutAssumption
<1>6. /\ data' = Copied(data, off, Record(v, n)) /\ free_space_end' = free_space_end
      /\ slots' = [slots EXCEPT ![i] = e]
      /\ free_space_offset' = free_space_offset /\ num_records' = num_records
  <2>1. [slots[i] EXCEPT !.length = n] = e
    BY <1>4
  <2> QED BY <1>1, <2>1 DEF UpdateInPlace
<1>7. e \in SlotEntry /\ ~IsEmpty(e)
  BY <1>4, LayoutAssumption, InputAssumption DEF SlotEntry, IsEmpty, Lengths
<1>8. slots' = IF i <= num_slots THEN [slots EXCEPT ![i] = e] ELSE Append(slots, e)
  BY <1>2, <1>6 DEF num_slots
<1>9. /\ slots' \in Seq(SlotEntry) /\ DOMAIN slots' = DOMAIN slots \cup {i}
      /\ Len(slots') = Len(slots) /\ LiveSlots' = LiveSlots \cup {i}
      /\ slots'[i] = e /\ \A j \in DOMAIN slots : j # i => slots'[j] = slots[j]
  BY <1>2, <1>7, <1>8, OneSlot
<1>10. DOMAIN slots' = DOMAIN slots /\ LiveSlots' = LiveSlots
  BY <1>3, <1>9
<1>11. /\ data' \in [Offsets -> Bytes]
       /\ \A o \in Offsets : o < off \/ o >= off + slots[i].length => data'[o] = data[o]
  <2>1. data \in [Offsets -> Bytes]
    BY <1>2 DEF TypeOK
  <2>2. \A o \in Offsets : o \in Nat /\ (o >= off + slots[i].length => o >= off + n)
    BY <1>4, LayoutAssumption DEF Offsets
  <2>3. /\ data' \in [Offsets -> Bytes]
        /\ \A o \in Offsets : o < off \/ o >= off + n => data'[o] = data[o]
    BY <1>4, <1>5, <1>6, <2>1, CopiedBytes
  <2> QED BY <2>2, <2>3
<1>12. TypeOK'
  <2>1. \A j \in DOMAIN slots' : slots'[j].offset + slots'[j].length <= PAGE_SIZE
    BY <1>2, <1>5, <1>9, <1>10 DEF TypeOK
  <2> QED BY <1>2, <1>6, <1>9, <1>11, <2>1 DEF TypeOK
<1>13. LayoutSound'
  <2>1. free_space_offset' = SlotDirectoryEnd'
    BY <1>2, <1>6, <1>9 DEF LayoutSound, SlotDirectoryEnd, num_slots
  <2>2. \A j \in LiveSlots : slots'[j].offset = slots[j].offset
    BY <1>1, <1>2, <1>9, SlotTypes
  <2>3. \A j \in LiveSlots : free_space_end' <= slots'[j].offset
    BY <1>2, <1>6, <2>2 DEF LayoutSound
  <2>4. \A j \in LiveSlots : /\ slots[j].offset \in Nat /\ slots[j].length \in Nat
                            /\ slots'[j].length \in Nat /\ slots'[j].length <= slots[j].length
    BY <1>2, <1>4, <1>9, SlotTypes
  <2>5. ASSUME NEW j \in LiveSlots, NEW k \in LiveSlots, j # k
        PROVE  \/ slots'[j].offset + slots'[j].length <= slots'[k].offset
               \/ slots'[k].offset + slots'[k].length <= slots'[j].offset
    <3>1. \/ slots[j].offset + slots[j].length <= slots[k].offset
          \/ slots[k].offset + slots[k].length <= slots[j].offset
      BY <1>2, <2>5 DEF LayoutSound
    <3> QED BY <2>2, <2>4, <3>1
  <2> QED BY <1>2, <1>6, <1>10, <2>1, <2>3, <2>5 DEF LayoutSound
<1>14. GetRecord(i)' = Record(v, n)
  BY <1>2, <1>4, <1>5, <1>6, <1>9, RecordWritten
<1>15. ASSUME NEW j \in LiveSlots, j # i PROVE GetRecord(j)' = GetRecord(j)
  <2>1. /\ slots'[j] = slots[j] /\ j \in DOMAIN slots' /\ slots[j].offset > 0
        /\ slots[j].offset \in Nat /\ slots[j].length \in Nat
        /\ slots[j].offset + slots[j].length <= PAGE_SIZE
    BY <1>2, <1>9, <1>15, SlotTypes, LiveOffsets
  <2>2. ASSUME NEW k \in 0 .. slots[j].length - 1
        PROVE  data'[slots[j].offset + k] = data[slots[j].offset + k]
    <3>1. /\ slots[j].offset + k \in Offsets /\ slots[j].offset <= slots[j].offset + k
          /\ slots[j].offset + k < slots[j].offset + slots[j].length
      BY <1>2, InSlot
    <3>2. \/ slots[j].offset + slots[j].length <= off
          \/ off + slots[i].length <= slots[j].offset
      BY <1>1, <1>2, <1>3, <1>15 DEF LayoutSound
    <3>3. \/ slots[j].offset + k < off
          \/ slots[j].offset + k >= off + slots[i].length
      BY <1>4, <2>1, <3>1, <3>2
    <3> QED BY <1>11, <3>1, <3>3
  <2> QED BY <1>2, <2>1, <2>2, RecordStays
<1> QED BY <1>3, <1>10, <1>12, <1>13, <1>14, <1>15

LEMMA DeleteStep ==
  ASSUME PageInv, NEW i \in DOMAIN slots, DeleteRecord(i)
  PROVE  /\ TypeOK' /\ LayoutSound' /\ i \in LiveSlots
         /\ DOMAIN slots' = DOMAIN slots /\ LiveSlots' = LiveSlots \ {i}
         /\ \A j \in LiveSlots \ {i} : GetRecord(j)' = GetRecord(j)
<1>1. TypeOK /\ LayoutSound /\ Len(slots) \in Nat /\ i \in 1 .. Len(slots)
  BY SlotTypes DEF PageInv
<1>2. i \in LiveSlots
  BY DEF DeleteRecord, LiveSlots
<1>3. Tombstone \in SlotEntry /\ IsEmpty(Tombstone)
  BY LayoutAssumption DEF Tombstone, SlotEntry, IsEmpty
<1>4. /\ slots' = IF i <= num_slots THEN [slots EXCEPT ![i] = Tombstone] ELSE Append(slots, Tombstone)
      /\ data' = data /\ free_space_offset' = free_space_offset
      /\ free_space_end' = free_space_end /\ num_records' = num_records - 1
  BY <1>1 DEF DeleteRecord, RecordsAfterDelete, num_slots
<1>5. /\ slots' \in Seq(SlotEntry) /\ DOMAIN slots' = DOMAIN slots \cup {i}
      /\ Len(slots') = Len(slots) /\ LiveSlots' = LiveSlots \ {i}
      /\ slots'[i] = Tombstone /\ \A j \in DOMAIN slots : j # i => slots'[j] = slots[j]
  BY <1>1, <1>3, <1>4, OneSlot
<1>6. DOMAIN slots' = DOMAIN slots
  BY <1>5
<1>7. num_records' = Cardinality(LiveSlots')
  BY <1>1, <1>2, <1>4, <1>5, LiveSlotsFinite, FS_RemoveElement DEF LayoutSound
<1>8. Cardinality(LiveSlots') \in 0 .. Len(slots)
  <2>1. /\ IsFiniteSet(LiveSlots) /\ Cardinality(LiveSlots) <= Len(slots)
        /\ Cardinality(LiveSlots) \in Nat
    BY <1>1, LiveSlotsFinite
  <2>2. IsFiniteSet(LiveSlots') /\ Cardinality(LiveSlots') = Cardinality(LiveSlots) - 1
    BY <1>2, <1>5, <2>1, FS_RemoveElement
  <2>3. Cardinality(LiveSlots') \in Nat
    BY <2>2, FS_CardinalityType
  <2> QED BY <1>1, <2>1, <2>2, <2>3
<1>9. TypeOK'
  <2>1. \A j \in DOMAIN slots' : slots'[j].offset + slots'[j].length <= PAGE_SIZE
    BY <1>1, <1>5, <1>6, LayoutAssumption DEF TypeOK, Tombstone
  <2> QED BY <1>1, <1>4, <1>5, <1>7, <1>8, <2>1 DEF TypeOK
<1>10. \A j \in LiveSlots' : j \in LiveSlots /\ slots'[j] = slots[j]
  BY <1>1, <1>5, SlotTypes
<1>11. LayoutSound'
  <2>1. free_space_offset' = SlotDirectoryEnd'
    BY <1>1, <1>4, <1>5 DEF LayoutSound, SlotDirectoryEnd, num_slots
  <2> QED BY <1>1, <1>4, <1>7, <1>10, <2>1 DEF LayoutSound
<1>12. \A j \in LiveSlots \ {i} : GetRecord(j)' = GetRecord(j)
  <2> SUFFICES ASSUME NEW j \in LiveSlots \ {i} PROVE GetRecord(j)' = GetRecord(j)
    OBVIOUS
  <2>1. slots'[j] = slots[j]
    BY <1>5, <1>10
  <2>2. \A o : Byte(o)' = Byte(o)
    BY <1>4 DEF Byte
  <2>3. GetRecord(j)' = IF IsEmpty(slots'[j]) THEN NoRecord
                        ELSE [k \in 1 .. slots'[j].length |-> Byte(slots[j].offset + k - 1)']
    BY <2>1 DEF GetRecord
  <2> QED BY <2>1, <2>2, <2>3 DEF GetRecord
<1> QED BY <1>2, <1>5, <1>6, <1>9, <1>11, <1>12

LEMMA SaveStep ==
  ASSUME PageInv, SaveAndLoad
  PROVE  /\ TypeOK' /\ LayoutSound' /\ slots' = slots /\ LiveSlots' = LiveSlots
         /\ \A j \in LiveSlots : GetRecord(j)' = GetRecord(j)
<1>1. TypeOK /\ LayoutSound
  BY DEF PageInv
<1>2. /\ slots' = slots /\ free_space_offset' = free_space_offset
      /\ free_space_end' = free_space_end /\ num_records' = num_records
      /\ data' = [o \in Offsets |-> IF o < SlotDirectoryEnd THEN Junk ELSE data[o]]
  BY DEF SaveAndLoad
<1>3. data' \in [Offsets -> Bytes]
  BY <1>1, <1>2 DEF TypeOK, Bytes
<1>4. LiveSlots' = LiveSlots
  BY <1>2 DEF LiveSlots
<1>5. TypeOK'
  BY <1>1, <1>2, <1>3 DEF TypeOK
<1>6. LayoutSound'
  BY <1>1, <1>2, <1>4 DEF LayoutSound, SlotDirectoryEnd, num_slots
<1>7. ASSUME NEW j \in LiveSlots PROVE GetRecord(j)' = GetRecord(j)
  <2>1. /\ slots'[j] = slots[j] /\ j \in DOMAIN slots' /\ slots[j].offset > 0
        /\ slots[j].offset \in Nat /\ slots[j].length \in Nat
        /\ slots[j].offset + slots[j].length <= PAGE_SIZE
    BY <1>1, <1>2, SlotTypes, LiveOffsets
  <2>2. ASSUME NEW k \in 0 .. slots[j].length - 1
        PROVE  data'[slots[j].offset + k] = data[slots[j].offset + k]
    <3>1. slots[j].offset + k \in Offsets /\ slots[j].offset <= slots[j].offset + k
      BY <1>1, InSlot
    <3>2. /\ SlotDirectoryEnd = free_space_offset /\ free_space_offset \in Nat
          /\ free_space_offset <= slots[j].offset
      BY <1>1, LiveOffsets, <2>1 DEF LayoutSound
    <3>3. ~(slots[j].offset + k < SlotDirectoryEnd)
      BY <2>1, <3>1, <3>2
    <3> QED BY <1>2, <3>1, <3>3
  <2> QED BY <1>1, <2>1, <2>2, RecordStays
<1> QED BY <1>2, <1>4, <1>5, <1>6, <1>7

\* Packing takes every record to its new place with all its bytes.
LEMMA CompactStep ==
  ASSUME PageInv, Compact
  PROVE  /\ TypeOK' /\ LayoutSound'
         /\ DOMAIN slots' = DOMAIN slots /\ LiveSlots' = LiveSlots
         /\ \A j \in LiveSlots : GetRecord(j)' = GetRecord(j)
<1>1. TypeOK /\ LayoutSound /\ Len(slots) \in Nat /\ DOMAIN slots = 1 .. Len(slots)
  BY SlotTypes DEF PageInv
<1>2. PICK packed : packed = PackedOffset
  OBVIOUS
<1> DEFINE here(o) == {i \in LiveSlots : o >= packed[i] /\ o < packed[i] + slots[i].length}
<1>3. /\ slots' = [i \in DOMAIN slots |-> IF i \in LiveSlots
                                          THEN [slots[i] EXCEPT !.offset = packed[i]]
                                          ELSE slots[i]]
      /\ data' = [o \in Offsets |->
                    IF here(o) = {} THEN data[o]
                    ELSE LET i == CHOOSE i \in here(o) : TRUE
                         IN  data[slots[i].offset + o - packed[i]]]
      /\ free_space_end' = WritePos({packed[i] : i \in LiveSlots})
      /\ free_space_offset' = free_space_offset /\ num_records' = num_records
  BY <1>2 DEF Compact
<1>4. \A i \in LiveSlots : /\ packed[i] \in Nat /\ slots[i].offset <= packed[i] /\ packed[i] > 0
                          /\ packed[i] + slots[i].length <= PAGE_SIZE
  <2> SUFFICES ASSUME NEW i \in LiveSlots
               PROVE  /\ packed[i] \in Nat /\ slots[i].offset <= packed[i] /\ packed[i] > 0
                      /\ packed[i] + slots[i].length <= PAGE_SIZE
    OBVIOUS
  <2>1. packed[i] \in Nat /\ slots[i].offset <= packed[i] /\ packed[i] + slots[i].length <= PAGE_SIZE
    BY <1>1, <1>2, PackedAbove, PackedApart
  <2>2. slots[i].offset \in Nat /\ slots[i].offset > 0
    BY <1>1, SlotTypes, LiveOffsets
  <2> QED BY <2>1, <2>2
<1>5. \A i, j \in LiveSlots : i # j => \/ packed[i] + slots[i].length <= packed[j]
                                     \/ packed[j] + slots[j].length <= packed[i]
  BY <1>1, <1>2, PackedApart
<1>6. \A i \in LiveSlots : /\ slots'[i] = [offset |-> packed[i], length |-> slots[i].length]
                          /\ slots'[i].offset = packed[i] /\ slots'[i].length = slots[i].length
                          /\ slots'[i] \in SlotEntry
  <2> SUFFICES ASSUME NEW i \in LiveSlots
               PROVE  /\ slots'[i] = [offset |-> packed[i], length |-> slots[i].length]
                      /\ slots'[i].offset = packed[i] /\ slots'[i].length = slots[i].length
                      /\ slots'[i] \in SlotEntry
    OBVIOUS
  <2>1. i \in DOMAIN slots /\ slots[i] = [offset |-> slots[i].offset, length |-> slots[i].length]
    BY <1>1, SlotTypes
  <2>2. slots'[i] = [slots[i] EXCEPT !.offset = packed[i]]
    BY <1>3, <2>1
  <2>3. slots'[i] = [offset |-> packed[i], length |-> slots[i].length]
    BY <2>1, <2>2
  <2>4. packed[i] \in 0 .. Word - 1 /\ slots[i].length \in 0 .. Word - 1
    BY <1>1, <1>4, SlotTypes, LayoutAssumption
  <2> QED BY <2>3, <2>4 DEF SlotEntry
<1>7. \A i \in DOMAIN slots : i \notin LiveSlots => slots'[i] = slots[i]
  BY <1>3
<1>8. DOMAIN slots' = 1 .. Len(slots) /\ slots' \in Seq(SlotEntry) /\ Len(slots') = Len(slots)
  <2>1. DOMAIN slots' = 1 .. Len(slots)
    BY <1>1, <1>3
  <2>2. \A i \in 1 .. Len(slots) : slots'[i] \in SlotEntry
    BY <1>1, <1>6, <1>7, ElementOfSeq DEF TypeOK
  <2>3. slots' \in [1 .. Len(slots) -> SlotEntry]
    BY <1>1, <1>3, <2>2
  <2>4. slots' \in Seq(SlotEntry)
    BY <1>1, <2>3, SeqDef
  <2> QED BY <1>1, <2>1, <2>4, LenProperties
<1>9. LiveSlots' = LiveSlots
  <2>1. \A i \in LiveSlots : ~IsEmpty(slots'[i])
    <3> SUFFICES ASSUME NEW i \in LiveSlots PROVE slots'[i].offset # 0
      BY DEF IsEmpty
    <3>1. packed[i] \in Nat /\ packed[i] > 0
      BY <1>4
    <3>2. slots'[i].offset = packed[i]
      BY <1>6
    <3> QED BY <3>1, <3>2
  <2> QED BY <1>1, <1>7, <1>8, <2>1 DEF LiveSlots
<1>10. ASSUME NEW i \in LiveSlots, NEW k \in 0 .. slots[i].length - 1
       PROVE  packed[i] + k \in Offsets /\ data'[packed[i] + k] = data[slots[i].offset + k]
  <2>1. k \in Nat /\ k < slots[i].length /\ slots[i].offset \in Nat /\ slots[i].length \in Nat
    BY <1>1, SlotTypes
  <2>2. packed[i] + k \in Offsets
    BY <1>4, <2>1, LayoutAssumption DEF Offsets
  <2>3. i \in here(packed[i] + k)
    BY <1>4, <2>1
  <2>4. ASSUME NEW j \in here(packed[i] + k) PROVE j = i
    <3>1. j \in LiveSlots /\ packed[i] + k >= packed[j] /\ packed[i] + k < packed[j] + slots[j].length
      OBVIOUS
    <3>2. slots[j].length \in Nat
      BY <1>1, <3>1, SlotTypes
    <3> QED BY <1>4, <1>5, <2>1, <3>1, <3>2
  <2>5. here(packed[i] + k) = {i}
    BY <2>3, <2>4
  <2>6. data'[packed[i] + k] = data[slots[i].offset + (packed[i] + k) - packed[i]]
    <3>1. (CHOOSE j \in {i} : TRUE) = i
      OBVIOUS
    <3> HIDE DEF here
    <3> QED BY <1>3, <2>2, <2>5, <3>1
  <2>7. slots[i].offset + (packed[i] + k) - packed[i] = slots[i].offset + k
    BY <1>4, <2>1
  <2> QED BY <2>2, <2>6, <2>7
<1>11. data' \in [Offsets -> Bytes]
  <2>1. data \in [Offsets -> Bytes]
    BY <1>1 DEF TypeOK
  <2>2. ASSUME NEW o \in Offsets PROVE data'[o] \in Bytes
    <3>1. CASE here(o) = {}
      BY <1>3, <2>1, <3>1
    <3>2. CASE here(o) # {}
      <4>1. PICK i \in LiveSlots : o >= packed[i] /\ o < packed[i] + slots[i].length
        BY <3>2
      <4>2. o \in Nat /\ slots[i].length \in Nat
        BY <1>1, <4>1, SlotTypes, LayoutAssumption DEF Offsets
      <4>3. o - packed[i] \in 0 .. slots[i].length - 1 /\ packed[i] + (o - packed[i]) = o
        BY <1>4, <4>1, <4>2
      <4>4. data'[o] = data[slots[i].offset + (o - packed[i])]
        BY <1>10, <4>1, <4>3
      <4> QED BY <1>1, <2>1, <4>1, <4>3, <4>4, InSlot
    <3> QED BY <3>1, <3>2
  <2>3. data' = [o \in Offsets |-> data'[o]]
    BY <1>3
  <2> QED BY <2>2, <2>3
<1>12. /\ free_space_end' \in Nat /\ free_space_end' <= PAGE_SIZE
       /\ free_space_offset <= free_space_end'
       /\ \A i \in LiveSlots : free_space_end' <= packed[i]
  <2> DEFINE S == {packed[i] : i \in LiveSlots}
  <2>1. S \subseteq Nat
    BY <1>4
  <2>2. \A i \in LiveSlots : free_space_offset <= packed[i]
    BY <1>1, <1>4, LiveOffsets, SlotTypes DEF LayoutSound
  <2>3. free_space_offset <= PAGE_SIZE
    BY <1>1, LayoutAssumption DEF TypeOK
  <2>4. free_space_end' = WritePos(S)
    BY <1>3
  <2>5. \A k \in S : free_space_offset <= k
    BY <2>2
  <2>6. \A i \in LiveSlots : packed[i] \in S
    OBVIOUS
  <2> HIDE DEF S
  <2> QED BY <2>1, <2>3, <2>4, <2>5, <2>6, WritePosIsLeast
<1>13. TypeOK'
  <2>1. \A i \in DOMAIN slots' : slots'[i].offset + slots'[i].length <= PAGE_SIZE
    BY <1>1, <1>4, <1>6, <1>7, <1>8, SlotTypes
  <2>2. free_space_end' \in 0 .. PAGE_SIZE
    BY <1>12, LayoutAssumption
  <2> QED BY <1>1, <1>3, <1>8, <1>11, <2>1, <2>2 DEF TypeOK
<1>14. LayoutSound'
  <2>1. free_space_offset' = SlotDirectoryEnd'
    BY <1>1, <1>3, <1>8 DEF LayoutSound, SlotDirectoryEnd, num_slots
  <2>2. free_space_offset' <= free_space_end' /\ num_records' = Cardinality(LiveSlots')
    BY <1>1, <1>3, <1>9, <1>12 DEF LayoutSound
  <2>3. \A i \in LiveSlots' : free_space_end' <= slots'[i].offset
    BY <1>6, <1>9, <1>12
  <2>4. \A i, j \in LiveSlots' :
          i # j => \/ slots'[i].offset + slots'[i].length <= slots'[j].offset
                   \/ slots'[j].offset + slots'[j].length <= slots'[i].offset
    BY <1>5, <1>6, <1>9
  <2> QED BY <2>1, <2>2, <2>3, <2>4 DEF LayoutSound
<1>15. ASSUME NEW j \in LiveSlots PROVE GetRecord(j)' = GetRecord(j)
  <2>1. /\ j \in DOMAIN slots' /\ slots'[j].offset = packed[j] /\ slots'[j].length = slots[j].length
        /\ packed[j] \in Nat /\ packed[j] > 0 /\ packed[j] + slots[j].length <= PAGE_SIZE
    BY <1>1, <1>4, <1>6, <1>8, SlotTypes
  <2> QED BY <1>1, <1>10, <2>1, RecordStays
<1> QED BY <1>1, <1>8, <1>9, <1>13, <1>14, <1>15

-----------------------------------------------------------------------------
(* The invariant holds. *)

LEMMA InitPageInv == Init => PageInv
<1> SUFFICES ASSUME Init PROVE PageInv
  OBVIOUS
<1>1. /\ slots = <<>> /\ slots \in Seq(SlotEntry) /\ Len(slots) = 0 /\ DOMAIN slots = {}
  BY EmptySeq, LenProperties DEF Init
<1>2. LiveSlots = {}
  BY <1>1 DEF LiveSlots
<1>3. Cardinality(LiveSlots) = 0
  BY <1>2, FS_EmptySet
<1>4. TypeOK
  BY <1>1, LayoutAssumption DEF Init, TypeOK, Bytes
<1>5. LayoutSound
  BY <1>1, <1>2, <1>3, LayoutAssumption DEF Init, LayoutSound, SlotDirectoryEnd, num_slots
<1> QED BY <1>2, <1>4, <1>5 DEF PageInv, RecordsWhole

LEMMA NextPageInv ==
  ASSUME ~GrowUnchecked, PageInv, [Next]_vars
  PROVE  PageInv'
<1>1. ASSUME NEW v \in Values, NEW n \in Lengths, InsertRecord(v, n) PROVE PageInv'
  <2>1. PICK id : id = FindEmptySlot
    OBVIOUS
  <2>2. /\ TypeOK' /\ LayoutSound' /\ LiveSlots' = LiveSlots \cup {id}
        /\ GetRecord(id)' = Record(v, n)
        /\ \A j \in LiveSlots : j # id => GetRecord(j)' = GetRecord(j)
    BY <1>1, <2>1, InsertStep
  <2>3. RecordsWhole'
    BY <2>2, RecordIsSeq DEF RecordsWhole, PageInv
  <2> QED BY <2>2, <2>3 DEF PageInv
<1>2. ASSUME NEW v \in Values, NEW n \in Lengths, NEW i \in DOMAIN slots,
             UpdateInPlace(i, v, n) \/ UpdateMoved(i, v, n)
      PROVE  PageInv'
  <2>1. /\ TypeOK' /\ LayoutSound' /\ LiveSlots' = LiveSlots
        /\ GetRecord(i)' = Record(v, n)
        /\ \A j \in LiveSlots : j # i => GetRecord(j)' = GetRecord(j)
    BY <1>2, UpdateInPlaceStep, UpdateMovedStep
  <2>2. RecordsWhole'
    BY <2>1, RecordIsSeq DEF RecordsWhole, PageInv
  <2> QED BY <2>1, <2>2 DEF PageInv
<1>3. ASSUME NEW i \in DOMAIN slots, DeleteRecord(i) PROVE PageInv'
  BY <1>3, DeleteStep DEF PageInv, RecordsWhole
<1>4. ASSUME Compact PROVE PageInv'
  BY <1>4, CompactStep DEF PageInv, RecordsWhole
<1>5. ASSUME SaveAndLoad PROVE PageInv'
  BY <1>5, SaveStep DEF PageInv, RecordsWhole
<1>6. ASSUME UNCHANGED vars PROVE PageInv'
  <2>1. /\ data' = data /\ slots' = slots /\ free_space_offset' = free_space_offset
        /\ free_space_end' = free_space_end /\ num_records' = num_records
    BY <1>6 DEF vars
  <2>2. TypeOK'
    BY <2>1 DEF PageInv, TypeOK
  <2>3. LiveSlots' = LiveSlots
    BY <2>1 DEF LiveSlots
  <2>4. LayoutSound'
    BY <2>1, <2>3 DEF PageInv, LayoutSound, SlotDirectoryEnd, num_slots
  <2>5. RecordsWhole'
    BY <2>1, <2>3 DEF PageInv, RecordsWhole, GetRecord, Byte
  <2> QED BY <2>2, <2>4, <2>5 DEF PageInv
<1> QED BY <1>1, <1>2, <1>3, <1>4, <1>5, <1>6 DEF Next

LEMMA SpecPageInv ==
  ASSUME ~GrowUnchecked
  PROVE  Spec => []PageInv
BY InitPageInv, NextPageInv, PTL DEF Spec

-----------------------------------------------------------------------------
(* Every step is one of the record slots', or none. *)

SlotOf == [i \in DOMAIN slots |-> GetRecord(i)]

\* The slots that hold a record are the live ones.
LEMMA HoldsRecord ==
  ASSUME PageInv
  PROVE  \A i \in DOMAIN slots : GetRecord(i) # NoRecord <=> i \in LiveSlots
<1>1. \A i \in LiveSlots : GetRecord(i) # NoRecord
  BY NoRecordAssumption DEF PageInv, RecordsWhole
<1>2. \A i \in DOMAIN slots : i \notin LiveSlots => GetRecord(i) = NoRecord
  BY DEF LiveSlots, GetRecord
<1> QED BY <1>1, <1>2

LEMMA InitHasNoSlots == Init => Slots!Init
<1> SUFFICES ASSUME Init PROVE SlotOf = <<>>
  BY DEF Slots!Init, SlotOf
<1>1. DOMAIN slots = {}
  BY DEF Init
<1> QED BY <1>1 DEF SlotOf

LEMMA NextKeepsSlots ==
  ASSUME ~GrowUnchecked, PageInv, PageInv', [Next]_vars
  PROVE  [Slots!Next]_SlotOf
<1>1. /\ Len(slots) \in Nat /\ DOMAIN slots = 1 .. Len(slots) /\ LiveSlots \subseteq DOMAIN slots
      /\ DOMAIN SlotOf = DOMAIN slots /\ \A i \in DOMAIN slots : SlotOf[i] = GetRecord(i)
      /\ \A i \in DOMAIN slots : SlotOf[i] # NoRecord <=> i \in LiveSlots
  BY SlotTypes, HoldsRecord DEF PageInv, SlotOf
<1>2. /\ DOMAIN SlotOf' = DOMAIN slots' /\ SlotOf' = [i \in DOMAIN slots' |-> SlotOf'[i]]
      /\ \A i \in DOMAIN slots' : SlotOf'[i] = GetRecord(i)'
      /\ \A i \in DOMAIN slots' : i \notin LiveSlots' => SlotOf'[i] = NoRecord
  BY DEF SlotOf, LiveSlots, GetRecord
<1>3. ASSUME DOMAIN slots' = DOMAIN slots, LiveSlots' = LiveSlots,
             \A j \in LiveSlots : GetRecord(j)' = GetRecord(j)
      PROVE  SlotOf' = SlotOf
  <2>1. \A i \in DOMAIN slots : SlotOf'[i] = SlotOf[i]
    BY <1>1, <1>2, <1>3
  <2>2. SlotOf = [i \in DOMAIN slots |-> SlotOf[i]]
    BY DEF SlotOf
  <2> QED BY <1>2, <1>3, <2>1, <2>2
<1>4. ASSUME NEW i \in LiveSlots, NEW r, DOMAIN slots' = DOMAIN slots,
             SlotOf'[i] = r, \A j \in DOMAIN slots : j # i => SlotOf'[j] = SlotOf[j]
      PROVE  SlotOf[i] # NoRecord /\ SlotOf' = [SlotOf EXCEPT ![i] = r]
  <2>1. i \in DOMAIN slots
    BY <1>1
  <2>2. [SlotOf EXCEPT ![i] = r] = [j \in DOMAIN slots |-> IF j = i THEN r ELSE SlotOf[j]]
    BY <1>1, <2>1
  <2>3. SlotOf' = [j \in DOMAIN slots |-> IF j = i THEN r ELSE SlotOf[j]]
    BY <1>2, <1>4, <2>1
  <2> QED BY <1>1, <2>1, <2>2, <2>3
<1>5. ASSUME NEW v \in Values, NEW n \in Lengths, InsertRecord(v, n) PROVE Slots!Insert(Record(v, n))
  <2>1. PICK id : id = FindEmptySlot
    OBVIOUS
  <2>2. /\ id \in 1 .. Len(slots) + 1 /\ id \notin LiveSlots
        /\ EmptySlots = {} => id = Len(slots) + 1
        /\ EmptySlots # {} => id <= Len(slots)
        /\ \A j \in 1 .. id - 1 : j \in LiveSlots
    BY <2>1, FindsEmptySlot DEF PageInv
  <2>3. /\ DOMAIN slots' = DOMAIN slots \cup {id} /\ LiveSlots' = LiveSlots \cup {id}
        /\ Len(slots') = IF id <= Len(slots) THEN Len(slots) ELSE Len(slots) + 1
        /\ GetRecord(id)' = Record(v, n)
        /\ \A j \in LiveSlots : j # id => GetRecord(j)' = GetRecord(j)
    BY <1>5, <2>1, InsertStep
  <2>4. SlotOf'[id] = Record(v, n) /\ \A j \in DOMAIN slots : j # id => SlotOf'[j] = SlotOf[j]
    BY <1>1, <1>2, <2>2, <2>3
  <2>5. CASE id <= Len(slots)
    <3>1. id \in DOMAIN slots /\ DOMAIN slots' = DOMAIN slots
      BY <1>1, <2>2, <2>3, <2>5
    <3>2. SlotOf[id] = NoRecord /\ \A j \in 1 .. id - 1 : SlotOf[j] # NoRecord
      BY <1>1, <2>2, <3>1
    <3>3. [SlotOf EXCEPT ![id] = Record(v, n)] =
            [j \in DOMAIN slots |-> IF j = id THEN Record(v, n) ELSE SlotOf[j]]
      BY <1>1, <3>1
    <3>4. SlotOf' = [j \in DOMAIN slots |-> IF j = id THEN Record(v, n) ELSE SlotOf[j]]
      BY <1>2, <2>4, <3>1
    <3> QED BY <1>1, <3>1, <3>2, <3>3, <3>4 DEF Slots!Insert, SlotOf
  <2>6. CASE id = Len(slots) + 1
    <3>1. \A i \in DOMAIN slots : SlotOf[i] # NoRecord
      BY <1>1, <2>2, <2>6
    <3>2. SlotOf' = Append(SlotOf, Record(v, n))
      <4> DEFINE X == Records \cup {NoRecord}
                 t == Append(SlotOf, Record(v, n))
      <4>1. SlotOf \in [1 .. Len(slots) -> X] /\ Record(v, n) \in X
        BY <1>1, RecordIsSeq DEF PageInv, RecordsWhole, SlotOf
      <4>2. SlotOf \in Seq(X)
        BY <1>1, <4>1, SeqDef
      <4>3. Len(SlotOf) = Len(slots)
        BY <1>1, <4>1, <4>2, LenProperties
      <4>4. /\ t \in Seq(X) /\ Len(t) = Len(slots) + 1 /\ t[Len(slots) + 1] = Record(v, n)
            /\ \A j \in 1 .. Len(slots) : t[j] = SlotOf[j]
        BY <4>1, <4>2, <4>3, AppendProperties
      <4> HIDE DEF X, t
      <4>5. t = [j \in 1 .. Len(slots) + 1 |-> t[j]]
        BY <4>4, LenProperties
      <4>6. DOMAIN slots' = 1 .. Len(slots) + 1
        BY <1>1, <2>3, <2>6
      <4>7. \A j \in 1 .. Len(slots) + 1 : SlotOf'[j] = t[j]
        BY <1>1, <2>4, <2>6, <4>4
      <4>8. SlotOf' = t
        BY <1>2, <4>5, <4>6, <4>7
      <4> QED BY <4>8 DEF t
    <3> QED BY <3>1, <3>2 DEF Slots!Insert, SlotOf
  <2> QED BY <1>1, <2>2, <2>5, <2>6
<1>6. ASSUME NEW v \in Values, NEW n \in Lengths, NEW i \in DOMAIN slots,
             UpdateInPlace(i, v, n) \/ UpdateMoved(i, v, n)
      PROVE  Slots!Update(i, Record(v, n))
  <2>1. /\ i \in LiveSlots /\ DOMAIN slots' = DOMAIN slots /\ LiveSlots' = LiveSlots
        /\ GetRecord(i)' = Record(v, n)
        /\ \A j \in LiveSlots : j # i => GetRecord(j)' = GetRecord(j)
    BY <1>6, UpdateInPlaceStep, UpdateMovedStep
  <2>2. SlotOf'[i] = Record(v, n) /\ \A j \in DOMAIN slots : j # i => SlotOf'[j] = SlotOf[j]
    BY <1>1, <1>2, <2>1
  <2>3. SlotOf[i] # NoRecord /\ SlotOf' = [SlotOf EXCEPT ![i] = Record(v, n)]
    BY <1>4, <2>1, <2>2
  <2> QED BY <2>3 DEF Slots!Update, SlotOf
<1>7. ASSUME NEW i \in DOMAIN slots, DeleteRecord(i) PROVE Slots!Delete(i)
  <2>1. /\ i \in LiveSlots /\ DOMAIN slots' = DOMAIN slots /\ LiveSlots' = LiveSlots \ {i}
        /\ \A j \in LiveSlots \ {i} : GetRecord(j)' = GetRecord(j)
    BY <1>7, DeleteStep
  <2>2. SlotOf'[i] = NoRecord /\ \A j \in DOMAIN slots : j # i => SlotOf'[j] = SlotOf[j]
    BY <1>1, <1>2, <2>1
  <2>3. SlotOf[i] # NoRecord /\ SlotOf' = [SlotOf EXCEPT ![i] = NoRecord]
    BY <1>4, <2>1, <2>2
  <2> QED BY <2>3 DEF Slots!Delete, SlotOf
<1>8. ASSUME Compact \/ SaveAndLoad PROVE SlotOf' = SlotOf
  BY <1>3, <1>8, CompactStep, SaveStep
<1>9. ASSUME UNCHANGED vars PROVE SlotOf' = SlotOf
  BY <1>9 DEF vars, SlotOf, GetRecord, Byte
<1> QED
  <2>1. \A v \in Values, n \in Lengths : Record(v, n) \in Records
    BY RecordIsSeq
  <2> QED BY <1>1, <1>5, <1>6, <1>7, <1>8, <1>9, <2>1 DEF Next, Slots!Next, SlotOf

-----------------------------------------------------------------------------
(* What follows. *)

\* On pages of every size and for any sequence of calls, no write leaves the page, no
\* slot points outside it and no boundary in the header wraps around.
THEOREM TypeCorrect ==
  ASSUME ~GrowUnchecked
  PROVE  Spec => []TypeOK
<1>1. PageInv => TypeOK
  BY DEF PageInv
<1> QED BY <1>1, SpecPageInv, PTL

\* page.h:112-115: directory, free space and records keep out of each other's way, and
\* the header's boundaries and record count are those of the slots.
THEOREM LayoutKept ==
  ASSUME ~GrowUnchecked
  PROVE  Spec => []LayoutSound
<1>1. PageInv => LayoutSound
  BY DEF PageInv
<1> QED BY <1>1, SpecPageInv, PTL

\* HasSpaceFor says what InsertRecord does, for every record whose length leaves room
\* in a uint16_t for the slot entry that HasSpaceFor adds to it.
THEOREM HasSpaceForIsExact ==
  ASSUME ~GrowUnchecked, MaxLength + SLOT_ENTRY_SIZE < Word
  PROVE  Spec => []HasSpaceForExact
<1>1. ASSUME TypeOK, LayoutSound PROVE HasSpaceForExact
  <2> SUFFICES ASSUME NEW n \in 1 .. MaxLength PROVE HasSpaceFor(n) <=> Fits(n)
    BY DEF HasSpaceForExact
  <2>1. free_space_end \in Nat /\ free_space_offset \in Nat /\ free_space_offset <= free_space_end
    BY <1>1, LiveOffsets DEF LayoutSound
  <2>2. n + SlotOverhead \in 0 .. Word - 1 /\ n + SlotOverhead > 0 /\ n # 0
    BY LayoutAssumption, InputAssumption DEF SlotOverhead
  <2>3. (n + SlotOverhead) % Word = n + SlotOverhead
    BY <2>2, LayoutAssumption
  <2>4. GetFreeSpace = free_space_end - free_space_offset
    BY <2>1 DEF GetFreeSpace
  <2> QED BY <2>1, <2>2, <2>3, <2>4 DEF HasSpaceFor, Fits
<1>2. PageInv => HasSpaceForExact
  BY <1>1 DEF PageInv
<1> QED BY <1>2, SpecPageInv, PTL

\* page.h:146-186: whatever happens to the page, GetRecord of a slot gives the record
\* last stored in it, all of it, and inserts take the first slot that is empty.
THEOREM PageKeepsRecords ==
  ASSUME ~GrowUnchecked
  PROVE  Spec => RecordsKept
<1>1. Spec => Slots!Init /\ [][Slots!Next]_SlotOf
  BY InitHasNoSlots, SpecPageInv, NextKeepsSlots, PTL DEF Spec
<1> QED BY <1>1, PTL DEF RecordsKept, Slots!Spec, SlotOf

==============================================================================
