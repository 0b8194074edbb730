--------------------------- MODULE RecoveryProofs ---------------------------
(***************************************************************************)
(* For pages, values and logs of every number and size: a recovery brings  *)
(* every page to what the log says, whichever pages had been written when  *)
(* the process died and however often recoveries were interrupted.         *)
(*                                                                         *)
(* A page knows nothing of the records it has seen, so the replay starts   *)
(* from slots that may hold what any of them left.  What makes it work:    *)
(* every slot of the file comes from the part of the log that survives     *)
(* (FromLog, the write-ahead rule), and after record c - 1 has been        *)
(* replayed the slots are empty that were empty when record c was logged,  *)
(* and one that differs is written again further on (Redone).  So an       *)
(* insert finds the slot it was logged for, or finds there what a later    *)
(* record has left and is rightly skipped.                                 *)
(***************************************************************************)
EXTENDS Recovery, SequenceTheorems, WellFoundedInduction, TLAPS

-----------------------------------------------------------------------------
(* Least elements. *)

LEMMA NatOrder == \E R : IsWellFoundedOn(R, Nat) /\ R = {ss \in Nat \X Nat : ss[1] < ss[2]}
<1>1. OpToRel(<, Nat) = {ss \in Nat \X Nat : ss[1] < ss[2]}
  BY DEF OpToRel
<1> QED BY <1>1, NatLessThanWellFounded, Zenon

LEMMA LeastNatural ==
  ASSUME NEW U, U \subseteq Nat, U # {}
  PROVE  \E m \in U : \A k \in U : m <= k
<1>1. PICK R : IsWellFoundedOn(R, Nat) /\ R = {ss \in Nat \X Nat : ss[1] < ss[2]}
  BY NatOrder
<1>2. PICK m \in U : \A k \in U : <<k, m>> \notin R
  BY <1>1, WFMin
<1>3. ASSUME NEW k \in U PROVE m <= k
  <2>1. k \in Nat /\ m \in Nat /\ <<k, m>> \in Nat \X Nat
    OBVIOUS
  <2> QED BY <1>1, <1>2, <2>1
<1> QED BY <1>3

LEMMA MinIsLeast ==
  ASSUME NEW S, S \subseteq Nat, S # {}
  PROVE  Min(S) \in S /\ \A k \in S : Min(S) <= k
BY LeastNatural DEF Min

-----------------------------------------------------------------------------
(* What the log says of a page. *)

Changes  == {"insert", "update", "delete"}
Contents == Seq(Values \cup {NoRecord})

\* Record r is about a change of page p.
Concerns(r, p) == r.type \in Changes /\ r.page = p

\* What the change that r is about leaves in its slot, and in all of them.
Written(r) == IF r.type = "delete" THEN NoRecord ELSE r.data
Applied(s, r, p) == IF Concerns(r, p) THEN Stored(s, r.slot, Written(r)) ELSE s

\* h[n] is what page p has in its slots after the first n records of l.
IsHistory(h, l, p) ==
  /\ h \in [0 .. Len(l) -> Contents] /\ h[0] = <<>>
  /\ \A n \in 1 .. Len(l) : h[n] = Applied(h[n - 1], l[n], p)

HoldsAt(s, i) == i \in 1 .. Len(s) /\ s[i] # NoRecord

\* Slot i is the one that an insert takes.
FreeFor(s, i) ==
  /\ i \in 1 .. Len(s) + 1
  /\ \A j \in 1 .. i - 1 : s[j] # NoRecord
  /\ i <= Len(s) => s[i] = NoRecord

\* A client that sees the slots s may log r.
Possible(s, r) ==
  IF r.type = "insert" THEN FreeFor(s, r.slot) /\ r.data \in Values
  ELSE HoldsAt(s, r.slot) /\ (r.type = "update" => r.data \in Values)

\* The log is one that clients wrote, each change to the page as they saw it.
Past(h, l, p) ==
  /\ IsHistory(h, l, p)
  /\ \A n \in 1 .. Len(l) : Concerns(l[n], p) => Possible(h[n - 1], l[n])
  /\ \A n \in 0 .. Len(l) : Len(h[n]) <= n
  /\ \A n \in 0 .. Len(l) : \A m \in 1 .. n : Concerns(l[m], p) => l[m].slot <= Len(h[n])

\* Every slot is one that the first k records of l are about, and a record in it is
\* one of those they put there.
FromLog(s, l, k, p) ==
  \A j \in 1 .. Len(s) :
    /\ \E n \in 1 .. k : Concerns(l[n], p) /\ l[n].slot = j
    /\ s[j] # NoRecord => \E n \in 1 .. k : Concerns(l[n], p) /\ l[n].slot = j /\ l[n].data = s[j]

\* The records before c have been replayed: the slots are empty that were empty
\* when record c was logged, and one that differs is written again further on.
Redone(s, h, l, c, p) ==
  /\ Len(h[c - 1]) <= Len(s)
  /\ \A j \in 1 .. Len(h[c - 1]) :
       /\ s[j] = NoRecord <=> h[c - 1][j] = NoRecord
       /\ s[j] = h[c - 1][j] \/ \E n \in c .. Len(l) : Concerns(l[n], p) /\ l[n].slot = j

LEMMA RecordKinds ==
  ASSUME NEW r \in LogRecord
  PROVE  /\ r.type \in Changes =>
              /\ "page" \in DOMAIN r /\ r.page \in Pages
              /\ r.slot \in Slot /\ r.data \in Values \cup {NoRecord}
         /\ "page" \in DOMAIN r => r.page \in Pages
         /\ r.type \in {"checkpoint_begin", "checkpoint_end"} => "page" \notin DOMAIN r
<1>1. CASE r \in [type : {"insert", "delete", "update"}, page : Pages, slot : Slot,
                  data : Values \cup {NoRecord}]
  BY <1>1 DEF Changes
<1>2. CASE r \in [type : {"new_page"}, page : Pages]
  BY <1>2 DEF Changes
<1>3. CASE r \in [type : {"checkpoint_begin", "checkpoint_end"}]
  BY <1>3 DEF Changes
<1> QED BY <1>1, <1>2, <1>3 DEF LogRecord

-----------------------------------------------------------------------------
(* Slots. *)

LEMMA SlotsAre ==
  ASSUME NEW s \in Contents
  PROVE  /\ Len(s) \in Nat /\ DOMAIN s = 1 .. Len(s)
         /\ \A j \in 1 .. Len(s) : s[j] \in Values \cup {NoRecord}
BY LenProperties, ElementOfSeq DEF Contents

LEMMA StoredSlots ==
  ASSUME NEW s \in Contents, NEW i \in 1 .. Len(s) + 1, NEW v \in Values \cup {NoRecord}
  PROVE  /\ Stored(s, i, v) \in Contents
         /\ Len(Stored(s, i, v)) = IF i > Len(s) THEN Len(s) + 1 ELSE Len(s)
         /\ \A j \in 1 .. Len(Stored(s, i, v)) : Stored(s, i, v)[j] = IF j = i THEN v ELSE s[j]
<1>1. Len(s) \in Nat
  BY SlotsAre
<1>2. CASE i > Len(s)
  <2>1. /\ Append(s, v) \in Seq(Values \cup {NoRecord}) /\ Len(Append(s, v)) = Len(s) + 1
        /\ \A j \in 1 .. Len(s) + 1 : Append(s, v)[j] = IF j <= Len(s) THEN s[j] ELSE v
    BY AppendProperties DEF Contents
  <2> QED BY <1>1, <1>2, <2>1 DEF Stored, Contents
<1>3. CASE i <= Len(s)
  <2>1. /\ [s EXCEPT ![i] = v] \in Seq(Values \cup {NoRecord}) /\ Len([s EXCEPT ![i] = v]) = Len(s)
        /\ \A j \in 1 .. Len(s) : [s EXCEPT ![i] = v][j] = IF j = i THEN v ELSE s[j]
    <3>1. i \in 1 .. Len(s)
      BY <1>1, <1>3
    <3> QED BY <3>1, ExceptSeq DEF Contents
  <2>2. Stored(s, i, v) = [s EXCEPT ![i] = v] /\ ~(i > Len(s))
    BY <1>1, <1>3 DEF Stored
  <2> QED BY <2>1, <2>2 DEF Contents
<1> QED BY <1>1, <1>2, <1>3

\* What a page holds in a slot, in terms of its slots alone.
LEMMA PageSlotsAre ==
  ASSUME NEW pg \in Page
  PROVE  /\ pg.slots \in Contents /\ pg.free \in 0 .. Capacity
         /\ \A i : Holds(pg, i) <=> HoldsAt(pg.slots, i)
         /\ FreeFor(pg.slots, FreeSlot(pg))
<1>1. pg.slots \in Contents /\ pg.free \in 0 .. Capacity
  BY DEF Page, Contents
<1> DEFINE s == pg.slots
<1>2. Len(s) \in Nat /\ DOMAIN s = 1 .. Len(s)
  BY <1>1, SlotsAre
<1>3. \A i : Holds(pg, i) <=> HoldsAt(s, i)
  BY <1>2 DEF Holds, LiveSlots, HoldsAt
<1>4. FreeFor(s, FreeSlot(pg))
  <2> DEFINE empty == DOMAIN s \ LiveSlots(pg)
  <2>1. empty = {i \in 1 .. Len(s) : s[i] = NoRecord}
    BY <1>2 DEF LiveSlots
  <2>2. CASE empty = {}
    BY <1>2, <2>1, <2>2 DEF FreeSlot, FreeFor
  <2>3. CASE empty # {}
    <3>1. empty \subseteq Nat
      BY <1>2, <2>1
    <3>2. FreeSlot(pg) = Min(empty)
      BY <2>3 DEF FreeSlot
    <3>3. Min(empty) \in empty /\ \A k \in empty : Min(empty) <= k
      <4> HIDE DEF empty
      <4> QED BY <2>3, <3>1, MinIsLeast
    <3>4. PICK m : m = Min(empty)
      OBVIOUS
    <3> HIDE DEF s
    <3>5. m \in 1 .. Len(s) /\ s[m] = NoRecord /\ \A k \in empty : m <= k
      BY <2>1, <3>3, <3>4
    <3>6. \A j \in 1 .. m - 1 : j \in 1 .. Len(s) /\ ~(m <= j)
      BY <1>2, <3>5
    <3>7. \A j \in 1 .. m - 1 : s[j] # NoRecord
      BY <2>1, <3>5, <3>6
    <3>8. FreeFor(s, m)
      BY <1>2, <3>5, <3>7 DEF FreeFor
    <3> QED BY <3>2, <3>4, <3>8
  <2> QED BY <2>2, <2>3
<1> QED BY <1>1, <1>3, <1>4

LEMMA OneFreeSlot ==
  ASSUME NEW s \in Contents, NEW i, NEW j, FreeFor(s, i), FreeFor(s, j)
  PROVE  i = j
BY SlotsAre DEF FreeFor

-----------------------------------------------------------------------------
(* Histories. *)

\* What a history says of one record.
LEMMA PastStep ==
  ASSUME NEW p \in Pages, NEW l \in Seq(LogRecord), NEW h, Past(h, l, p), NEW c \in 1 .. Len(l)
  PROVE  /\ Len(l) \in Nat /\ l[c] \in LogRecord
         /\ h[c - 1] \in Contents /\ h[c] \in Contents
         /\ Len(h[c - 1]) \in Nat /\ Len(h[c]) \in Nat
         /\ h[c] = Applied(h[c - 1], l[c], p)
         /\ Concerns(l[c], p) => Possible(h[c - 1], l[c])
<1>1. Len(l) \in Nat /\ l[c] \in LogRecord
  BY LenProperties, ElementOfSeq
<1>2. h[c - 1] \in Contents /\ h[c] \in Contents /\ h[c] = Applied(h[c - 1], l[c], p)
  <2>1. h \in [0 .. Len(l) -> Contents] /\ h[c] = Applied(h[c - 1], l[c], p)
    BY DEF Past, IsHistory
  <2>2. c - 1 \in 0 .. Len(l) /\ c \in 0 .. Len(l)
    BY <1>1
  <2> QED BY <2>1, <2>2
<1> QED BY <1>1, <1>2, SlotsAre DEF Past

\* The slots after a change that was possible.
LEMMA AppliedSlots ==
  ASSUME NEW s \in Contents, NEW p \in Pages, NEW r \in LogRecord, Concerns(r, p), Possible(s, r)
  PROVE  /\ Written(r) \in Values \cup {NoRecord} /\ r.slot \in 1 .. Len(s) + 1
         /\ Applied(s, r, p) \in Contents
         /\ Len(Applied(s, r, p)) = IF r.slot > Len(s) THEN Len(s) + 1 ELSE Len(s)
         /\ \A j \in 1 .. Len(Applied(s, r, p)) :
              Applied(s, r, p)[j] = IF j = r.slot THEN Written(r) ELSE s[j]
<1>1. Len(s) \in Nat
  BY SlotsAre
<1>2. Written(r) \in Values \cup {NoRecord}
  BY RecordKinds DEF Concerns, Written
<1>3. r.slot \in 1 .. Len(s) + 1
  BY <1>1 DEF Possible, FreeFor, HoldsAt
<1>4. Applied(s, r, p) = Stored(s, r.slot, Written(r))
  BY DEF Applied
<1> QED BY <1>2, <1>3, <1>4, StoredSlots

\* A record that the client could log makes the history one longer.
LEMMA PastAppend ==
  ASSUME NEW p \in Pages, NEW l \in Seq(LogRecord), NEW h, Past(h, l, p),
         NEW r \in LogRecord, Concerns(r, p) => Possible(h[Len(l)], r)
  PROVE  \E g : Past(g, Append(l, r), p) /\ g[Len(l) + 1] = Applied(h[Len(l)], r, p)
<1> DEFINE L == Len(l)
           s == h[L]
           l2 == Append(l, r)
           g == [n \in 0 .. L + 1 |-> IF n <= L THEN h[n] ELSE Applied(s, r, p)]
<1>1. /\ L \in Nat /\ l2 \in Seq(LogRecord) /\ Len(l2) = L + 1
      /\ \A n \in 1 .. L : l2[n] = l[n]
      /\ l2[L + 1] = r
  BY LenProperties, AppendProperties
<1>2. h \in [0 .. L -> Contents] /\ h[0] = <<>>
  BY DEF Past, IsHistory
<1>3. s \in Contents /\ Len(s) \in Nat /\ Len(s) <= L
  <2>1. s \in Contents
    BY <1>1, <1>2
  <2>2. Len(s) <= L
    BY <1>1 DEF Past
  <2> QED BY <2>1, <2>2, SlotsAre
<1>4. /\ Applied(s, r, p) \in Contents
      /\ Len(Applied(s, r, p)) \in {Len(s), Len(s) + 1}
      /\ Concerns(r, p) => r.slot <= Len(Applied(s, r, p))
  <2>1. CASE Concerns(r, p)
    BY <1>3, <2>1, AppliedSlots
  <2>2. CASE ~Concerns(r, p)
    BY <1>3, <2>2 DEF Applied
  <2> QED BY <2>1, <2>2
<1>5. g \in [0 .. L + 1 -> Contents] /\ (\A n \in 0 .. L : g[n] = h[n]) /\ g[L + 1] = Applied(s, r, p)
  BY <1>1, <1>2, <1>4
<1> HIDE DEF g, l2
<1>6. IsHistory(g, l2, p)
  <2>1. ASSUME NEW n \in 1 .. L + 1 PROVE g[n] = Applied(g[n - 1], l2[n], p)
    <3>1. CASE n = L + 1
      BY <1>1, <1>5, <3>1
    <3>2. CASE n <= L
      <4>1. n \in 1 .. L /\ n \in 0 .. L /\ n - 1 \in 0 .. L
        BY <1>1, <3>2
      <4>2. h[n] = Applied(h[n - 1], l[n], p)
        BY <4>1 DEF Past, IsHistory
      <4> QED BY <1>1, <1>5, <4>1, <4>2
    <3> QED BY <1>1, <3>1, <3>2
  <2>2. g[0] = <<>>
    BY <1>1, <1>2, <1>5
  <2> QED BY <1>1, <1>5, <2>1, <2>2 DEF IsHistory
<1>7. ASSUME NEW n \in 1 .. L + 1, Concerns(l2[n], p) PROVE Possible(g[n - 1], l2[n])
  <2>1. CASE n = L + 1
    BY <1>1, <1>5, <1>7, <2>1
  <2>2. CASE n <= L
    <3>1. n \in 1 .. L /\ n - 1 \in 0 .. L
      BY <1>1, <2>2
    <3> QED BY <1>1, <1>5, <1>7, <3>1 DEF Past
  <2> QED BY <1>1, <2>1, <2>2
<1>8. ASSUME NEW n \in 0 .. L + 1 PROVE Len(g[n]) <= n
  <2>1. CASE n = L + 1
    BY <1>1, <1>3, <1>4, <1>5, <2>1
  <2>2. CASE n <= L
    <3>1. n \in 0 .. L
      BY <1>1, <2>2
    <3> QED BY <1>5, <3>1 DEF Past
  <2> QED BY <1>1, <2>1, <2>2
<1>9. ASSUME NEW n \in 0 .. L + 1, NEW m \in 1 .. n, Concerns(l2[m], p) PROVE l2[m].slot <= Len(g[n])
  <2>1. CASE n = L + 1 /\ m = L + 1
    BY <1>1, <1>4, <1>5, <1>9, <2>1
  <2>2. CASE n = L + 1 /\ m <= L
    <3>1. m \in 1 .. L /\ L \in 0 .. L
      BY <1>1, <2>2
    <3>2. l2[m].slot <= Len(s)
      BY <1>1, <1>9, <3>1 DEF Past
    <3>3. l2[m].slot \in Nat
      <4>1. l2[m] \in LogRecord
        BY <1>1, <3>1, ElementOfSeq
      <4>2. l2[m].slot \in Slot
        BY <4>1, <1>9, RecordKinds DEF Concerns
      <4> QED BY <4>2 DEF Slot
    <3> QED BY <1>3, <1>4, <1>5, <2>2, <3>2, <3>3
  <2>3. CASE n <= L
    <3>1. n \in 0 .. L /\ m \in 1 .. L
      BY <1>1, <2>3
    <3> QED BY <1>1, <1>5, <1>9, <3>1 DEF Past
  <2> QED BY <1>1, <2>1, <2>2, <2>3
<1>10. Past(g, l2, p)
  BY <1>1, <1>6, <1>7, <1>8, <1>9 DEF Past
<1> QED BY <1>5, <1>10 DEF l2

\* A crash takes records from the end.
LEMMA PastCut ==
  ASSUME NEW p \in Pages, NEW l \in Seq(LogRecord), NEW h, Past(h, l, p), NEW k \in 0 .. Len(l)
  PROVE  \E g : Past(g, SubSeq(l, 1, k), p)
<1> DEFINE l2 == SubSeq(l, 1, k)
           g == [n \in 0 .. k |-> h[n]]
<1>1. /\ Len(l) \in Nat /\ k \in Nat /\ k <= Len(l)
      /\ l2 \in Seq(LogRecord) /\ Len(l2) = k
      /\ \A n \in 1 .. k : l2[n] = l[n]
  <2>1. Len(l) \in Nat /\ \A i \in 1 .. k : l[i] \in LogRecord
    BY LenProperties, ElementOfSeq
  <2>2. k \in Int /\ 1 \in Int
    BY <2>1
  <2>3. /\ l2 \in Seq(LogRecord)
        /\ Len(l2) = IF 1 <= k THEN k - 1 + 1 ELSE 0
        /\ \A i \in 1 .. k - 1 + 1 : l2[i] = l[1 + i - 1]
    BY <2>1, <2>2, SubSeqProperties
  <2> QED BY <2>1, <2>3
<1>2. g \in [0 .. k -> Contents] /\ \A n \in 0 .. k : g[n] = h[n]
  <2>1. h \in [0 .. Len(l) -> Contents] /\ \A n \in 0 .. k : n \in 0 .. Len(l)
    BY <1>1 DEF Past, IsHistory
  <2> QED BY <2>1
<1> HIDE DEF g, l2
<1>3. IsHistory(g, l2, p)
  <2>1. g[0] = <<>>
    BY <1>1, <1>2 DEF Past, IsHistory
  <2>2. ASSUME NEW n \in 1 .. k PROVE g[n] = Applied(g[n - 1], l2[n], p)
    <3>1. n \in 0 .. k /\ n - 1 \in 0 .. k /\ n \in 1 .. Len(l)
      BY <1>1
    <3>2. h[n] = Applied(h[n - 1], l[n], p)
      BY <3>1 DEF Past, IsHistory
    <3> QED BY <1>1, <1>2, <3>1, <3>2
  <2> QED BY <1>1, <1>2, <2>1, <2>2 DEF IsHistory
<1>4. ASSUME NEW n \in 1 .. k, Concerns(l2[n], p) PROVE Possible(g[n - 1], l2[n])
  <2>1. n - 1 \in 0 .. k /\ n \in 1 .. Len(l)
    BY <1>1
  <2> QED BY <1>1, <1>2, <1>4, <2>1 DEF Past
<1>5. ASSUME NEW n \in 0 .. k
      PROVE  Len(g[n]) <= n /\ \A m \in 1 .. n : Concerns(l2[m], p) => l2[m].slot <= Len(g[n])
  <2>1. n \in 0 .. Len(l) /\ \A m \in 1 .. n : m \in 1 .. k
    BY <1>1
  <2> QED BY <1>1, <1>2, <2>1 DEF Past
<1>6. Past(g, l2, p)
  BY <1>1, <1>3, <1>4, <1>5 DEF Past
<1> QED BY <1>6 DEF l2

-----------------------------------------------------------------------------
(* Pages. *)

Unit == RecordSize + SLOT_ENTRY_SIZE

LEMMA CostIs ==
  ASSUME NEW pg
  PROVE  Cost(pg, RecordSize) \in Nat /\ Cost(pg, RecordSize) <= Unit
BY SizeAssumption, SlotSizeAssumption DEF Cost, Unit

\* What an insert, a delete and an update do to a page.
LEMMA InsertedPage ==
  ASSUME NEW pg \in Page, NEW v \in Values
  PROVE  LET q == InsertRecord(pg, v, RecordSize)
         IN  /\ q \in Page /\ q.free >= pg.free - Unit
             /\ Cost(pg, RecordSize) <= pg.free => q.slots = Stored(pg.slots, FreeSlot(pg), v)
             /\ ~(Cost(pg, RecordSize) <= pg.free) => q = pg
<1>1. pg.slots \in Contents /\ pg.free \in 0 .. Capacity /\ FreeSlot(pg) \in 1 .. Len(pg.slots) + 1
  BY PageSlotsAre DEF FreeFor
<1>2. Cost(pg, RecordSize) \in Nat /\ Cost(pg, RecordSize) <= Unit /\ Unit \in Nat
  BY CostIs, SizeAssumption, SlotSizeAssumption DEF Unit
<1>3. CASE Cost(pg, RecordSize) <= pg.free
  <2> DEFINE q == [pg EXCEPT !.slots = Stored(@, FreeSlot(pg), v), !.free = @ - Cost(pg, RecordSize)]
  <2>1. InsertRecord(pg, v, RecordSize) = q
    BY <1>3 DEF InsertRecord
  <2>2. q = [slots |-> Stored(pg.slots, FreeSlot(pg), v), free |-> pg.free - Cost(pg, RecordSize)]
    <3>1. pg = [slots |-> pg.slots, free |-> pg.free]
      BY DEF Page
    <3>2. q = [pg EXCEPT !.slots = Stored(pg.slots, FreeSlot(pg), v), !.free = pg.free - Cost(pg, RecordSize)]
      OBVIOUS
    <3>3. PICK t, f : t = Stored(pg.slots, FreeSlot(pg), v) /\ f = pg.free - Cost(pg, RecordSize)
      OBVIOUS
    <3> DEFINE a == [pg EXCEPT !.slots = t]
    <3>4. a = [slots |-> t, free |-> pg.free]
      BY <3>1
    <3>5. [a EXCEPT !.free = f] = [slots |-> t, free |-> f]
      <4> HIDE DEF a
      <4> QED BY <3>4
    <3> QED BY <3>2, <3>3, <3>5
  <2>3. Stored(pg.slots, FreeSlot(pg), v) \in Contents
    BY <1>1, StoredSlots
  <2>4. pg.free - Cost(pg, RecordSize) \in 0 .. Capacity /\ pg.free - Cost(pg, RecordSize) >= pg.free - Unit
    BY <1>1, <1>2, <1>3, SizeAssumption
  <2>5. q \in Page /\ q.slots = Stored(pg.slots, FreeSlot(pg), v) /\ q.free = pg.free - Cost(pg, RecordSize)
    BY <2>2, <2>3, <2>4 DEF Page, Contents
  <2> QED BY <1>3, <2>1, <2>4, <2>5
<1>4. CASE ~(Cost(pg, RecordSize) <= pg.free)
  <2>1. InsertRecord(pg, v, RecordSize) = pg
    BY <1>4 DEF InsertRecord
  <2> QED BY <1>1, <1>2, <1>4, <2>1
<1> QED BY <1>3, <1>4

LEMMA WrittenPage ==
  ASSUME NEW pg \in Page, NEW i, HoldsAt(pg.slots, i), NEW v \in Values \cup {NoRecord}
  PROVE  /\ [pg EXCEPT !.slots[i] = v] \in Page
         /\ [pg EXCEPT !.slots[i] = v].slots = Stored(pg.slots, i, v)
         /\ [pg EXCEPT !.slots[i] = v].free = pg.free
<1>1. pg.slots \in Contents /\ pg.free \in 0 .. Capacity /\ Len(pg.slots) \in Nat
  BY PageSlotsAre, SlotsAre
<1>2. i \in 1 .. Len(pg.slots) /\ i \in 1 .. Len(pg.slots) + 1 /\ ~(i > Len(pg.slots))
  BY <1>1 DEF HoldsAt
<1>3. Stored(pg.slots, i, v) = [pg.slots EXCEPT ![i] = v] /\ Stored(pg.slots, i, v) \in Contents
  BY <1>1, <1>2, StoredSlots DEF Stored
<1>4. [pg EXCEPT !.slots[i] = v] = [slots |-> [pg.slots EXCEPT ![i] = v], free |-> pg.free]
  <2>1. \A t : [pg EXCEPT !.slots = t] = [slots |-> t, free |-> pg.free]
    BY DEF Page
  <2> QED BY <2>1
<1> QED BY <1>1, <1>3, <1>4 DEF Page, Contents

LEMMA DeletedPage ==
  ASSUME NEW pg \in Page, NEW i, HoldsAt(pg.slots, i)
  PROVE  /\ DeleteRecord(pg, i) \in Page
         /\ DeleteRecord(pg, i).slots = Stored(pg.slots, i, NoRecord)
         /\ DeleteRecord(pg, i).free = pg.free
<1>1. Holds(pg, i)
  BY PageSlotsAre
<1>2. DeleteRecord(pg, i) = [pg EXCEPT !.slots[i] = NoRecord]
  BY <1>1 DEF DeleteRecord
<1>3. /\ [pg EXCEPT !.slots[i] = NoRecord] \in Page
      /\ [pg EXCEPT !.slots[i] = NoRecord].slots = Stored(pg.slots, i, NoRecord)
      /\ [pg EXCEPT !.slots[i] = NoRecord].free = pg.free
  <2>1. NoRecord \in Values \cup {NoRecord}
    OBVIOUS
  <2> QED BY <2>1, WrittenPage
<1> QED BY <1>2, <1>3

-----------------------------------------------------------------------------
(* Slots that the log accounts for. *)

LEMMA FromLogGrows ==
  ASSUME NEW s, NEW l, NEW l2, NEW p, NEW k \in Nat, NEW k2 \in Nat, k <= k2,
         FromLog(s, l, k, p), \A n \in 1 .. k : l2[n] = l[n]
  PROVE  FromLog(s, l2, k2, p)
<1>1. ASSUME NEW j \in 1 .. Len(s)
      PROVE  /\ \E n \in 1 .. k2 : Concerns(l2[n], p) /\ l2[n].slot = j
             /\ s[j] # NoRecord => \E n \in 1 .. k2 : Concerns(l2[n], p) /\ l2[n].slot = j /\ l2[n].data = s[j]
  <2>1. \A n \in 1 .. k : n \in 1 .. k2 /\ l2[n] = l[n]
    OBVIOUS
  <2>2. PICK n \in 1 .. k : Concerns(l[n], p) /\ l[n].slot = j
    BY DEF FromLog
  <2>3. s[j] # NoRecord => \E m \in 1 .. k : Concerns(l[m], p) /\ l[m].slot = j /\ l[m].data = s[j]
    BY DEF FromLog
  <2> QED BY <2>1, <2>2, <2>3
<1> QED BY <1>1 DEF FromLog

LEMMA FromLogStored ==
  ASSUME NEW p \in Pages, NEW s \in Contents, NEW l \in Seq(LogRecord), NEW k \in 0 .. Len(l),
         FromLog(s, l, k, p), NEW c \in 1 .. k, Concerns(l[c], p), l[c].slot \in 1 .. Len(s) + 1
  PROVE  FromLog(Stored(s, l[c].slot, Written(l[c])), l, k, p)
<1> DEFINE i == l[c].slot
           v == Written(l[c])
           t == Stored(s, i, v)
<1>1. Len(l) \in Nat /\ k \in Nat /\ Len(s) \in Nat
  BY LenProperties, SlotsAre
<1>2. l[c] \in LogRecord
  BY <1>1, ElementOfSeq
<1>3. v \in Values \cup {NoRecord} /\ (v # NoRecord => v = l[c].data)
  BY <1>2, RecordKinds DEF Concerns, Written
<1> HIDE DEF v
<1>4. /\ Len(t) = IF i > Len(s) THEN Len(s) + 1 ELSE Len(s)
      /\ \A j \in 1 .. Len(t) : t[j] = IF j = i THEN v ELSE s[j]
  BY <1>3, StoredSlots
<1> HIDE DEF t
<1>5. ASSUME NEW j \in 1 .. Len(t)
      PROVE  /\ \E n \in 1 .. k : Concerns(l[n], p) /\ l[n].slot = j
             /\ t[j] # NoRecord => \E n \in 1 .. k : Concerns(l[n], p) /\ l[n].slot = j /\ l[n].data = t[j]
  <2>1. CASE j = i
    BY <1>3, <1>4, <2>1
  <2>2. CASE j # i
    <3>1. j \in 1 .. Len(s) /\ t[j] = s[j]
      BY <1>1, <1>4, <2>2
    <3>2. /\ \E n \in 1 .. k : Concerns(l[n], p) /\ l[n].slot = j
          /\ s[j] # NoRecord => \E n \in 1 .. k : Concerns(l[n], p) /\ l[n].slot = j /\ l[n].data = s[j]
      BY <3>1 DEF FromLog
    <3> QED BY <3>1, <3>2
  <2> QED BY <2>1, <2>2
<1>6. FromLog(t, l, k, p)
  BY <1>5 DEF FromLog
<1> QED BY <1>6 DEF t, v

-----------------------------------------------------------------------------
(* The replay of one record. *)

\* An insert is replayed where it was logged for, or not at all: the slots below are
\* taken, as they were then.
LEMMA LandsInSlot ==
  ASSUME NEW p \in Pages, NEW l \in Seq(LogRecord), NEW h, Past(h, l, p), NEW c \in 1 .. Len(l),
         Concerns(l[c], p), l[c].type = "insert",
         NEW s \in Contents, Redone(s, h, l, c, p), ~HoldsAt(s, l[c].slot)
  PROVE  FreeFor(s, l[c].slot)
<1> DEFINE i == l[c].slot
           g == h[c - 1]
<1>1. g \in Contents /\ Len(g) \in Nat /\ Len(s) \in Nat /\ FreeFor(g, i)
  BY PastStep, SlotsAre DEF Possible
<1>2. Len(g) <= Len(s) /\ \A j \in 1 .. Len(g) : s[j] = NoRecord <=> g[j] = NoRecord
  BY DEF Redone
<1> HIDE DEF i, g
<1>3. i \in 1 .. Len(s) + 1
  BY <1>1, <1>2 DEF FreeFor
<1>4. \A j \in 1 .. i - 1 : s[j] # NoRecord
  <2>1. \A j \in 1 .. i - 1 : j \in 1 .. Len(g)
    BY <1>1 DEF FreeFor
  <2> QED BY <1>1, <1>2, <2>1 DEF FreeFor
<1>5. i <= Len(s) => s[i] = NoRecord
  BY <1>1, <1>3 DEF HoldsAt, i
<1> QED BY <1>3, <1>4, <1>5 DEF FreeFor, i

\* Writing the slot brings the page to where the record left it.
LEMMA RedoneWritten ==
  ASSUME NEW p \in Pages, NEW l \in Seq(LogRecord), NEW h, Past(h, l, p), NEW c \in 1 .. Len(l),
         Concerns(l[c], p), NEW s \in Contents, Redone(s, h, l, c, p), l[c].slot \in 1 .. Len(s) + 1
  PROVE  Redone(Stored(s, l[c].slot, Written(l[c])), h, l, c + 1, p)
<1> DEFINE r == l[c]
           i == r.slot
           v == Written(r)
           g == h[c - 1]
           t == Stored(s, i, v)
<1>1. /\ Len(l) \in Nat /\ r \in LogRecord /\ g \in Contents /\ Len(g) \in Nat /\ Len(s) \in Nat
      /\ h[c] = Applied(g, r, p) /\ Possible(g, r)
  BY PastStep, SlotsAre
<1>2. /\ v \in Values \cup {NoRecord} /\ i \in 1 .. Len(g) + 1
      /\ Len(h[c]) = IF i > Len(g) THEN Len(g) + 1 ELSE Len(g)
      /\ \A j \in 1 .. Len(h[c]) : h[c][j] = IF j = i THEN v ELSE g[j]
  <2>1. /\ Written(r) \in Values \cup {NoRecord} /\ r.slot \in 1 .. Len(g) + 1
        /\ Len(Applied(g, r, p)) = IF r.slot > Len(g) THEN Len(g) + 1 ELSE Len(g)
        /\ \A j \in 1 .. Len(Applied(g, r, p)) :
             Applied(g, r, p)[j] = IF j = r.slot THEN Written(r) ELSE g[j]
    <3> HIDE DEF g, r
    <3> QED BY <1>1, AppliedSlots DEF r
  <2> QED BY <1>1, <2>1 DEF Written
<1>3. i \in 1 .. Len(s) + 1
  OBVIOUS
<1> HIDE DEF v
<1>4. /\ Len(t) = IF i > Len(s) THEN Len(s) + 1 ELSE Len(s)
      /\ \A j \in 1 .. Len(t) : t[j] = IF j = i THEN v ELSE s[j]
  BY <1>2, <1>3, StoredSlots
<1> HIDE DEF t, g
<1>5. Len(g) <= Len(s) /\ \A j \in 1 .. Len(g) :
        /\ s[j] = NoRecord <=> g[j] = NoRecord
        /\ s[j] = g[j] \/ \E n \in c .. Len(l) : Concerns(l[n], p) /\ l[n].slot = j
  BY DEF Redone, g
<1>6. Len(h[c]) <= Len(t)
  BY <1>1, <1>2, <1>3, <1>4, <1>5
<1>7. ASSUME NEW j \in 1 .. Len(h[c])
      PROVE  /\ t[j] = NoRecord <=> h[c][j] = NoRecord
             /\ t[j] = h[c][j] \/ \E n \in c + 1 .. Len(l) : Concerns(l[n], p) /\ l[n].slot = j
  <2>1. j \in 1 .. Len(t)
    BY <1>1, <1>2, <1>4, <1>6
  <2>2. CASE j = i
    BY <1>2, <1>4, <2>1, <2>2
  <2>3. CASE j # i
    <3>1. j \in 1 .. Len(g) /\ t[j] = s[j] /\ h[c][j] = g[j]
      BY <1>1, <1>2, <1>4, <2>1, <2>3
    <3>2. ASSUME NEW n \in c .. Len(l), Concerns(l[n], p), l[n].slot = j
          PROVE  n \in c + 1 .. Len(l)
      BY <1>1, <2>3, <3>2
    <3> QED BY <1>5, <3>1, <3>2
  <2> QED BY <2>2, <2>3
<1>8. c + 1 - 1 = c
  OBVIOUS
<1>9. Redone(t, h, l, c + 1, p)
  BY <1>6, <1>7, <1>8 DEF Redone
<1> QED BY <1>9 DEF t, v

\* An insert that finds a record in its slot is skipped: what is there comes from the
\* log, from this record or from a later one, as no earlier one wrote to the slot
\* unless it was taken when this one was logged.
LEMMA RedoneSkipped ==
  ASSUME NEW p \in Pages, NEW l \in Seq(LogRecord), NEW h, Past(h, l, p), NEW c \in 1 .. Len(l),
         Concerns(l[c], p), l[c].type = "insert",
         NEW s \in Contents, Redone(s, h, l, c, p), FromLog(s, l, Len(l), p), HoldsAt(s, l[c].slot)
  PROVE  Redone(s, h, l, c + 1, p)
<1> DEFINE r == l[c]
           i == r.slot
           g == h[c - 1]
<1>1. /\ Len(l) \in Nat /\ r \in LogRecord /\ g \in Contents /\ Len(g) \in Nat /\ Len(s) \in Nat
      /\ h[c] = Applied(g, r, p) /\ Possible(g, r)
  BY PastStep, SlotsAre
<1>2. r.type # "delete" /\ r.data \in Values /\ FreeFor(g, i)
  BY <1>1 DEF Possible
<1>3. /\ i \in 1 .. Len(g) + 1
      /\ Len(h[c]) = IF i > Len(g) THEN Len(g) + 1 ELSE Len(g)
      /\ \A j \in 1 .. Len(h[c]) : h[c][j] = IF j = i THEN r.data ELSE g[j]
  <2>1. /\ Written(r) \in Values \cup {NoRecord} /\ r.slot \in 1 .. Len(g) + 1
        /\ Len(Applied(g, r, p)) = IF r.slot > Len(g) THEN Len(g) + 1 ELSE Len(g)
        /\ \A j \in 1 .. Len(Applied(g, r, p)) :
             Applied(g, r, p)[j] = IF j = r.slot THEN Written(r) ELSE g[j]
    <3> HIDE DEF g, r
    <3> QED BY <1>1, AppliedSlots DEF r
  <2> QED BY <1>1, <1>2, <2>1 DEF Written
<1>4. i \in 1 .. Len(s) /\ s[i] # NoRecord
  BY DEF HoldsAt
<1> HIDE DEF g, i
<1>5. Len(g) <= Len(s) /\ \A j \in 1 .. Len(g) :
        /\ s[j] = NoRecord <=> g[j] = NoRecord
        /\ s[j] = g[j] \/ \E n \in c .. Len(l) : Concerns(l[n], p) /\ l[n].slot = j
  BY DEF Redone, g
<1>6. i = Len(g) + 1
  BY <1>1, <1>2, <1>3, <1>4, <1>5 DEF FreeFor
<1>7. Len(h[c]) <= Len(s)
  BY <1>1, <1>3, <1>4, <1>5
<1>8. s[i] = r.data \/ \E n \in c + 1 .. Len(l) : Concerns(l[n], p) /\ l[n].slot = i
  <2>1. PICK n \in 1 .. Len(l) : Concerns(l[n], p) /\ l[n].slot = i /\ l[n].data = s[i]
    BY <1>4 DEF FromLog
  <2>2. n >= c
    <3> SUFFICES ASSUME n < c PROVE FALSE
      BY <1>1
    <3>1. c - 1 \in 0 .. Len(l) /\ n \in 1 .. c - 1
      BY <1>1
    <3>2. i <= Len(g)
      BY <2>1, <3>1 DEF Past, g
    <3> QED BY <1>1, <1>6, <3>2
  <2>3. CASE n = c
    BY <2>1, <2>3
  <2>4. CASE n # c
    <3>1. n \in c + 1 .. Len(l)
      BY <1>1, <2>2, <2>4
    <3> QED BY <2>1, <3>1
  <2> QED BY <2>3, <2>4
<1>9. ASSUME NEW j \in 1 .. Len(h[c])
      PROVE  /\ s[j] = NoRecord <=> h[c][j] = NoRecord
             /\ s[j] = h[c][j] \/ \E n \in c + 1 .. Len(l) : Concerns(l[n], p) /\ l[n].slot = j
  <2>1. CASE j = i
    <3>1. h[c][j] = r.data /\ r.data # NoRecord
      BY <1>2, <1>3, <2>1, NoRecordAssumption
    <3> QED BY <1>4, <1>8, <2>1, <3>1
  <2>2. CASE j # i
    <3>1. j \in 1 .. Len(g) /\ h[c][j] = g[j]
      BY <1>1, <1>3, <2>2
    <3>2. ASSUME NEW n \in c .. Len(l), Concerns(l[n], p), l[n].slot = j
          PROVE  n \in c + 1 .. Len(l)
      BY <1>1, <2>2, <3>2 DEF i
    <3> QED BY <1>5, <3>1, <3>2
  <2> QED BY <2>1, <2>2
<1>10. c + 1 - 1 = c
  OBVIOUS
<1> QED BY <1>7, <1>9, <1>10 DEF Redone

\* A record about another page, or about none, leaves the page as it is.
LEMMA RedoneOther ==
  ASSUME NEW p \in Pages, NEW l \in Seq(LogRecord), NEW h, Past(h, l, p), NEW c \in 1 .. Len(l),
         ~Concerns(l[c], p), NEW s, Redone(s, h, l, c, p)
  PROVE  Redone(s, h, l, c + 1, p)
<1>1. h[c] = h[c - 1] /\ Len(l) \in Nat
  BY PastStep DEF Applied
<1>2. \A n \in c .. Len(l) : Concerns(l[n], p) => n \in c + 1 .. Len(l)
  BY <1>1
<1>3. ASSUME NEW j \in 1 .. Len(h[c])
      PROVE  /\ s[j] = NoRecord <=> h[c][j] = NoRecord
             /\ s[j] = h[c][j] \/ \E n \in c + 1 .. Len(l) : Concerns(l[n], p) /\ l[n].slot = j
  <2>1. /\ s[j] = NoRecord <=> h[c][j] = NoRecord
        /\ s[j] = h[c][j] \/ \E n \in c .. Len(l) : Concerns(l[n], p) /\ l[n].slot = j
    BY <1>1 DEF Redone
  <2> QED BY <1>2, <2>1
<1>4. c + 1 - 1 = c
  OBVIOUS
<1>5. Len(h[c]) <= Len(s)
  BY <1>1 DEF Redone
<1>6. h[c + 1 - 1] = h[c]
  BY <1>4
<1> QED BY <1>3, <1>5, <1>6 DEF Redone

\* RedoPage, case by case.
LEMMA RedoCases ==
  ASSUME NEW pg \in Page, NEW r
  PROVE  /\ r.type = "insert" /\ HoldsAt(pg.slots, r.slot) => RedoPage(pg, r) = pg
         /\ r.type = "insert" /\ ~HoldsAt(pg.slots, r.slot) => RedoPage(pg, r) = InsertRecord(pg, r.data, RecordSize)
         /\ r.type = "delete" => RedoPage(pg, r) = DeleteRecord(pg, r.slot)
         /\ r.type = "update" /\ HoldsAt(pg.slots, r.slot) => RedoPage(pg, r) = [pg EXCEPT !.slots[r.slot] = r.data]
         /\ r.type \notin Changes => RedoPage(pg, r) = pg
<1>1. Holds(pg, r.slot) <=> HoldsAt(pg.slots, r.slot)
  BY PageSlotsAre
<1>2. CASE r.type = "insert"
  BY <1>1, <1>2 DEF RedoPage, AlreadyApplied, Changes
<1>3. CASE r.type = "delete"
  BY <1>3 DEF RedoPage, Changes
<1>4. CASE r.type = "update"
  BY <1>1, <1>4 DEF RedoPage, Changes
<1>5. CASE r.type \notin Changes
  BY <1>5 DEF RedoPage, Changes
<1> QED BY <1>2, <1>3, <1>4, <1>5 DEF Changes

LEMMA RedoChange ==
  ASSUME NEW p \in Pages, NEW l \in Seq(LogRecord), NEW h, Past(h, l, p), NEW c \in 1 .. Len(l),
         Concerns(l[c], p), NEW pg \in Page, Redone(pg.slots, h, l, c, p), FromLog(pg.slots, l, Len(l), p),
         l[c].type = "insert" => HoldsAt(pg.slots, l[c].slot) \/ Cost(pg, RecordSize) <= pg.free
  PROVE  /\ RedoPage(pg, l[c]) \in Page /\ RedoPage(pg, l[c]).free >= pg.free - Unit
         /\ Redone(RedoPage(pg, l[c]).slots, h, l, c + 1, p)
         /\ FromLog(RedoPage(pg, l[c]).slots, l, Len(l), p)
<1> DEFINE r == l[c]
           s == pg.slots
           q == RedoPage(pg, r)
<1>1. /\ Len(l) \in Nat /\ r \in LogRecord /\ h[c - 1] \in Contents /\ Len(h[c - 1]) \in Nat
      /\ Possible(h[c - 1], r) /\ r.type \in Changes
  BY PastStep DEF Concerns
<1>2. s \in Contents /\ Len(s) \in Nat /\ pg.free \in Nat /\ Unit \in Nat
  BY PageSlotsAre, SlotsAre, SizeAssumption, SlotSizeAssumption DEF Unit
<1>3. CASE r.type = "insert" /\ HoldsAt(s, r.slot)
  <2>1. q = pg
    BY <1>3, RedoCases
  <2>2. Redone(s, h, l, c + 1, p)
    BY <1>2, <1>3, RedoneSkipped
  <2>3. pg.free >= pg.free - Unit
    BY <1>2
  <2> QED BY <2>1, <2>2, <2>3
<1>4. ASSUME q \in Page, q.free >= pg.free - Unit,
             q.slots = Stored(s, r.slot, Written(r)), r.slot \in 1 .. Len(s) + 1
      PROVE  /\ q \in Page /\ q.free >= pg.free - Unit
             /\ Redone(q.slots, h, l, c + 1, p) /\ FromLog(q.slots, l, Len(l), p)
  <2>1. Redone(Stored(s, r.slot, Written(r)), h, l, c + 1, p)
    BY <1>2, <1>4, RedoneWritten
  <2>2. FromLog(Stored(s, r.slot, Written(r)), l, Len(l), p)
    <3>1. Len(l) \in 0 .. Len(l)
      BY <1>1
    <3> QED BY <1>2, <1>4, <3>1, FromLogStored
  <2> QED BY <1>4, <2>1, <2>2
<1>5. CASE r.type = "insert" /\ ~HoldsAt(s, r.slot)
  <2>1. q = InsertRecord(pg, r.data, RecordSize) /\ r.data \in Values /\ Written(r) = r.data
    BY <1>1, <1>5, RedoCases DEF Possible, Written
  <2>2. FreeFor(s, r.slot)
    BY <1>2, <1>5, LandsInSlot
  <2>3. r.slot = FreeSlot(pg)
    BY <1>2, <2>2, PageSlotsAre, OneFreeSlot
  <2>4. q \in Page /\ q.free >= pg.free - Unit /\ q.slots = Stored(s, r.slot, Written(r))
    BY <1>5, <2>1, <2>3, InsertedPage
  <2> QED BY <1>4, <2>2, <2>4 DEF FreeFor
<1>6. CASE r.type # "insert"
  <2>1. r.slot \in 1 .. Len(h[c - 1]) /\ h[c - 1][r.slot] # NoRecord
    BY <1>1, <1>6 DEF Possible, HoldsAt
  <2>2. HoldsAt(s, r.slot) /\ r.slot \in 1 .. Len(s) + 1
    <3>1. Len(h[c - 1]) <= Len(s) /\ (s[r.slot] = NoRecord <=> h[c - 1][r.slot] = NoRecord)
      BY <2>1 DEF Redone
    <3> QED BY <1>1, <1>2, <2>1, <3>1 DEF HoldsAt
  <2>3. CASE r.type = "delete"
    <3>1. q = DeleteRecord(pg, r.slot) /\ Written(r) = NoRecord
      BY <2>3, RedoCases DEF Written
    <3>2. q \in Page /\ q.free = pg.free /\ q.slots = Stored(s, r.slot, Written(r))
      BY <2>2, <3>1, DeletedPage
    <3>3. q.free >= pg.free - Unit
      BY <1>2, <3>2
    <3> QED BY <1>4, <2>2, <3>2, <3>3
  <2>4. CASE r.type = "update"
    <3>1. q = [pg EXCEPT !.slots[r.slot] = r.data] /\ Written(r) = r.data
      BY <2>2, <2>4, RedoCases DEF Written
    <3>2. q \in Page /\ q.free = pg.free /\ q.slots = Stored(s, r.slot, Written(r))
      <4>1. r.data \in Values \cup {NoRecord}
        BY <1>1, RecordKinds
      <4>2. /\ [pg EXCEPT !.slots[r.slot] = r.data] \in Page
            /\ [pg EXCEPT !.slots[r.slot] = r.data].slots = Stored(s, r.slot, r.data)
            /\ [pg EXCEPT !.slots[r.slot] = r.data].free = pg.free
        <5> HIDE DEF r
        <5> QED BY <2>2, <4>1, WrittenPage
      <4> QED BY <3>1, <4>2
    <3>3. q.free >= pg.free - Unit
      BY <1>2, <3>2
    <3> QED BY <1>4, <2>2, <3>2, <3>3
  <2> QED BY <1>1, <1>6, <2>3, <2>4 DEF Changes
<1> QED BY <1>3, <1>5, <1>6

\* When all records have been replayed, the page is what the log says.
LEMMA RedoneAll ==
  ASSUME NEW p \in Pages, NEW l \in Seq(LogRecord), NEW h, Past(h, l, p),
         NEW s \in Contents, Redone(s, h, l, Len(l) + 1, p), FromLog(s, l, Len(l), p)
  PROVE  s = h[Len(l)]
<1> DEFINE L == Len(l)
           g == h[L]
<1>1. L \in Nat /\ g \in Contents /\ Len(g) \in Nat /\ Len(s) \in Nat
  <2>1. L \in Nat
    BY LenProperties
  <2>2. g \in Contents
    BY <2>1 DEF Past, IsHistory
  <2> QED BY <2>1, <2>2, SlotsAre
<1>2. h[L + 1 - 1] = g
  <2>1. L + 1 - 1 = L
    BY <1>1
  <2> QED BY <2>1
<1>3. Len(g) <= Len(s) /\ \A j \in 1 .. Len(g) : s[j] = g[j]
  <2>1. \A n \in L + 1 .. L : FALSE
    BY <1>1
  <2> QED BY <1>2, <2>1 DEF Redone
<1>4. Len(s) <= Len(g)
  <2>1. CASE Len(s) = 0
    BY <1>1, <2>1
  <2>2. CASE Len(s) # 0
    <3>1. Len(s) \in 1 .. Len(s)
      BY <1>1, <2>2
    <3>2. PICK n \in 1 .. L : Concerns(l[n], p) /\ l[n].slot = Len(s)
      BY <3>1 DEF FromLog
    <3>3. L \in 0 .. L
      BY <1>1
    <3> QED BY <3>2, <3>3 DEF Past
  <2> QED BY <2>1, <2>2
<1>5. Len(s) = Len(g)
  BY <1>1, <1>3, <1>4
<1> HIDE DEF g
<1>6. s = g
  BY <1>1, <1>3, <1>5, SeqEqual DEF Contents
<1> QED BY <1>6 DEF g

-----------------------------------------------------------------------------
(* The invariant. *)

ProcessInv ==
  /\ TypeOK
  /\ Len(log) <= MaxLog
  /\ mode = "recovering" => forced = Len(log) /\ cursor <= Len(log) + 1
  /\ mode \in {"checkpoint", "flushed"} => \A p \in Pages : LogFirst(p)
  /\ \A n \in 1 .. Len(log) : "page" \in DOMAIN log[n] => log[n].page \in allocated

\* What is in the file comes from the part of the log that is in its file, what
\* clients see from all of it; a recovery has brought the page as far as its cursor.
PageSound(p, h) ==
  /\ FromLog(cache[p].slots, log, Len(log), p) /\ FromLog(disk[p].slots, log, forced, p)
  /\ mode = "recovering" => Redone(cache[p].slots, h, log, cursor, p)
  /\ mode # "recovering" => cache[p].slots = h[Len(log)]

PageInv(p) == \E h : Past(h, log, p) /\ PageSound(p, h)

RecoveryInv == ProcessInv /\ \A p \in Pages : PageInv(p)

LEMMA StateTypes ==
  ASSUME ProcessInv
  PROVE  /\ log \in Seq(LogRecord) /\ Len(log) \in Nat /\ MaxLog \in Nat /\ MaxRestarts \in Nat
         /\ forced \in Nat /\ forced <= Len(log) /\ cursor \in Nat /\ cursor >= 1
         /\ \A n \in 1 .. Len(log) : log[n] \in LogRecord
         /\ \A p \in Pages : /\ cache[p] \in Page /\ cache[p].slots \in Contents
                             /\ disk[p] \in Page /\ disk[p].slots \in Contents
<1>1. log \in Seq(LogRecord) /\ Len(log) \in Nat /\ \A n \in 1 .. Len(log) : log[n] \in LogRecord
  BY LenProperties, ElementOfSeq DEF ProcessInv, TypeOK
<1>2. forced \in Nat /\ forced <= Len(log) /\ cursor \in Nat /\ cursor >= 1
  BY <1>1, BoundAssumption DEF ProcessInv, TypeOK
<1>3. \A p \in Pages : cache[p] \in Page /\ disk[p] \in Page
  BY DEF ProcessInv, TypeOK
<1> QED BY <1>1, <1>2, <1>3, BoundAssumption, PageSlotsAre

LEMMA EmptyPages ==
  /\ Formatted \in Page /\ Zeros \in Page /\ Formatted.slots = <<>> /\ Zeros.slots = <<>>
  /\ Formatted.free = Capacity
  /\ <<>> \in Contents /\ Len(<<>>) = 0
<1>1. <<>> \in Contents /\ Len(<<>>) = 0
  BY EmptySeq DEF Contents
<1> QED BY <1>1, SizeAssumption DEF Formatted, Zeros, Page, Contents

\* Nothing is in a page that the file does not have yet.
LEMMA NothingBefore ==
  ASSUME ProcessInv, NEW p \in Pages, PageInv(p), p \notin allocated
  PROVE  cache[p].slots = <<>> /\ disk[p].slots = <<>>
<1>1. ASSUME NEW s \in Contents, NEW k \in 0 .. Len(log), FromLog(s, log, k, p) PROVE s = <<>>
  <2>1. Len(s) \in Nat /\ Len(log) \in Nat
    BY SlotsAre, StateTypes
  <2>2. Len(s) = 0
    <3> SUFFICES ASSUME Len(s) # 0 PROVE FALSE
      OBVIOUS
    <3>1. 1 \in 1 .. Len(s)
      BY <2>1
    <3>2. PICK n \in 1 .. k : Concerns(log[n], p)
      BY <1>1, <3>1 DEF FromLog
    <3>3. n \in 1 .. Len(log) /\ log[n] \in LogRecord
      BY <2>1, <1>1, StateTypes
    <3>4. "page" \in DOMAIN log[n] /\ log[n].page = p
      BY <3>2, <3>3, RecordKinds DEF Concerns
    <3> QED BY <3>3, <3>4 DEF ProcessInv
  <2> QED BY <2>2, EmptySeq, <2>1 DEF Contents
<1>2. Len(log) \in 0 .. Len(log) /\ forced \in 0 .. Len(log)
  BY StateTypes
<1> QED BY <1>1, <1>2, StateTypes DEF PageInv, PageSound

\* The write-ahead rule: a page that may be written is one that the part of the log
\* in its file accounts for.
LEMMA LogFirstAccounts ==
  ASSUME ProcessInv, NEW p \in Pages, PageInv(p), LogFirst(p)
  PROVE  FromLog(cache[p].slots, log, forced, p)
<1> DEFINE s == cache[p].slots
<1>1. Len(log) \in Nat /\ forced \in Nat /\ forced <= Len(log) /\ \A n \in 1 .. Len(log) : log[n] \in LogRecord
  BY StateTypes
<1>2. ASSUME NEW n \in 1 .. Len(log), Concerns(log[n], p) PROVE n \in 1 .. forced
  <2>1. "page" \in DOMAIN log[n] /\ log[n].page = p
    BY <1>1, <1>2, RecordKinds DEF Concerns
  <2>2. n \notin forced + 1 .. Len(log)
    BY <2>1 DEF LogFirst
  <2> QED BY <1>1, <2>2
<1>3. ASSUME NEW j \in 1 .. Len(s)
      PROVE  /\ \E n \in 1 .. forced : Concerns(log[n], p) /\ log[n].slot = j
             /\ s[j] # NoRecord => \E n \in 1 .. forced : Concerns(log[n], p) /\ log[n].slot = j /\ log[n].data = s[j]
  <2>1. /\ \E n \in 1 .. Len(log) : Concerns(log[n], p) /\ log[n].slot = j
        /\ s[j] # NoRecord => \E n \in 1 .. Len(log) : Concerns(log[n], p) /\ log[n].slot = j /\ log[n].data = s[j]
    BY DEF PageInv, PageSound, FromLog
  <2> QED BY <1>2, <2>1
<1> QED BY <1>3 DEF FromLog

-----------------------------------------------------------------------------
(* The process at work. *)

\* A record is logged and, if it is about the page, the change made.
LEMMA PageLogged ==
  ASSUME ProcessInv, NEW p \in Pages, PageInv(p), mode # "recovering", mode' # "recovering",
         NEW r \in LogRecord, log' = Append(log, r), forced' \in {forced, Len(log')},
         Concerns(r, p) => Possible(cache[p].slots, r),
         cache'[p].slots = Applied(cache[p].slots, r, p), disk'[p].slots = disk[p].slots
  PROVE  PageInv(p)'
<1> DEFINE L == Len(log)
           s == cache[p].slots
<1>1. /\ log \in Seq(LogRecord) /\ L \in Nat /\ forced \in Nat /\ forced <= L /\ s \in Contents
      /\ log' \in Seq(LogRecord) /\ Len(log') = L + 1 /\ log'[L + 1] = r
      /\ \A n \in 1 .. L : log'[n] = log[n]
  BY StateTypes, AppendProperties
<1>2. PICK h : Past(h, log, p) /\ PageSound(p, h)
  BY DEF PageInv
<1>3. s = h[L] /\ FromLog(s, log, L, p) /\ FromLog(disk[p].slots, log, forced, p)
  BY <1>2 DEF PageSound
<1>4. PICK g : Past(g, log', p) /\ g[L + 1] = Applied(s, r, p)
  BY <1>1, <1>2, <1>3, PastAppend
<1>5. FromLog(s, log', L + 1, p)
  <2>1. L + 1 \in Nat /\ L <= L + 1
    BY <1>1
  <2> QED BY <1>1, <1>3, <2>1, FromLogGrows
<1>6. FromLog(Applied(s, r, p), log', L + 1, p)
  <2>1. CASE Concerns(r, p)
    <3>1. L + 1 \in 0 .. Len(log') /\ L + 1 \in 1 .. L + 1
      BY <1>1
    <3>2. r.slot \in 1 .. Len(s) + 1
      BY <1>1, <2>1, AppliedSlots
    <3>3. FromLog(Stored(s, r.slot, Written(r)), log', L + 1, p)
      BY <1>1, <1>5, <2>1, <3>1, <3>2, FromLogStored
    <3> QED BY <2>1, <3>3 DEF Applied
  <2>2. CASE ~Concerns(r, p)
    BY <1>5, <2>2 DEF Applied
  <2> QED BY <2>1, <2>2
<1>7. FromLog(disk[p].slots, log', forced', p)
  <2>1. forced' \in Nat /\ forced <= forced' /\ \A n \in 1 .. forced : log'[n] = log[n]
    BY <1>1
  <2> QED BY <1>1, <1>3, <2>1, FromLogGrows
<1>8. PageSound(p, g)'
  BY <1>1, <1>4, <1>6, <1>7 DEF PageSound
<1> QED BY <1>4, <1>8 DEF PageInv

\* Nothing is logged, and clients see what they saw.
LEMMA PageSame ==
  ASSUME ProcessInv, NEW p \in Pages, PageInv(p), log' = log, cache'[p].slots = cache[p].slots,
         mode' # "recovering" <=> mode # "recovering", cursor' = cursor,
         forced' \in Nat, FromLog(disk'[p].slots, log, forced', p)
  PROVE  PageInv(p)'
BY DEF PageInv, PageSound

LEMMA ProcessLogged ==
  ASSUME ProcessInv, NEW r \in LogRecord, Logged(r), forced' \in {forced, Len(log')},
         cache' \in [Pages -> Page], disk' \in [Pages -> Page],
         allocated' \subseteq Pages, allocated \subseteq allocated',
         "page" \in DOMAIN r => r.page \in allocated',
         mode' \in {"running", "checkpoint"},
         mode' = "checkpoint" => "page" \notin DOMAIN r /\ \A p \in Pages : LogFirst(p),
         cursor' = cursor, restarts' = restarts
  PROVE  ProcessInv'
<1>1. /\ log \in Seq(LogRecord) /\ Len(log) \in Nat /\ forced \in Nat /\ forced <= Len(log) /\ MaxLog \in Nat
      /\ log' \in Seq(LogRecord) /\ Len(log') = Len(log) + 1 /\ log'[Len(log) + 1] = r
      /\ \A n \in 1 .. Len(log) : log'[n] = log[n]
  BY StateTypes, AppendProperties DEF Logged
<1>2. Len(log') <= MaxLog /\ forced' \in 0 .. Len(log')
  BY <1>1 DEF Logged
<1>3. TypeOK'
  BY <1>1, <1>2 DEF TypeOK, ProcessInv
<1>4. ASSUME NEW n \in 1 .. Len(log'), "page" \in DOMAIN log'[n] PROVE log'[n].page \in allocated'
  <2>1. CASE n = Len(log) + 1
    BY <1>1, <1>4, <2>1
  <2>2. CASE n # Len(log) + 1
    <3>1. n \in 1 .. Len(log)
      BY <1>1, <2>2
    <3> QED BY <1>1, <1>4, <3>1 DEF ProcessInv
  <2> QED BY <2>1, <2>2
<1>5. ASSUME mode' = "checkpoint", NEW p \in Pages PROVE LogFirst(p)'
  <2>1. forced' = forced \/ forced' = Len(log')
    OBVIOUS
  <2>2. ASSUME NEW i \in forced' + 1 .. Len(log'), "page" \in DOMAIN log'[i] PROVE log'[i].page # p
    <3>1. i # Len(log) + 1
      BY <1>1, <1>5, <2>2
    <3>2. i \in forced + 1 .. Len(log)
      <4>1. forced' = forced
        <5> SUFFICES ASSUME forced' = Len(log') PROVE FALSE
          BY <2>1
        <5> QED BY <1>1, <2>2
      <4> QED BY <1>1, <2>2, <3>1, <4>1
    <3>3. log'[i] = log[i]
      BY <1>1, <3>2
    <3> QED BY <1>5, <2>2, <3>2, <3>3 DEF LogFirst
  <2> QED BY <2>2 DEF LogFirst
<1>6. mode' # "recovering" /\ mode' # "flushed"
  OBVIOUS
<1> QED BY <1>2, <1>3, <1>4, <1>5, <1>6 DEF ProcessInv

\* Every page but one is left alone.
LEMMA OtherPage ==
  ASSUME NEW f \in [Pages -> Page], NEW q \in Pages, NEW v \in Page
  PROVE  /\ [f EXCEPT ![q] = v] \in [Pages -> Page] /\ [f EXCEPT ![q] = v][q] = v
         /\ \A p \in Pages : p # q => [f EXCEPT ![q] = v][p] = f[p]
OBVIOUS

LEMMA NewPageKeeps ==
  ASSUME RecoveryInv, NEW q \in Pages, NewPage(q)
  PROVE  RecoveryInv'
<1> DEFINE r == [type |-> "new_page", page |-> q]
<1>1. /\ mode = "running" /\ q \notin allocated /\ Logged(r) /\ log' = Append(log, r)
      /\ allocated' = allocated \cup {q} /\ cache' = [cache EXCEPT ![q] = Formatted]
      /\ disk' = [disk EXCEPT ![q] = Formatted] \/ disk' = [disk EXCEPT ![q] = Zeros]
      /\ forced' = forced /\ mode' = mode /\ cursor' = cursor /\ restarts' = restarts
  BY DEF NewPage, Logged
<1>2. /\ ProcessInv /\ cache \in [Pages -> Page] /\ disk \in [Pages -> Page]
      /\ allocated \subseteq Pages /\ \A p \in Pages : PageInv(p)
  BY DEF RecoveryInv, ProcessInv, TypeOK
<1>3. /\ r \in LogRecord /\ r.type \notin Changes /\ r.page = q
  BY DEF LogRecord, Changes
<1>4. /\ cache' \in [Pages -> Page] /\ cache'[q].slots = <<>>
      /\ \A p \in Pages : p # q => cache'[p] = cache[p]
  BY <1>1, <1>2, EmptyPages, OtherPage
<1>5. /\ disk' \in [Pages -> Page] /\ disk'[q].slots = <<>>
      /\ \A p \in Pages : p # q => disk'[p] = disk[p]
  BY <1>1, <1>2, EmptyPages, OtherPage
<1> HIDE DEF r
<1>6. ProcessInv'
  BY <1>1, <1>2, <1>3, <1>4, <1>5, ProcessLogged
<1>7. ASSUME NEW p \in Pages PROVE PageInv(p)'
  <2>1. cache'[p].slots = cache[p].slots /\ disk'[p].slots = disk[p].slots
    BY <1>1, <1>2, <1>4, <1>5, NothingBefore
  <2>2. ~Concerns(r, p) /\ Applied(cache[p].slots, r, p) = cache[p].slots
    BY <1>3 DEF Concerns, Applied
  <2> QED BY <1>1, <1>2, <1>3, <2>1, <2>2, PageLogged
<1> QED BY <1>6, <1>7 DEF RecoveryInv

\* A change that clients make: what each of them shares.
LEMMA ChangeKeeps ==
  ASSUME RecoveryInv, NEW q \in Pages, q \in allocated, NEW r \in LogRecord, Logged(r),
         mode = "running", Concerns(r, q), "page" \in DOMAIN r, Possible(cache[q].slots, r),
         NEW pg \in Page, pg.slots = Stored(cache[q].slots, r.slot, Written(r)),
         cache' = [cache EXCEPT ![q] = pg],
         UNCHANGED <<forced, disk, allocated, mode, cursor, restarts>>
  PROVE  RecoveryInv'
<1>1. /\ ProcessInv /\ cache \in [Pages -> Page] /\ disk \in [Pages -> Page]
      /\ allocated \subseteq Pages /\ \A p \in Pages : PageInv(p)
  BY DEF RecoveryInv, ProcessInv, TypeOK
<1>2. /\ cache' \in [Pages -> Page] /\ cache'[q] = pg
      /\ \A p \in Pages : p # q => cache'[p] = cache[p]
  BY <1>1, OtherPage
<1>3. /\ log' = Append(log, r) /\ r.page = q /\ mode' = "running" /\ forced' = forced /\ disk' = disk
      /\ allocated' = allocated /\ cursor' = cursor /\ restarts' = restarts
  BY DEF Concerns, Logged
<1>4. ProcessInv'
  BY <1>1, <1>2, <1>3, ProcessLogged
<1>5. ASSUME NEW p \in Pages PROVE PageInv(p)'
  <2>1. Concerns(r, p) => p = q
    BY <1>3 DEF Concerns
  <2>2. cache'[p].slots = Applied(cache[p].slots, r, p)
    BY <1>2, <1>3, <2>1 DEF Applied, Concerns
  <2> QED BY <1>1, <1>3, <2>1, <2>2, PageLogged
<1> QED BY <1>4, <1>5 DEF RecoveryInv

\* No page has more slots than the log has records.
LEMMA SlotsWithinLog ==
  ASSUME RecoveryInv, NEW p \in Pages, mode # "recovering"
  PROVE  Len(cache[p].slots) \in Nat /\ Len(cache[p].slots) <= Len(log)
<1>1. PICK h : Past(h, log, p) /\ PageSound(p, h)
  BY DEF RecoveryInv, PageInv
<1>2. Len(log) \in Nat /\ cache[p].slots \in Contents
  BY StateTypes DEF RecoveryInv
<1>3. cache[p].slots = h[Len(log)] /\ Len(log) \in 0 .. Len(log)
  BY <1>1, <1>2 DEF PageSound
<1> QED BY <1>1, <1>2, <1>3, SlotsAre DEF Past

LEMMA InsertKeeps ==
  ASSUME RecoveryInv, NEW q \in Pages, NEW v \in Values, Insert(q, v)
  PROVE  RecoveryInv'
<1> DEFINE i == FreeSlot(cache[q])
           r == [type |-> "insert", page |-> q, slot |-> i, data |-> v]
           pg == InsertRecord(cache[q], v, RecordSize)
<1>1. /\ mode = "running" /\ q \in allocated /\ HasSpaceFor(cache[q], RecordSize) /\ Logged(r)
      /\ cache' = [cache EXCEPT ![q] = pg]
      /\ UNCHANGED <<forced, disk, allocated, mode, cursor, restarts>>
  BY DEF Insert
<1>2. ProcessInv /\ cache[q] \in Page /\ cache[q].slots \in Contents /\ Len(log) \in Nat /\ MaxLog \in Nat
  BY StateTypes DEF RecoveryInv
<1>3. FreeFor(cache[q].slots, i) /\ cache[q].free \in 0 .. Capacity
  BY <1>2, PageSlotsAre
<1>4. i \in Slot
  <2>1. Len(cache[q].slots) \in Nat /\ Len(cache[q].slots) <= Len(log)
    BY <1>1, SlotsWithinLog
  <2>2. i \in 1 .. Len(cache[q].slots) + 1 /\ Len(log) < MaxLog
    BY <1>1, <1>3 DEF FreeFor, Logged
  <2> QED BY <1>2, <2>1, <2>2 DEF Slot
<1>5. Cost(cache[q], RecordSize) <= cache[q].free
  BY <1>1, <1>3, SizeAssumption DEF HasSpaceFor, GetFreeSpace
<1>6. pg \in Page /\ pg.slots = Stored(cache[q].slots, i, v)
  BY <1>2, <1>5, InsertedPage
<1> HIDE DEF i, pg
<1>7. r \in LogRecord
  BY <1>4 DEF LogRecord
<1>8. /\ r.slot = i /\ Written(r) = v /\ Concerns(r, q) /\ "page" \in DOMAIN r
      /\ Possible(cache[q].slots, r)
  BY <1>3 DEF Written, Concerns, Changes, Possible
<1> HIDE DEF r
<1> QED BY <1>1, <1>6, <1>7, <1>8, ChangeKeeps

\* Only pages of the file hold records.
LEMMA HeldIsAllocated ==
  ASSUME RecoveryInv, NEW q \in Pages, NEW i, Holds(cache[q], i)
  PROVE  q \in allocated /\ HoldsAt(cache[q].slots, i)
<1>1. ProcessInv /\ PageInv(q) /\ cache[q] \in Page
  BY StateTypes DEF RecoveryInv
<1>2. HoldsAt(cache[q].slots, i)
  BY <1>1, PageSlotsAre
<1>3. cache[q].slots # <<>>
  BY <1>2, EmptyPages DEF HoldsAt
<1> QED BY <1>1, <1>2, <1>3, NothingBefore

LEMMA DeleteKeeps ==
  ASSUME RecoveryInv, NEW q \in Pages, NEW i \in Slot, Delete(q, i)
  PROVE  RecoveryInv'
<1> DEFINE r == [type |-> "delete", page |-> q, slot |-> i, data |-> cache[q].slots[i]]
           pg == DeleteRecord(cache[q], i)
<1>1. /\ mode = "running" /\ Holds(cache[q], i) /\ Logged(r)
      /\ cache' = [cache EXCEPT ![q] = pg]
      /\ UNCHANGED <<forced, disk, allocated, mode, cursor, restarts>>
  BY DEF Delete
<1>2. cache[q] \in Page /\ cache[q].slots \in Contents
  BY StateTypes DEF RecoveryInv
<1>3. q \in allocated /\ HoldsAt(cache[q].slots, i)
  BY <1>1, HeldIsAllocated
<1>4. pg \in Page /\ pg.slots = Stored(cache[q].slots, i, NoRecord)
  BY <1>2, <1>3, DeletedPage
<1> HIDE DEF pg
<1>5. cache[q].slots[i] \in Values \cup {NoRecord}
  BY <1>2, <1>3, SlotsAre DEF HoldsAt
<1>6. r \in LogRecord
  BY <1>5 DEF LogRecord
<1>7. /\ r.slot = i /\ Written(r) = NoRecord /\ Concerns(r, q) /\ "page" \in DOMAIN r
      /\ Possible(cache[q].slots, r)
  BY <1>3 DEF Written, Concerns, Changes, Possible
<1> HIDE DEF r
<1> QED BY <1>1, <1>3, <1>4, <1>6, <1>7, ChangeKeeps

LEMMA UpdateKeeps ==
  ASSUME RecoveryInv, NEW q \in Pages, NEW i \in Slot, NEW v \in Values, Update(q, i, v)
  PROVE  RecoveryInv'
<1> DEFINE r == [type |-> "update", page |-> q, slot |-> i, data |-> v]
           pg == [cache[q] EXCEPT !.slots[i] = v]
<1>1. /\ mode = "running" /\ Holds(cache[q], i) /\ Logged(r)
      /\ cache' = [cache EXCEPT ![q].slots[i] = v]
      /\ UNCHANGED <<forced, disk, allocated, mode, cursor, restarts>>
  BY DEF Update
<1>2. cache[q] \in Page /\ cache[q].slots \in Contents
  BY StateTypes DEF RecoveryInv
<1>3. cache' = [cache EXCEPT ![q] = pg]
  BY <1>1
<1>4. q \in allocated /\ HoldsAt(cache[q].slots, i)
  BY <1>1, HeldIsAllocated
<1>5. pg \in Page /\ pg.slots = Stored(cache[q].slots, i, v)
  <2>1. v \in Values \cup {NoRecord}
    OBVIOUS
  <2> QED BY <1>2, <1>4, <2>1, WrittenPage
<1> HIDE DEF pg
<1>6. r \in LogRecord
  BY DEF LogRecord
<1>7. /\ r.slot = i /\ Written(r) = v /\ Concerns(r, q) /\ "page" \in DOMAIN r
      /\ Possible(cache[q].slots, r)
  BY <1>4 DEF Written, Concerns, Changes, Possible
<1> HIDE DEF r
<1> QED BY <1>1, <1>3, <1>4, <1>5, <1>6, <1>7, ChangeKeeps

\* The log is forced.
LEMMA FlushLogKeeps ==
  ASSUME RecoveryInv, FlushLog
  PROVE  RecoveryInv'
<1>1. /\ mode = "running" /\ forced' = Len(log) /\ log' = log /\ cache' = cache /\ disk' = disk
      /\ allocated' = allocated /\ mode' = mode /\ cursor' = cursor /\ restarts' = restarts
  BY DEF FlushLog
<1>2. ProcessInv /\ Len(log) \in Nat /\ forced \in Nat /\ forced <= Len(log) /\ \A p \in Pages : PageInv(p)
  BY StateTypes DEF RecoveryInv
<1>3. ProcessInv'
  <2>1. TypeOK'
    BY <1>1, <1>2 DEF TypeOK, ProcessInv
  <2> QED BY <1>1, <1>2, <2>1 DEF ProcessInv
<1>4. ASSUME NEW p \in Pages PROVE PageInv(p)'
  <2>1. FromLog(disk[p].slots, log, forced, p)
    BY <1>2 DEF PageInv, PageSound
  <2>2. FromLog(disk'[p].slots, log, forced', p)
    BY <1>1, <1>2, <2>1, FromLogGrows
  <2> QED BY <1>1, <1>2, <2>2, PageSame
<1> QED BY <1>3, <1>4 DEF RecoveryInv

\* One page is written back.
LEMMA WriteBackKeeps ==
  ASSUME "write_back_first" \notin Events, RecoveryInv, NEW q \in Pages, WriteBack(q)
  PROVE  RecoveryInv'
<1>1. /\ LogFirst(q) /\ disk' = [disk EXCEPT ![q] = cache[q]] /\ log' = log /\ forced' = forced /\ cache' = cache
      /\ allocated' = allocated /\ mode' = mode /\ cursor' = cursor /\ restarts' = restarts
  BY DEF WriteBack
<1>2. ProcessInv /\ forced \in Nat /\ cache[q] \in Page /\ disk \in [Pages -> Page] /\ \A p \in Pages : PageInv(p)
  BY StateTypes DEF RecoveryInv, ProcessInv, TypeOK
<1>3. disk' \in [Pages -> Page] /\ disk'[q] = cache[q] /\ \A p \in Pages : p # q => disk'[p] = disk[p]
  BY <1>1, <1>2, OtherPage
<1>4. ProcessInv'
  <2>1. TypeOK'
    BY <1>1, <1>2, <1>3 DEF TypeOK, ProcessInv
  <2>2. \A p \in Pages : LogFirst(p)' <=> LogFirst(p)
    BY <1>1 DEF LogFirst
  <2> QED BY <1>1, <1>2, <2>1, <2>2 DEF ProcessInv
<1>5. ASSUME NEW p \in Pages PROVE PageInv(p)'
  <2>1. FromLog(disk'[p].slots, log, forced', p)
    <3>1. CASE p = q
      BY <1>1, <1>2, <1>3, <3>1, LogFirstAccounts
    <3>2. CASE p # q
      BY <1>1, <1>2, <1>3, <3>2 DEF PageInv, PageSound
    <3> QED BY <3>1, <3>2
  <2> QED BY <1>1, <1>2, <2>1, PageSame
<1> QED BY <1>4, <1>5 DEF RecoveryInv

-----------------------------------------------------------------------------
(* Checkpoints. *)

\* A record of a checkpoint is logged.
LEMMA MarkKeeps ==
  ASSUME RecoveryInv, NEW t \in {"checkpoint_begin", "checkpoint_end"}, Logged([type |-> t]),
         mode # "recovering", mode' \in {"running", "checkpoint"},
         mode' = "checkpoint" => \A p \in Pages : LogFirst(p),
         forced' \in {forced, Len(log')}, UNCHANGED <<cache, disk, allocated, cursor, restarts>>
  PROVE  RecoveryInv'
<1> DEFINE r == [type |-> t]
<1>1. /\ ProcessInv /\ cache \in [Pages -> Page] /\ disk \in [Pages -> Page]
      /\ allocated \subseteq Pages /\ \A p \in Pages : PageInv(p)
  BY DEF RecoveryInv, ProcessInv, TypeOK
<1>2. r \in LogRecord /\ r.type \notin Changes /\ "page" \notin DOMAIN r
  BY DEF LogRecord, Changes
<1>3. Logged(r) /\ log' = Append(log, r)
  BY DEF Logged
<1> HIDE DEF r
<1>4. ProcessInv'
  BY <1>1, <1>2, <1>3, ProcessLogged
<1>5. ASSUME NEW p \in Pages PROVE PageInv(p)'
  <2>1. ~Concerns(r, p) /\ Applied(cache[p].slots, r, p) = cache[p].slots
    BY <1>2 DEF Concerns, Applied
  <2> QED BY <1>1, <1>2, <1>3, <2>1, PageLogged
<1> QED BY <1>4, <1>5 DEF RecoveryInv

LEMMA CheckpointBeginKeeps ==
  ASSUME "write_back_first" \notin Events, RecoveryInv, CheckpointBegin
  PROVE  RecoveryInv'
BY MarkKeeps DEF CheckpointBegin

LEMMA CheckpointEndKeeps ==
  ASSUME RecoveryInv, CheckpointEnd
  PROVE  RecoveryInv'
BY MarkKeeps DEF CheckpointEnd

\* FlushAllPages: the log accounted for the pages when the checkpoint began, and
\* nothing has changed since.
LEMMA CheckpointFlushesKeeps ==
  ASSUME RecoveryInv, CheckpointFlushes
  PROVE  RecoveryInv'
<1>1. /\ mode = "checkpoint" /\ disk' = cache /\ mode' = "flushed" /\ log' = log /\ forced' = forced
      /\ cache' = cache /\ allocated' = allocated /\ cursor' = cursor /\ restarts' = restarts
  BY DEF CheckpointFlushes
<1>2. ProcessInv /\ forced \in Nat /\ \A p \in Pages : PageInv(p) /\ LogFirst(p)
  BY <1>1, StateTypes DEF RecoveryInv, ProcessInv
<1>3. ProcessInv'
  <2>1. TypeOK'
    BY <1>1, <1>2 DEF TypeOK, ProcessInv
  <2>2. \A p \in Pages : LogFirst(p)'
    BY <1>1, <1>2 DEF LogFirst
  <2> QED BY <1>1, <1>2, <2>1, <2>2 DEF ProcessInv
<1>4. ASSUME NEW p \in Pages PROVE PageInv(p)'
  <2>1. FromLog(disk'[p].slots, log, forced', p)
    BY <1>1, <1>2, LogFirstAccounts
  <2> QED BY <1>1, <1>2, <2>1, PageSame
<1> QED BY <1>3, <1>4 DEF RecoveryInv

-----------------------------------------------------------------------------
(* The end of the process, and recovery. *)

\* The next process starts with the pages of the file and no record replayed.
LEMMA RecoveryStarts ==
  ASSUME ProcessInv, NEW p \in Pages, log' \in Seq(LogRecord), forced' = Len(log'),
         \E g : Past(g, log', p), FromLog(cache'[p].slots, log', Len(log'), p),
         cache'[p].slots \in Contents, disk'[p] = cache'[p], mode' = "recovering", cursor' = 1
  PROVE  PageInv(p)'
<1>1. PICK g : Past(g, log', p)
  OBVIOUS
<1>2. g[1 - 1] = <<>>
  BY <1>1 DEF Past, IsHistory
<1>3. Len(cache'[p].slots) \in Nat
  BY SlotsAre
<1>4. Redone(cache'[p].slots, g, log', 1, p)
  BY <1>2, <1>3, EmptyPages DEF Redone
<1>5. PageSound(p, g)'
  BY <1>4 DEF PageSound
<1> QED BY <1>1, <1>5 DEF PageInv

LEMMA CrashKeeps ==
  ASSUME RecoveryInv, Crash
  PROVE  RecoveryInv'
<1>1. PICK k \in forced .. Len(log) : log' = SubSeq(log, 1, k) /\ forced' = k
  BY DEF Crash
<1>2. /\ restarts < MaxRestarts /\ restarts' = restarts + 1 /\ mode' = "recovering" /\ cursor' = 1
      /\ cache' = disk /\ disk' = disk /\ allocated' = allocated
  BY DEF Crash, StartsRecovery
<1>3. /\ ProcessInv /\ log \in Seq(LogRecord) /\ Len(log) \in Nat /\ forced \in Nat /\ MaxLog \in Nat
      /\ \A n \in 1 .. Len(log) : log[n] \in LogRecord
      /\ \A p \in Pages : PageInv(p) /\ disk[p].slots \in Contents
  BY StateTypes DEF RecoveryInv
<1>4. k \in Nat /\ forced <= k /\ k <= Len(log) /\ k \in 0 .. Len(log)
  BY <1>3
<1>5. log' \in Seq(LogRecord) /\ Len(log') = k /\ \A n \in 1 .. k : log'[n] = log[n]
  <2>1. \A n \in 1 .. k : log[n] \in LogRecord
    BY <1>3, <1>4
  <2>2. k \in Int /\ 1 \in Int
    BY <1>4
  <2>3. /\ SubSeq(log, 1, k) \in Seq(LogRecord)
        /\ Len(SubSeq(log, 1, k)) = IF 1 <= k THEN k - 1 + 1 ELSE 0
        /\ \A n \in 1 .. k - 1 + 1 : SubSeq(log, 1, k)[n] = log[1 + n - 1]
    BY <2>1, <2>2, SubSeqProperties
  <2> QED BY <1>1, <1>4, <2>3
<1>6. ProcessInv'
  <2>1. /\ restarts' \in 0 .. MaxRestarts /\ cursor' \in 1 .. MaxLog + 1 /\ forced' \in 0 .. Len(log')
        /\ cache' \in [Pages -> Page] /\ disk' \in [Pages -> Page] /\ allocated' \subseteq Pages
    BY <1>1, <1>2, <1>3, <1>4, <1>5, BoundAssumption DEF ProcessInv, TypeOK
  <2>2. TypeOK'
    BY <1>2, <1>5, <2>1 DEF TypeOK
  <2>3. Len(log') <= MaxLog
    BY <1>3, <1>4, <1>5 DEF ProcessInv
  <2>4. ASSUME NEW n \in 1 .. Len(log'), "page" \in DOMAIN log'[n] PROVE log'[n].page \in allocated'
    <3>1. n \in 1 .. Len(log) /\ log'[n] = log[n]
      BY <1>3, <1>4, <1>5
    <3> QED BY <1>2, <1>3, <2>4, <3>1 DEF ProcessInv
  <2>5. forced' = Len(log') /\ cursor' <= Len(log') + 1
    BY <1>1, <1>2, <1>4, <1>5
  <2> QED BY <1>2, <2>2, <2>3, <2>4, <2>5 DEF ProcessInv
<1>7. ASSUME NEW p \in Pages PROVE PageInv(p)'
  <2>1. PICK h : Past(h, log, p) /\ FromLog(disk[p].slots, log, forced, p)
    BY <1>3 DEF PageInv, PageSound
  <2>2. \E g : Past(g, log', p)
    BY <1>1, <1>3, <1>4, <2>1, PastCut
  <2>3. FromLog(disk[p].slots, log', k, p)
    <3>1. \A n \in 1 .. forced : log'[n] = log[n]
      BY <1>3, <1>4, <1>5
    <3> QED BY <1>3, <1>4, <2>1, <3>1, FromLogGrows
  <2> QED BY <1>1, <1>2, <1>3, <1>5, <2>2, <2>3, RecoveryStarts
<1> QED BY <1>6, <1>7 DEF RecoveryInv

LEMMA CloseAndReopenKeeps ==
  ASSUME RecoveryInv, CloseAndReopen
  PROVE  RecoveryInv'
<1>1. /\ mode = "running" /\ restarts < MaxRestarts /\ restarts' = restarts + 1
      /\ mode' = "recovering" /\ cursor' = 1 /\ forced' = Len(log) /\ disk' = cache
      /\ log' = log /\ cache' = cache /\ allocated' = allocated
  BY DEF CloseAndReopen, StartsRecovery
<1>2. /\ ProcessInv /\ log \in Seq(LogRecord) /\ Len(log) \in Nat /\ MaxLog \in Nat
      /\ \A p \in Pages : PageInv(p) /\ cache[p].slots \in Contents
  BY StateTypes DEF RecoveryInv
<1>3. ProcessInv'
  <2>1. /\ restarts' \in 0 .. MaxRestarts /\ cursor' \in 1 .. MaxLog + 1 /\ forced' \in 0 .. Len(log')
    BY <1>1, <1>2, BoundAssumption DEF ProcessInv, TypeOK
  <2>2. TypeOK'
    BY <1>1, <1>2, <2>1 DEF TypeOK, ProcessInv
  <2>3. cursor' <= Len(log') + 1
    BY <1>1, <1>2
  <2> QED BY <1>1, <1>2, <2>2, <2>3 DEF ProcessInv
<1>4. ASSUME NEW p \in Pages PROVE PageInv(p)'
  <2>1. PICK h : Past(h, log, p) /\ FromLog(cache[p].slots, log, Len(log), p)
    BY <1>2 DEF PageInv, PageSound
  <2> QED BY <1>1, <1>2, <2>1, RecoveryStarts
<1> QED BY <1>3, <1>4 DEF RecoveryInv

\* The record that is replayed next finds its slot taken, or room in the page.
RoomInRedo ==
  mode = "recovering" /\ cursor <= Len(log) =>
    LET r == log[cursor]
    IN  r.type = "insert" => \/ Holds(cache[r.page], r.slot)
                             \/ Cost(cache[r.page], RecordSize) <= cache[r.page].free

\* What the replay of a record does to each page.
LEMMA RedoPages ==
  ASSUME RecoveryInv, RedoRecord
  PROVE  /\ cursor \in 1 .. Len(log) /\ log[cursor] \in LogRecord /\ cursor' = cursor + 1
         /\ cache' = [p \in Pages |-> IF Concerns(log[cursor], p) THEN RedoPage(cache[p], log[cursor])
                                      ELSE cache[p]]
<1> DEFINE r == log[cursor]
<1>1. /\ mode = "recovering" /\ cursor <= Len(log) /\ cursor' = cursor + 1
      /\ cache' = IF "page" \in DOMAIN r THEN [cache EXCEPT ![r.page] = RedoPage(@, r)] ELSE cache
  BY DEF RedoRecord, NextRecord
<1>2. /\ cursor \in Nat /\ cursor >= 1 /\ Len(log) \in Nat /\ cache \in [Pages -> Page]
      /\ \A n \in 1 .. Len(log) : log[n] \in LogRecord
  BY StateTypes DEF RecoveryInv, ProcessInv, TypeOK
<1>3. cursor \in 1 .. Len(log) /\ r \in LogRecord
  BY <1>1, <1>2
<1> HIDE DEF r
<1>4. CASE r.type \in Changes
  <2>1. "page" \in DOMAIN r /\ r.page \in Pages
    BY <1>3, <1>4, RecordKinds
  <2>2. cache' = [cache EXCEPT ![r.page] = RedoPage(cache[r.page], r)]
    BY <1>1, <2>1
  <2>3. \A p \in Pages : Concerns(r, p) <=> p = r.page
    BY <1>4 DEF Concerns
  <2>4. cache' = [p \in Pages |-> IF Concerns(r, p) THEN RedoPage(cache[p], r) ELSE cache[p]]
    BY <1>2, <2>2, <2>3
  <2> QED BY <1>1, <1>3, <2>4 DEF r
<1>5. CASE r.type \notin Changes
  <2>1. cache' = cache
    <3>1. CASE "page" \in DOMAIN r
      <4>1. r.page \in Pages
        BY <1>3, <3>1, RecordKinds
      <4>2. RedoPage(cache[r.page], r) = cache[r.page]
        BY <1>2, <1>5, <4>1, RedoCases
      <4>3. cache' = [cache EXCEPT ![r.page] = RedoPage(cache[r.page], r)]
        BY <1>1, <3>1
      <4> QED BY <1>2, <4>1, <4>2, <4>3
    <3>2. CASE "page" \notin DOMAIN r
      BY <1>1, <3>2
    <3> QED BY <3>1, <3>2
  <2>2. \A p \in Pages : ~Concerns(r, p)
    BY <1>5 DEF Concerns
  <2>3. cache' = [p \in Pages |-> IF Concerns(r, p) THEN RedoPage(cache[p], r) ELSE cache[p]]
    BY <1>2, <2>1, <2>2
  <2> QED BY <1>1, <1>3, <2>3 DEF r
<1> QED BY <1>4, <1>5

\* The page that the record is about is brought one record further.
LEMMA RedoRecordPage ==
  ASSUME RecoveryInv, RoomInRedo, RedoRecord, NEW p \in Pages, Concerns(log[cursor], p)
  PROVE  /\ PageInv(p)'
         /\ cache'[p] \in Page /\ cache'[p].free >= cache[p].free - Unit
<1>1. /\ mode = "recovering" /\ cursor <= Len(log) /\ log' = log /\ forced' = forced /\ disk' = disk /\ mode' = mode
  BY DEF RedoRecord
<1>2. /\ ProcessInv /\ PageInv(p) /\ log \in Seq(LogRecord) /\ cache[p] \in Page
  BY StateTypes DEF RecoveryInv
<1>3. /\ cursor \in 1 .. Len(log) /\ log[cursor] \in LogRecord /\ cursor' = cursor + 1
      /\ cache'[p] = RedoPage(cache[p], log[cursor])
  BY RedoPages
<1>4. PICK h : Past(h, log, p) /\ PageSound(p, h)
  BY <1>2 DEF PageInv
<1>5. /\ Redone(cache[p].slots, h, log, cursor, p) /\ FromLog(cache[p].slots, log, Len(log), p)
      /\ FromLog(disk[p].slots, log, forced, p)
  BY <1>1, <1>4 DEF PageSound
<1>6. log[cursor].type = "insert" =>
        HoldsAt(cache[p].slots, log[cursor].slot) \/ Cost(cache[p], RecordSize) <= cache[p].free
  <2>1. log[cursor].page = p
    BY DEF Concerns
  <2>2. Holds(cache[p], log[cursor].slot) <=> HoldsAt(cache[p].slots, log[cursor].slot)
    BY <1>2, PageSlotsAre
  <2> QED BY <1>1, <2>1, <2>2 DEF RoomInRedo
<1>7. /\ cache'[p] \in Page /\ cache'[p].free >= cache[p].free - Unit
      /\ Redone(cache'[p].slots, h, log, cursor + 1, p) /\ FromLog(cache'[p].slots, log, Len(log), p)
  BY <1>2, <1>3, <1>4, <1>5, <1>6, RedoChange
<1>8. PageSound(p, h)'
  BY <1>1, <1>3, <1>5, <1>7 DEF PageSound
<1> QED BY <1>1, <1>4, <1>7, <1>8 DEF PageInv

LEMMA RedoRecordKeeps ==
  ASSUME RecoveryInv, RoomInRedo, RedoRecord
  PROVE  RecoveryInv'
<1>1. /\ mode = "recovering" /\ cursor <= Len(log) /\ log' = log /\ forced' = forced /\ disk' = disk
      /\ allocated' = allocated /\ mode' = mode /\ restarts' = restarts
  BY DEF RedoRecord
<1>2. /\ ProcessInv /\ log \in Seq(LogRecord) /\ Len(log) \in Nat /\ MaxLog \in Nat
      /\ \A p \in Pages : PageInv(p) /\ cache[p] \in Page
  BY StateTypes DEF RecoveryInv
<1>3. /\ cursor \in 1 .. Len(log) /\ log[cursor] \in LogRecord /\ cursor' = cursor + 1
      /\ cache' = [p \in Pages |-> IF Concerns(log[cursor], p) THEN RedoPage(cache[p], log[cursor])
                                   ELSE cache[p]]
  BY RedoPages
<1>4. ASSUME NEW p \in Pages PROVE PageInv(p)' /\ cache'[p] \in Page
  <2>1. CASE Concerns(log[cursor], p)
    BY <2>1, RedoRecordPage
  <2>2. CASE ~Concerns(log[cursor], p)
    <3>1. cache'[p] = cache[p]
      BY <1>3, <2>2
    <3>2. PICK h : Past(h, log, p) /\ PageSound(p, h)
      BY <1>2 DEF PageInv
    <3>3. Redone(cache[p].slots, h, log, cursor + 1, p)
      <4>1. Redone(cache[p].slots, h, log, cursor, p)
        BY <1>1, <3>2 DEF PageSound
      <4> QED BY <1>2, <1>3, <2>2, <3>2, <4>1, RedoneOther
    <3>4. PageSound(p, h)'
      BY <1>1, <1>3, <3>1, <3>2, <3>3 DEF PageSound
    <3> QED BY <1>1, <1>2, <3>1, <3>2, <3>4 DEF PageInv
  <2> QED BY <2>1, <2>2
<1>5. ProcessInv'
  <2>1. cursor' \in 1 .. MaxLog + 1 /\ cursor' <= Len(log) + 1
    BY <1>2, <1>3 DEF ProcessInv
  <2>2. cache' \in [Pages -> Page]
    BY <1>3, <1>4
  <2>3. TypeOK'
    BY <1>1, <1>2, <2>1, <2>2 DEF TypeOK, ProcessInv
  <2> QED BY <1>1, <1>2, <2>1, <2>3 DEF ProcessInv
<1> QED BY <1>4, <1>5 DEF RecoveryInv

LEMMA RecoveryEndsKeeps ==
  ASSUME RecoveryInv, RecoveryEnds
  PROVE  RecoveryInv'
<1>1. /\ mode = "recovering" /\ cursor > Len(log) /\ disk' = cache /\ mode' = "running" /\ log' = log
      /\ forced' = forced /\ cache' = cache /\ allocated' = allocated /\ cursor' = cursor /\ restarts' = restarts
  BY DEF RecoveryEnds
<1>2. /\ ProcessInv /\ log \in Seq(LogRecord) /\ Len(log) \in Nat /\ cursor \in Nat
      /\ \A p \in Pages : PageInv(p) /\ cache[p].slots \in Contents
  BY StateTypes DEF RecoveryInv
<1>3. forced = Len(log) /\ cursor = Len(log) + 1
  BY <1>1, <1>2 DEF ProcessInv
<1>4. ProcessInv'
  <2>1. TypeOK'
    BY <1>1, <1>2 DEF TypeOK, ProcessInv
  <2> QED BY <1>1, <1>2, <2>1 DEF ProcessInv
<1>5. ASSUME NEW p \in Pages PROVE PageInv(p)'
  <2>1. PICK h : Past(h, log, p) /\ PageSound(p, h)
    BY <1>2 DEF PageInv
  <2>2. Redone(cache[p].slots, h, log, Len(log) + 1, p) /\ FromLog(cache[p].slots, log, Len(log), p)
    BY <1>1, <1>3, <2>1 DEF PageSound
  <2>3. cache[p].slots = h[Len(log)]
    BY <1>2, <2>1, <2>2, RedoneAll
  <2>4. PageSound(p, h)'
    BY <1>1, <1>3, <2>2, <2>3 DEF PageSound
  <2> QED BY <1>1, <2>1, <2>4 DEF PageInv
<1> QED BY <1>4, <1>5 DEF RecoveryInv

-----------------------------------------------------------------------------
(* The invariant holds. *)

LEMMA InitRecoveryInv == Init => RecoveryInv
<1> SUFFICES ASSUME Init PROVE RecoveryInv
  OBVIOUS
<1>1. /\ log = <<>> /\ Len(log) = 0 /\ log \in Seq(LogRecord) /\ forced = 0 /\ allocated = {}
      /\ mode = "running" /\ cursor = 1 /\ restarts = 0
      /\ cache = [p \in Pages |-> Zeros] /\ disk = [p \in Pages |-> Zeros]
  BY EmptySeq DEF Init
<1>2. ProcessInv
  <2>1. TypeOK
    BY <1>1, EmptyPages, BoundAssumption DEF TypeOK
  <2> QED BY <1>1, <2>1, BoundAssumption DEF ProcessInv
<1>3. ASSUME NEW p \in Pages PROVE PageInv(p)
  <2> DEFINE h == [n \in 0 .. 0 |-> <<>>]
  <2>1. Past(h, log, p)
    <3>1. h \in [0 .. Len(log) -> Contents] /\ h[0] = <<>> /\ \A n \in 0 .. Len(log) : h[n] = <<>>
      BY <1>1, EmptyPages
    <3> HIDE DEF h
    <3>2. \A n \in 1 .. Len(log) : FALSE
      BY <1>1
    <3>3. IsHistory(h, log, p)
      BY <3>1, <3>2 DEF IsHistory
    <3>4. \A n \in 0 .. Len(log) : n \in Nat /\ Len(h[n]) = 0 /\ \A m \in 1 .. n : FALSE
      BY <1>1, <3>1, EmptyPages
    <3> QED BY <3>2, <3>3, <3>4 DEF Past
  <2>2. cache[p].slots = <<>> /\ disk[p].slots = <<>> /\ h[Len(log)] = <<>>
    BY <1>1, EmptyPages
  <2> HIDE DEF h
  <2>3. PageSound(p, h)
    BY <1>1, <2>2, EmptyPages DEF PageSound, FromLog
  <2> QED BY <2>1, <2>3 DEF PageInv
<1> QED BY <1>2, <1>3 DEF RecoveryInv

LEMMA NextRecoveryInv ==
  ASSUME "write_back_first" \notin Events
  PROVE  RecoveryInv /\ RoomInRedo /\ [Next]_vars => RecoveryInv'
<1> SUFFICES ASSUME RecoveryInv, RoomInRedo, [Next]_vars PROVE RecoveryInv'
  OBVIOUS
<1>1. CASE \E p \in Pages : NewPage(p)
  BY <1>1, NewPageKeeps
<1>2. CASE \E p \in Pages : WriteBack(p)
  BY <1>2, WriteBackKeeps
<1>3. CASE \E p \in Pages, v \in Values : Insert(p, v)
  BY <1>3, InsertKeeps
<1>4. CASE \E p \in Pages, v \in Values, i \in Slot : Update(p, i, v)
  BY <1>4, UpdateKeeps
<1>5. CASE \E p \in Pages, i \in Slot : Delete(p, i)
  BY <1>5, DeleteKeeps
<1>6. CASE FlushLog
  BY <1>6, FlushLogKeeps
<1>7. CASE CheckpointBegin \/ CheckpointFlushes \/ CheckpointEnd
  BY <1>7, CheckpointBeginKeeps, CheckpointFlushesKeeps, CheckpointEndKeeps
<1>8. CASE Crash \/ CloseAndReopen
  BY <1>8, CrashKeeps, CloseAndReopenKeeps
<1>9. CASE RedoRecord \/ RecoveryEnds
  BY <1>9, RedoRecordKeeps, RecoveryEndsKeeps
<1>10. CASE UNCHANGED vars
  BY <1>10 DEF vars, RecoveryInv, ProcessInv, TypeOK, PageInv, PageSound, LogFirst
<1> QED BY <1>1, <1>2, <1>3, <1>4, <1>5, <1>6, <1>7, <1>8, <1>9, <1>10 DEF Next

\* The history of a page is what Committed computes: two solutions of its equation
\* would differ first at some record.
LEMMA CommittedIs ==
  ASSUME NEW p \in Pages, NEW h, IsHistory(h, log, p), Len(log) \in Nat
  PROVE  Committed(p) = h[Len(log)]
<1> DEFINE L == Len(log)
           F(f) == [n \in 0 .. L |-> IF n = 0 THEN <<>> ELSE Applied(f[n - 1], log[n], p)]
           g == CHOOSE f : f = F(f)
<1>1. Committed(p) = g[L]
  BY DEF Committed, Applied, Concerns, Changes, Written
<1>2. h = F(h)
  <2>1. h = [n \in 0 .. L |-> h[n]]
    BY DEF IsHistory
  <2>2. \A n \in 0 .. L : h[n] = IF n = 0 THEN <<>> ELSE Applied(h[n - 1], log[n], p)
    BY DEF IsHistory
  <2> QED BY <2>1, <2>2
<1>3. g = F(g)
  <2> HIDE DEF F
  <2> QED BY <1>2
<1>4. \A n \in 0 .. L : /\ g[n] = IF n = 0 THEN <<>> ELSE Applied(g[n - 1], log[n], p)
                        /\ h[n] = IF n = 0 THEN <<>> ELSE Applied(h[n - 1], log[n], p)
  <2> HIDE DEF g
  <2> QED BY <1>2, <1>3
<1> HIDE DEF g, F
<1> DEFINE U == {n \in 0 .. L : g[n] # h[n]}
<1>5. U = {}
  <2> SUFFICES ASSUME U # {} PROVE FALSE
    OBVIOUS
  <2>1. U \subseteq Nat
    OBVIOUS
  <2>2. PICK m \in U : \A k \in U : m <= k
    <3> HIDE DEF U
    <3> QED BY <2>1, LeastNatural
  <2>3. m \in 0 .. L /\ g[m] # h[m]
    BY <2>2
  <2>4. m # 0
    BY <1>4, <2>3
  <2>5. m - 1 \in 0 .. L /\ ~(m <= m - 1)
    BY <2>3, <2>4
  <2>6. g[m - 1] = h[m - 1]
    BY <2>2, <2>5
  <2> QED BY <1>4, <2>3, <2>4, <2>6
<1>6. L \in 0 .. L
  OBVIOUS
<1> QED BY <1>1, <1>5, <1>6

LEMMA InvRecoveredExactly == RecoveryInv => RecoveredExactly
<1> SUFFICES ASSUME RecoveryInv, mode # "recovering", NEW p \in Pages
             PROVE  cache[p].slots = Committed(p)
  BY DEF RecoveredExactly
<1>1. PICK h : Past(h, log, p) /\ PageSound(p, h)
  BY DEF RecoveryInv, PageInv
<1>2. cache[p].slots = h[Len(log)] /\ IsHistory(h, log, p)
  BY <1>1 DEF PageSound, Past
<1>3. Len(log) \in Nat
  BY StateTypes DEF RecoveryInv
<1> QED BY <1>2, <1>3, CommittedIs

-----------------------------------------------------------------------------
(* Room for the inserts of the log and for their replays. *)

\* What a page can have spent: one insert for each record logged or replayed, by
\* this process and those before it.
Work == restarts * MaxLog + (IF mode = "recovering" THEN cursor - 1 ELSE Len(log))

RoomInv ==
  \A p \in allocated : /\ cache[p].free >= Capacity - Unit * Work
                       /\ disk[p].free >= Capacity - Unit * Work

\* A page has room for a whole log, once in each life of the process.
RoomForAll == Capacity >= Unit * ((MaxRestarts + 1) * MaxLog)

LEMMA Products ==
  ASSUME NEW u \in Nat, NEW a \in Nat, NEW b \in Nat
  PROVE  /\ u * a \in Nat /\ u * (a + 1) = u * a + u /\ (a + 1) * u = a * u + u
         /\ a <= b => u * a <= u * b /\ a * u <= b * u
<1>1. u * a \in Nat /\ u * (a + 1) = u * a + u /\ (a + 1) * u = a * u + u
  OBVIOUS
<1>2. ASSUME a <= b PROVE u * a <= u * b /\ a * u <= b * u
  <2>1. PICK d \in Nat : b = a + d
    <3>1. b - a \in Nat /\ b = a + (b - a)
      BY <1>2
    <3> QED BY <3>1
  <2>2. u * b = u * a + u * d /\ b * u = a * u + d * u /\ u * d \in Nat /\ d * u \in Nat /\ a * u \in Nat
    BY <2>1
  <2> QED BY <1>1, <2>2
<1> QED BY <1>1, <1>2

LEMMA UnitIsNat == Unit \in Nat
BY SizeAssumption, SlotSizeAssumption DEF Unit

LEMMA WorkBounds ==
  ASSUME ProcessInv
  PROVE  Work \in Nat /\ restarts \in Nat /\ Work <= (restarts + 1) * MaxLog
<1>1. /\ Len(log) \in Nat /\ MaxLog \in Nat /\ MaxRestarts \in Nat /\ cursor \in Nat /\ cursor >= 1
      /\ Len(log) <= MaxLog /\ (mode = "recovering" => cursor <= Len(log) + 1) /\ restarts \in 0 .. MaxRestarts
  BY StateTypes DEF ProcessInv, TypeOK
<1>2. restarts * MaxLog \in Nat /\ (restarts + 1) * MaxLog = restarts * MaxLog + MaxLog
  BY <1>1, Products
<1>3. PICK w : w = IF mode = "recovering" THEN cursor - 1 ELSE Len(log)
  OBVIOUS
<1>4. w \in Nat /\ w <= MaxLog
  BY <1>1, <1>3
<1>5. PICK x, y : x = restarts * MaxLog /\ y = (restarts + 1) * MaxLog
  OBVIOUS
<1>6. x \in Nat /\ y = x + MaxLog /\ Work = x + w
  BY <1>2, <1>3, <1>5 DEF Work
<1>7. Work \in Nat /\ Work <= y
  BY <1>1, <1>4, <1>6
<1> QED BY <1>1, <1>5, <1>7

LEMMA WorkIsNat == ProcessInv => Work \in Nat
BY WorkBounds

\* Room that was enough stays enough, also after one insert more.
LEMMA RoomStays ==
  ASSUME NEW w \in Nat, NEW w2 \in Nat, w <= w2, NEW n \in Int, n >= Capacity - Unit * w
  PROVE  /\ n >= Capacity - Unit * w2
         /\ \A m \in Int : w + 1 <= w2 /\ m >= n - Unit => m >= Capacity - Unit * w2
<1>1. Unit * w \in Nat /\ Unit * w2 \in Nat /\ Unit * w <= Unit * w2 /\ Unit * (w + 1) = Unit * w + Unit
  BY UnitIsNat, Products
<1>2. w + 1 <= w2 => Unit * (w + 1) <= Unit * w2
  <2>1. w + 1 \in Nat
    OBVIOUS
  <2> QED BY <2>1, UnitIsNat, Products
<1>3. Capacity \in Nat /\ Unit \in Nat
  BY SizeAssumption, UnitIsNat
<1> HIDE DEF Unit
<1>4. PICK x, x2 : x = Unit * w /\ x2 = Unit * w2
  OBVIOUS
<1>5. x \in Nat /\ x2 \in Nat /\ x <= x2 /\ (w + 1 <= w2 => x + Unit <= x2)
  BY <1>1, <1>2, <1>4
<1>6. n >= Capacity - x
  BY <1>4
<1>7. n >= Capacity - x2 /\ \A m \in Int : w + 1 <= w2 /\ m >= n - Unit => m >= Capacity - x2
  BY <1>3, <1>5, <1>6
<1> QED BY <1>4, <1>7

\* With room for all of them, no replay finds its page full.
LEMMA RoomSuffices ==
  ASSUME RoomForAll, RecoveryInv, RoomInv
  PROVE  RoomInRedo
<1> SUFFICES ASSUME mode = "recovering", cursor <= Len(log), log[cursor].type = "insert"
             PROVE  Cost(cache[log[cursor].page], RecordSize) <= cache[log[cursor].page].free
  BY DEF RoomInRedo
<1> DEFINE q == log[cursor].page
<1>1. /\ ProcessInv /\ Len(log) \in Nat /\ MaxLog \in Nat /\ MaxRestarts \in Nat /\ cursor \in Nat /\ cursor >= 1
      /\ Len(log) <= MaxLog /\ restarts \in 0 .. MaxRestarts
      /\ \A n \in 1 .. Len(log) : log[n] \in LogRecord
      /\ \A p \in Pages : cache[p] \in Page
  BY StateTypes DEF RecoveryInv, ProcessInv, TypeOK
<1>2. cursor \in 1 .. Len(log) /\ log[cursor] \in LogRecord
  BY <1>1
<1>3. "page" \in DOMAIN log[cursor] /\ q \in Pages
  BY <1>2, RecordKinds DEF Changes
<1>4. q \in allocated
  BY <1>1, <1>2, <1>3 DEF ProcessInv
<1>5. cache[q].free >= Capacity - Unit * Work /\ cache[q].free \in Nat
  BY <1>1, <1>3, <1>4, PageSlotsAre DEF RoomInv
<1>6. Work \in Nat /\ Work + 1 <= (MaxRestarts + 1) * MaxLog /\ (MaxRestarts + 1) * MaxLog \in Nat
  <2>1. restarts * MaxLog \in Nat /\ restarts * MaxLog <= MaxRestarts * MaxLog
    BY <1>1, Products
  <2>2. (MaxRestarts + 1) * MaxLog = MaxRestarts * MaxLog + MaxLog /\ MaxRestarts * MaxLog \in Nat
    BY <1>1, Products
  <2>3. Work = restarts * MaxLog + (cursor - 1) /\ cursor - 1 \in Nat /\ cursor <= MaxLog
    BY <1>1 DEF Work
  <2>4. PICK x, y, z : x = restarts * MaxLog /\ y = MaxRestarts * MaxLog /\ z = (MaxRestarts + 1) * MaxLog
    OBVIOUS
  <2>5. x \in Nat /\ y \in Nat /\ x <= y /\ z = y + MaxLog /\ Work = x + (cursor - 1)
    BY <2>1, <2>2, <2>3, <2>4
  <2>6. Work \in Nat /\ Work + 1 <= z /\ z \in Nat
    BY <1>1, <2>3, <2>5
  <2> QED BY <2>4, <2>6
<1>7. Unit * (Work + 1) <= Unit * ((MaxRestarts + 1) * MaxLog) /\ Unit * (Work + 1) = Unit * Work + Unit
  <2>1. Work + 1 \in Nat
    BY <1>6
  <2> HIDE DEF Work
  <2> QED BY <1>6, <2>1, UnitIsNat, Products
<1>8. Unit <= cache[q].free
  <2> HIDE DEF Unit, Work
  <2>1. PICK x, z : x = Unit * Work /\ z = Unit * ((MaxRestarts + 1) * MaxLog)
    OBVIOUS
  <2>2. x \in Nat /\ z \in Nat
    BY <1>6, <2>1, UnitIsNat, Products
  <2>3. Capacity >= z /\ x + Unit <= z /\ cache[q].free >= Capacity - x
    BY <1>5, <1>7, <2>1 DEF RoomForAll
  <2> QED BY <1>5, <2>2, <2>3, UnitIsNat, SizeAssumption
<1>9. Cost(cache[q], RecordSize) \in Nat /\ Cost(cache[q], RecordSize) <= Unit
  BY CostIs
<1> QED BY <1>5, <1>8, <1>9, UnitIsNat

\* The room that a step leaves in the pages, when each page keeps what it had, or
\* pays for one insert in a step that logs or replays a record.
LEMMA RoomAfter ==
  ASSUME RecoveryInv, RoomInv, RecoveryInv', Work <= Work',
         \A p \in allocated' :
           \/ /\ p \in allocated
              /\ cache'[p].free >= cache[p].free /\ disk'[p].free >= disk[p].free
           \/ /\ p \in allocated
              /\ cache'[p].free >= cache[p].free /\ disk'[p].free >= cache[p].free
           \/ /\ p \in allocated
              /\ cache'[p].free >= disk[p].free /\ disk'[p].free >= disk[p].free
           \/ /\ p \in allocated /\ Work + 1 <= Work'
              /\ cache'[p].free >= cache[p].free - Unit /\ disk'[p].free >= disk[p].free
           \/ cache'[p].free = Capacity /\ disk'[p].free = Capacity
  PROVE  RoomInv'
<1>1. Work \in Nat /\ Work' \in Nat
  <2>1. Work \in Nat
    BY WorkBounds DEF RecoveryInv
  <2>2. (ProcessInv => Work \in Nat)'
    BY WorkIsNat, PTL
  <2> QED BY <2>1, <2>2 DEF RecoveryInv
<1>2. /\ allocated' \subseteq Pages
      /\ \A p \in Pages : /\ cache[p].free \in Int /\ disk[p].free \in Int
                          /\ cache'[p].free \in Int /\ disk'[p].free \in Int
  BY DEF RecoveryInv, ProcessInv, TypeOK, Page
<1>3. \A p \in allocated : cache[p].free >= Capacity - Unit * Work /\ disk[p].free >= Capacity - Unit * Work
  BY DEF RoomInv
<1>4. Unit * Work' \in Nat /\ Capacity \in Nat /\ Unit \in Nat
  BY <1>1, UnitIsNat, Products, SizeAssumption
<1> HIDE DEF Work
<1>5. ASSUME NEW p \in allocated'
      PROVE  cache'[p].free >= Capacity - Unit * Work' /\ disk'[p].free >= Capacity - Unit * Work'
  <2>1. /\ cache[p].free \in Int /\ disk[p].free \in Int
        /\ cache'[p].free \in Int /\ disk'[p].free \in Int
    BY <1>2
  <2>2. ASSUME p \in allocated
        PROVE  /\ cache[p].free >= Capacity - Unit * Work' /\ disk[p].free >= Capacity - Unit * Work'
               /\ Work + 1 <= Work' => cache[p].free - Unit >= Capacity - Unit * Work'
    <3>1. cache[p].free - Unit \in Int /\ cache[p].free - Unit >= cache[p].free - Unit
      BY <1>4, <2>1
    <3> QED BY <1>1, <1>3, <2>1, <2>2, <3>1, RoomStays
  <2>3. PICK x : x = Unit * Work'
    OBVIOUS
  <2>4. x \in Nat
    BY <1>4, <2>3
  <2>5. cache'[p].free >= Capacity - x /\ disk'[p].free >= Capacity - x
    BY <1>4, <2>1, <2>2, <2>3, <2>4
  <2> QED BY <2>3, <2>5
<1> QED BY <1>5 DEF RoomInv

LEMMA RoomKept ==
  ASSUME "new_page_unwritten" \notin Events,
         RecoveryInv, RoomInv, RoomInRedo, RecoveryInv', Next
  PROVE  RoomInv'
<1>1. /\ ProcessInv /\ Len(log) \in Nat /\ MaxLog \in Nat /\ log \in Seq(LogRecord) /\ cursor \in Nat /\ cursor >= 1
      /\ cache \in [Pages -> Page] /\ disk \in [Pages -> Page] /\ allocated \subseteq Pages
      /\ \A p \in Pages : cache[p] \in Page /\ cache[p].free \in Nat /\ disk[p].free \in Nat
  <2>1. \A p \in Pages : cache[p] \in Page /\ disk[p] \in Page
    BY StateTypes DEF RecoveryInv
  <2> QED BY <2>1, PageSlotsAre, StateTypes DEF RecoveryInv, ProcessInv, TypeOK
<1>2. Work \in Nat /\ restarts \in Nat /\ Work <= (restarts + 1) * MaxLog
  BY <1>1, WorkBounds
<1>3. restarts * MaxLog \in Nat /\ (restarts + 1) * MaxLog \in Nat
  BY <1>1, <1>2, Products
<1>4. Unit \in Nat
  BY UnitIsNat
\* The next process starts a life of its own.
<1>5. ASSUME restarts' = restarts + 1, mode' = "recovering", cursor' = 1
      PROVE  Work <= Work'
  <2>1. Work' = (restarts + 1) * MaxLog + (1 - 1)
    BY <1>5 DEF Work
  <2> HIDE DEF Work
  <2>2. PICK y : y = (restarts + 1) * MaxLog
    OBVIOUS
  <2>3. Work' = y /\ y \in Nat /\ Work <= y
    BY <1>2, <1>3, <2>1, <2>2
  <2> QED BY <2>3
\* A record more is logged, or replayed.
<1>6. ASSUME NEW r \in LogRecord, Logged(r), mode # "recovering", mode' # "recovering", restarts' = restarts
      PROVE  Work + 1 <= Work' /\ Work <= Work'
  <2>1. Len(log') = Len(log) + 1
    BY <1>1, <1>6, AppendProperties DEF Logged
  <2>2. PICK x : x = restarts * MaxLog
    OBVIOUS
  <2>3. x \in Nat /\ Work = x + Len(log) /\ Work' = x + (Len(log) + 1)
    BY <1>3, <1>6, <2>1, <2>2 DEF Work
  <2> HIDE DEF Work
  <2> QED BY <1>1, <2>3
<1>7. ASSUME restarts' = restarts, mode' = mode, cursor' = cursor, log' = log
      PROVE  Work' = Work
  BY <1>7 DEF Work
<1>8. CASE \E q \in Pages : NewPage(q)
  <2>1. PICK q \in Pages : NewPage(q)
    BY <1>8
  <2> DEFINE r == [type |-> "new_page", page |-> q]
  <2>2. /\ mode = "running" /\ Logged(r) /\ allocated' = allocated \cup {q}
        /\ cache' = [cache EXCEPT ![q] = Formatted] /\ disk' = [disk EXCEPT ![q] = Formatted]
        /\ mode' = mode /\ restarts' = restarts
    BY <2>1 DEF NewPage
  <2>3. r \in LogRecord
    BY DEF LogRecord
  <2>4. Work <= Work'
    BY <1>6, <2>2, <2>3
  <2>5. /\ cache'[q].free = Capacity /\ disk'[q].free = Capacity
        /\ \A p \in Pages : p # q => cache'[p] = cache[p] /\ disk'[p] = disk[p]
    BY <1>1, <2>2, EmptyPages
  <2>6. ASSUME NEW p \in allocated', p # q
        PROVE  p \in allocated /\ cache'[p].free >= cache[p].free /\ disk'[p].free >= disk[p].free
    <3>1. p \in allocated /\ p \in Pages
      BY <1>1, <2>2, <2>6
    <3> QED BY <1>1, <2>5, <2>6, <3>1
  <2> HIDE DEF Work
  <2> QED BY <2>4, <2>5, <2>6, RoomAfter
<1>9. ASSUME NEW q \in Pages, NEW r \in LogRecord, Logged(r), mode = "running",
             NEW pg, cache' = [cache EXCEPT ![q] = pg], pg.free \in Int, pg.free >= cache[q].free - Unit,
             UNCHANGED <<disk, allocated, mode, restarts>>
      PROVE  RoomInv'
  <2>1. Work + 1 <= Work' /\ Work <= Work'
    BY <1>6, <1>9
  <2>2. cache'[q] = pg /\ \A p \in Pages : p # q => cache'[p] = cache[p]
    BY <1>1, <1>9
  <2>3. ASSUME NEW p \in allocated'
        PROVE  p \in allocated /\ cache'[p].free >= cache[p].free - Unit /\ disk'[p].free >= disk[p].free
    <3>1. p \in allocated /\ p \in Pages /\ disk'[p] = disk[p]
      BY <1>1, <1>9
    <3>2. cache[p].free \in Nat /\ disk[p].free \in Nat
      BY <1>1, <3>1
    <3>3. cache'[p].free >= cache[p].free - Unit
      <4>1. CASE p = q
        BY <1>9, <2>2, <4>1
      <4>2. CASE p # q
        BY <1>4, <2>2, <3>1, <3>2, <4>2
      <4> QED BY <4>1, <4>2
    <3> QED BY <3>1, <3>2, <3>3
  <2> HIDE DEF Work
  <2> QED BY <2>1, <2>3, RoomAfter
<1>10. CASE \E q \in Pages, v \in Values : Insert(q, v)
  <2>1. PICK q \in Pages, v \in Values : Insert(q, v)
    BY <1>10
  <2> DEFINE r == [type |-> "insert", page |-> q, slot |-> FreeSlot(cache[q]), data |-> v]
             pg == InsertRecord(cache[q], v, RecordSize)
  <2>2. /\ mode = "running" /\ Logged(r) /\ cache' = [cache EXCEPT ![q] = pg]
        /\ UNCHANGED <<disk, allocated, mode, restarts>>
    BY <2>1 DEF Insert
  <2>3. r \in LogRecord
    <3>1. log' \in Seq(LogRecord) /\ Len(log') = Len(log) + 1 /\ log'[Len(log) + 1] = r
      <4>1. log' = Append(log, r)
        BY <2>2 DEF Logged
      <4>2. Len(log') = Len(log) + 1 /\ log'[Len(log) + 1] = r
        <5> HIDE DEF r
        <5> QED BY <1>1, <4>1, AppendProperties
      <4> QED BY <4>2 DEF RecoveryInv, ProcessInv, TypeOK
    <3>2. Len(log) + 1 \in 1 .. Len(log')
      BY <1>1, <3>1
    <3> HIDE DEF r
    <3> QED BY <3>1, <3>2, ElementOfSeq
  <2>4. pg \in Page /\ pg.free >= cache[q].free - Unit
    BY <1>1, InsertedPage
  <2>5. pg.free \in Int
    BY <2>4, PageSlotsAre
  <2> HIDE DEF r, pg
  <2> QED BY <1>9, <2>2, <2>3, <2>4, <2>5
<1>11. CASE \E q \in Pages, i \in Slot : Delete(q, i)
  <2>1. PICK q \in Pages, i \in Slot : Delete(q, i)
    BY <1>11
  <2> DEFINE r == [type |-> "delete", page |-> q, slot |-> i, data |-> cache[q].slots[i]]
             pg == DeleteRecord(cache[q], i)
  <2>2. /\ mode = "running" /\ Holds(cache[q], i) /\ Logged(r) /\ cache' = [cache EXCEPT ![q] = pg]
        /\ UNCHANGED <<disk, allocated, mode, restarts>>
    BY <2>1 DEF Delete
  <2>3. HoldsAt(cache[q].slots, i) /\ cache[q].slots \in Contents
    BY <2>2, HeldIsAllocated, StateTypes DEF RecoveryInv
  <2>4. r \in LogRecord
    <3>1. cache[q].slots[i] \in Values \cup {NoRecord}
      BY <2>3, SlotsAre DEF HoldsAt
    <3> QED BY <3>1 DEF LogRecord
  <2>5. pg.free = cache[q].free
    BY <1>1, <2>3, DeletedPage
  <2>6. pg.free \in Int /\ pg.free >= cache[q].free - Unit
    BY <1>1, <1>4, <2>5
  <2> HIDE DEF r, pg
  <2> QED BY <1>9, <2>2, <2>4, <2>6
<1>12. CASE \E q \in Pages, v \in Values, i \in Slot : Update(q, i, v)
  <2>1. PICK q \in Pages, v \in Values, i \in Slot : Update(q, i, v)
    BY <1>12
  <2> DEFINE r == [type |-> "update", page |-> q, slot |-> i, data |-> v]
             pg == [cache[q] EXCEPT !.slots[i] = v]
  <2>2. /\ mode = "running" /\ Holds(cache[q], i) /\ Logged(r) /\ cache' = [cache EXCEPT ![q] = pg]
        /\ UNCHANGED <<disk, allocated, mode, restarts>>
    BY <2>1 DEF Update
  <2>3. HoldsAt(cache[q].slots, i) /\ v \in Values \cup {NoRecord}
    BY <2>2, HeldIsAllocated
  <2>4. r \in LogRecord
    BY DEF LogRecord
  <2>5. pg.free = cache[q].free
    BY <1>1, <2>3, WrittenPage
  <2>6. pg.free \in Int /\ pg.free >= cache[q].free - Unit
    BY <1>1, <1>4, <2>5
  <2> HIDE DEF r, pg
  <2> QED BY <1>9, <2>2, <2>4, <2>6
<1>13. CASE \E q \in Pages : WriteBack(q)
  <2>1. PICK q \in Pages : WriteBack(q)
    BY <1>13
  <2>2. /\ disk' = [disk EXCEPT ![q] = cache[q]] /\ cache' = cache /\ allocated' = allocated
        /\ Work' = Work
    BY <1>7, <2>1 DEF WriteBack
  <2>3. ASSUME NEW p \in allocated
        PROVE  /\ cache'[p].free >= cache[p].free
               /\ disk'[p].free >= disk[p].free \/ disk'[p].free >= cache[p].free
    <3>1. p \in Pages /\ disk'[p] \in {disk[p], cache[p]}
      BY <1>1, <2>2
    <3> QED BY <1>1, <2>2, <3>1
  <2> HIDE DEF Work
  <2> QED BY <1>2, <2>2, <2>3, RoomAfter
<1>14. CASE FlushLog
  <2>1. cache' = cache /\ disk' = disk /\ allocated' = allocated /\ Work' = Work
    BY <1>7, <1>14 DEF FlushLog
  <2> QED BY <2>1 DEF RoomInv
<1>15. CASE CheckpointBegin \/ CheckpointEnd
  <2>1. PICK t \in {"checkpoint_begin", "checkpoint_end"} : Logged([type |-> t])
    BY <1>15 DEF CheckpointBegin, CheckpointEnd
  <2>2. [type |-> t] \in LogRecord
    BY DEF LogRecord
  <2>3. /\ mode # "recovering" /\ mode' # "recovering" /\ restarts' = restarts
        /\ cache' = cache /\ disk' = disk /\ allocated' = allocated
    BY <1>15 DEF CheckpointBegin, CheckpointEnd
  <2>4. Work <= Work'
    BY <1>6, <2>1, <2>2, <2>3
  <2>5. \A p \in allocated : cache'[p].free >= cache[p].free /\ disk'[p].free >= disk[p].free
    BY <1>1, <2>3
  <2> HIDE DEF Work
  <2> QED BY <2>3, <2>4, <2>5, RoomAfter
<1>16. CASE CheckpointFlushes
  <2>1. cache' = cache /\ disk' = cache /\ allocated' = allocated
    BY <1>16 DEF CheckpointFlushes
  <2>2. Work' = Work
    BY <1>16 DEF CheckpointFlushes, Work
  <2> QED BY <2>1, <2>2 DEF RoomInv
<1>17. CASE Crash \/ CloseAndReopen
  <2>1. /\ restarts' = restarts + 1 /\ mode' = "recovering" /\ cursor' = 1 /\ allocated' = allocated
        /\ \/ cache' = disk /\ disk' = disk
           \/ cache' = cache /\ disk' = cache
    BY <1>17 DEF Crash, CloseAndReopen, StartsRecovery
  <2>2. Work <= Work'
    BY <1>5, <2>1
  <2>3. \A p \in allocated :
          \/ cache'[p].free >= disk[p].free /\ disk'[p].free >= disk[p].free
          \/ cache'[p].free >= cache[p].free /\ disk'[p].free >= cache[p].free
    BY <1>1, <2>1
  <2> HIDE DEF Work
  <2> QED BY <2>1, <2>2, <2>3, RoomAfter
<1>18. CASE RedoRecord
  <2>1. /\ mode = "recovering" /\ mode' = mode /\ restarts' = restarts /\ disk' = disk /\ allocated' = allocated
        /\ cursor' = cursor + 1
        /\ cache' = [p \in Pages |-> IF Concerns(log[cursor], p) THEN RedoPage(cache[p], log[cursor])
                                     ELSE cache[p]]
    BY <1>18, RedoPages DEF RedoRecord
  <2>2. Work + 1 <= Work' /\ Work <= Work'
    <3>1. PICK x : x = restarts * MaxLog
      OBVIOUS
    <3>2. x \in Nat /\ x = restarts' * MaxLog /\ mode' = "recovering"
      BY <1>3, <2>1, <3>1
    <3>3. Work = x + (cursor - 1)
      BY <2>1, <3>1 DEF Work
    <3>4. Work' = x + (cursor' - 1)
      BY <3>2 DEF Work
    <3> HIDE DEF Work
    <3> QED BY <1>1, <2>1, <3>2, <3>3, <3>4
  <2>3. ASSUME NEW p \in allocated
        PROVE  cache'[p].free >= cache[p].free - Unit /\ disk'[p].free >= disk[p].free
    <3>1. p \in Pages /\ cache[p].free \in Nat /\ disk[p].free \in Nat
      BY <1>1
    <3>2. CASE Concerns(log[cursor], p)
      BY <1>18, <2>1, <3>1, <3>2, RedoRecordPage
    <3>3. CASE ~Concerns(log[cursor], p)
      BY <1>4, <2>1, <3>1, <3>3
    <3> QED BY <3>2, <3>3
  <2> HIDE DEF Work
  <2> QED BY <2>1, <2>2, <2>3, RoomAfter
<1>19. CASE RecoveryEnds
  <2>1. /\ mode = "recovering" /\ mode' = "running" /\ restarts' = restarts /\ disk' = cache /\ cache' = cache
        /\ allocated' = allocated /\ log' = log /\ cursor > Len(log)
    BY <1>19 DEF RecoveryEnds
  <2>2. cursor - 1 = Len(log)
    BY <1>1, <2>1 DEF ProcessInv
  <2>3. Work' = Work
    BY <2>1, <2>2 DEF Work
  <2> QED BY <2>1, <2>3 DEF RoomInv
<1> QED BY <1>8, <1>10, <1>11, <1>12, <1>13, <1>14, <1>15, <1>16, <1>17, <1>18, <1>19 DEF Next

LEMMA InitRoomInv == Init => RoomInv
BY DEF Init, RoomInv

LEMMA NextRoomInv ==
  ASSUME "write_back_first" \notin Events, "new_page_unwritten" \notin Events, RoomForAll
  PROVE  RecoveryInv /\ RoomInv /\ [Next]_vars => RecoveryInv' /\ RoomInv'
<1> SUFFICES ASSUME RecoveryInv, RoomInv, [Next]_vars PROVE RecoveryInv' /\ RoomInv'
  OBVIOUS
<1>1. RoomInRedo
  BY RoomSuffices
<1>2. RecoveryInv'
  BY <1>1, NextRecoveryInv
<1>3. CASE Next
  BY <1>1, <1>2, <1>3, RoomKept
<1>4. CASE UNCHANGED vars
  BY <1>2, <1>4 DEF vars, RoomInv, Work
<1> QED BY <1>2, <1>3, <1>4

\* The replay of an insert fills its slot or leaves the page alone.
LEMMA InsertLands ==
  ASSUME RecoveryInv, RedoRecord, log[cursor].type = "insert"
  PROVE  \/ UNCHANGED cache
         \/ LET r == log[cursor]
            IN  cache'[r.page].slots = Stored(cache[r.page].slots, r.slot, r.data)
<1> DEFINE r == log[cursor]
           q == r.page
<1>1. mode = "recovering" /\ ProcessInv /\ log \in Seq(LogRecord) /\ cache \in [Pages -> Page]
  BY StateTypes DEF RedoRecord, RecoveryInv, ProcessInv, TypeOK
<1>2. /\ cursor \in 1 .. Len(log) /\ r \in LogRecord
      /\ cache' = [p \in Pages |-> IF Concerns(r, p) THEN RedoPage(cache[p], r) ELSE cache[p]]
  BY RedoPages
<1>3. q \in Pages /\ Concerns(r, q) /\ \A p \in Pages : Concerns(r, p) <=> p = q
  BY <1>2, RecordKinds DEF Concerns, Changes
<1>4. cache[q] \in Page /\ cache[q].slots \in Contents
  BY <1>1, <1>3, StateTypes
<1>5. PICK h : Past(h, log, q) /\ Redone(cache[q].slots, h, log, cursor, q)
  BY <1>1, <1>3 DEF RecoveryInv, PageInv, PageSound
<1>6. r.data \in Values
  BY <1>1, <1>2, <1>3, <1>5, PastStep DEF Possible
<1> HIDE DEF r, q
<1>7. ASSUME RedoPage(cache[q], r) = cache[q] PROVE UNCHANGED cache
  BY <1>1, <1>2, <1>3, <1>7
<1>8. CASE HoldsAt(cache[q].slots, r.slot)
  BY <1>4, <1>7, <1>8, RedoCases DEF r
<1>9. CASE ~HoldsAt(cache[q].slots, r.slot)
  <2>1. RedoPage(cache[q], r) = InsertRecord(cache[q], r.data, RecordSize)
    BY <1>4, <1>9, RedoCases DEF r
  <2>2. FreeFor(cache[q].slots, r.slot)
    BY <1>1, <1>2, <1>3, <1>4, <1>5, <1>9, LandsInSlot DEF r
  <2>3. r.slot = FreeSlot(cache[q])
    BY <1>4, <2>2, PageSlotsAre, OneFreeSlot
  <2>4. CASE Cost(cache[q], RecordSize) <= cache[q].free
    <3>1. InsertRecord(cache[q], r.data, RecordSize).slots = Stored(cache[q].slots, r.slot, r.data)
      BY <1>4, <1>6, <2>3, <2>4, InsertedPage
    <3>2. cache'[q] = RedoPage(cache[q], r)
      BY <1>2, <1>3
    <3> QED BY <2>1, <3>1, <3>2 DEF r, q
  <2>5. CASE ~(Cost(cache[q], RecordSize) <= cache[q].free)
    <3>1. InsertRecord(cache[q], r.data, RecordSize) = cache[q]
      BY <1>4, <1>6, <2>5, InsertedPage
    <3> QED BY <1>7, <2>1, <3>1
  <2> QED BY <2>4, <2>5
<1> QED BY <1>8, <1>9

-----------------------------------------------------------------------------
(* The theorems. *)

LEMMA SpecRecoveryInv ==
  ASSUME "write_back_first" \notin Events, "new_page_unwritten" \notin Events, RoomForAll
  PROVE  Spec => [](RecoveryInv /\ RoomInv)
<1>1. Init => RecoveryInv /\ RoomInv
  BY InitRecoveryInv, InitRoomInv
<1>2. RecoveryInv /\ RoomInv /\ [Next]_vars => (RecoveryInv /\ RoomInv)'
  BY NextRoomInv
<1> QED BY <1>1, <1>2, PTL DEF Spec

\* Recovery brings back what the log says, for pages and logs of every size, in every
\* behaviour in which no replayed insert meets a full page (the code ignores the
\* insert that fails, recovery_manager.cpp:150): whichever pages had been written when
\* the process died, and however often it died in a recovery.
THEOREM RecoversWhereRoom ==
  ASSUME "write_back_first" \notin Events
  PROVE  Spec /\ []RoomInRedo => []RecoveredExactly
<1>1. Init => RecoveryInv
  BY InitRecoveryInv
<1>2. RecoveryInv /\ RoomInRedo /\ [Next]_vars => RecoveryInv'
  BY NextRecoveryInv
<1>3. RecoveryInv => RecoveredExactly
  BY InvRecoveredExactly
<1> QED BY <1>1, <1>2, <1>3, PTL DEF Spec

\* No replayed insert does meet a full page, and Recover restores every page, when
\* clients write a new page before they log anything about it (BufferPoolManager::
\* NewPage does not) and a page has room for the log in each life of the process.
THEOREM RecoversAll ==
  ASSUME "write_back_first" \notin Events, "new_page_unwritten" \notin Events, RoomForAll
  PROVE  Spec => []RecoveredExactly
<1>1. Spec => [](RecoveryInv /\ RoomInv)
  BY SpecRecoveryInv
<1>2. RecoveryInv => RecoveredExactly
  BY InvRecoveredExactly
<1> QED BY <1>1, <1>2, PTL

\* An insert is never replayed into another slot than its own
\* (recovery_manager.cpp:145-149).
THEOREM RedoesInSlot ==
  ASSUME "write_back_first" \notin Events, "new_page_unwritten" \notin Events, RoomForAll
  PROVE  Spec => RedoLandsInSlot
<1>1. Spec => [](RecoveryInv /\ RoomInv)
  BY SpecRecoveryInv
<1>2. RecoveryInv /\ [Next]_vars
        => [RedoRecord /\ log[cursor].type = "insert"
            => \/ UNCHANGED cache
               \/ LET r == log[cursor]
                  IN  cache'[r.page].slots = Stored(cache[r.page].slots, r.slot, r.data)]_vars
  BY InsertLands
<1> QED BY <1>1, <1>2, PTL DEF RedoLandsInSlot, Spec

\* Every variable stays in its type: no page is filled beyond its room, and no slot
\* is used that the log has no record about.
THEOREM TypeCorrect ==
  ASSUME "write_back_first" \notin Events, "new_page_unwritten" \notin Events, RoomForAll
  PROVE  Spec => []TypeOK
<1>1. Spec => [](RecoveryInv /\ RoomInv)
  BY SpecRecoveryInv
<1>2. RecoveryInv => TypeOK
  BY DEF RecoveryInv, ProcessInv
<1> QED BY <1>1, <1>2, PTL
=============================================================================
