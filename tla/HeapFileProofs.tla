--------------------------- MODULE HeapFileProofs ---------------------------
(***************************************************************************)
(* For pages, records and pools of every size: as long as clients leave    *)
(* two frames to the calls, the chain, the counters and the directory of a *)
(* heap file agree with its pages, a scan visits every id that was live as *)
(* it lay ahead and stayed so, and the calls are those of a heap of        *)
(* records.  The second half is about the queries over it: what they       *)
(* return is sound and complete, and they give back their pins.            *)
(*                                                                         *)
(* Two frames are what AllocateNewPage pins at once, the new page and the  *)
(* old last page.  With them every page can be had, so the chain is never  *)
(* cut and its pages are linked in the order of their numbers (Sound).     *)
(***************************************************************************)
EXTENDS Executor, SequenceTheorems, FiniteSetTheorems, WellFoundedInduction, TLAPS

-----------------------------------------------------------------------------
(* Least elements. *)

LEMMA NatOrder == \E R : IsWellFoundedOn(R, Nat) /\ R = {ss \in Nat \X Nat : ss[1] < ss[2]}
<1>1. OpToRel(<, Nat) = {ss \in Nat \X Nat : ss[1] < ss[2]}
  BY DEF OpToRel
<1> QED BY <1>1, NatLessThanWellFounded, Zenon

LEMMA LeastNatural ==
  ASSUME NEW U, U \subseteq Nat, U # {}
  PROVE  \E m \in U : \A k \in U : m <= k
<1>1. PICK R : IsWellFoundedOn(R, Nat) /\ R = {ss \in Nat \X Nat : ss[1] < ss[2]}
  BY NatOrder
<1>2. PICK m \in U : \A k \in U : <<k, m>> \notin R
  BY <1>1, WFMin
<1>3. ASSUME NEW k \in U PROVE m <= k
  <2>1. k \in Nat /\ m \in Nat /\ <<k, m>> \in Nat \X Nat
    OBVIOUS
  <2> QED BY <1>1, <1>2, <2>1
<1> QED BY <1>3

LEMMA MinIsLeast ==
  ASSUME NEW S, S \subseteq Nat, S # {}
  PROVE  Min(S) \in S /\ \A k \in S : Min(S) <= k
BY LeastNatural DEF Min

\* A loop of L passes that keeps its state in S has a state after each of them.
Passes(L, S, step) == step \in [1 .. L -> [S -> S]]
RunOf(L, S, base, step, f) ==
  /\ f \in [0 .. L -> S]
  /\ f[0] = base /\ \A n \in 1 .. L : f[n] = step[n][f[n - 1]]

LEMMA LoopRuns ==
  ASSUME NEW L \in Nat, NEW S, NEW base \in S, NEW step, Passes(L, S, step)
  PROVE  \E f : RunOf(L, S, base, step, f)
<1> USE DEF Passes, RunOf
<1> DEFINE Runs(k) == \E f \in [0 .. k -> S] :
                        f[0] = base /\ \A n \in 1 .. k : f[n] = step[n][f[n - 1]]
           U == {k \in 0 .. L : ~Runs(k)}
<1>1. Runs(0)
  <2>1. [n \in 0 .. 0 |-> base] \in [0 .. 0 -> S]
    OBVIOUS
  <2>2. [n \in 0 .. 0 |-> base][0] = base /\ 1 .. 0 = {}
    OBVIOUS
  <2> QED BY <2>1, <2>2
<1>2. ASSUME NEW k \in 0 .. L - 1, Runs(k) PROVE Runs(k + 1)
  <2>1. PICK f \in [0 .. k -> S] : f[0] = base /\ \A n \in 1 .. k : f[n] = step[n][f[n - 1]]
    BY <1>2
  <2> DEFINE g == [n \in 0 .. k + 1 |-> IF n <= k THEN f[n] ELSE step[k + 1][f[k]]]
  <2>2. f[k] \in S /\ step[k + 1] \in [S -> S]
    OBVIOUS
  <2>3. step[k + 1][f[k]] \in S
    BY <2>2
  <2>4. g \in [0 .. k + 1 -> S]
    BY <2>3
  <2>5. g[0] = base
    BY <2>1
  <2>6. ASSUME NEW n \in 1 .. k + 1 PROVE g[n] = step[n][g[n - 1]]
    <3>1. CASE n = k + 1
      BY <3>1
    <3>2. CASE n # k + 1
      BY <2>1, <3>2
    <3> QED BY <3>1, <3>2
  <2> QED BY <2>4, <2>5, <2>6
<1>3. U = {}
  <2> HIDE DEF Runs
  <2> SUFFICES ASSUME U # {} PROVE FALSE
    OBVIOUS
  <2>1. U \subseteq Nat
    OBVIOUS
  <2>2. PICK m \in U : \A k \in U : m <= k
    <3> HIDE DEF U
    <3> QED BY <2>1, LeastNatural
  <2>3. m \in 0 .. L /\ m # 0 /\ ~Runs(m)
    BY <1>1, <2>2
  <2>4. m - 1 \in 0 .. L - 1 /\ ~(m <= m - 1) /\ (m - 1) + 1 = m
    BY <2>3
  <2>5. Runs(m - 1)
    BY <2>2, <2>4
  <2> QED BY <1>2, <2>3, <2>4, <2>5
<1>4. Runs(L)
  <2> HIDE DEF Runs
  <2> QED BY <1>3
<1> QED BY <1>4

LEMMA SequenceOf ==
  ASSUME NEW L \in Nat, NEW S, NEW f \in [1 .. L -> S]
  PROVE  f \in Seq(S) /\ Len(f) = L
<1>1. f \in Seq(S)
  BY SeqDef
<1>2. Len(f) \in Nat /\ 1 .. Len(f) = 1 .. L
  BY <1>1, LenProperties
<1>3. ASSUME NEW m \in Nat, NEW n \in Nat, 1 .. m = 1 .. n PROVE m <= n
  <2>1. CASE m = 0
    BY <2>1
  <2>2. CASE m # 0
    <3>1. m \in 1 .. m
      BY <2>2
    <3>2. m \in 1 .. n
      BY <1>3, <3>1
    <3> QED BY <3>2
  <2> QED BY <2>1, <2>2
<1>4. Len(f) <= L /\ L <= Len(f)
  BY <1>2, <1>3
<1> QED BY <1>1, <1>2, <1>4

-----------------------------------------------------------------------------
(* Pages. *)

Contents == Seq(Record \cup {NoRecord})
Page     == [slots : Contents, free : Int, next : Nat \cup {INVALID_PAGE_ID}]

\* Every slot takes at least a unit of the page.
SoundPage(pg) ==
  pg \in Page /\ Len(pg.slots) <= Capacity /\ Len(pg.slots) + pg.free <= Capacity

LEMMA SlotsAre ==
  ASSUME NEW s \in Contents
  PROVE  /\ Len(s) \in Nat /\ DOMAIN s = 1 .. Len(s)
         /\ \A j \in 1 .. Len(s) : s[j] \in Record \cup {NoRecord}
BY LenProperties, ElementOfSeq DEF Contents

LEMMA StoredSlots ==
  ASSUME NEW s \in Contents, NEW i \in 1 .. Len(s) + 1, NEW v \in Record \cup {NoRecord}
  PROVE  /\ Stored(s, i, v) \in Contents
         /\ Len(Stored(s, i, v)) = IF i > Len(s) THEN Len(s) + 1 ELSE Len(s)
         /\ \A j \in 1 .. Len(Stored(s, i, v)) : Stored(s, i, v)[j] = IF j = i THEN v ELSE s[j]
<1>1. Len(s) \in Nat
  BY SlotsAre
<1>2. CASE i > Len(s)
  <2>1. /\ Append(s, v) \in Seq(Record \cup {NoRecord}) /\ Len(Append(s, v)) = Len(s) + 1
        /\ \A j \in 1 .. Len(s) + 1 : Append(s, v)[j] = IF j <= Len(s) THEN s[j] ELSE v
    BY AppendProperties DEF Contents
  <2> QED BY <1>1, <1>2, <2>1 DEF Stored, Contents
<1>3. CASE i <= Len(s)
  <2>1. /\ [s EXCEPT ![i] = v] \in Seq(Record \cup {NoRecord}) /\ Len([s EXCEPT ![i] = v]) = Len(s)
        /\ \A j \in 1 .. Len(s) : [s EXCEPT ![i] = v][j] = IF j = i THEN v ELSE s[j]
    <3>1. i \in 1 .. Len(s)
      BY <1>1, <1>3
    <3> QED BY <3>1, ExceptSeq DEF Contents
  <2>2. Stored(s, i, v) = [s EXCEPT ![i] = v] /\ ~(i > Len(s))
    BY <1>1, <1>3 DEF Stored
  <2> QED BY <2>1, <2>2 DEF Contents
<1> QED BY <1>1, <1>2, <1>3

\* What a page holds, and the slot an insert takes.
LEMMA PageFacts ==
  ASSUME NEW pg \in Page
  PROVE  /\ pg.slots \in Contents /\ pg.free \in Int /\ Len(pg.slots) \in Nat
         /\ pg.next \in Nat \cup {INVALID_PAGE_ID}
         /\ \A i : Holds(pg, i) <=> i \in 1 .. Len(pg.slots) /\ pg.slots[i] # NoRecord
         /\ \A i : Holds(pg, i) => pg.slots[i] \in Record
         /\ FreeSlot(pg) \in 1 .. Len(pg.slots) + 1 /\ ~Holds(pg, FreeSlot(pg))
<1>1. pg.slots \in Contents /\ pg.free \in Int /\ pg.next \in Nat \cup {INVALID_PAGE_ID}
  BY DEF Page
<1> DEFINE s == pg.slots
<1>2. Len(s) \in Nat /\ DOMAIN s = 1 .. Len(s) /\ \A j \in 1 .. Len(s) : s[j] \in Record \cup {NoRecord}
  BY <1>1, SlotsAre
<1>3. \A i : Holds(pg, i) <=> i \in 1 .. Len(s) /\ s[i] # NoRecord
  BY <1>2 DEF Holds, LiveSlots
<1>4. FreeSlot(pg) \in 1 .. Len(s) + 1 /\ ~Holds(pg, FreeSlot(pg))
  <2> DEFINE empty == DOMAIN s \ LiveSlots(pg)
  <2>1. empty = {i \in 1 .. Len(s) : s[i] = NoRecord}
    BY <1>2 DEF LiveSlots
  <2>2. CASE empty = {}
    BY <1>2, <1>3, <2>2 DEF FreeSlot
  <2>3. CASE empty # {}
    <3>1. empty \subseteq Nat
      BY <1>2, <2>1
    <3>2. FreeSlot(pg) = Min(empty)
      BY <2>3 DEF FreeSlot
    <3>3. Min(empty) \in empty
      <4> HIDE DEF empty
      <4> QED BY <2>3, <3>1, MinIsLeast
    <3> QED BY <1>2, <1>3, <2>1, <3>2, <3>3
  <2> QED BY <2>2, <2>3
<1> QED BY <1>1, <1>2, <1>3, <1>4

\* A page with one slot, and the space left, changed.
LEMMA PageFields ==
  ASSUME NEW pg \in Page, NEW s, NEW n
  PROVE  [pg EXCEPT !.slots = s, !.free = n] = [slots |-> s, free |-> n, next |-> pg.next]
<1>1. pg = [slots |-> pg.slots, free |-> pg.free, next |-> pg.next]
  BY DEF Page
<1> DEFINE a == [pg EXCEPT !.slots = s]
<1>2. a = [slots |-> s, free |-> pg.free, next |-> pg.next]
  BY <1>1
<1>3. [a EXCEPT !.free = n] = [slots |-> s, free |-> n, next |-> pg.next]
  <2> HIDE DEF a
  <2> QED BY <1>2
<1> QED BY <1>3

\* q is pg but for slot i, which holds v.
Changed(pg, q, i, v) ==
  /\ SoundPage(q) /\ q.next = pg.next /\ i \in 1 .. Capacity
  /\ \A j : Holds(q, j) <=> IF j = i THEN v # NoRecord ELSE Holds(pg, j)
  /\ \A j : Holds(q, j) => q.slots[j] = IF j = i THEN v ELSE pg.slots[j]

\* The slots decide what changed.
LEMMA StoredChanges ==
  ASSUME NEW pg, SoundPage(pg), NEW i \in 1 .. Len(pg.slots) + 1, NEW v \in Record \cup {NoRecord},
         NEW n \in Int, Len(Stored(pg.slots, i, v)) <= Capacity,
         Len(Stored(pg.slots, i, v)) + n <= Capacity
  PROVE  Changed(pg, [pg EXCEPT !.slots = Stored(pg.slots, i, v), !.free = n], i, v)
<1> DEFINE s == Stored(pg.slots, i, v)
           q == [pg EXCEPT !.slots = s, !.free = n]
<1>1. pg \in Page /\ pg.slots \in Contents /\ Len(pg.slots) \in Nat
  BY PageFacts DEF SoundPage
<1>2. /\ s \in Contents
      /\ Len(s) = IF i > Len(pg.slots) THEN Len(pg.slots) + 1 ELSE Len(pg.slots)
      /\ \A j \in 1 .. Len(s) : s[j] = IF j = i THEN v ELSE pg.slots[j]
  BY <1>1, StoredSlots
<1>3. q \in Page /\ q.slots = s /\ q.free = n /\ q.next = pg.next
  <2>1. s \in Contents
    BY <1>2
  <2> HIDE DEF s
  <2>2. q = [slots |-> s, free |-> n, next |-> pg.next]
    BY <1>1, PageFields
  <2>3. pg.next \in Nat \cup {INVALID_PAGE_ID}
    BY <1>1, PageFacts
  <2> QED BY <2>1, <2>2, <2>3 DEF Page
<1>4. SoundPage(q)
  BY <1>3 DEF SoundPage
<1>5. i \in 1 .. Capacity
  <2>1. i \in 1 .. Len(s)
    BY <1>1, <1>2
  <2>2. Len(s) \in Nat /\ Len(s) <= Capacity
    BY <1>2, SlotsAre
  <2> HIDE DEF s
  <2> QED BY <2>1, <2>2, SizesAssumption
<1> HIDE DEF q, s
<1>6. /\ \A j : Holds(q, j) <=> j \in 1 .. Len(s) /\ s[j] # NoRecord
      /\ \A j : Holds(pg, j) <=> j \in 1 .. Len(pg.slots) /\ pg.slots[j] # NoRecord
  BY <1>1, <1>3, PageFacts
<1>7. \A j : Holds(q, j) <=> IF j = i THEN v # NoRecord ELSE Holds(pg, j)
  BY <1>1, <1>2, <1>6
<1>8. \A j : Holds(q, j) => q.slots[j] = IF j = i THEN v ELSE pg.slots[j]
  BY <1>2, <1>3, <1>6
<1>9. Changed(pg, q, i, v)
  BY <1>3, <1>4, <1>5, <1>7, <1>8 DEF Changed
<1> QED BY <1>9 DEF q, s

LEMMA CostIs ==
  ASSUME NEW pg, NEW n \in Nat
  PROVE  Cost(pg, n) = (IF FreeSlot(pg) > Len(pg.slots) THEN n + SLOT_ENTRY_SIZE ELSE n)
BY SlotSizeAssumption DEF Cost

LEMMA RecordSizes ==
  ASSUME NEW r \in Record
  PROVE  r.size \in Sizes /\ r.size \in Nat /\ r.size >= 1 /\ r # NoRecord
<1>1. r # NoRecord
  BY NoRecordAssumption
<1>2. r.size \in Sizes
  BY DEF Record
<1>3. r.size \in Nat \ {0}
  BY <1>2, SizesAssumption
<1> QED BY <1>1, <1>2, <1>3

\* An insert that fits takes an empty slot.
LEMMA InsertedPage ==
  ASSUME NEW pg, SoundPage(pg), NEW r \in Record, Fits(pg, r)
  PROVE  /\ Changed(pg, InsertRecord(pg, r, r.size), FreeSlot(pg), r)
         /\ ~Holds(pg, FreeSlot(pg))
<1>1. /\ pg \in Page /\ pg.slots \in Contents /\ Len(pg.slots) \in Nat /\ pg.free \in Int
      /\ FreeSlot(pg) \in 1 .. Len(pg.slots) + 1 /\ ~Holds(pg, FreeSlot(pg))
  BY PageFacts DEF SoundPage
<1>2. r.size \in Nat /\ r.size >= 1
  BY RecordSizes
<1> DEFINE c == Cost(pg, r.size)
           i == FreeSlot(pg)
<1>3. c = (IF i > Len(pg.slots) THEN r.size + SLOT_ENTRY_SIZE ELSE r.size) /\ c <= pg.free
  BY <1>2, CostIs DEF Fits
<1> DEFINE s == Stored(pg.slots, i, r)
<1>4. Len(s) = IF i > Len(pg.slots) THEN Len(pg.slots) + 1 ELSE Len(pg.slots)
  BY <1>1, StoredSlots
<1>5. InsertRecord(pg, r, r.size) = [pg EXCEPT !.slots = s, !.free = pg.free - c]
  BY <1>3 DEF InsertRecord
<1>6. Len(pg.slots) <= Capacity /\ Len(pg.slots) + pg.free <= Capacity
  BY DEF SoundPage
<1> HIDE DEF c, s, i
<1>7. pg.free - c \in Int /\ Len(s) <= Capacity /\ Len(s) + (pg.free - c) <= Capacity
  <2>1. Capacity \in Nat /\ SLOT_ENTRY_SIZE \in Nat
    BY SlotSizeAssumption, SizesAssumption
  <2>2. PICK m \in Nat : m = Len(pg.slots)
    BY <1>1
  <2>3. PICK f \in Int : f = pg.free
    BY <1>1
  <2>4. PICK z \in Nat : z = r.size
    BY <1>2
  <2>5. c \in Nat /\ c >= 1 /\ c <= f /\ m + f <= Capacity /\ Len(s) \in {m, m + 1}
    BY <1>2, <1>3, <1>4, <1>6, <2>1, <2>2, <2>3, <2>4
  <2> QED BY <2>1, <2>2, <2>3, <2>5, SMTT(30)
<1>8. Changed(pg, [pg EXCEPT !.slots = s, !.free = pg.free - c], i, r)
  BY <1>1, <1>7, StoredChanges DEF s, i
<1> QED BY <1>1, <1>5, <1>8 DEF i

\* A slot that holds a record, with another in it.
LEMMA ReplacedInPage ==
  ASSUME NEW pg, SoundPage(pg), NEW i, Holds(pg, i), NEW v \in Record \cup {NoRecord}, NEW n \in Int,
         n <= pg.free
  PROVE  Changed(pg, [pg EXCEPT !.slots = [pg.slots EXCEPT ![i] = v], !.free = n], i, v)
<1>1. /\ pg \in Page /\ pg.slots \in Contents /\ Len(pg.slots) \in Nat /\ pg.free \in Int
      /\ i \in 1 .. Len(pg.slots)
  BY PageFacts DEF SoundPage
<1>2. Stored(pg.slots, i, v) = [pg.slots EXCEPT ![i] = v]
  BY <1>1 DEF Stored
<1>3. Len(Stored(pg.slots, i, v)) = Len(pg.slots)
  <2>1. i \in 1 .. Len(pg.slots) + 1 /\ ~(i > Len(pg.slots))
    BY <1>1
  <2> QED BY <1>1, <2>1, StoredSlots
<1>4. Len(pg.slots) <= Capacity /\ Len(pg.slots) + n <= Capacity
  BY <1>1, SizesAssumption DEF SoundPage
<1>5. Changed(pg, [pg EXCEPT !.slots = Stored(pg.slots, i, v), !.free = n], i, v)
  <2>1. i \in 1 .. Len(pg.slots) + 1
    BY <1>1
  <2> QED BY <1>3, <1>4, <2>1, StoredChanges
<1> QED BY <1>2, <1>5

LEMMA DeletedPage ==
  ASSUME NEW pg, SoundPage(pg), NEW i, Holds(pg, i)
  PROVE  Changed(pg, DeleteRecord(pg, i), i, NoRecord)
<1>1. pg = [slots |-> pg.slots, free |-> pg.free, next |-> pg.next] /\ pg.free \in Int
  BY DEF SoundPage, Page
<1>2. DeleteRecord(pg, i) = [pg EXCEPT !.slots[i] = NoRecord]
  BY DEF DeleteRecord
<1>3. ASSUME NEW s PROVE [pg EXCEPT !.slots = s] = [pg EXCEPT !.slots = s, !.free = pg.free]
  BY <1>1
<1>4. [pg EXCEPT !.slots[i] = NoRecord] = [pg EXCEPT !.slots = [pg.slots EXCEPT ![i] = NoRecord], !.free = pg.free]
  BY <1>3
<1>5. pg.free <= pg.free
  BY <1>1
<1>6. Changed(pg, [pg EXCEPT !.slots = [pg.slots EXCEPT ![i] = NoRecord], !.free = pg.free], i, NoRecord)
  <2>1. NoRecord \in Record \cup {NoRecord}
    OBVIOUS
  <2> QED BY <1>1, <1>5, <2>1, ReplacedInPage
<1> QED BY <1>2, <1>4, <1>6

-----------------------------------------------------------------------------
(* Heaps. *)

HeapSet == [pages : Seq(Page), last_page_id : Nat, record_count : Nat, page_count : Nat,
            pages_with_space : Seq(Nat)]
Rid     == [page : Nat, slot : Nat]

Rec(h, rid) == h.pages[rid.page].slots[rid.slot]

\* The pages are linked in the order of their numbers, and counted.
Chained(h) ==
  /\ Len(h.pages) >= 1 /\ h.last_page_id = Len(h.pages) /\ h.page_count = Len(h.pages)
  /\ \A i \in 1 .. Len(h.pages) :
       /\ SoundPage(h.pages[i])
       /\ h.pages[i].next = IF i = Len(h.pages) THEN INVALID_PAGE_ID ELSE i + 1

Counted(h) == IsFiniteSet(Live(h)) /\ h.record_count = Cardinality(Live(h))

\* A directory of some of n pages.
Listing(d, n) ==
  /\ d \in Seq(Nat)
  /\ \A i \in 1 .. Len(d) : d[i] \in 1 .. n
  /\ \A i, j \in 1 .. Len(d) : d[i] = d[j] => i = j

Sound(h) ==
  h \in HeapSet /\ Chained(h) /\ Counted(h) /\ Listing(h.pages_with_space, Len(h.pages))

\* g has the records of h and pages enough, no others than h, one more than h.
Keeps(h, g) ==
  /\ Len(h.pages) <= Len(g.pages) /\ Live(h) \subseteq Live(g)
  /\ \A rid \in Live(h) : Rec(g, rid) = Rec(h, rid)
Same(h, g) == Keeps(h, g) /\ Live(g) = Live(h)
Adds(h, g, r) ==
  Keeps(h, g) /\ \E new : new \notin Live(h) /\ Live(g) = Live(h) \cup {new} /\ Rec(g, new) = r

LEMMA AppendListing ==
  ASSUME NEW d, NEW m \in Nat, Listing(d, m), NEW n \in Nat, m <= n, NEW p \in 1 .. n,
         \A i \in 1 .. Len(d) : d[i] # p
  PROVE  Listing(Append(d, p), n)
<1>1. d \in Seq(Nat) /\ Len(d) \in Nat
  BY LenProperties DEF Listing
<1>2. /\ Append(d, p) \in Seq(Nat) /\ Len(Append(d, p)) = Len(d) + 1
      /\ \A i \in 1 .. Len(d) + 1 : Append(d, p)[i] = IF i <= Len(d) THEN d[i] ELSE p
  BY <1>1, AppendProperties
<1> DEFINE e == Append(d, p)
<1> HIDE DEF e
<1>3. \A i \in 1 .. Len(d) : e[i] \in 1 .. m /\ e[i] = d[i]
  BY <1>1, <1>2 DEF Listing, e
<1>4. e[Len(d) + 1] = p
  BY <1>1, <1>2 DEF e
<1>5. \A i \in 1 .. Len(d) + 1 : i \in 1 .. Len(d) \/ i = Len(d) + 1
  BY <1>1
<1>6. \A i \in 1 .. Len(d) + 1 : e[i] \in 1 .. n
  BY <1>3, <1>4, <1>5
<1>7. ASSUME NEW i \in 1 .. Len(d) + 1, NEW j \in 1 .. Len(d) + 1, e[i] = e[j] PROVE i = j
  <2>1. CASE i \in 1 .. Len(d) /\ j \in 1 .. Len(d)
    BY <1>3, <1>7, <2>1 DEF Listing
  <2>2. CASE i \in 1 .. Len(d) /\ j = Len(d) + 1
    BY <1>3, <1>4, <1>7, <2>2
  <2>3. CASE i = Len(d) + 1 /\ j \in 1 .. Len(d)
    BY <1>3, <1>4, <1>7, <2>3
  <2> QED BY <1>5, <2>1, <2>2, <2>3
<1> QED BY <1>2, <1>6, <1>7 DEF Listing, e

LEMMA HeapTypes ==
  ASSUME NEW h \in HeapSet
  PROVE  /\ h.pages \in Seq(Page) /\ Len(h.pages) \in Nat /\ DOMAIN h.pages = 1 .. Len(h.pages)
         /\ \A i \in 1 .. Len(h.pages) : h.pages[i] \in Page
         /\ h.last_page_id \in Nat /\ h.record_count \in Nat /\ h.page_count \in Nat
         /\ h.pages_with_space \in Seq(Nat)
         /\ h = [pages |-> h.pages, last_page_id |-> h.last_page_id,
                 record_count |-> h.record_count, page_count |-> h.page_count,
                 pages_with_space |-> h.pages_with_space]
<1>1. /\ h.pages \in Seq(Page) /\ h.last_page_id \in Nat /\ h.record_count \in Nat
      /\ h.page_count \in Nat /\ h.pages_with_space \in Seq(Nat)
      /\ h = [pages |-> h.pages, last_page_id |-> h.last_page_id,
              record_count |-> h.record_count, page_count |-> h.page_count,
              pages_with_space |-> h.pages_with_space]
  BY DEF HeapSet
<1>2. /\ Len(h.pages) \in Nat /\ DOMAIN h.pages = 1 .. Len(h.pages)
      /\ \A i \in 1 .. Len(h.pages) : h.pages[i] \in Page
  BY <1>1, LenProperties, ElementOfSeq
<1> QED BY <1>1, <1>2

\* What a call writes into the fields of a heap, one after the other.
HeapOf(ps, l, rc, pc, d) ==
  [pages |-> ps, last_page_id |-> l, record_count |-> rc, page_count |-> pc, pages_with_space |-> d]

WithNewPage(h, ps, l, pc, d) ==
  [h EXCEPT !.pages = ps, !.last_page_id = l, !.page_count = pc, !.pages_with_space = d]
WithWalk(h, l, rc, pc, d) ==
  [h EXCEPT !.last_page_id = l, !.page_count = pc, !.record_count = rc, !.pages_with_space = d]
WithDirectory(h, ps, rc, d) ==
  [h EXCEPT !.pages = ps, !.record_count = rc, !.pages_with_space = d]
WithCount(h, ps, rc) ==
  [h EXCEPT !.pages = ps, !.record_count = rc]

LEMMA HeapFields ==
  /\ \A h \in HeapSet :
       h = HeapOf(h.pages, h.last_page_id, h.record_count, h.page_count, h.pages_with_space)
  /\ \A a, b, c, e, f, x : [HeapOf(a, b, c, e, f) EXCEPT !.pages = x] = HeapOf(x, b, c, e, f)
  /\ \A a, b, c, e, f, x : [HeapOf(a, b, c, e, f) EXCEPT !.last_page_id = x] = HeapOf(a, x, c, e, f)
  /\ \A a, b, c, e, f, x : [HeapOf(a, b, c, e, f) EXCEPT !.record_count = x] = HeapOf(a, b, x, e, f)
  /\ \A a, b, c, e, f, x : [HeapOf(a, b, c, e, f) EXCEPT !.page_count = x] = HeapOf(a, b, c, x, f)
  /\ \A a, b, c, e, f, x : [HeapOf(a, b, c, e, f) EXCEPT !.pages_with_space = x] = HeapOf(a, b, c, e, x)
BY HeapTypes DEF HeapOf

LEMMA FieldsAfterAllocate ==
  ASSUME NEW h \in HeapSet, NEW ps, NEW l, NEW pc, NEW d
  PROVE  WithNewPage(h, ps, l, pc, d)
           = HeapOf(ps, l, h.record_count, pc, d)
<1>0. h = HeapOf(h.pages, h.last_page_id, h.record_count, h.page_count, h.pages_with_space)
  BY HeapFields
<1> DEFINE h1 == [h EXCEPT !.pages = ps]
<1>1. h1 = HeapOf(ps, h.last_page_id, h.record_count, h.page_count, h.pages_with_space)
  BY <1>0, HeapFields
<1> HIDE DEF h1
<1> DEFINE h2 == [h1 EXCEPT !.last_page_id = l]
<1>2. h2 = HeapOf(ps, l, h.record_count, h.page_count, h.pages_with_space)
  BY <1>1, HeapFields
<1> HIDE DEF h2
<1> DEFINE h3 == [h2 EXCEPT !.page_count = pc]
<1>3. h3 = HeapOf(ps, l, h.record_count, pc, h.pages_with_space)
  BY <1>2, HeapFields
<1> HIDE DEF h3
<1>4. [h3 EXCEPT !.pages_with_space = d] = HeapOf(ps, l, h.record_count, pc, d)
  BY <1>3, HeapFields
<1> QED BY <1>4 DEF WithNewPage, h1, h2, h3

LEMMA FieldsAfterReopen ==
  ASSUME NEW h \in HeapSet, NEW l, NEW rc, NEW pc, NEW d
  PROVE  WithWalk(h, l, rc, pc, d)
           = HeapOf(h.pages, l, rc, pc, d)
<1>0. h = HeapOf(h.pages, h.last_page_id, h.record_count, h.page_count, h.pages_with_space)
  BY HeapFields
<1> DEFINE h1 == [h EXCEPT !.last_page_id = l]
<1>1. h1 = HeapOf(h.pages, l, h.record_count, h.page_count, h.pages_with_space)
  BY <1>0, HeapFields
<1> HIDE DEF h1
<1> DEFINE h2 == [h1 EXCEPT !.page_count = pc]
<1>2. h2 = HeapOf(h.pages, l, h.record_count, pc, h.pages_with_space)
  BY <1>1, HeapFields
<1> HIDE DEF h2
<1> DEFINE h3 == [h2 EXCEPT !.record_count = rc]
<1>3. h3 = HeapOf(h.pages, l, rc, pc, h.pages_with_space)
  BY <1>2, HeapFields
<1> HIDE DEF h3
<1>4. [h3 EXCEPT !.pages_with_space = d] = HeapOf(h.pages, l, rc, pc, d)
  BY <1>3, HeapFields
<1> QED BY <1>4 DEF WithWalk, h1, h2, h3

LEMMA FieldsAfterDelete ==
  ASSUME NEW h \in HeapSet, NEW ps, NEW rc, NEW d
  PROVE  WithDirectory(h, ps, rc, d)
           = HeapOf(ps, h.last_page_id, rc, h.page_count, d)
<1>0. h = HeapOf(h.pages, h.last_page_id, h.record_count, h.page_count, h.pages_with_space)
  BY HeapFields
<1> DEFINE h1 == [h EXCEPT !.pages = ps]
<1>1. h1 = HeapOf(ps, h.last_page_id, h.record_count, h.page_count, h.pages_with_space)
  BY <1>0, HeapFields
<1> HIDE DEF h1
<1> DEFINE h2 == [h1 EXCEPT !.record_count = rc]
<1>2. h2 = HeapOf(ps, h.last_page_id, rc, h.page_count, h.pages_with_space)
  BY <1>1, HeapFields
<1> HIDE DEF h2
<1>3. [h2 EXCEPT !.pages_with_space = d] = HeapOf(ps, h.last_page_id, rc, h.page_count, d)
  BY <1>2, HeapFields
<1> QED BY <1>3 DEF WithDirectory, h1, h2

LEMMA FieldsAfterPut ==
  ASSUME NEW h \in HeapSet, NEW ps, NEW rc
  PROVE  WithCount(h, ps, rc)
           = HeapOf(ps, h.last_page_id, rc, h.page_count, h.pages_with_space)
<1>0. h = HeapOf(h.pages, h.last_page_id, h.record_count, h.page_count, h.pages_with_space)
  BY HeapFields
<1> DEFINE h1 == [h EXCEPT !.pages = ps]
<1>1. h1 = HeapOf(ps, h.last_page_id, h.record_count, h.page_count, h.pages_with_space)
  BY <1>0, HeapFields
<1> HIDE DEF h1
<1>2. [h1 EXCEPT !.record_count = rc] = HeapOf(ps, h.last_page_id, rc, h.page_count, h.pages_with_space)
  BY <1>1, HeapFields
<1> QED BY <1>2 DEF WithCount, h1

LEMMA LiveIs ==
  ASSUME NEW h \in HeapSet
  PROVE  \A x : x \in Live(h) <=> /\ x \in Rid /\ x.page \in 1 .. Len(h.pages)
                                  /\ x.slot \in 1 .. Capacity /\ Holds(h.pages[x.page], x.slot)
<1>1. DOMAIN h.pages = 1 .. Len(h.pages) /\ Len(h.pages) \in Nat
  BY HeapTypes
<1>2. \A x : x \in [page : DOMAIN h.pages, slot : 1 .. Capacity]
               <=> x \in Rid /\ x.page \in 1 .. Len(h.pages) /\ x.slot \in 1 .. Capacity
  BY <1>1, SizesAssumption DEF Rid
<1> QED BY <1>2 DEF Live

\* Ids with the same page and slot are the same.
LEMMA RidIs ==
  ASSUME NEW x \in Rid
  PROVE  x = [page |-> x.page, slot |-> x.slot] /\ x.page \in Nat /\ x.slot \in Nat
BY DEF Rid

LEMMA LiveRecords ==
  ASSUME NEW h, Sound(h), NEW rid \in Live(h)
  PROVE  Rec(h, rid) \in Record /\ rid.page \in 1 .. Len(h.pages)
<1>1. h \in HeapSet
  BY DEF Sound
<1>2. rid.page \in 1 .. Len(h.pages) /\ Holds(h.pages[rid.page], rid.slot)
  BY <1>1, LiveIs
<1>3. h.pages[rid.page] \in Page
  BY <1>1, <1>2, HeapTypes
<1> QED BY <1>2, <1>3, PageFacts DEF Rec

-----------------------------------------------------------------------------
(* Heaps that differ in one page. *)

LEMMA DirectoryChanged ==
  ASSUME NEW h, Sound(h), NEW d, Listing(d, Len(h.pages)),
         NEW g, g = [h EXCEPT !.pages_with_space = d]
  PROVE  Sound(g) /\ Same(h, g) /\ g.pages = h.pages
<1>1. /\ g.pages = h.pages /\ g.last_page_id = h.last_page_id
      /\ g.record_count = h.record_count /\ g.page_count = h.page_count /\ g.pages_with_space = d
      /\ g = [pages |-> h.pages, last_page_id |-> h.last_page_id, record_count |-> h.record_count,
              page_count |-> h.page_count, pages_with_space |-> d]
  <2>1. h \in HeapSet
    BY DEF Sound
  <2> QED BY <2>1, HeapTypes
<1>2. h \in HeapSet
  BY DEF Sound
<1>3. g \in HeapSet
  BY <1>1, <1>2, HeapTypes DEF HeapSet, Listing
<1>4. Live(g) = Live(h)
  BY <1>1 DEF Live
<1>5. Chained(g) /\ Counted(g)
  BY <1>1, <1>4 DEF Sound, Chained, Counted
<1>6. Same(h, g)
  BY <1>1, <1>2, <1>4, HeapTypes DEF Same, Keeps, Rec
<1> QED BY <1>1, <1>3, <1>5, <1>6 DEF Sound

\* h with another page p, another count and another directory.
Rebuilt(h, p, q, n, d) ==
  HeapOf([h.pages EXCEPT ![p] = q], h.last_page_id, n, h.page_count, d)

\* The records of g are those of h but for the one with id rid.
DiffersAt(h, g, rid, v) ==
  /\ \A x : x \in Live(g) <=> (x = rid /\ v # NoRecord) \/ (x # rid /\ x \in Live(h))
  /\ \A x \in Live(g) : Rec(g, x) = IF x = rid THEN v ELSE Rec(h, x)

\* g is h with page p changed in slot i.
LEMMA PageChanged ==
  ASSUME NEW h, Sound(h), NEW p \in 1 .. Len(h.pages), NEW q, NEW i, NEW v,
         Changed(h.pages[p], q, i, v), NEW n \in Nat, NEW d, Listing(d, Len(h.pages)),
         NEW g, g = Rebuilt(h, p, q, n, d)
  PROVE  /\ g \in HeapSet /\ Chained(g) /\ Listing(g.pages_with_space, Len(g.pages))
         /\ Len(g.pages) = Len(h.pages) /\ g.record_count = n
         /\ [page |-> p, slot |-> i] \in Rid
         /\ DiffersAt(h, g, [page |-> p, slot |-> i], v)
<1>1. h \in HeapSet /\ h.pages \in Seq(Page) /\ Len(h.pages) \in Nat
  BY HeapTypes DEF Sound
<1>2. q \in Page /\ q.next = h.pages[p].next /\ i \in 1 .. Capacity /\ SoundPage(q)
  BY DEF Changed, SoundPage
<1> DEFINE ps == [h.pages EXCEPT ![p] = q]
<1>3. /\ ps \in Seq(Page) /\ Len(ps) = Len(h.pages)
      /\ \A j \in 1 .. Len(h.pages) : ps[j] = IF j = p THEN q ELSE h.pages[j]
  BY <1>1, <1>2, ExceptSeq
<1>4. /\ g.pages = ps /\ g.last_page_id = h.last_page_id /\ g.record_count = n
      /\ g.page_count = h.page_count /\ g.pages_with_space = d
      /\ g = [pages |-> ps, last_page_id |-> h.last_page_id, record_count |-> n,
              page_count |-> h.page_count, pages_with_space |-> d]
  BY DEF Rebuilt, HeapOf
<1> HIDE DEF ps
<1>5. g \in HeapSet
  BY <1>1, <1>3, <1>4, HeapTypes DEF HeapSet, Listing
<1>6. Chained(g)
  <2>1. Chained(h)
    BY DEF Sound
  <2>2. ASSUME NEW j \in 1 .. Len(h.pages)
        PROVE  /\ SoundPage(ps[j])
               /\ ps[j].next = IF j = Len(h.pages) THEN INVALID_PAGE_ID ELSE j + 1
    BY <1>2, <1>3, <2>1 DEF Chained
  <2> QED BY <1>3, <1>4, <2>1, <2>2 DEF Chained
<1>7. [page |-> p, slot |-> i] \in Rid
  BY <1>1, <1>2, SizesAssumption DEF Rid
<1>8. \A j : Holds(q, j) <=> IF j = i THEN v # NoRecord ELSE Holds(h.pages[p], j)
  BY DEF Changed
<1>9. ASSUME NEW x
      PROVE  x \in Live(g) <=> IF x = [page |-> p, slot |-> i] THEN v # NoRecord ELSE x \in Live(h)
  <2>1. x \in Live(g) <=> /\ x \in Rid /\ x.page \in 1 .. Len(h.pages)
                          /\ x.slot \in 1 .. Capacity /\ Holds(ps[x.page], x.slot)
    BY <1>3, <1>4, <1>5, LiveIs
  <2>2. x \in Live(h) <=> /\ x \in Rid /\ x.page \in 1 .. Len(h.pages)
                          /\ x.slot \in 1 .. Capacity /\ Holds(h.pages[x.page], x.slot)
    BY <1>1, LiveIs
  <2>3. CASE x = [page |-> p, slot |-> i]
    <3>1. x.page = p /\ x.slot = i /\ x \in Rid
      BY <1>7, <2>3
    <3> QED BY <1>2, <1>3, <1>8, <2>1, <2>3, <3>1
  <2>4. CASE x # [page |-> p, slot |-> i] /\ x \in Rid /\ x.page = p
    <3>1. x.slot # i
      BY <2>4, RidIs
    <3>2. ps[x.page] = q /\ h.pages[x.page] = h.pages[p]
      BY <1>3, <2>4
    <3>3. Holds(ps[x.page], x.slot) <=> Holds(h.pages[x.page], x.slot)
      BY <1>8, <3>1, <3>2
    <3> QED BY <2>1, <2>2, <2>4, <3>3
  <2>5. CASE x # [page |-> p, slot |-> i] /\ x \in Rid /\ x.page # p
    <3>1. x.page \in 1 .. Len(h.pages) => ps[x.page] = h.pages[x.page]
      BY <1>3, <2>5
    <3> QED BY <2>1, <2>2, <2>5, <3>1
  <2>6. CASE x # [page |-> p, slot |-> i] /\ x \notin Rid
    BY <2>1, <2>2, <2>6
  <2> QED BY <2>3, <2>4, <2>5, <2>6
<1>10. ASSUME NEW x \in Live(g)
       PROVE  Rec(g, x) = IF x = [page |-> p, slot |-> i] THEN v ELSE Rec(h, x)
  <2>1. /\ x \in Rid /\ x.page \in 1 .. Len(h.pages) /\ Holds(ps[x.page], x.slot)
    BY <1>3, <1>4, <1>5, LiveIs
  <2>2. Rec(g, x) = ps[x.page].slots[x.slot] /\ Rec(h, x) = h.pages[x.page].slots[x.slot]
    BY <1>4 DEF Rec
  <2>3. \A j : Holds(q, j) => q.slots[j] = IF j = i THEN v ELSE h.pages[p].slots[j]
    BY DEF Changed
  <2>4. CASE x.page = p
    <3>1. ps[x.page] = q
      BY <1>3, <2>1, <2>4
    <3>2. x = [page |-> p, slot |-> i] <=> x.slot = i
      BY <2>1, <2>4, RidIs
    <3> QED BY <2>1, <2>2, <2>3, <2>4, <3>1, <3>2
  <2>5. CASE x.page # p
    <3>1. ps[x.page] = h.pages[x.page]
      BY <1>3, <2>1, <2>5
    <3>2. x # [page |-> p, slot |-> i]
      BY <2>5
    <3> QED BY <2>2, <3>1, <3>2
  <2> QED BY <2>4, <2>5
<1>11. Listing(g.pages_with_space, Len(g.pages))
  BY <1>3, <1>4
<1>12. DiffersAt(h, g, [page |-> p, slot |-> i], v)
  BY <1>9, <1>10 DEF DiffersAt
<1> QED BY <1>3, <1>4, <1>5, <1>6, <1>7, <1>11, <1>12

SameSize(h, g) == Len(g.pages) = Len(h.pages)
Loses(h, g, rid) == Keeps(g, h) /\ Live(g) = Live(h) \ {rid}
Replaces(h, g, rid, v) ==
  /\ Live(g) = Live(h)
  /\ \A x \in Live(h) : Rec(g, x) = IF x = rid THEN v ELSE Rec(h, x)

OneMore(h, n) == n = h.record_count + 1
OneLess(h, n) == n = h.record_count - 1

\* A record more, in an empty slot.
LEMMA RecordAdded ==
  ASSUME NEW h, Sound(h), NEW p \in 1 .. Len(h.pages), NEW q, NEW i, NEW v \in Record,
         Changed(h.pages[p], q, i, v), ~Holds(h.pages[p], i), NEW d, Listing(d, Len(h.pages)),
         NEW n, OneMore(h, n), NEW g, g = Rebuilt(h, p, q, n, d)
  PROVE  Sound(g) /\ Adds(h, g, v) /\ SameSize(h, g)
<1> DEFINE rid == [page |-> p, slot |-> i]
<1>1. h \in HeapSet /\ h.record_count \in Nat /\ Len(h.pages) \in Nat
  BY HeapTypes DEF Sound
<1>3. /\ g \in HeapSet /\ Chained(g) /\ Listing(g.pages_with_space, Len(g.pages))
      /\ Len(g.pages) = Len(h.pages) /\ g.record_count = h.record_count + 1 /\ rid \in Rid
      /\ DiffersAt(h, g, rid, v)
  <2>1. /\ g \in HeapSet /\ Chained(g) /\ Listing(g.pages_with_space, Len(g.pages))
        /\ Len(g.pages) = Len(h.pages) /\ g.record_count = n /\ [page |-> p, slot |-> i] \in Rid
        /\ DiffersAt(h, g, [page |-> p, slot |-> i], v)
    <3>1. PICK m \in Nat : m = n
      BY <1>1 DEF OneMore
    <3>2. g = Rebuilt(h, p, q, m, d)
      BY <3>1
    <3>3. /\ g \in HeapSet /\ Chained(g) /\ Listing(g.pages_with_space, Len(g.pages))
          /\ Len(g.pages) = Len(h.pages) /\ g.record_count = m /\ [page |-> p, slot |-> i] \in Rid
          /\ DiffersAt(h, g, [page |-> p, slot |-> i], v)
      BY <3>2, PageChanged
    <3> QED BY <3>1, <3>3
  <2> QED BY <2>1 DEF OneMore
<1>4. v # NoRecord
  BY NoRecordAssumption
<1>5. rid \notin Live(h)
  BY <1>1, LiveIs
<1> HIDE DEF rid
<1>6. Live(g) = Live(h) \cup {rid}
  BY <1>3, <1>4, <1>5 DEF DiffersAt
<1>7. Counted(g)
  <2>1. IsFiniteSet(Live(h)) /\ h.record_count = Cardinality(Live(h))
    BY DEF Sound, Counted
  <2>2. IsFiniteSet(Live(g)) /\ Cardinality(Live(g)) = Cardinality(Live(h)) + 1
    BY <1>5, <1>6, <2>1, FS_AddElement
  <2> QED BY <1>3, <2>1, <2>2 DEF Counted
<1>8. Adds(h, g, v)
  <2>1. \A x \in Live(h) : x \in Live(g) /\ Rec(g, x) = Rec(h, x)
    BY <1>3, <1>5, <1>6 DEF DiffersAt
  <2>2. Rec(g, rid) = v
    BY <1>3, <1>6 DEF DiffersAt
  <2>3. Keeps(h, g)
    BY <1>1, <1>3, <2>1 DEF Keeps
  <2> QED BY <1>5, <1>6, <2>2, <2>3, Zenon DEF Adds
<1> QED BY <1>3, <1>7, <1>8 DEF Sound, SameSize

\* One less.
LEMMA RecordRemoved ==
  ASSUME NEW h, Sound(h), NEW p \in 1 .. Len(h.pages), NEW q, NEW i,
         Changed(h.pages[p], q, i, NoRecord), Holds(h.pages[p], i), NEW d, Listing(d, Len(h.pages)),
         NEW n, OneLess(h, n), NEW g, g = Rebuilt(h, p, q, n, d)
  PROVE  Sound(g) /\ SameSize(h, g) /\ Loses(h, g, [page |-> p, slot |-> i])
<1> DEFINE rid == [page |-> p, slot |-> i]
<1>1. h \in HeapSet /\ h.record_count \in Nat /\ Len(h.pages) \in Nat
  BY HeapTypes DEF Sound
<1>2. IsFiniteSet(Live(h)) /\ h.record_count = Cardinality(Live(h))
  BY DEF Sound, Counted
<1>3. rid \in Live(h)
  <2>1. i \in 1 .. Capacity
    BY DEF Changed
  <2>2. rid \in Rid /\ rid.page = p /\ rid.slot = i
    BY <1>1, <2>1, SizesAssumption DEF Rid
  <2> HIDE DEF rid
  <2> QED BY <1>1, <2>1, <2>2, LiveIs
<1>4. n \in Nat
  <2>1. Cardinality(Live(h)) # 0
    BY <1>2, <1>3, FS_EmptySet
  <2> QED BY <1>1, <1>2, <2>1 DEF OneLess
<1>5. /\ g \in HeapSet /\ Chained(g) /\ Listing(g.pages_with_space, Len(g.pages))
      /\ Len(g.pages) = Len(h.pages) /\ g.record_count = h.record_count - 1
      /\ DiffersAt(h, g, rid, NoRecord)
  <2>1. /\ g \in HeapSet /\ Chained(g) /\ Listing(g.pages_with_space, Len(g.pages))
        /\ Len(g.pages) = Len(h.pages) /\ g.record_count = n /\ [page |-> p, slot |-> i] \in Rid
        /\ DiffersAt(h, g, [page |-> p, slot |-> i], NoRecord)
    <3>1. PICK m \in Nat : m = n
      BY <1>4
    <3>2. g = Rebuilt(h, p, q, m, d)
      BY <3>1
    <3>3. /\ g \in HeapSet /\ Chained(g) /\ Listing(g.pages_with_space, Len(g.pages))
          /\ Len(g.pages) = Len(h.pages) /\ g.record_count = m /\ [page |-> p, slot |-> i] \in Rid
          /\ DiffersAt(h, g, [page |-> p, slot |-> i], NoRecord)
      BY <3>2, PageChanged
    <3> QED BY <3>1, <3>3
  <2> QED BY <2>1 DEF OneLess
<1> HIDE DEF rid
<1>6. Live(g) = Live(h) \ {rid}
  BY <1>5 DEF DiffersAt
<1>7. Counted(g)
  BY <1>2, <1>3, <1>5, <1>6, FS_RemoveElement DEF Counted
<1>8. Keeps(g, h)
  <2>1. \A x \in Live(g) : x \in Live(h) /\ Rec(h, x) = Rec(g, x)
    BY <1>5, <1>6 DEF DiffersAt
  <2> QED BY <1>1, <1>5, <2>1 DEF Keeps
<1> QED BY <1>5, <1>6, <1>7, <1>8 DEF Sound, SameSize, Loses, rid

\* Another one in its place.
LEMMA RecordReplaced ==
  ASSUME NEW h, Sound(h), NEW p \in 1 .. Len(h.pages), NEW q, NEW i, NEW v \in Record,
         Changed(h.pages[p], q, i, v), Holds(h.pages[p], i),
         NEW g, g = Rebuilt(h, p, q, h.record_count, h.pages_with_space)
  PROVE  Sound(g) /\ SameSize(h, g) /\ Replaces(h, g, [page |-> p, slot |-> i], v)
<1> DEFINE rid == [page |-> p, slot |-> i]
<1>1. h \in HeapSet /\ h.record_count \in Nat /\ Len(h.pages) \in Nat /\ Listing(h.pages_with_space, Len(h.pages))
  BY HeapTypes DEF Sound
<1>2. rid \in Live(h)
  <2>1. i \in 1 .. Capacity
    BY DEF Changed
  <2>2. rid \in Rid /\ rid.page = p /\ rid.slot = i
    BY <1>1, <2>1, SizesAssumption DEF Rid
  <2> HIDE DEF rid
  <2> QED BY <1>1, <2>1, <2>2, LiveIs
<1>3. /\ g \in HeapSet /\ Chained(g) /\ Listing(g.pages_with_space, Len(g.pages))
      /\ Len(g.pages) = Len(h.pages) /\ g.record_count = h.record_count
      /\ DiffersAt(h, g, rid, v)
  <2>1. PICK n \in Nat : n = h.record_count
    BY <1>1
  <2>d. PICK d : d = h.pages_with_space
    OBVIOUS
  <2>2. g = Rebuilt(h, p, q, n, d) /\ Listing(d, Len(h.pages))
    BY <1>1, <2>1, <2>d
  <2>3. /\ g \in HeapSet /\ Chained(g) /\ Listing(g.pages_with_space, Len(g.pages))
        /\ Len(g.pages) = Len(h.pages) /\ g.record_count = n
        /\ DiffersAt(h, g, [page |-> p, slot |-> i], v)
    BY <2>2, PageChanged
  <2> QED BY <2>1, <2>3
<1>4. v # NoRecord
  BY NoRecordAssumption
<1> HIDE DEF rid
<1>5. Live(g) = Live(h)
  BY <1>2, <1>3, <1>4 DEF DiffersAt
<1>6. Counted(g)
  BY <1>3, <1>5 DEF Sound, Counted
<1> QED BY <1>3, <1>5, <1>6 DEF Sound, SameSize, DiffersAt, Replaces, rid

-----------------------------------------------------------------------------
(* A pool with two frames to spare. *)

Enough(pinned) == IsFiniteSet(pinned) /\ Cardinality(pinned) + 2 <= PoolSize

LEMMA FrameToSpare ==
  ASSUME NEW pinned, Enough(pinned)
  PROVE  /\ FrameFree(pinned) /\ \A p : FrameFree(pinned \cup {p})
         /\ \A h, p : CanFetch(h, p, pinned) <=> p \in DOMAIN h.pages
         /\ \A h, p, x : CanFetch(h, p, pinned \cup {x}) <=> p \in DOMAIN h.pages
<1>1. IsFiniteSet(pinned) /\ Cardinality(pinned) + 2 <= PoolSize
  BY DEF Enough
<1>2. Cardinality(pinned) \in Nat /\ PoolSize \in Nat
  BY <1>1, FS_CardinalityType, PoolAssumption
<1>3. FrameFree(pinned)
  BY <1>1, <1>2 DEF FrameFree
<1>4. ASSUME NEW p PROVE FrameFree(pinned \cup {p})
  <2>1. /\ Cardinality(pinned \cup {p}) \in {Cardinality(pinned), Cardinality(pinned) + 1}
    BY <1>1, FS_AddElement
  <2> QED BY <1>1, <1>2, <2>1 DEF FrameFree
<1> QED BY <1>3, <1>4 DEF CanFetch

-----------------------------------------------------------------------------
(* New pages. *)

\* A heap file whose last page can be fetched beside the new one.
LEMMA AllocatedPage ==
  ASSUME NEW h, Sound(h), NEW pinned, Enough(pinned), NEW a, a = AllocateNewPage(h, pinned)
  PROVE  /\ Sound(a.heap) /\ Same(h, a.heap)
         /\ a.page = Len(h.pages) + 1 /\ Len(a.heap.pages) = Len(h.pages) + 1
         /\ a.heap.pages[a.page] = EmptyPage
<1>1. /\ h \in HeapSet /\ h.pages \in Seq(Page) /\ Len(h.pages) \in Nat /\ Len(h.pages) >= 1
      /\ h.last_page_id = Len(h.pages) /\ h.page_count = Len(h.pages) /\ h.record_count \in Nat
      /\ DOMAIN h.pages = 1 .. Len(h.pages) /\ h.pages_with_space \in Seq(Nat)
  BY HeapTypes DEF Sound, Chained
<1> DEFINE L == Len(h.pages)
           p == L + 1
           linked == CanFetch(h, h.last_page_id, pinned \cup {p})
           ps == [i \in DOMAIN h.pages |->
                    IF linked /\ i = h.last_page_id THEN [h.pages[i] EXCEPT !.next = p] ELSE h.pages[i]]
           g == [pages |-> Append(ps, EmptyPage), last_page_id |-> p,
                 record_count |-> h.record_count, page_count |-> p,
                 pages_with_space |-> Append(h.pages_with_space, p)]
<1>2. linked
  <2>1. h.last_page_id \in DOMAIN h.pages
    BY <1>1
  <2> QED BY <2>1, FrameToSpare
<1>3. a.heap = g /\ a.page = p
  <2>1. a = [heap |-> [h EXCEPT !.pages = Append(ps, EmptyPage), !.last_page_id = p,
                                !.page_count = p,
                                !.pages_with_space = Append(h.pages_with_space, p)],
             page |-> p]
    BY <1>1, FrameToSpare DEF AllocateNewPage, NewTail
  <2> HIDE DEF ps, p
  <2>2. PICK qs, d, m : qs = Append(ps, EmptyPage) /\ d = Append(h.pages_with_space, p) /\ m = p
    OBVIOUS
  <2>3. WithNewPage(h, qs, m, m, d) = HeapOf(qs, m, h.record_count, m, d)
    BY <1>1, FieldsAfterAllocate
  <2>4. a = [heap |-> WithNewPage(h, qs, m, m, d), page |-> m]
    BY <2>1, <2>2 DEF WithNewPage
  <2>5. a.heap = HeapOf(qs, m, h.record_count, m, d) /\ a.page = m
    BY <2>3, <2>4
  <2> QED BY <2>2, <2>5 DEF HeapOf
<1>4. ASSUME NEW i \in 1 .. L
      PROVE  /\ SoundPage(ps[i]) /\ ps[i].slots = h.pages[i].slots
             /\ ps[i].next = i + 1
  <2>1. /\ SoundPage(h.pages[i])
        /\ h.pages[i].next = IF i = Len(h.pages) THEN INVALID_PAGE_ID ELSE i + 1
    BY DEF Sound, Chained
  <2>2. CASE i = L
    <3>1. ps[i] = [h.pages[i] EXCEPT !.next = p]
      BY <1>1, <1>2, <2>2
    <3>2. h.pages[i] \in Page
      BY <2>1 DEF SoundPage
    <3>3. ps[i] = [slots |-> h.pages[i].slots, free |-> h.pages[i].free, next |-> p]
      BY <3>1, <3>2 DEF Page
    <3> QED BY <1>1, <2>1, <2>2, <3>2, <3>3 DEF SoundPage, Page
  <2>3. CASE i # L
    <3>1. ps[i] = h.pages[i]
      BY <1>1, <2>3
    <3> QED BY <2>1, <2>3, <3>1
  <2> QED BY <2>2, <2>3
<1>5. ps \in Seq(Page) /\ Len(ps) = L
  <2>1. \A i \in 1 .. L : ps[i] \in Page
    BY <1>4 DEF SoundPage
  <2>2. ps = [i \in 1 .. L |-> ps[i]]
    BY <1>1
  <2> HIDE DEF ps
  <2>3. ps \in [1 .. L -> Page]
    BY <2>1, <2>2
  <2> QED BY <1>1, <2>3, SequenceOf
<1>6. SoundPage(EmptyPage) /\ EmptyPage.next = INVALID_PAGE_ID /\ EmptyPage.slots = <<>>
  <2>1. <<>> \in Contents /\ Len(<<>>) = 0
    BY DEF Contents
  <2> QED BY <2>1, SizesAssumption DEF EmptyPage, SoundPage, Page
<1> HIDE DEF ps
<1>7. /\ Append(ps, EmptyPage) \in Seq(Page) /\ Len(Append(ps, EmptyPage)) = L + 1
      /\ \A i \in 1 .. L + 1 : Append(ps, EmptyPage)[i] = IF i <= L THEN ps[i] ELSE EmptyPage
  <2>1. EmptyPage \in Page
    BY <1>6 DEF SoundPage
  <2> QED BY <1>5, <2>1, AppendProperties
<1> DEFINE qs == Append(ps, EmptyPage)
           d == Append(h.pages_with_space, p)
<1>8. Listing(d, L + 1)
  <2>1. Listing(h.pages_with_space, L)
    BY DEF Sound
  <2>2. PICK m, e : m \in Nat /\ m = L /\ e = h.pages_with_space /\ Listing(e, m)
    BY <1>1, <2>1
  <2>3. \A i \in 1 .. Len(e) : e[i] # m + 1
    BY <2>2 DEF Listing
  <2>4. Listing(Append(e, m + 1), m + 1)
    BY <2>2, <2>3, AppendListing
  <2> QED BY <2>2, <2>4
<1> HIDE DEF qs, d
<1>9. /\ g.pages = qs /\ g.last_page_id = p /\ g.record_count = h.record_count
      /\ g.page_count = p /\ g.pages_with_space = d
  BY DEF qs, d
<1>10. g \in HeapSet
  BY <1>1, <1>7, <1>8 DEF HeapSet, Listing, qs, d
<1> HIDE DEF g
<1>11. Chained(g)
  <2>1. ASSUME NEW i \in 1 .. L + 1
        PROVE  SoundPage(qs[i]) /\ qs[i].next = IF i = L + 1 THEN INVALID_PAGE_ID ELSE i + 1
    BY <1>1, <1>4, <1>6, <1>7 DEF qs
  <2>2. Len(qs) = L + 1
    BY <1>7 DEF qs
  <2> QED BY <1>1, <1>9, <2>1, <2>2 DEF Chained
<1>12. ASSUME NEW x PROVE x \in Live(g) <=> x \in Live(h)
  <2>1. x \in Live(g) <=> /\ x \in Rid /\ x.page \in 1 .. L + 1
                          /\ x.slot \in 1 .. Capacity /\ Holds(qs[x.page], x.slot)
    BY <1>7, <1>9, <1>10, LiveIs DEF qs
  <2>2. x \in Live(h) <=> /\ x \in Rid /\ x.page \in 1 .. L
                          /\ x.slot \in 1 .. Capacity /\ Holds(h.pages[x.page], x.slot)
    BY <1>1, LiveIs
  <2>3. ~Holds(EmptyPage, x.slot)
    BY <1>6 DEF Holds, LiveSlots
  <2>4. x.page \in 1 .. L => (Holds(qs[x.page], x.slot) <=> Holds(h.pages[x.page], x.slot))
    BY <1>1, <1>4, <1>7 DEF Holds, LiveSlots, qs
  <2>5. x.page = L + 1 => qs[x.page] = EmptyPage
    BY <1>1, <1>7 DEF qs
  <2>6. x.page \in 1 .. L + 1 => x.page \in 1 .. L \/ x.page = L + 1
    BY <1>1
  <2>7. x.page \in 1 .. L => x.page \in 1 .. L + 1
    BY <1>1
  <2> QED BY <2>1, <2>2, <2>3, <2>4, <2>5, <2>6, <2>7
<1>13. Live(g) = Live(h)
  BY <1>12
<1>14. Same(h, g)
  <2>1. ASSUME NEW x \in Live(h) PROVE Rec(g, x) = Rec(h, x)
    <3>1. x.page \in 1 .. L
      BY <1>1, LiveIs
    <3> QED BY <1>1, <1>4, <1>7, <1>9, <3>1 DEF Rec, qs
  <2>2. Len(h.pages) <= Len(g.pages)
    BY <1>1, <1>7, <1>9 DEF qs
  <2> QED BY <1>13, <2>1, <2>2 DEF Same, Keeps
<1>15. Sound(g)
  <2>1. Counted(g)
    BY <1>9, <1>13 DEF Sound, Counted
  <2> QED BY <1>7, <1>8, <1>9, <1>10, <1>11, <2>1 DEF Sound, qs
<1> QED BY <1>1, <1>3, <1>7, <1>9, <1>14, <1>15 DEF qs

-----------------------------------------------------------------------------
(* The directory. *)

LEMMA CutListing ==
  ASSUME NEW d, NEW n \in Nat, Listing(d, n), NEW k \in 1 .. Len(d)
  PROVE  Listing(SubSeq(d, k, Len(d)), n)
<1>1. d \in Seq(Nat) /\ Len(d) \in Nat /\ \A i \in 1 .. Len(d) : d[i] \in Nat
  BY LenProperties, ElementOfSeq DEF Listing
<1> DEFINE L == Len(d)
           e == SubSeq(d, k, L)
<1>2. /\ e \in Seq(Nat) /\ Len(e) = L - k + 1
      /\ \A i \in 1 .. L - k + 1 : e[i] = d[k + i - 1]
  <2>1. k \in Int /\ L \in Int /\ k <= L /\ \A i \in k .. L : d[i] \in Nat
    BY <1>1
  <2> QED BY <2>1, SubSeqProperties
<1> HIDE DEF e
<1>3. \A i \in 1 .. L - k + 1 : k + i - 1 \in 1 .. L
  BY <1>1
<1>4. \A i \in 1 .. L - k + 1 : e[i] \in 1 .. n
  BY <1>2, <1>3 DEF Listing
<1>5. ASSUME NEW i \in 1 .. L - k + 1, NEW j \in 1 .. L - k + 1, e[i] = e[j] PROVE i = j
  <2>1. e[i] = d[k + i - 1] /\ e[j] = d[k + j - 1]
    BY <1>2
  <2>2. k + i - 1 \in 1 .. L /\ k + j - 1 \in 1 .. L
    BY <1>3
  <2>3. \A x, y \in 1 .. L : d[x] = d[y] => x = y
    BY DEF Listing
  <2>4. k + i - 1 = k + j - 1
    BY <1>5, <2>1, <2>2, <2>3
  <2> QED BY <1>1, <2>4
<1> QED BY <1>2, <1>4, <1>5 DEF Listing, e

LEMMA RemovedListing ==
  ASSUME NEW d, NEW n \in Nat, Listing(d, n), NEW k \in 1 .. Len(d)
  PROVE  Listing(RemoveAt(d, k), n)
<1>1. d \in Seq(Nat) /\ Len(d) \in Nat /\ \A i \in 1 .. Len(d) : d[i] \in Nat
  BY LenProperties, ElementOfSeq DEF Listing
<1> DEFINE L == Len(d)
           a == SubSeq(d, 1, k - 1)
           b == SubSeq(d, k + 1, L)
           e == a \o b
<1>2. /\ a \in Seq(Nat) /\ Len(a) = k - 1
      /\ \A i \in 1 .. k - 1 : a[i] = d[i]
  <2>1. 1 \in Int /\ k - 1 \in Int /\ \A i \in 1 .. k - 1 : d[i] \in Nat
    BY <1>1
  <2>2. /\ a \in Seq(Nat) /\ Len(a) = (IF 1 <= k - 1 THEN k - 1 - 1 + 1 ELSE 0)
        /\ \A i \in 1 .. k - 1 - 1 + 1 : a[i] = d[1 + i - 1]
    BY <2>1, SubSeqProperties
  <2> HIDE DEF a
  <2> QED BY <2>2
<1>3. /\ b \in Seq(Nat) /\ Len(b) = L - k
      /\ \A i \in 1 .. L - k : b[i] = d[k + i]
  <2>1. k + 1 \in Int /\ L \in Int /\ \A i \in k + 1 .. L : d[i] \in Nat
    BY <1>1
  <2>2. /\ b \in Seq(Nat) /\ Len(b) = (IF k + 1 <= L THEN L - (k + 1) + 1 ELSE 0)
        /\ \A i \in 1 .. L - (k + 1) + 1 : b[i] = d[(k + 1) + i - 1]
    BY <2>1, SubSeqProperties
  <2> HIDE DEF b
  <2>3. \A i \in 1 .. L - k : b[i] = d[k + i]
    <3>1. \A i \in 1 .. L - k : i \in 1 .. L - (k + 1) + 1 /\ (k + 1) + i - 1 = k + i
      BY <1>1
    <3> QED BY <2>2, <3>1
  <2> QED BY <1>1, <2>2, <2>3
<1> HIDE DEF a, b
<1>4. /\ e \in Seq(Nat) /\ Len(e) = L - 1
      /\ \A i \in 1 .. L - 1 : e[i] = IF i < k THEN d[i] ELSE d[i + 1]
  <2>1. /\ e \in Seq(Nat) /\ Len(e) = Len(a) + Len(b)
        /\ \A i \in 1 .. Len(a) + Len(b) : e[i] = IF i <= Len(a) THEN a[i] ELSE b[i - Len(a)]
    BY <1>2, <1>3, ConcatProperties
  <2> HIDE DEF e
  <2>2. \A i \in 1 .. L - 1 : e[i] = IF i <= k - 1 THEN a[i] ELSE b[i - (k - 1)]
    BY <1>1, <1>2, <1>3, <2>1
  <2>3. ASSUME NEW i \in 1 .. L - 1 PROVE e[i] = IF i < k THEN d[i] ELSE d[i + 1]
    <3>1. CASE i < k
      BY <1>1, <1>2, <2>2, <3>1
    <3>2. CASE i >= k
      <4>1. i - (k - 1) \in 1 .. L - k /\ k + (i - (k - 1)) = i + 1
        BY <1>1, <3>2
      <4>2. b[i - (k - 1)] = d[k + (i - (k - 1))]
        BY <1>3, <4>1
      <4>3. e[i] = b[i - (k - 1)] /\ ~(i < k)
        BY <1>1, <2>2, <3>2
      <4> QED BY <4>1, <4>2, <4>3
    <3> QED BY <3>1, <3>2
  <2> QED BY <1>1, <1>2, <1>3, <2>1, <2>3
<1> HIDE DEF e
<1>5. \A i \in 1 .. L - 1 : e[i] \in 1 .. n
  <2>1. \A i \in 1 .. L - 1 : i \in 1 .. L /\ i + 1 \in 1 .. L
    BY <1>1
  <2> QED BY <1>4, <2>1 DEF Listing
<1>6. ASSUME NEW i \in 1 .. L - 1, NEW j \in 1 .. L - 1, e[i] = e[j] PROVE i = j
  <2>1. i \in 1 .. L /\ i + 1 \in 1 .. L /\ j \in 1 .. L /\ j + 1 \in 1 .. L
    BY <1>1
  <2>2. \A x, y \in 1 .. L : d[x] = d[y] => x = y
    BY DEF Listing
  <2>3. CASE i < k /\ j < k
    BY <1>4, <1>6, <2>1, <2>2, <2>3
  <2>4. CASE i >= k /\ j >= k
    <3>1. e[i] = d[i + 1] /\ e[j] = d[j + 1]
      BY <1>4, <2>4
    <3>2. i + 1 = j + 1
      BY <1>6, <2>1, <2>2, <3>1
    <3> QED BY <3>2
  <2>5. CASE i < k /\ j >= k
    BY <1>4, <1>6, <2>1, <2>2, <2>5
  <2>6. CASE i >= k /\ j < k
    BY <1>4, <1>6, <2>1, <2>2, <2>6
  <2> QED BY <2>3, <2>4, <2>5, <2>6
<1> QED BY <1>4, <1>5, <1>6 DEF Listing, e, a, b, RemoveAt

LEMMA WithoutSpaceKeeps ==
  ASSUME NEW h, Sound(h), NEW p
  PROVE  LET g == WithoutSpace(h, p) IN Sound(g) /\ Same(h, g) /\ g.pages = h.pages
<1> DEFINE d == h.pages_with_space
           at == {i \in DOMAIN d : d[i] = p}
<1>1. Listing(d, Len(h.pages)) /\ h \in HeapSet
  BY DEF Sound
<1>2. Len(h.pages) \in Nat
  BY <1>1, HeapTypes
<1>3. Len(d) \in Nat /\ DOMAIN d = 1 .. Len(d)
  BY <1>1, LenProperties DEF Listing
<1>4. CASE at = {}
  <2>1. WithoutSpace(h, p) = h
    BY <1>4 DEF WithoutSpace
  <2>2. Same(h, h)
    BY <1>2 DEF Same, Keeps
  <2> QED BY <2>1, <2>2
<1>5. CASE at # {}
  <2>1. at \subseteq Nat
    BY <1>3
  <2>2. Min(at) \in at
    <3> HIDE DEF at
    <3> QED BY <1>5, <2>1, MinIsLeast
  <2>3. PICK k : k = Min(at)
    OBVIOUS
  <2>4. k \in 1 .. Len(d)
    BY <1>3, <2>2, <2>3
  <2>5. PICK e : e = RemoveAt(d, k)
    OBVIOUS
  <2>6. Listing(e, Len(h.pages))
    BY <1>1, <1>2, <2>4, <2>5, RemovedListing
  <2>7. PICK g : g = [h EXCEPT !.pages_with_space = e]
    OBVIOUS
  <2>8. WithoutSpace(h, p) = g
    BY <1>5, <2>3, <2>5, <2>7 DEF WithoutSpace
  <2>9. Sound(g) /\ Same(h, g) /\ g.pages = h.pages
    BY <2>6, <2>7, DirectoryChanged
  <2> QED BY <2>8, <2>9
<1> QED BY <1>4, <1>5

LEMMA SameItself ==
  ASSUME NEW h, Sound(h)
  PROVE  Same(h, h)
BY HeapTypes DEF Sound, Same, Keeps

LEMMA UpdateDirectoryKeeps ==
  ASSUME NEW h, Sound(h), NEW p
  PROVE  LET g == UpdateDirectory(h, p) IN Sound(g) /\ Same(h, g) /\ g.pages = h.pages
BY WithoutSpaceKeeps, SameItself DEF UpdateDirectory

\* What is kept on the way is kept.
LEMMA KeepsOn ==
  ASSUME NEW f, Sound(f), NEW g, Sound(g), NEW h, Sound(h)
  PROVE  /\ Keeps(f, g) /\ Keeps(g, h) => Keeps(f, h)
         /\ Same(f, g) /\ Same(g, h) => Same(f, h)
         /\ \A r : Same(f, g) /\ Adds(g, h, r) => Adds(f, h, r)
         /\ \A r : Adds(f, g, r) /\ Same(g, h) => Adds(f, h, r)
<1>1. Len(f.pages) \in Nat /\ Len(g.pages) \in Nat /\ Len(h.pages) \in Nat
  BY HeapTypes DEF Sound
<1>2. Keeps(f, g) /\ Keeps(g, h) => Keeps(f, h)
  BY <1>1 DEF Keeps
<1>3. ASSUME NEW r, Same(f, g), Adds(g, h, r) PROVE Adds(f, h, r)
  BY <1>2, <1>3 DEF Same, Adds
<1>4. ASSUME NEW r, Adds(f, g, r), Same(g, h) PROVE Adds(f, h, r)
  <2>1. PICK new : new \notin Live(f) /\ Live(g) = Live(f) \cup {new} /\ Rec(g, new) = r
    BY <1>4 DEF Adds
  <2>2. Rec(h, new) = r /\ Live(h) = Live(f) \cup {new}
    BY <1>4, <2>1 DEF Same, Keeps
  <2>3. Keeps(f, h)
    BY <1>2, <1>4 DEF Same, Adds
  <2> QED BY <2>1, <2>2, <2>3, Zenon DEF Adds
<1> QED BY <1>2, <1>3, <1>4 DEF Same

LEMMA FoundPage ==
  ASSUME NEW h, Sound(h), NEW pinned, Enough(pinned), NEW n \in Nat,
         NEW f, f = FindPageWithSpace(h, n, pinned)
  PROVE  /\ Sound(f.heap) /\ Same(h, f.heap) /\ f.page \in 1 .. Len(f.heap.pages)
         /\ HasSpaceFor(f.heap.pages[f.page], n) \/ f.heap.pages[f.page] = EmptyPage
<1> DEFINE d == h.pages_with_space
           good == {i \in DOMAIN d : CanFetch(h, d[i], pinned) /\ HasSpaceFor(h.pages[d[i]], n)}
<1>1. Listing(d, Len(h.pages)) /\ h \in HeapSet
  BY DEF Sound
<1>2. Len(h.pages) \in Nat
  BY <1>1, HeapTypes
<1>3. Len(d) \in Nat /\ DOMAIN d = 1 .. Len(d)
  BY <1>1, LenProperties DEF Listing
<1>4. CASE good = {}
  <2>1. PICK g : g = [h EXCEPT !.pages_with_space = <<>>]
    OBVIOUS
  <2>2. Listing(<<>>, Len(h.pages))
    <3>1. <<>> \in Seq(Nat) /\ Len(<<>>) = 0
      OBVIOUS
    <3> QED BY <3>1 DEF Listing
  <2>3. Sound(g) /\ Same(h, g)
    BY <2>1, <2>2, DirectoryChanged
  <2>4. f = AllocateNewPage(g, pinned)
    BY <1>4, <2>1 DEF FindPageWithSpace
  <2>5. /\ Sound(f.heap) /\ Same(g, f.heap) /\ f.page = Len(g.pages) + 1
        /\ Len(f.heap.pages) = Len(g.pages) + 1 /\ f.heap.pages[f.page] = EmptyPage
    BY <2>3, <2>4, AllocatedPage
  <2>6. Same(h, f.heap)
    BY <2>3, <2>5, KeepsOn
  <2>7. Len(g.pages) \in Nat
    BY <2>3, HeapTypes DEF Sound
  <2> QED BY <2>5, <2>6, <2>7
<1>5. CASE good # {}
  <2>1. good \subseteq Nat
    BY <1>3
  <2>2. Min(good) \in good
    <3> HIDE DEF good
    <3> QED BY <1>5, <2>1, MinIsLeast
  <2>3. PICK k : k = Min(good)
    OBVIOUS
  <2>4. k \in 1 .. Len(d) /\ HasSpaceFor(h.pages[d[k]], n)
    BY <1>3, <2>2, <2>3
  <2>5. PICK e : e = SubSeq(d, k, Len(d))
    OBVIOUS
  <2>6. Listing(e, Len(h.pages))
    BY <1>1, <1>2, <2>4, <2>5, CutListing
  <2>7. PICK g : g = [h EXCEPT !.pages_with_space = e]
    OBVIOUS
  <2>8. f = [heap |-> g, page |-> d[k]]
    BY <1>5, <2>3, <2>5, <2>7 DEF FindPageWithSpace
  <2>9. Sound(g) /\ Same(h, g) /\ g.pages = h.pages
    BY <2>6, <2>7, DirectoryChanged
  <2>10. d[k] \in 1 .. Len(h.pages)
    BY <1>1, <2>4 DEF Listing
  <2>11. f.heap = g /\ f.page = d[k]
    BY <2>8
  <2> QED BY <2>4, <2>9, <2>10, <2>11
<1> QED BY <1>4, <1>5

-----------------------------------------------------------------------------
(* Inserting, deleting and updating. *)

LEMMA FitsWhereSpace ==
  ASSUME NEW pg \in Page, NEW r \in Record, HasSpaceFor(pg, r.size)
  PROVE  Fits(pg, r)
<1>1. Cost(pg, r.size) \in Nat /\ Cost(pg, r.size) >= 1
  BY RecordSizes, CostIs, SlotSizeAssumption
<1>2. pg.free \in Int
  BY PageFacts
<1> QED BY <1>1, <1>2 DEF HasSpaceFor, GetFreeSpace, Fits

LEMMA EmptyPageFacts ==
  ASSUME NEW r \in Record
  PROVE  EmptyPage \in Page /\ (Fits(EmptyPage, r) <=> r.size + SLOT_ENTRY_SIZE <= Capacity)
<1>1. EmptyPage.slots = <<>> /\ EmptyPage.free = Capacity
  BY DEF EmptyPage
<1>2. <<>> \in Contents /\ Len(<<>>) = 0
  BY DEF Contents
<1>3. EmptyPage \in Page
  BY <1>2, SizesAssumption DEF EmptyPage, Page
<1>4. FreeSlot(EmptyPage) = 1
  BY <1>1, <1>2, <1>3, PageFacts
<1>5. Cost(EmptyPage, r.size) = r.size + SLOT_ENTRY_SIZE
  BY <1>1, <1>2, <1>4, RecordSizes, CostIs
<1> QED BY <1>1, <1>3, <1>5 DEF Fits

LEMMA PutAdds ==
  ASSUME NEW h, Sound(h), NEW p \in 1 .. Len(h.pages), NEW r \in Record, Fits(h.pages[p], r),
         NEW g, g = Put(h, p, r)
  PROVE  Sound(g) /\ Adds(h, g, r) /\ SameSize(h, g)
<1>1. h \in HeapSet /\ SoundPage(h.pages[p]) /\ Listing(h.pages_with_space, Len(h.pages))
  BY DEF Sound, Chained
<1>2. PICK q, ps, n : /\ q = InsertRecord(h.pages[p], r, r.size) /\ ps = [h.pages EXCEPT ![p] = q]
                      /\ n = h.record_count + 1
  OBVIOUS
<1>3. g = WithCount(h, ps, n)
  BY <1>2 DEF Put, WithCount
<1>4. g = HeapOf(ps, h.last_page_id, n, h.page_count, h.pages_with_space)
  BY <1>1, <1>3, FieldsAfterPut
<1>5. g = Rebuilt(h, p, q, n, h.pages_with_space)
  BY <1>2, <1>4 DEF Rebuilt
<1>6. Changed(h.pages[p], q, FreeSlot(h.pages[p]), r) /\ ~Holds(h.pages[p], FreeSlot(h.pages[p]))
  BY <1>1, <1>2, InsertedPage
<1>7. PICK i, d : i = FreeSlot(h.pages[p]) /\ d = h.pages_with_space
  OBVIOUS
<1>8. /\ Changed(h.pages[p], q, i, r) /\ ~Holds(h.pages[p], i) /\ Listing(d, Len(h.pages))
      /\ g = Rebuilt(h, p, q, n, d) /\ OneMore(h, n)
  BY <1>1, <1>2, <1>5, <1>6, <1>7 DEF OneMore
<1> QED BY <1>8, RecordAdded

LEMMA InsertResult ==
  ASSUME NEW h, Sound(h), NEW pinned, Enough(pinned), NEW r \in Record, NEW g, g = Insert(h, r, pinned)
  PROVE  /\ Sound(g) /\ (Same(h, g) \/ Adds(h, g, r))
         /\ r.size + SLOT_ENTRY_SIZE <= Capacity => Adds(h, g, r)
<1> DEFINE found == FindPageWithSpace(h, r.size, pinned)
           fresh == AllocateNewPage(found.heap, pinned)
           into(to) == IF ~CanFetch(to.heap, to.page, pinned) \/ ~Fits(to.heap.pages[to.page], r)
                       THEN to.heap
                       ELSE UpdateDirectory(Put(to.heap, to.page, r), to.page)
<1>1. r.size \in Nat
  BY RecordSizes
<1>2. /\ Sound(found.heap) /\ Same(h, found.heap) /\ found.page \in 1 .. Len(found.heap.pages)
      /\ HasSpaceFor(found.heap.pages[found.page], r.size) \/ found.heap.pages[found.page] = EmptyPage
  BY <1>1, FoundPage
<1>3. g = IF CanFetch(found.heap, found.page, pinned) /\ ~Fits(found.heap.pages[found.page], r)
          THEN into(fresh) ELSE into(found)
  BY DEF Insert
<1>4. ASSUME NEW to, Sound(to.heap), Same(h, to.heap), to.page \in 1 .. Len(to.heap.pages)
      PROVE  /\ Sound(into(to)) /\ (Same(h, into(to)) \/ Adds(h, into(to), r))
             /\ Fits(to.heap.pages[to.page], r) => Adds(h, into(to), r)
  <2>1. to.heap \in HeapSet
    BY <1>4 DEF Sound
  <2>2. CanFetch(to.heap, to.page, pinned)
    BY <1>4, <2>1, HeapTypes, FrameToSpare
  <2>3. CASE ~Fits(to.heap.pages[to.page], r)
    BY <1>4, <2>3
  <2>4. CASE Fits(to.heap.pages[to.page], r)
    <3>1. PICK k : k = Put(to.heap, to.page, r)
      OBVIOUS
    <3>2. Sound(k) /\ Adds(to.heap, k, r)
      BY <1>4, <2>4, <3>1, PutAdds
    <3>3. Sound(UpdateDirectory(k, to.page)) /\ Same(k, UpdateDirectory(k, to.page))
      BY <3>2, UpdateDirectoryKeeps
    <3>4. into(to) = UpdateDirectory(k, to.page)
      BY <2>2, <2>4, <3>1
    <3>5. Adds(h, k, r)
      BY <1>4, <3>2, KeepsOn
    <3>6. Adds(h, UpdateDirectory(k, to.page), r)
      BY <3>2, <3>3, <3>5, KeepsOn
    <3> QED BY <3>3, <3>4, <3>6
  <2> QED BY <2>3, <2>4
<1> HIDE DEF into, found, fresh
<1>5. CASE Fits(found.heap.pages[found.page], r)
  BY <1>2, <1>3, <1>4, <1>5
<1>6. CASE ~Fits(found.heap.pages[found.page], r)
  <2>1. found.heap \in HeapSet
    BY <1>2 DEF Sound
  <2>2. found.heap.pages[found.page] \in Page
    BY <1>2, <2>1, HeapTypes
  <2>3. found.heap.pages[found.page] = EmptyPage
    BY <1>2, <1>6, <2>2, FitsWhereSpace
  <2>4. ~(r.size + SLOT_ENTRY_SIZE <= Capacity)
    BY <1>6, <2>3, EmptyPageFacts
  <2>5. CanFetch(found.heap, found.page, pinned)
    BY <1>2, <2>1, HeapTypes, FrameToSpare
  <2>6. g = into(fresh)
    BY <1>3, <1>6, <2>5
  <2>7. /\ Sound(fresh.heap) /\ Same(found.heap, fresh.heap)
        /\ fresh.page = Len(found.heap.pages) + 1 /\ Len(fresh.heap.pages) = Len(found.heap.pages) + 1
    BY <1>2, AllocatedPage DEF fresh
  <2>8. Same(h, fresh.heap)
    BY <1>2, <2>7, KeepsOn
  <2>9. fresh.page \in 1 .. Len(fresh.heap.pages)
    BY <2>1, <2>7, HeapTypes
  <2> QED BY <1>4, <2>4, <2>6, <2>7, <2>8, <2>9
<1> QED BY <1>5, <1>6

LEMMA DeleteResult ==
  ASSUME NEW h, Sound(h), NEW pinned, Enough(pinned), NEW rid \in Rid, rid.page \in 1 .. Len(h.pages),
         NEW g, g = Delete(h, rid, pinned)
  PROVE  Sound(g) /\ Keeps(g, h) /\ SameSize(h, g) /\ Live(g) = Live(h) \ {rid}
<1>1. /\ h \in HeapSet /\ SoundPage(h.pages[rid.page]) /\ h.pages[rid.page] \in Page
      /\ Listing(h.pages_with_space, Len(h.pages)) /\ Len(h.pages) \in Nat
      /\ rid = [page |-> rid.page, slot |-> rid.slot]
  BY HeapTypes, RidIs DEF Sound, Chained
<1> DEFINE p == rid.page
           i == rid.slot
           d == h.pages_with_space
<1>2. CanFetch(h, p, pinned)
  BY <1>1, HeapTypes, FrameToSpare
<1>3. CASE ~Holds(h.pages[p], i)
  <2>1. g = [h EXCEPT !.pages[p] = h.pages[p], !.record_count = h.record_count,
                      !.pages_with_space = d]
    BY <1>2, <1>3 DEF Delete, DeleteRecord, CountAfterDelete
  <2>2. PICK ps : ps = [h.pages EXCEPT ![p] = h.pages[p]]
    OBVIOUS
  <2>3. ps = h.pages
    BY <1>1, <2>2, HeapTypes
  <2>4. g = WithDirectory(h, ps, h.record_count, d)
    BY <2>1, <2>2 DEF WithDirectory
  <2>5. g = HeapOf(ps, h.last_page_id, h.record_count, h.page_count, d)
    BY <1>1, <2>4, FieldsAfterDelete
  <2>6. g = h
    BY <1>1, <2>3, <2>5, HeapFields
  <2>7. rid \notin Live(h)
    BY <1>1, <1>3, LiveIs
  <2> QED BY <1>1, <2>6, <2>7, SameItself DEF Same, SameSize
<1>4. CASE Holds(h.pages[p], i)
  <2>1. PICK q, ps, e, n :
          /\ q = DeleteRecord(h.pages[p], i) /\ ps = [h.pages EXCEPT ![p] = q]
          /\ n = h.record_count - 1 /\ e = IF ~Listed(h, p) THEN Append(d, p) ELSE d
    OBVIOUS
  <2>2. g = WithDirectory(h, ps, n, e)
    BY <1>2, <1>4, <2>1 DEF Delete, CountAfterDelete, WithDirectory
  <2>3. g = HeapOf(ps, h.last_page_id, n, h.page_count, e)
    BY <1>1, <2>2, FieldsAfterDelete
  <2>4. g = Rebuilt(h, p, q, n, e)
    BY <2>1, <2>3 DEF Rebuilt
  <2>5. Listing(e, Len(h.pages))
    <3>1. CASE Listed(h, p)
      BY <1>1, <2>1, <3>1
    <3>2. CASE ~Listed(h, p)
      <4>1. DOMAIN d = 1 .. Len(d)
        BY <1>1, LenProperties DEF Listing
      <4>2. \A j \in 1 .. Len(d) : d[j] # p
        BY <3>2, <4>1 DEF Listed, Contains
      <4>3. PICK L, f : L \in Nat /\ L = Len(h.pages) /\ f = d /\ Listing(f, L) /\ L <= L
        BY <1>1
      <4>4. Listing(Append(f, p), L)
        BY <4>2, <4>3, AppendListing
      <4> QED BY <2>1, <3>2, <4>3, <4>4
    <3> QED BY <3>1, <3>2
  <2>6. Changed(h.pages[p], q, i, NoRecord)
    BY <1>1, <1>4, <2>1, DeletedPage
  <2>7. Sound(g) /\ SameSize(h, g) /\ Loses(h, g, [page |-> p, slot |-> i])
    <3>1. PICK a \in 1 .. Len(h.pages) : a = p
      BY <1>1
    <3>b. PICK b : b = i
      OBVIOUS
    <3>2. Holds(h.pages[a], b) /\ Changed(h.pages[a], q, b, NoRecord)
      BY <1>4, <2>6, <3>1, <3>b
    <3>3. g = Rebuilt(h, a, q, n, e) /\ OneLess(h, n)
      BY <2>1, <2>4, <3>1 DEF OneLess
    <3>4. Sound(g) /\ SameSize(h, g) /\ Loses(h, g, [page |-> a, slot |-> b])
      BY <2>5, <3>2, <3>3, RecordRemoved
    <3> QED BY <3>1, <3>b, <3>4
  <2> QED BY <1>1, <2>7 DEF Loses
<1> QED BY <1>3, <1>4

\* A record overwritten in its slot.
LEMMA InPlace ==
  ASSUME NEW h, Sound(h), NEW rid \in Live(h), NEW r \in Record, NEW n \in Int,
         n <= h.pages[rid.page].free, NEW g,
         g = [h EXCEPT !.pages[rid.page].slots[rid.slot] = r, !.pages[rid.page].free = n]
  PROVE  Sound(g) /\ SameSize(h, g) /\ Replaces(h, g, rid, r)
<1> DEFINE p  == rid.page
           i  == rid.slot
           pg == h.pages[p]
<1>1. h \in HeapSet /\ Listing(h.pages_with_space, Len(h.pages))
  BY DEF Sound
<1>2. /\ p \in 1 .. Len(h.pages) /\ Holds(pg, i) /\ rid \in Rid
  BY <1>1, LiveIs
<1>3. SoundPage(pg) /\ pg \in Page /\ rid = [page |-> p, slot |-> i]
  BY <1>2, RidIs DEF Sound, Chained, SoundPage
<1>4. h.pages \in Seq(Page) /\ DOMAIN h.pages = 1 .. Len(h.pages)
  BY <1>1, HeapTypes
<1>5. PICK s : s = [pg.slots EXCEPT ![i] = r]
  OBVIOUS
<1>6. PICK q1 : q1 = [pg EXCEPT !.slots = s]
  OBVIOUS
<1>7. q1 = [slots |-> s, free |-> pg.free, next |-> pg.next]
  BY <1>3, <1>6 DEF Page
<1>8. PICK q : q = [slots |-> s, free |-> n, next |-> pg.next]
  OBVIOUS
<1>9. Changed(pg, q, i, r)
  <2>1. q = [pg EXCEPT !.slots = s, !.free = n]
    BY <1>3, <1>8, PageFields, ZenonT(60)
  <2>2. r \in Record \cup {NoRecord}
    OBVIOUS
  <2>3. Changed(pg, [pg EXCEPT !.slots = [pg.slots EXCEPT ![i] = r], !.free = n], i, r)
    BY <1>2, <1>3, <2>2, ReplacedInPage
  <2> QED BY <1>5, <2>1, <2>3
<1>10. PICK ps1 : ps1 = [h.pages EXCEPT ![p] = q1]
  OBVIOUS
<1>11. PICK h1 : h1 = HeapOf(ps1, h.last_page_id, h.record_count, h.page_count, h.pages_with_space)
  OBVIOUS
<1>12. [h EXCEPT !.pages[p].slots[i] = r] = h1
  <2>1. [h EXCEPT !.pages[p].slots[i] = r] = [h EXCEPT !.pages = ps1]
    BY <1>5, <1>6, <1>10
  <2>2. h = HeapOf(h.pages, h.last_page_id, h.record_count, h.page_count, h.pages_with_space)
    BY <1>1, HeapFields
  <2>3. [h EXCEPT !.pages = ps1] = h1
    BY <1>11, <2>2, HeapFields
  <2> QED BY <2>1, <2>3
<1>13. h1.pages = ps1 /\ ps1[p] = q1
  BY <1>2, <1>4, <1>10, <1>11 DEF HeapOf
<1>14. PICK ps : ps = [h.pages EXCEPT ![p] = q]
  OBVIOUS
<1>15. [ps1 EXCEPT ![p].free = n] = ps
  <2>1. [q1 EXCEPT !.free = n] = q
    BY <1>7, <1>8
  <2>2. [ps1 EXCEPT ![p] = q] = ps
    BY <1>2, <1>4, <1>10, <1>14
  <2> QED BY <1>13, <2>1, <2>2
<1>16. [h1 EXCEPT !.pages[p].free = n] = HeapOf(ps, h.last_page_id, h.record_count, h.page_count, h.pages_with_space)
  <2>1. [h1 EXCEPT !.pages[p].free = n] = [h1 EXCEPT !.pages = ps]
    BY <1>13, <1>15
  <2>2. [h1 EXCEPT !.pages = ps] = HeapOf(ps, h.last_page_id, h.record_count, h.page_count, h.pages_with_space)
    BY <1>11, HeapFields
  <2> QED BY <2>1, <2>2
<1>17. g = [h1 EXCEPT !.pages[p].free = n]
  BY <1>12
<1>18. g = Rebuilt(h, p, q, h.record_count, h.pages_with_space)
  BY <1>14, <1>16, <1>17 DEF Rebuilt
<1>19. Sound(g) /\ SameSize(h, g) /\ Replaces(h, g, [page |-> p, slot |-> i], r)
  <2>1. PICK a \in 1 .. Len(h.pages) : a = p
    BY <1>2
  <2>b. PICK b : b = i
    OBVIOUS
  <2>2. Changed(h.pages[a], q, b, r) /\ Holds(h.pages[a], b)
    BY <1>2, <1>9, <2>1, <2>b
  <2>3. g = Rebuilt(h, a, q, h.record_count, h.pages_with_space)
    BY <1>18, <2>1, <2>b
  <2>4. Sound(g) /\ SameSize(h, g) /\ Replaces(h, g, [page |-> a, slot |-> b], r)
    BY <2>2, <2>3, RecordReplaced
  <2> QED BY <2>1, <2>b, <2>4
<1> QED BY <1>3, <1>19

\* A record deleted, to be inserted somewhere else.
LEMMA Moved ==
  ASSUME NEW h, Sound(h), NEW rid \in Live(h), NEW g,
         g = [h EXCEPT !.pages[rid.page] = Vacated(h.pages[rid.page], rid.slot),
                       !.record_count = CountAfterMove(h.record_count)]
  PROVE  Sound(g) /\ SameSize(h, g) /\ Loses(h, g, rid)
<1> DEFINE p  == rid.page
           i  == rid.slot
           pg == h.pages[p]
<1>1. h \in HeapSet /\ Listing(h.pages_with_space, Len(h.pages))
  BY DEF Sound
<1>2. /\ p \in 1 .. Len(h.pages) /\ Holds(pg, i) /\ rid \in Rid
  BY <1>1, LiveIs
<1>3. SoundPage(pg) /\ rid = [page |-> p, slot |-> i]
  BY <1>2, RidIs DEF Sound, Chained, SoundPage
<1>4. PICK q, ps, n : q = DeleteRecord(pg, i) /\ ps = [h.pages EXCEPT ![p] = q] /\ n = h.record_count - 1
  OBVIOUS
<1>5. g = WithCount(h, ps, n)
  BY <1>4 DEF WithCount, Vacated, CountAfterMove
<1>6. g = HeapOf(ps, h.last_page_id, n, h.page_count, h.pages_with_space)
  BY <1>1, <1>5, FieldsAfterPut
<1>7. PICK a \in 1 .. Len(h.pages) : a = p
  BY <1>2
<1>b. PICK b, d : b = i /\ d = h.pages_with_space
  OBVIOUS
<1>8. Changed(h.pages[a], q, b, NoRecord) /\ Holds(h.pages[a], b) /\ Listing(d, Len(h.pages))
  BY <1>1, <1>2, <1>3, <1>4, <1>7, <1>b, DeletedPage
<1>9. g = Rebuilt(h, a, q, n, d) /\ OneLess(h, n)
  BY <1>4, <1>6, <1>7, <1>b DEF Rebuilt, OneLess
<1>10. Sound(g) /\ SameSize(h, g) /\ Loses(h, g, [page |-> a, slot |-> b])
  BY <1>8, <1>9, RecordRemoved
<1> QED BY <1>3, <1>7, <1>b, <1>10

\* In its place, or taken from it and inserted again.
Updates(h, g, rid, r) ==
  \/ SameSize(h, g) /\ Replaces(h, g, rid, r)
  \/ \E f : /\ Sound(f) /\ SameSize(h, f) /\ Loses(h, f, rid)
            /\ Same(f, g) \/ Adds(f, g, r)
            /\ r.size + SLOT_ENTRY_SIZE <= Capacity => Adds(f, g, r)

LEMMA UpdateResult ==
  ASSUME NEW h, Sound(h), NEW pinned, Enough(pinned), NEW rid \in Live(h), NEW r \in Record,
         NEW g, g = Update(h, rid, r, pinned)
  PROVE  Sound(g) /\ Updates(h, g, rid, r)
<1> DEFINE pg    == h.pages[rid.page]
           grows == r.size - pg.slots[rid.slot].size
<1>1. h \in HeapSet
  BY DEF Sound
<1>2. rid.page \in 1 .. Len(h.pages) /\ Holds(pg, rid.slot)
  BY <1>1, LiveIs
<1>3. CanFetch(h, rid.page, pinned)
  BY <1>1, <1>2, HeapTypes, FrameToSpare
<1>4. pg \in Page /\ pg.free \in Int
  BY <1>1, <1>2, HeapTypes, PageFacts
<1>5. CASE grows <= GetFreeSpace(pg)
  <2>1. PICK n : n = IF grows > 0 THEN pg.free - r.size ELSE pg.free
    OBVIOUS
  <2>2. n \in Int /\ n <= pg.free
    BY <1>4, <2>1, RecordSizes
  <2>3. PICK k : k = [h EXCEPT !.pages[rid.page].slots[rid.slot] = r, !.pages[rid.page].free = n]
    OBVIOUS
  <2>4. g = k
    <3>1. g = [h EXCEPT !.pages[rid.page].slots[rid.slot] = r,
                        !.pages[rid.page].free = IF grows > 0 THEN @ - r.size ELSE @]
      BY <1>2, <1>3, <1>5 DEF Update
    <3>2. [h EXCEPT !.pages[rid.page].slots[rid.slot] = r].pages[rid.page].free = pg.free
      BY <1>1, <1>2, HeapTypes, <1>4 DEF Page
    <3> HIDE DEF grows
    <3> QED BY <2>1, <2>3, <3>1, <3>2
  <2>5. Sound(k) /\ SameSize(h, k) /\ Replaces(h, k, rid, r)
    BY <2>2, <2>3, InPlace
  <2> QED BY <2>4, <2>5 DEF Updates
<1>6. CASE ~(grows <= GetFreeSpace(pg))
  <2>1. PICK f : f = [h EXCEPT !.pages[rid.page] = Vacated(h.pages[rid.page], rid.slot),
                               !.record_count = CountAfterMove(h.record_count)]
    OBVIOUS
  <2>2. g = Insert(f, r, pinned)
    BY <1>3, <1>6, <2>1 DEF Update
  <2>3. Sound(f) /\ SameSize(h, f) /\ Loses(h, f, rid)
    BY <2>1, Moved
  <2>4. /\ Sound(g) /\ (Same(f, g) \/ Adds(f, g, r))
        /\ r.size + SLOT_ENTRY_SIZE <= Capacity => Adds(f, g, r)
    BY <2>2, <2>3, InsertResult
  <2> QED BY <2>3, <2>4 DEF Updates
<1> QED BY <1>5, <1>6
-----------------------------------------------------------------------------
(* BulkInsert. *)

\* Between two records of a batch that began with h: the page being filled is one of
\* the heap's.
Filling(h, s) ==
  /\ s \in [heap : HeapSet, page : Nat, dead : {FALSE}]
  /\ Sound(s.heap) /\ Keeps(h, s.heap) /\ s.page \in 1 .. Len(s.heap.pages)

LEMMA FillingOn ==
  ASSUME NEW h, Sound(h), NEW s, Filling(h, s), NEW g, Sound(g), Keeps(s.heap, g),
         NEW p \in 1 .. Len(g.pages), NEW t, t = [heap |-> g, page |-> p, dead |-> FALSE]
  PROVE  Filling(h, t)
<1>1. Sound(s.heap) /\ Keeps(h, s.heap)
  BY DEF Filling
<1>2. Keeps(h, g)
  BY <1>1, KeepsOn
<1>3. g \in HeapSet /\ Len(g.pages) \in Nat
  BY HeapTypes DEF Sound
<1>4. t.heap = g /\ t.page = p /\ t \in [heap : HeapSet, page : Nat, dead : {FALSE}]
  BY <1>3
<1> QED BY <1>2, <1>4 DEF Filling

LEMMA BulkStepKeeps ==
  ASSUME Enough(Pinned), NEW h, Sound(h), NEW s, Filling(h, s), NEW r \in Record
  PROVE  Filling(h, BulkStep(s, r))
<1> DEFINE g    == WithoutSpace(s.heap, s.page)
           next == FindPageWithSpace(g, r.size, Pinned)
<1>1. /\ s = [heap |-> s.heap, page |-> s.page, dead |-> FALSE] /\ s.dead = FALSE
      /\ Sound(s.heap) /\ s.page \in 1 .. Len(s.heap.pages) /\ Len(s.heap.pages) \in Nat
  BY HeapTypes DEF Filling, Sound
<1>2. s.page # INVALID_PAGE_ID
  BY <1>1, InvalidAssumption
<1>3. CASE Fits(s.heap.pages[s.page], r)
  <2>1. PICK k : k = Put(s.heap, s.page, r)
    OBVIOUS
  <2>2. Sound(k) /\ Adds(s.heap, k, r) /\ SameSize(s.heap, k)
    BY <1>1, <1>3, <2>1, PutAdds
  <2>3. BulkStep(s, r) = [s EXCEPT !.heap = k]
    BY <1>1, <1>2, <1>3, <2>1 DEF BulkStep
  <2>4. BulkStep(s, r) = [heap |-> k, page |-> s.page, dead |-> FALSE]
    BY <1>1, <2>3
  <2>5. Keeps(s.heap, k) /\ s.page \in 1 .. Len(k.pages)
    BY <1>1, <2>2 DEF Adds, SameSize
  <2> QED BY <2>2, <2>4, <2>5, FillingOn
<1>4. CASE ~Fits(s.heap.pages[s.page], r)
  <2>1. Sound(g) /\ Same(s.heap, g)
    BY <1>1, WithoutSpaceKeeps
  <2>2. Sound(next.heap) /\ Same(g, next.heap) /\ next.page \in 1 .. Len(next.heap.pages)
    BY <2>1, RecordSizes, FoundPage
  <2>3. Same(s.heap, next.heap)
    BY <1>1, <2>1, <2>2, KeepsOn
  <2>4. CanFetch(next.heap, next.page, Pinned)
    <3>1. next.heap \in HeapSet
      BY <2>2 DEF Sound
    <3> HIDE DEF next
    <3> QED BY <2>2, <3>1, HeapTypes, FrameToSpare
  <2>5. PICK k, p : /\ p = next.page
                    /\ k = IF Fits(next.heap.pages[next.page], r)
                           THEN Put(next.heap, next.page, r) ELSE next.heap
    OBVIOUS
  <2>6. BulkStep(s, r) = [s EXCEPT !.page = p, !.heap = k]
    BY <1>1, <1>2, <1>4, <2>4, <2>5 DEF BulkStep
  <2>7. BulkStep(s, r) = [heap |-> k, page |-> p, dead |-> FALSE]
    BY <1>1, <2>6
  <2> HIDE DEF next
  <2>8. Sound(k) /\ Keeps(next.heap, k) /\ p \in 1 .. Len(k.pages)
    <3>1. CASE ~Fits(next.heap.pages[next.page], r)
      <4>1. Same(next.heap, next.heap)
        BY <2>2, SameItself
      <4> QED BY <2>2, <2>5, <3>1, <4>1 DEF Same
    <3>2. CASE Fits(next.heap.pages[next.page], r)
      <4>1. k = Put(next.heap, next.page, r)
        BY <2>5, <3>2
      <4>2. Sound(k) /\ Adds(next.heap, k, r) /\ SameSize(next.heap, k)
        BY <2>2, <3>2, <4>1, PutAdds
      <4> QED BY <2>2, <2>5, <4>2 DEF Adds, SameSize
    <3> QED BY <3>1, <3>2
  <2>9. Keeps(s.heap, k)
    BY <1>1, <2>2, <2>3, <2>8, KeepsOn DEF Same
  <2> QED BY <2>7, <2>8, <2>9, FillingOn
<1> QED BY <1>3, <1>4

LEMMA BulkStepsKeep ==
  ASSUME Enough(Pinned), NEW h, Sound(h), NEW s, Filling(h, s),
         NEW L \in Nat, NEW batch \in [1 .. L -> Record]
  PROVE  Filling(h, BulkSteps(s, batch))
<1> DEFINE F(f) == [n \in 0 .. L |-> IF n = 0 THEN s ELSE BulkStep(f[n - 1], batch[n])]
           g == CHOOSE f : f = F(f)
           S == {t \in [heap : HeapSet, page : Nat, dead : {FALSE}] : Filling(h, t)}
           step == [n \in 1 .. L |-> [t \in S |-> BulkStep(t, batch[n])]]
<1>0. Len(batch) = L
  BY SequenceOf
<1>1. BulkSteps(s, batch) = g[L]
  BY <1>0 DEF BulkSteps
<1>2. \A t : t \in S <=> Filling(h, t)
  BY DEF Filling
<1>3. step \in [1 .. L -> [S -> S]]
  <2>1. ASSUME NEW n \in 1 .. L, NEW t \in S PROVE BulkStep(t, batch[n]) \in S
    <3>1. batch[n] \in Record /\ Filling(h, t)
      BY <1>2
    <3>2. Filling(h, BulkStep(t, batch[n]))
      BY <3>1, BulkStepKeeps
    <3> QED BY <1>2, <3>2
  <2> HIDE DEF S
  <2> QED BY <2>1
<1>4. PICK f \in [0 .. L -> S] : f[0] = s /\ \A n \in 1 .. L : f[n] = step[n][f[n - 1]]
  <2>1. s \in S
    BY <1>2
  <2> HIDE DEF S, step
  <2>2. PICK T, b, st : T = S /\ b = s /\ st = step
    OBVIOUS
  <2>3. b \in T /\ Passes(L, T, st)
    BY <1>3, <2>1, <2>2 DEF Passes
  <2>4. \E f : RunOf(L, T, b, st, f)
    BY <2>3, LoopRuns
  <2> QED BY <2>2, <2>4 DEF RunOf
<1>5. f = F(f)
  <2>1. \A n \in 0 .. L : f[n] = IF n = 0 THEN s ELSE BulkStep(f[n - 1], batch[n])
    <3> HIDE DEF S
    <3>1. ASSUME NEW n \in 1 .. L PROVE f[n] = BulkStep(f[n - 1], batch[n])
      <4>1. n - 1 \in 0 .. L
        OBVIOUS
      <4>2. f[n - 1] \in S
        BY <4>1
      <4> QED BY <1>4, <4>2
    <3> QED BY <1>4, <3>1
  <2>2. f = [n \in 0 .. L |-> f[n]]
    OBVIOUS
  <2> QED BY <2>1, <2>2
<1>6. g = F(g)
  <2> HIDE DEF F
  <2> QED BY <1>5
<1>7. \A n \in 0 .. L : g[n] = IF n = 0 THEN s ELSE BulkStep(g[n - 1], batch[n])
  <2> HIDE DEF g
  <2> QED BY <1>6
<1> HIDE DEF g, F
<1> DEFINE U == {n \in 0 .. L : ~Filling(h, g[n])}
<1>8. U = {}
  <2> SUFFICES ASSUME U # {} PROVE FALSE
    OBVIOUS
  <2>1. U \subseteq Nat
    OBVIOUS
  <2>2. PICK m \in U : \A k \in U : m <= k
    <3> HIDE DEF U
    <3> QED BY <2>1, LeastNatural
  <2>3. m \in 0 .. L /\ ~Filling(h, g[m])
    BY <2>2
  <2>4. m # 0
    BY <1>7, <2>3
  <2>5. m - 1 \in 0 .. L /\ ~(m <= m - 1) /\ batch[m] \in Record
    BY <2>3, <2>4
  <2>6. Filling(h, g[m - 1])
    BY <2>2, <2>5
  <2>7. Filling(h, BulkStep(g[m - 1], batch[m]))
    BY <2>5, <2>6, BulkStepKeeps
  <2> QED BY <1>7, <2>3, <2>4, <2>7
<1>9. L \in 0 .. L
  OBVIOUS
<1> QED BY <1>1, <1>8, <1>9

LEMMA BulkResult ==
  ASSUME Enough(Pinned), NEW h, Sound(h), NEW L \in Nat, NEW batch \in [1 .. L -> Record],
         NEW b, b = Bulk(h, batch, Pinned)
  PROVE  Sound(b.heap) /\ Keeps(h, b.heap) /\ ~b.dead
<1> DEFINE first == FindPageWithSpace(h, SpaceHint, Pinned)
           done  == BulkSteps([heap |-> first.heap, page |-> first.page, dead |-> FALSE], batch)
<1>1. Sound(first.heap) /\ Same(h, first.heap) /\ first.page \in 1 .. Len(first.heap.pages)
  BY SizesAssumption, FoundPage
<1>2. CanFetch(first.heap, first.page, Pinned)
  <2>1. first.heap \in HeapSet
    BY <1>1 DEF Sound
  <2> HIDE DEF first
  <2> QED BY <1>1, <2>1, HeapTypes, FrameToSpare
<1>3. b = [heap |-> IF done.page = INVALID_PAGE_ID THEN done.heap
                    ELSE UpdateDirectory(done.heap, done.page),
           dead |-> done.dead]
  BY <1>2 DEF Bulk
<1> HIDE DEF first
<1>4. Filling(h, [heap |-> first.heap, page |-> first.page, dead |-> FALSE])
  <2>1. first.heap \in HeapSet /\ first.page \in Nat
    BY <1>1, HeapTypes DEF Sound
  <2> QED BY <1>1, <2>1 DEF Filling, Same
<1>5. Filling(h, done)
  BY <1>4, BulkStepsKeep
<1> HIDE DEF done
<1>6. done.page # INVALID_PAGE_ID /\ done.dead = FALSE /\ Sound(done.heap) /\ Keeps(h, done.heap)
  BY <1>5, InvalidAssumption DEF Filling
<1>7. b.heap = UpdateDirectory(done.heap, done.page) /\ ~b.dead
  BY <1>3, <1>6
<1>8. Sound(b.heap) /\ Same(done.heap, b.heap)
  BY <1>6, <1>7, UpdateDirectoryKeeps
<1>9. Keeps(h, b.heap)
  BY <1>6, <1>8, KeepsOn DEF Same
<1> QED BY <1>7, <1>8, <1>9
-----------------------------------------------------------------------------
(* The chain. *)

\* From page p on, the pages come in the order of their numbers.
LEMMA ChainIs ==
  ASSUME NEW h, Sound(h), NEW p \in 1 .. Len(h.pages)
  PROVE  /\ ChainFrom(h, p) \in Seq(Nat) /\ Len(ChainFrom(h, p)) = Len(h.pages) - p + 1
         /\ \A n \in 1 .. Len(h.pages) - p + 1 : ChainFrom(h, p)[n] = p + n - 1
<1> DEFINE L == Len(h.pages)
           F(f) == [n \in 1 .. L |->
                      IF n = 1 THEN p
                      ELSE IF f[n - 1] = INVALID_PAGE_ID THEN INVALID_PAGE_ID
                      ELSE h.pages[f[n - 1]].next]
           c == CHOOSE f : f = F(f)
           ends == {n \in 1 .. L : c[n] = INVALID_PAGE_ID}
           e == [n \in 1 .. L |-> IF p + n - 1 <= L THEN p + n - 1 ELSE INVALID_PAGE_ID]
<1>0. ChainFrom(h, p) = IF ends = {} THEN c ELSE SubSeq(c, 1, Min(ends) - 1)
  BY DEF ChainFrom
<1>1. /\ L \in Nat /\ L >= 1 /\ p \in Nat /\ INVALID_PAGE_ID \notin Nat
      /\ \A i \in 1 .. L : h.pages[i].next = IF i = L THEN INVALID_PAGE_ID ELSE i + 1
  BY HeapTypes, InvalidAssumption DEF Sound, Chained
<1> HIDE DEF L
<1>2. e = F(e)
  <2>1. ASSUME NEW n \in 1 .. L
        PROVE  e[n] = IF n = 1 THEN p
                      ELSE IF e[n - 1] = INVALID_PAGE_ID THEN INVALID_PAGE_ID
                      ELSE h.pages[e[n - 1]].next
    <3>1. CASE n = 1
      BY <1>1, <3>1 DEF L
    <3>2. CASE n # 1 /\ p + n - 2 <= L
      <4>1. n - 1 \in 1 .. L /\ p + (n - 1) - 1 = p + n - 2 /\ p + n - 2 \in 1 .. L
        BY <1>1, <3>2
      <4>2. e[n - 1] = p + n - 2 /\ e[n - 1] # INVALID_PAGE_ID
        BY <1>1, <3>2, <4>1
      <4>3. h.pages[e[n - 1]].next = IF p + n - 2 = L THEN INVALID_PAGE_ID ELSE p + n - 1
        <5>1. (p + n - 2) + 1 = p + n - 1
          BY <1>1
        <5> QED BY <1>1, <4>1, <4>2, <5>1
      <4>4. p + n - 2 = L <=> ~(p + n - 1 <= L)
        BY <1>1, <3>2
      <4> QED BY <3>2, <4>2, <4>3, <4>4
    <3>3. CASE n # 1 /\ ~(p + n - 2 <= L)
      <4>1. n - 1 \in 1 .. L /\ ~(p + (n - 1) - 1 <= L) /\ ~(p + n - 1 <= L)
        BY <1>1, <3>3
      <4>2. e[n - 1] = INVALID_PAGE_ID
        BY <4>1
      <4> QED BY <3>3, <4>1, <4>2
    <3> QED BY <3>1, <3>2, <3>3
  <2>2. e = [n \in 1 .. L |-> e[n]]
    OBVIOUS
  <2> HIDE DEF e
  <2> QED BY <2>1, <2>2
<1>3. c = F(c)
  <2> HIDE DEF F, e
  <2> QED BY <1>2
<1>4. /\ c = [n \in 1 .. L |-> c[n]]
      /\ \A n \in 1 .. L : c[n] = IF n = 1 THEN p
                                  ELSE IF c[n - 1] = INVALID_PAGE_ID THEN INVALID_PAGE_ID
                                  ELSE h.pages[c[n - 1]].next
  <2> HIDE DEF c
  <2> QED BY <1>3
<1>5. \A n \in 1 .. L : e[n] = IF n = 1 THEN p
                                  ELSE IF e[n - 1] = INVALID_PAGE_ID THEN INVALID_PAGE_ID
                                  ELSE h.pages[e[n - 1]].next
  <2> HIDE DEF e
  <2> QED BY <1>2
<1> HIDE DEF c, F
<1> DEFINE U == {n \in 1 .. L : c[n] # e[n]}
<1>6. U = {}
  <2> HIDE DEF e
  <2> SUFFICES ASSUME U # {} PROVE FALSE
    OBVIOUS
  <2>1. U \subseteq Nat
    OBVIOUS
  <2>2. PICK m \in U : \A k \in U : m <= k
    <3> HIDE DEF U
    <3> QED BY <2>1, LeastNatural
  <2>3. m \in 1 .. L /\ c[m] # e[m]
    BY <2>2
  <2>4. m # 1
    BY <1>4, <1>5, <2>3
  <2>5. m - 1 \in 1 .. L /\ ~(m <= m - 1)
    BY <1>1, <2>3, <2>4
  <2>6. c[m - 1] = e[m - 1]
    BY <2>2, <2>5
  <2>7. c[m] = IF c[m - 1] = INVALID_PAGE_ID THEN INVALID_PAGE_ID ELSE h.pages[c[m - 1]].next
    BY <1>4, <2>3, <2>4
  <2>8. e[m] = IF e[m - 1] = INVALID_PAGE_ID THEN INVALID_PAGE_ID ELSE h.pages[e[m - 1]].next
    BY <1>5, <2>3, <2>4
  <2> QED BY <2>3, <2>6, <2>7, <2>8
<1>7. \A n \in 1 .. L : c[n] = IF p + n - 1 <= L THEN p + n - 1 ELSE INVALID_PAGE_ID
  BY <1>6
<1>8. c \in Seq(Nat \cup {INVALID_PAGE_ID}) /\ Len(c) = L
  <2>1. \A n \in 1 .. L : c[n] \in Nat \cup {INVALID_PAGE_ID}
    BY <1>1, <1>7
  <2>2. c \in [1 .. L -> Nat \cup {INVALID_PAGE_ID}]
    BY <1>4, <2>1
  <2> QED BY <1>1, <2>2, SequenceOf
<1>9. \A n \in 1 .. L : n \in ends <=> p + n - 1 > L
  BY <1>1, <1>7
<1>10. CASE p = 1
  <2>1. ends = {}
    BY <1>1, <1>9, <1>10
  <2>2. ChainFrom(h, p) = c
    BY <1>0, <2>1
  <2>3. \A n \in 1 .. L : c[n] = n /\ n = p + n - 1 /\ c[n] \in Nat
    BY <1>1, <1>7, <1>10
  <2>4. c \in [1 .. L -> Nat]
    BY <1>4, <2>3
  <2>5. c \in Seq(Nat)
    BY <1>1, <2>4, SequenceOf
  <2>6. L - p + 1 = L
    BY <1>1, <1>10
  <2> QED BY <1>8, <2>2, <2>3, <2>5, <2>6 DEF L
<1>11. CASE p # 1
  <2>1. L - p + 2 \in 1 .. L /\ p + (L - p + 2) - 1 > L
    BY <1>1, <1>11, SMTT(30) DEF L
  <2>2. ends # {} /\ ends \subseteq Nat /\ L - p + 2 \in ends
    <3>1. PICK k \in 1 .. L : k = L - p + 2 /\ p + k - 1 > L
      BY <2>1
    <3>2. k \in ends
      BY <1>9, <3>1
    <3> QED BY <3>1, <3>2
  <2>3. Min(ends) \in ends /\ \A k \in ends : Min(ends) <= k
    <3> HIDE DEF ends
    <3> QED BY <2>2, MinIsLeast
  <2>4. PICK m : m = Min(ends)
    OBVIOUS
  <2>5. m \in 1 .. L /\ p + m - 1 > L /\ m <= L - p + 2
    BY <1>9, <2>2, <2>3, <2>4
  <2>6. m - 1 = L - p + 1
    BY <1>1, <2>5
  <2>7. ChainFrom(h, p) = SubSeq(c, 1, L - p + 1)
    BY <1>0, <2>2, <2>4, <2>6
  <2>8. L - p + 1 \in Nat /\ L - p + 1 >= 1 /\ \A i \in 1 .. L - p + 1 : i \in 1 .. L /\ p + i - 1 <= L
    BY <1>1 DEF L
  <2>9. \A i \in 1 .. L - p + 1 : c[i] = p + i - 1 /\ c[i] \in Nat
    BY <1>1, <1>7, <2>8
  <2>10. PICK k \in Nat : k = L - p + 1
    BY <2>8
  <2>11. 1 \in Int /\ k \in Int /\ \A i \in 1 .. k : c[i] \in Nat
    BY <2>9, <2>10
  <2>12. /\ SubSeq(c, 1, k) \in Seq(Nat)
         /\ Len(SubSeq(c, 1, k)) = (IF 1 <= k THEN k - 1 + 1 ELSE 0)
         /\ \A i \in 1 .. k - 1 + 1 : SubSeq(c, 1, k)[i] = c[1 + i - 1]
    BY <2>11, SubSeqProperties
  <2>13. Len(SubSeq(c, 1, k)) = k
    BY <2>8, <2>10, <2>12
  <2>14. \A i \in 1 .. k : SubSeq(c, 1, k)[i] = p + i - 1
    <3>1. \A i \in 1 .. k : i \in 1 .. k - 1 + 1 /\ 1 + i - 1 = i
      OBVIOUS
    <3> QED BY <2>9, <2>10, <2>12, <3>1
  <2> QED BY <2>7, <2>10, <2>12, <2>13, <2>14 DEF L
<1> QED BY <1>10, <1>11
LEMMA ChainRest ==
  ASSUME NEW h, Sound(h), NEW p \in 1 .. Len(h.pages)
  PROVE  /\ DOMAIN Tail(ChainFrom(h, p)) = 1 .. Len(h.pages) - p
         /\ \A n \in 1 .. Len(h.pages) - p : Tail(ChainFrom(h, p))[n] = p + n
<1>1. PICK c, L : c = ChainFrom(h, p) /\ L = Len(h.pages)
  OBVIOUS
<1>2. c \in Seq(Nat) /\ Len(c) = L - p + 1 /\ \A n \in 1 .. L - p + 1 : c[n] = p + n - 1
  BY <1>1, ChainIs
<1>3. L \in Nat /\ p \in 1 .. L
  BY <1>1, HeapTypes DEF Sound
<1>4. c # <<>>
  BY <1>2, <1>3
<1>5. /\ Tail(c) \in Seq(Nat) /\ Len(Tail(c)) = Len(c) - 1
      /\ \A i \in 1 .. Len(Tail(c)) : Tail(c)[i] = c[i + 1]
  BY <1>2, <1>4, HeadTailProperties
<1>6. DOMAIN Tail(c) = 1 .. L - p
  BY <1>2, <1>3, <1>5, LenProperties
<1>7. ASSUME NEW n \in 1 .. L - p PROVE Tail(c)[n] = p + n
  <2>1. n + 1 \in 1 .. L - p + 1 /\ p + (n + 1) - 1 = p + n /\ n \in 1 .. Len(Tail(c))
    BY <1>2, <1>3, <1>5
  <2> QED BY <1>2, <1>5, <2>1
<1> QED BY <1>1, <1>6, <1>7

-----------------------------------------------------------------------------
(* The iterator. *)

\* The order of a scan.
Before(a, b) == a.page < b.page \/ (a.page = b.page /\ a.slot < b.slot)

IteratorSet == [page : Nat \cup {INVALID_PAGE_ID}, slot : Nat, valid : BOOLEAN,
                seen : Seq(Rid), must : SUBSET Rid]

Ordered(s) == \A a, b \in 1 .. Len(s) : a < b => Before(s[a], s[b])

Place(i) == [page |-> i.page, slot |-> i.slot]

SeenOn(h, i) == \A a \in 1 .. Len(i.seen) : i.seen[a].page \in 1 .. Len(h.pages)

\* Nothing seen lies beyond the place of the iterator, nothing that must be seen and was
\* not lies before it.
Scanning(h, i) ==
  /\ SeenOn(h, i)
  /\ i \in IteratorSet /\ i.page \in 1 .. Len(h.pages) /\ Ordered(i.seen) /\ i.must \subseteq Live(h)
  /\ \A a \in 1 .. Len(i.seen) : i.seen[a] = Place(i) \/ Before(i.seen[a], Place(i))
  /\ \A m \in i.must : m \in ToSet(i.seen) \/ Before(Place(i), m)

Finished(h, i) ==
  /\ SeenOn(h, i)
  /\ i \in IteratorSet /\ i.page = INVALID_PAGE_ID /\ Ordered(i.seen)
  /\ i.must \subseteq ToSet(i.seen)

IteratorSound(h, i) == IF i.valid THEN Scanning(h, i) ELSE Finished(h, i)

LEMMA IteratorFields ==
  ASSUME NEW i \in IteratorSet
  PROVE  /\ i = [page |-> i.page, slot |-> i.slot, valid |-> i.valid, seen |-> i.seen, must |-> i.must]
         /\ i.seen \in Seq(Rid) /\ Len(i.seen) \in Nat /\ i.must \subseteq Rid /\ i.slot \in Nat
         /\ i.page \in Nat \cup {INVALID_PAGE_ID}
BY LenProperties DEF IteratorSet

\* j has moved on to the record with id next.
MovedTo(i, j, next) ==
  /\ j \in IteratorSet /\ j.page = next.page /\ j.slot = next.slot /\ Place(j) = next
  /\ j.valid = TRUE /\ j.must = i.must /\ j.seen = Append(i.seen, next)

LEMMA StandsOnFields ==
  ASSUME NEW i \in IteratorSet, NEW next \in Rid, NEW j, j = StandsOn(i, next.page, next.slot)
  PROVE  MovedTo(i, j, next)
<1>a. PICK p, s : p = next.page /\ s = next.slot
  OBVIOUS
<1>b. p \in Nat /\ s \in Nat /\ next = [page |-> p, slot |-> s] /\ j = StandsOn(i, p, s)
  BY <1>a, RidIs
<1>1. PICK q : q = Append(i.seen, next)
  OBVIOUS
<1>2. q \in Seq(Rid)
  BY <1>1, IteratorFields, AppendProperties
<1>3. i = [page |-> i.page, slot |-> i.slot, valid |-> i.valid, seen |-> i.seen, must |-> i.must]
  BY IteratorFields
<1>4. PICK j1 : j1 = [i EXCEPT !.page = p]
  OBVIOUS
<1>5. j1 = [page |-> p, slot |-> i.slot, valid |-> i.valid, seen |-> i.seen, must |-> i.must]
  BY <1>3, <1>4
<1>6. PICK j2 : j2 = [j1 EXCEPT !.slot = s]
  OBVIOUS
<1>7. j2 = [page |-> p, slot |-> s, valid |-> i.valid, seen |-> i.seen, must |-> i.must]
  BY <1>5, <1>6
<1>8. PICK t, j3 : t = TRUE /\ j3 = [j2 EXCEPT !.valid = t]
  OBVIOUS
<1>9. j3 = [page |-> p, slot |-> s, valid |-> t, seen |-> i.seen, must |-> i.must]
  BY <1>7, <1>8
<1>10. [j3 EXCEPT !.seen = q] = [page |-> p, slot |-> s, valid |-> t, seen |-> q, must |-> i.must]
  BY <1>9
<1>11. j = [j3 EXCEPT !.seen = Append(@, [page |-> p, slot |-> s])]
  BY <1>b, <1>4, <1>6, <1>8 DEF StandsOn
<1>12. j = [j3 EXCEPT !.seen = q]
  <2>1. j3.seen = i.seen
    BY <1>9
  <2> QED BY <1>b, <1>1, <1>11, <2>1
<1>13. j = [page |-> p, slot |-> s, valid |-> TRUE, seen |-> q, must |-> i.must]
  BY <1>8, <1>10, <1>12
<1>14. j \in IteratorSet
  BY <1>b, <1>2, <1>13, IteratorFields DEF IteratorSet
<1> QED BY <1>b, <1>1, <1>13, <1>14 DEF MovedTo, Place

LEMMA EndedFields ==
  ASSUME NEW i \in IteratorSet, NEW j, j = Ended(i)
  PROVE  /\ j \in IteratorSet /\ j.page = INVALID_PAGE_ID /\ j.valid = FALSE /\ j.must = i.must
         /\ j.seen = i.seen /\ j.slot = 0
<1>3. i = [page |-> i.page, slot |-> i.slot, valid |-> i.valid, seen |-> i.seen, must |-> i.must]
  BY IteratorFields
<1>4. PICK j1 : j1 = [i EXCEPT !.page = INVALID_PAGE_ID]
  OBVIOUS
<1>5. j1 = [page |-> INVALID_PAGE_ID, slot |-> i.slot, valid |-> i.valid, seen |-> i.seen, must |-> i.must]
  BY <1>3, <1>4
<1>6. PICK j2 : j2 = [j1 EXCEPT !.slot = 0]
  OBVIOUS
<1>7. j2 = [page |-> INVALID_PAGE_ID, slot |-> 0, valid |-> i.valid, seen |-> i.seen, must |-> i.must]
  BY <1>5, <1>6
<1>8. PICK t : t = FALSE
  OBVIOUS
<1>9. [j2 EXCEPT !.valid = t]
        = [page |-> INVALID_PAGE_ID, slot |-> 0, valid |-> t, seen |-> i.seen, must |-> i.must]
  BY <1>7
<1>10. j = [page |-> INVALID_PAGE_ID, slot |-> 0, valid |-> FALSE, seen |-> i.seen, must |-> i.must]
  BY <1>4, <1>6, <1>8, <1>9 DEF Ended
<1>11. j \in IteratorSet
  BY <1>10, IteratorFields DEF IteratorSet
<1> QED BY <1>10, <1>11

LEMMA SeenSet ==
  ASSUME NEW s \in Seq(Rid)
  PROVE  \A x : x \in ToSet(s) <=> \E a \in 1 .. Len(s) : s[a] = x
BY LenProperties DEF ToSet

LEMMA BeforeOrder ==
  ASSUME NEW a \in Rid, NEW b \in Rid, NEW c \in Rid, Before(a, b), Before(b, c)
  PROVE  Before(a, c)
BY DEF Rid, Before

\* The chain of a sound heap goes through its pages in the order of their numbers.
LEMMA EarlierIs ==
  ASSUME NEW h, Sound(h), NEW a, a.page \in 1 .. Len(h.pages),
         NEW b, b.page \in 1 .. Len(h.pages)
  PROVE  Earlier(h, a, b) <=> Before(a, b)
<1>1. PICK p, q, L, c : p = a.page /\ q = b.page /\ L = Len(h.pages) /\ c = ChainFrom(h, p)
  OBVIOUS
<1>2. L \in Nat /\ p \in 1 .. L /\ q \in 1 .. L
  BY <1>1, HeapTypes DEF Sound
<1>3. c \in Seq(Nat) /\ Len(c) = L - p + 1 /\ \A n \in 1 .. L - p + 1 : c[n] = p + n - 1
  BY <1>1, <1>2, ChainIs
<1>4. q \in ToSet(c) <=> p <= q
  <2>1. DOMAIN c = 1 .. L - p + 1
    BY <1>3, LenProperties
  <2>2. ASSUME q \in ToSet(c) PROVE p <= q
    <3>1. PICK n \in 1 .. L - p + 1 : c[n] = q
      BY <2>1, <2>2 DEF ToSet
    <3> QED BY <1>2, <1>3, <3>1
  <2>3. ASSUME p <= q PROVE q \in ToSet(c)
    <3>1. q - p + 1 \in 1 .. L - p + 1 /\ p + (q - p + 1) - 1 = q
      BY <1>2, <2>3
    <3>2. PICK n \in 1 .. L - p + 1 : n = q - p + 1
      BY <3>1
    <3>3. c[n] = q
      BY <1>3, <3>1, <3>2
    <3> QED BY <2>1, <3>3 DEF ToSet
  <2> QED BY <2>2, <2>3
<1>5. CASE p = q
  <2>1. ~(p < q)
    BY <1>2, <1>5
  <2> QED BY <1>1, <1>5, <2>1 DEF Earlier, Before
<1>6. CASE p # q
  <2>1. p <= q <=> p < q
    BY <1>2, <1>6
  <2> QED BY <1>1, <1>4, <1>6, <2>1 DEF Earlier, Before
<1> QED BY <1>5, <1>6

\* The next record: beyond the last, and before what is still to be seen.
LEMMA StandsOnNext ==
  ASSUME NEW h, Sound(h), NEW i, Scanning(h, i), NEW p \in 1 .. Len(h.pages), NEW s \in Nat,
         NEW next, next = [page |-> p, slot |-> s], Before(Place(i), next),
         \A m \in i.must : Before(Place(i), m) => m = next \/ Before(next, m)
  PROVE  IteratorSound(h, StandsOn(i, p, s))
<1> DEFINE n == Len(i.seen)
<1>1. /\ i \in IteratorSet /\ i.page \in 1 .. Len(h.pages) /\ Ordered(i.seen)
      /\ i.must \subseteq Live(h) /\ i.seen \in Seq(Rid) /\ n \in Nat /\ i.must \subseteq Rid
      /\ \A a \in 1 .. n : i.seen[a] = Place(i) \/ Before(i.seen[a], Place(i))
      /\ \A m \in i.must : m \in ToSet(i.seen) \/ Before(Place(i), m)
  BY IteratorFields DEF Scanning
<1>2. p \in Nat /\ next \in Rid /\ Place(i) \in Rid
  BY <1>1, HeapTypes, IteratorFields DEF Sound, Rid, Place
<1>3. PICK j : j = StandsOn(i, p, s)
  OBVIOUS
<1>4. /\ j \in IteratorSet /\ j.page = p /\ j.slot = s /\ j.valid = TRUE /\ j.must = i.must
      /\ j.seen = Append(i.seen, next)
  <2>1. next.page = p /\ next.slot = s
    OBVIOUS
  <2>2. MovedTo(i, j, next)
    BY <1>1, <1>2, <1>3, <2>1, StandsOnFields
  <2> QED BY <2>1, <2>2 DEF MovedTo
<1>5. /\ j.seen \in Seq(Rid) /\ Len(j.seen) = n + 1
      /\ \A a \in 1 .. n + 1 : j.seen[a] = IF a <= n THEN i.seen[a] ELSE next
  BY <1>1, <1>2, <1>4, AppendProperties
<1>6. \A a \in 1 .. n : i.seen[a] \in Rid /\ j.seen[a] = i.seen[a] /\ Before(i.seen[a], next)
  <2>1. ASSUME NEW a \in 1 .. n PROVE i.seen[a] \in Rid /\ j.seen[a] = i.seen[a]
    <3>1. a \in 1 .. n + 1 /\ a <= n
      BY <1>1
    <3>2. i.seen[a] \in Rid
      BY <1>1, ElementOfSeq
    <3> QED BY <1>5, <3>1, <3>2
  <2>2. ASSUME NEW a \in 1 .. n PROVE Before(i.seen[a], next)
    <3>1. CASE i.seen[a] = Place(i)
      BY <3>1
    <3>2. CASE Before(i.seen[a], Place(i))
      BY <1>2, <2>1, <3>2, BeforeOrder
    <3> QED BY <1>1, <3>1, <3>2
  <2> QED BY <2>1, <2>2
<1>7. j.seen[n + 1] = next /\ \A a \in 1 .. n + 1 : a \in 1 .. n \/ a = n + 1
  BY <1>1, <1>5, SMTT(30)
<1>8. Ordered(j.seen)
  <2>1. ASSUME NEW a \in 1 .. n + 1, NEW b \in 1 .. n + 1, a < b PROVE Before(j.seen[a], j.seen[b])
    <3>1. a \in 1 .. n
      BY <1>1, <2>1
    <3>2. CASE b \in 1 .. n
      BY <1>1, <1>6, <2>1, <3>1, <3>2 DEF Ordered
    <3>3. CASE b = n + 1
      BY <1>6, <1>7, <3>1, <3>3
    <3> QED BY <1>7, <3>2, <3>3
  <2> QED BY <1>5, <2>1 DEF Ordered
<1>9. Place(j) = next
  BY <1>4 DEF Place
<1>10. ASSUME NEW m \in j.must PROVE m \in ToSet(j.seen) \/ Before(Place(j), m)
  <2>1. CASE m \in ToSet(i.seen)
    <3>1. PICK a \in 1 .. n : i.seen[a] = m
      BY <1>1, <2>1, SeenSet
    <3>2. a \in 1 .. n + 1 /\ j.seen[a] = m
      BY <1>1, <1>6, <3>1
    <3> QED BY <1>5, <3>2, SeenSet
  <2>2. CASE m = next
    <3>1. n + 1 \in 1 .. Len(j.seen)
      BY <1>1, <1>5
    <3> QED BY <1>5, <1>7, <2>2, <3>1, SeenSet
  <2>3. CASE Before(next, m)
    BY <1>9, <2>3
  <2> QED BY <1>1, <1>4, <2>1, <2>2, <2>3
<1>11. ASSUME NEW a \in 1 .. Len(j.seen) PROVE j.seen[a] = Place(j) \/ Before(j.seen[a], Place(j))
  BY <1>5, <1>6, <1>7, <1>9
<1>12. SeenOn(h, j)
  <2>1. ASSUME NEW a \in 1 .. n + 1 PROVE j.seen[a].page \in 1 .. Len(h.pages)
    <3>1. CASE a \in 1 .. n
      <4>1. i.seen[a].page \in 1 .. Len(h.pages)
        BY <3>1 DEF Scanning, SeenOn
      <4> QED BY <1>6, <3>1, <4>1
    <3>2. CASE a = n + 1
      <4>1. next.page = p
        OBVIOUS
      <4> QED BY <1>7, <3>2, <4>1
    <3> QED BY <1>7, <3>1, <3>2
  <2> QED BY <1>5, <2>1 DEF SeenOn
<1>13. Scanning(h, j)
  BY <1>1, <1>4, <1>8, <1>10, <1>11, <1>12 DEF Scanning
<1> QED BY <1>3, <1>4, <1>13 DEF IteratorSound

LEMMA NextSlotsAre ==
  ASSUME NEW h, Sound(h), NEW p \in 1 .. Len(h.pages), NEW s \in Nat
  PROVE  /\ NextSlots(h.pages[p], s) \subseteq Nat
         /\ \A k \in NextSlots(h.pages[p], s) : k > s /\ [page |-> p, slot |-> k] \in Live(h)
         /\ \A m \in Live(h) : m.page = p /\ m.slot > s => m.slot \in NextSlots(h.pages[p], s)
<1>1. h \in HeapSet /\ Len(h.pages) \in Nat
  BY HeapTypes DEF Sound
<1>2. h.pages[p] \in Page /\ SoundPage(h.pages[p])
  BY HeapTypes DEF Sound, Chained
<1>3. LiveSlots(h.pages[p]) \subseteq Nat
  BY <1>2, PageFacts DEF Holds
<1>4. \A m \in Live(h) : m.page = p => m.slot \in LiveSlots(h.pages[p])
  BY <1>1, LiveIs DEF Holds
<1>5. ASSUME NEW k \in LiveSlots(h.pages[p]) PROVE [page |-> p, slot |-> k] \in Live(h)
  <2>1. /\ h.pages[p].slots \in Contents /\ Len(h.pages[p].slots) <= Capacity
        /\ k \in DOMAIN h.pages[p].slots
    BY <1>2 DEF SoundPage, Page, LiveSlots
  <2>2. k \in 1 .. Capacity
    BY <2>1, SlotsAre, SizesAssumption
  <2>3. PICK x : x = [page |-> p, slot |-> k]
    OBVIOUS
  <2>4. x.page = p /\ x.slot = k /\ x \in Rid
    BY <1>1, <2>2, <2>3 DEF Rid
  <2> QED BY <1>1, <2>2, <2>3, <2>4, LiveIs DEF Holds
<1> QED BY <1>3, <1>4, <1>5 DEF NextSlots

\* An advance goes to the next record after the iterator, or there is none.
LEMMA AdvanceTo ==
  ASSUME NEW h, Sound(h), Enough(borrowed), NEW i \in IteratorSet, i.page \in 1 .. Len(h.pages),
         NEW j, j = AdvanceToNextRecord(h, i)
  PROVE  \/ j = Ended(i) /\ \A m \in Live(h) : ~Before(Place(i), m)
         \/ \E next \in Live(h) :
              /\ j = StandsOn(i, next.page, next.slot) /\ Before(Place(i), next)
              /\ \A m \in Live(h) : Before(Place(i), m) => m = next \/ Before(next, m)
<1> DEFINE L       == Len(h.pages)
           here    == NextSlots(h.pages[i.page], i.slot)
           rest    == Tail(ChainFrom(h, i.page))
           blocked == {n \in DOMAIN rest : ~CanFetch(h, rest[n], borrowed)}
           found   == {n \in DOMAIN rest : /\ NextSlots(h.pages[rest[n]], 0) # {}
                                           /\ \A b \in blocked : n < b}
<1>1. L \in Nat /\ i.slot \in Nat /\ h \in HeapSet
  BY IteratorFields, HeapTypes DEF Sound
<1>2. DOMAIN rest = 1 .. L - i.page /\ \A n \in 1 .. L - i.page : rest[n] = i.page + n
  BY <1>1, ChainRest
<1>3. Place(i) = [page |-> i.page, slot |-> i.slot]
  BY DEF Place
<1>4. j = IF here # {} THEN StandsOn(i, i.page, Min(here))
          ELSE IF found = {} THEN Ended(i)
          ELSE StandsOn(i, rest[Min(found)], Min(NextSlots(h.pages[rest[Min(found)]], 0)))
  BY DEF AdvanceToNextRecord
<1>5. \A m \in Live(h) : /\ m \in Rid /\ m.page \in 1 .. L /\ m.slot \in Nat /\ m.slot > 0
                         /\ m = [page |-> m.page, slot |-> m.slot]
                         /\ Before(Place(i), m) <=>
                              i.page < m.page \/ (i.page = m.page /\ i.slot < m.slot)
  BY <1>1, <1>3, LiveIs, RidIs DEF Before
<1>6. CASE here # {}
  <2>1. here \subseteq Nat /\ \A k \in here : k > i.slot /\ [page |-> i.page, slot |-> k] \in Live(h)
    BY <1>1, NextSlotsAre
  <2>2. Min(here) \in here /\ \A k \in here : Min(here) <= k
    <3> HIDE DEF here
    <3> QED BY <1>6, <2>1, MinIsLeast
  <2>3. PICK s, next : s = Min(here) /\ next = [page |-> i.page, slot |-> s]
    OBVIOUS
  <2>4. s \in Nat /\ s > i.slot /\ next \in Live(h) /\ \A k \in here : s <= k
    BY <2>1, <2>2, <2>3
  <2>5. next.page = i.page /\ next.slot = s
    BY <2>3
  <2>6. Before(Place(i), next)
    BY <1>1, <1>5, <2>4, <2>5
  <2>7. ASSUME NEW m \in Live(h), Before(Place(i), m) PROVE m = next \/ Before(next, m)
    <3>1. CASE i.page < m.page
      BY <2>5, <3>1 DEF Before
    <3>2. CASE i.page = m.page /\ i.slot < m.slot
      <4>1. m.slot \in here
        BY <1>1, <1>5, <3>2, NextSlotsAre
      <4>2. s <= m.slot
        BY <2>4, <4>1
      <4>3. CASE s = m.slot
        BY <1>5, <2>3, <3>2, <4>3
      <4>4. CASE s # m.slot
        BY <1>5, <2>4, <2>5, <3>2, <4>2, <4>4 DEF Before
      <4> QED BY <4>3, <4>4
    <3> QED BY <1>5, <2>7, <3>1, <3>2
  <2>8. j = StandsOn(i, next.page, next.slot)
    <3> HIDE DEF here
    <3> QED BY <1>4, <1>6, <2>3, <2>5
  <2> QED BY <2>4, <2>6, <2>7, <2>8
<1>7. \A m \in Live(h) : here = {} /\ Before(Place(i), m) =>
                          m.page - i.page \in 1 .. L - i.page /\ i.page < m.page
                          /\ i.page + (m.page - i.page) = m.page
  <2> SUFFICES ASSUME NEW m \in Live(h), here = {}, Before(Place(i), m)
               PROVE  i.page < m.page
    BY <1>1, <1>5
  <2>1. i.page = m.page /\ i.slot < m.slot => m.slot \in here
    BY <1>1, <1>5, NextSlotsAre
  <2> QED BY <1>5, <2>1
<1>8. blocked = {}
  <2>1. ASSUME NEW n \in DOMAIN rest PROVE CanFetch(h, rest[n], borrowed)
    <3>1. rest[n] \in 1 .. L
      BY <1>1, <1>2, SMTT(30)
    <3> HIDE DEF rest
    <3> QED BY <1>1, <3>1, HeapTypes, FrameToSpare
  <2> HIDE DEF rest
  <2> QED BY <2>1
<1>9. found = {n \in 1 .. L - i.page : NextSlots(h.pages[i.page + n], 0) # {}}
  <2> HIDE DEF rest, blocked
  <2> QED BY <1>2, <1>8
<1>10. CASE here = {} /\ found = {}
  <2>1. ASSUME NEW m \in Live(h), Before(Place(i), m) PROVE FALSE
    <3>1. m.page - i.page \in 1 .. L - i.page /\ i.page + (m.page - i.page) = m.page
      BY <1>7, <1>10, <2>1
    <3>2. m.slot \in NextSlots(h.pages[m.page], 0)
      BY <1>5, NextSlotsAre
    <3>3. m.page - i.page \in found
      BY <1>9, <3>1, <3>2
    <3> QED BY <1>10, <3>3
  <2>2. j = Ended(i)
    <3> HIDE DEF here, found
    <3> QED BY <1>4, <1>10
  <2> QED BY <2>1, <2>2
<1>11. CASE here = {} /\ found # {}
  <2>1. found \subseteq Nat
    BY <1>9
  <2>2. Min(found) \in found /\ \A k \in found : Min(found) <= k
    <3> HIDE DEF found
    <3> QED BY <1>11, <2>1, MinIsLeast
  <2>3. PICK n : n = Min(found)
    OBVIOUS
  <2>4. n \in 1 .. L - i.page /\ NextSlots(h.pages[i.page + n], 0) # {} /\ \A k \in found : n <= k
    BY <1>9, <2>2, <2>3
  <2>5. PICK p \in 1 .. L : p = i.page + n
    BY <1>1, <2>4
  <2>6. PICK S : S = NextSlots(h.pages[p], 0)
    OBVIOUS
  <2>7. S # {} /\ S \subseteq Nat /\ \A k \in S : k > 0 /\ [page |-> p, slot |-> k] \in Live(h)
    BY <2>4, <2>5, <2>6, NextSlotsAre
  <2>8. Min(S) \in S /\ \A k \in S : Min(S) <= k
    BY <2>7, MinIsLeast
  <2>9. PICK s, next : s = Min(S) /\ next = [page |-> p, slot |-> s]
    OBVIOUS
  <2>10. s \in Nat /\ next.page = p /\ next.slot = s /\ next \in Live(h) /\ \A k \in S : s <= k
    BY <2>7, <2>8, <2>9
  <2>11. Before(Place(i), next)
    BY <1>5, <2>4, <2>5, <2>10
  <2>12. ASSUME NEW m \in Live(h), Before(Place(i), m) PROVE m = next \/ Before(next, m)
    <3>1. m.page - i.page \in 1 .. L - i.page /\ i.page + (m.page - i.page) = m.page
      BY <1>7, <1>11, <2>12
    <3>2. m.slot \in NextSlots(h.pages[m.page], 0)
      BY <1>5, NextSlotsAre
    <3>3. m.page - i.page \in found
      BY <1>9, <3>1, <3>2
    <3>4. n <= m.page - i.page /\ m.page \in Nat
      <4>1. PICK k : k = m.page - i.page
        OBVIOUS
      <4>2. n <= k
        BY <2>4, <3>3, <4>1
      <4>3. m.page \in Nat
        BY <1>1, <1>5
      <4> QED BY <4>1, <4>2, <4>3
    <3>5. p <= m.page
      BY <1>1, <2>4, <2>5, <3>4
    <3>6. CASE p < m.page
      BY <2>10, <3>6 DEF Before
    <3>7. CASE p = m.page
      <4>1. s <= m.slot
        BY <2>6, <2>10, <3>2, <3>7
      <4>2. CASE s = m.slot
        BY <1>5, <2>9, <3>7, <4>2
      <4>3. CASE s # m.slot
        BY <1>5, <2>10, <3>7, <4>1, <4>3 DEF Before
      <4> QED BY <4>2, <4>3
    <3> QED BY <3>4, <3>5, <3>6, <3>7
  <2>13. rest[Min(found)] = p
    <3> HIDE DEF rest, found
    <3> QED BY <1>2, <2>3, <2>4, <2>5
  <2>14. j = StandsOn(i, next.page, next.slot)
    <3> HIDE DEF rest, found, here
    <3> QED BY <1>4, <1>11, <2>6, <2>9, <2>10, <2>13
  <2> QED BY <2>10, <2>11, <2>12, <2>14
<1> QED BY <1>6, <1>10, <1>11

LEMMA AdvanceKeeps ==
  ASSUME NEW h, Sound(h), Enough(borrowed), NEW i, Scanning(h, i)
  PROVE  IteratorSound(h, AdvanceToNextRecord(h, i))
<1>1. /\ i \in IteratorSet /\ i.page \in 1 .. Len(h.pages) /\ i.must \subseteq Live(h)
      /\ Ordered(i.seen) /\ \A m \in i.must : m \in ToSet(i.seen) \/ Before(Place(i), m)
  BY DEF Scanning
<1>2. PICK j : j = AdvanceToNextRecord(h, i)
  OBVIOUS
<1>3. CASE j = Ended(i) /\ \A m \in Live(h) : ~Before(Place(i), m)
  <2>1. /\ j \in IteratorSet /\ j.page = INVALID_PAGE_ID /\ j.valid = FALSE /\ j.must = i.must
        /\ j.seen = i.seen
    BY <1>1, <1>3, EndedFields
  <2>2. \A m \in i.must : m \in ToSet(i.seen)
    BY <1>1, <1>3
  <2>3. SeenOn(h, j)
    <3>1. SeenOn(h, i)
      BY DEF Scanning
    <3> QED BY <2>1, <3>1 DEF SeenOn
  <2>4. Finished(h, j)
    BY <1>1, <2>1, <2>2, <2>3 DEF Finished
  <2> QED BY <1>2, <2>1, <2>4 DEF IteratorSound
<1>4. ASSUME NEW next \in Live(h), j = StandsOn(i, next.page, next.slot), Before(Place(i), next),
             \A m \in Live(h) : Before(Place(i), m) => m = next \/ Before(next, m)
      PROVE  IteratorSound(h, j)
  <2>1. /\ next.page \in 1 .. Len(h.pages) /\ next.slot \in Nat
        /\ next = [page |-> next.page, slot |-> next.slot]
    BY LiveIs, RidIs DEF Sound
  <2>2. PICK p \in 1 .. Len(h.pages), s \in Nat : p = next.page /\ s = next.slot
    BY <2>1
  <2>3. j = StandsOn(i, p, s) /\ next = [page |-> p, slot |-> s]
    BY <1>4, <2>1, <2>2
  <2>4. \A m \in i.must : Before(Place(i), m) => m = next \/ Before(next, m)
    BY <1>1, <1>4
  <2> QED BY <1>4, <2>3, <2>4, StandsOnNext
<1> QED BY <1>1, <1>2, <1>3, <1>4, AdvanceTo
-----------------------------------------------------------------------------
(* Another HeapFile over the same pages. *)

LEMMA WalkedIs ==
  ASSUME Sound(heap), Enough(Pinned)
  PROVE  /\ Walked = ChainFrom(heap, 1) /\ Walked \in Seq(Nat) /\ Len(Walked) = Len(heap.pages)
         /\ \A n \in 1 .. Len(heap.pages) : Walked[n] = n
<1>1. PICK h, L : h = heap /\ L = Len(h.pages)
  OBVIOUS
<1>2. L \in Nat /\ 1 \in 1 .. L /\ h \in HeapSet
  BY <1>1, HeapTypes DEF Sound, Chained
<1>3. PICK c : c = ChainFrom(h, 1)
  OBVIOUS
<1>4. c \in Seq(Nat) /\ Len(c) = L /\ \A n \in 1 .. L : c[n] = n
  <2>1. c \in Seq(Nat) /\ Len(c) = L - 1 + 1 /\ \A n \in 1 .. L - 1 + 1 : c[n] = 1 + n - 1
    <3>1. PICK p \in 1 .. L : p = 1
      BY <1>2
    <3>2. c = ChainFrom(h, p) /\ Sound(h)
      BY <1>1, <1>3, <3>1
    <3>3. c \in Seq(Nat) /\ Len(c) = L - p + 1 /\ \A n \in 1 .. L - p + 1 : c[n] = p + n - 1
      BY <1>1, <3>2, ChainIs
    <3> QED BY <3>1, <3>3
  <2> QED BY <1>2, <2>1
<1>5. {n \in DOMAIN c : ~CanFetch(h, c[n], Pinned)} = {}
  <2>1. DOMAIN c = 1 .. L
    BY <1>4, LenProperties
  <2>2. \A n \in DOMAIN c : c[n] \in DOMAIN h.pages
    BY <1>1, <1>2, <1>4, <2>1, HeapTypes
  <2> QED BY <2>2, FrameToSpare
<1>6. Walked = c
  BY <1>1, <1>3, <1>5 DEF Walked
<1> QED BY <1>1, <1>3, <1>4, <1>6

\* The directory that a walk finds.
ListedIn(h, w) ==
  LET listed[n \in 0 .. Len(w)] ==
        IF n = 0 THEN <<>>
        ELSE IF HasSpaceFor(h.pages[w[n]], SpaceHint) THEN Append(listed[n - 1], w[n])
        ELSE listed[n - 1]
  IN  listed[Len(w)]

LEMMA ListedWalk ==
  ASSUME NEW h, Sound(h), NEW w, w \in Seq(Nat), Len(w) = Len(h.pages),
         \A n \in 1 .. Len(h.pages) : w[n] = n
  PROVE  Listing(ListedIn(h, w), Len(h.pages))
<1> DEFINE L == Len(w)
           F(f) == [n \in 0 .. L |->
                      IF n = 0 THEN <<>>
                      ELSE IF HasSpaceFor(h.pages[w[n]], SpaceHint) THEN Append(f[n - 1], w[n])
                      ELSE f[n - 1]]
           g == CHOOSE f : f = F(f)
           step == [n \in 1 .. L |-> [d \in Seq(Nat) |->
                      IF HasSpaceFor(h.pages[w[n]], SpaceHint) THEN Append(d, w[n]) ELSE d]]
<1>1. L \in Nat /\ \A n \in 1 .. L : w[n] = n
  BY HeapTypes DEF Sound
<1>2. PICK f : RunOf(L, Seq(Nat), <<>>, step, f)
  <2>1. <<>> \in Seq(Nat)
    OBVIOUS
  <2>2. Passes(L, Seq(Nat), step)
    <3>1. ASSUME NEW n \in 1 .. L, NEW d \in Seq(Nat)
          PROVE  (IF HasSpaceFor(h.pages[w[n]], SpaceHint) THEN Append(d, w[n]) ELSE d) \in Seq(Nat)
      <4>1. w[n] \in Nat
        BY <1>1
      <4> QED BY <4>1, AppendProperties
    <3> QED BY <3>1 DEF Passes
  <2> HIDE DEF step
  <2> QED BY <1>1, <2>1, <2>2, LoopRuns
<1>3. f = F(f)
  <2>1. ASSUME NEW n \in 1 .. L
        PROVE  f[n] = IF HasSpaceFor(h.pages[w[n]], SpaceHint) THEN Append(f[n - 1], w[n]) ELSE f[n - 1]
    <3>1. n - 1 \in 0 .. L
      BY <1>1
    <3>2. f[n - 1] \in Seq(Nat)
      BY <1>2, <3>1 DEF RunOf
    <3>3. f[n] = step[n][f[n - 1]]
      BY <1>2 DEF RunOf
    <3> QED BY <3>2, <3>3
  <2>2. f[0] = <<>> /\ f = [n \in 0 .. L |-> f[n]]
    BY <1>2 DEF RunOf
  <2>3. \A n \in 0 .. L : n = 0 \/ n \in 1 .. L
    BY <1>1
  <2>4. \A n \in 0 .. L : f[n] = IF n = 0 THEN <<>>
                                 ELSE IF HasSpaceFor(h.pages[w[n]], SpaceHint)
                                 THEN Append(f[n - 1], w[n]) ELSE f[n - 1]
    BY <2>1, <2>2, <2>3
  <2> QED BY <2>2, <2>4
<1>4. g = F(g)
  <2> HIDE DEF F
  <2> QED BY <1>3
<1>5. \A n \in 0 .. L : g[n] = IF n = 0 THEN <<>>
                               ELSE IF HasSpaceFor(h.pages[w[n]], SpaceHint)
                               THEN Append(g[n - 1], w[n]) ELSE g[n - 1]
  <2> HIDE DEF g
  <2> QED BY <1>4
<1>6. Listing(g[L], Len(h.pages))
  <2> HIDE DEF g, F
  <2> DEFINE U == {n \in 0 .. L : ~Listing(g[n], n)}
  <2>1. U = {}
    <3> SUFFICES ASSUME U # {} PROVE FALSE
      OBVIOUS
    <3>1. U \subseteq Nat
      OBVIOUS
    <3>2. PICK m \in U : \A k \in U : m <= k
      <4> HIDE DEF U
      <4> QED BY <3>1, LeastNatural
    <3>3. m \in 0 .. L /\ ~Listing(g[m], m)
      BY <3>2
    <3>4. Listing(<<>>, 0)
      <4>1. <<>> \in Seq(Nat) /\ Len(<<>>) = 0
        OBVIOUS
      <4> QED BY <4>1 DEF Listing
    <3>5. m # 0
      BY <1>1, <1>5, <3>3, <3>4
    <3>6. m \in 1 .. L /\ m - 1 \in 0 .. L /\ ~(m <= m - 1) /\ w[m] = m
      BY <1>1, <3>3, <3>5
    <3>7. PICK k \in Nat, n \in Nat : k = m - 1 /\ n = m
      BY <3>6
    <3>8. Listing(g[k], k)
      BY <3>2, <3>6, <3>7
    <3>9. PICK d : d = g[k]
      OBVIOUS
    <3>10. \A i \in 1 .. Len(d) : d[i] \in 1 .. k
      BY <3>8, <3>9 DEF Listing
    <3>11. k <= n /\ n \in 1 .. n /\ \A i \in 1 .. Len(d) : d[i] # n
      BY <3>6, <3>7, <3>10
    <3>12. Listing(Append(d, n), n)
      BY <3>8, <3>9, <3>11, AppendListing
    <3>13. Listing(d, n)
      <4>1. Listing(d, k)
        BY <3>8, <3>9
      <4>2. \A i \in 1 .. Len(d) : d[i] \in 1 .. n
        BY <3>10, <3>11
      <4> QED BY <4>1, <4>2 DEF Listing
    <3>14. g[m] = Append(d, n) \/ g[m] = d
      BY <1>5, <3>3, <3>5, <3>6, <3>7, <3>9
    <3> QED BY <3>3, <3>7, <3>12, <3>13, <3>14
  <2>2. L \in 0 .. L
    BY <1>1
  <2> QED BY <2>1, <2>2
<1>7. ListedIn(h, w) = g[L]
  BY DEF ListedIn
<1> QED BY <1>6, <1>7

LEMMA ReopenResult ==
  ASSUME Sound(heap), Enough(Pinned), Reopen
  PROVE  Sound(heap') /\ Same(heap, heap') /\ heap'.pages = heap.pages
<1>1. PICK h, w : h = heap /\ w = Walked
  OBVIOUS
<1>2. /\ w = ChainFrom(h, 1) /\ w \in Seq(Nat) /\ Len(w) = Len(h.pages)
      /\ \A n \in 1 .. Len(h.pages) : w[n] = n
  BY <1>1, WalkedIs
<1>3. /\ h \in HeapSet /\ Len(h.pages) \in Nat /\ Len(h.pages) >= 1
      /\ h.last_page_id = Len(h.pages) /\ h.page_count = Len(h.pages)
      /\ h.record_count = Cardinality(Live(h))
  BY <1>1, HeapTypes DEF Sound, Chained, Counted
<1>4. PICK d : /\ Listing(d, Len(h.pages))
               /\ heap' = [h EXCEPT
                    !.last_page_id = IF Len(w) = Len(ChainFrom(h, 1)) THEN Last(w) ELSE 1,
                    !.page_count = Len(w),
                    !.record_count = Cardinality({rid \in Live(h) : rid.page \in ToSet(w)}),
                    !.pages_with_space = d]
  <2>1. Listing(ListedIn(h, w), Len(h.pages))
    BY <1>1, <1>2, ListedWalk
  <2>2. heap' = [h EXCEPT
                    !.last_page_id = IF Len(w) = Len(ChainFrom(h, 1)) THEN Last(w) ELSE 1,
                    !.page_count = Len(w),
                    !.record_count = Cardinality({rid \in Live(h) : rid.page \in ToSet(w)}),
                    !.pages_with_space = ListedIn(h, w)]
    BY <1>1 DEF Reopen, ListedIn
  <2> QED BY <2>1, <2>2
<1>5. Last(w) = Len(h.pages)
  BY <1>2, <1>3 DEF Last
<1>6. {rid \in Live(h) : rid.page \in ToSet(w)} = Live(h)
  <2>1. \A p \in 1 .. Len(h.pages) : p \in ToSet(w)
    BY <1>2, LenProperties DEF ToSet
  <2>2. \A rid \in Live(h) : rid.page \in 1 .. Len(h.pages)
    BY <1>3, LiveIs
  <2> QED BY <2>1, <2>2
<1>7. heap' = WithWalk(h, h.last_page_id, h.record_count, h.page_count, d)
  BY <1>2, <1>3, <1>4, <1>5, <1>6 DEF WithWalk
<1>8. heap' = HeapOf(h.pages, h.last_page_id, h.record_count, h.page_count, d)
  BY <1>3, <1>7, FieldsAfterReopen
<1>9. PICK g : g = [h EXCEPT !.pages_with_space = d]
  OBVIOUS
<1>10. heap' = g
  BY <1>3, <1>8, <1>9, HeapFields
<1>11. Sound(g) /\ Same(h, g) /\ g.pages = h.pages
  BY <1>1, <1>4, <1>9, DirectoryChanged
<1> QED BY <1>1, <1>10, <1>11
-----------------------------------------------------------------------------
(* The invariant. *)

\* Clients leave the calls the two frames they need, also when the iterator moves on.
PinsSound ==
  /\ IsFiniteSet(borrowed) /\ borrowed \subseteq 1 .. Len(heap.pages)
  /\ LeavesSpare(borrowed, IF it.valid THEN 1 ELSE 0)

HeapInv ==
  /\ Sound(heap) /\ Len(heap.pages) <= MaxPages
  /\ IteratorSound(heap, it)
  /\ PinsSound

\* How one call changes the records: it adds some, takes one away or updates one.
Moves(h, g) ==
  \/ Keeps(h, g)
  \/ \E rid \in Rid : Loses(h, g, rid)
  \/ \E rid \in Live(h), r \in Record : Updates(h, g, rid, r)

LEMMA FramesLeft ==
  ASSUME HeapInv, SpareFrames >= 2
  PROVE  Enough(Pinned) /\ Enough(borrowed)
<1>1. /\ IsFiniteSet(borrowed) /\ Cardinality(borrowed) \in Nat
      /\ Cardinality(borrowed) + (IF it.valid THEN 1 ELSE 0) + SpareFrames <= PoolSize
  BY FS_CardinalityType DEF HeapInv, PinsSound, LeavesSpare
<1>2. PoolSize \in Nat /\ SpareFrames \in Nat
  BY PoolAssumption
<1>3. Enough(borrowed)
  BY <1>1, <1>2 DEF Enough
<1>4. CASE it.valid
  <2>1. CASE it.page = INVALID_PAGE_ID
    <3>1. Pinned = borrowed
      BY <2>1 DEF Pinned
    <3> QED BY <1>3, <3>1
  <2>2. CASE it.page # INVALID_PAGE_ID
    <3>1. Pinned = borrowed \cup {it.page}
      BY <2>2 DEF Pinned
    <3>2. /\ IsFiniteSet(borrowed \cup {it.page})
          /\ Cardinality(borrowed \cup {it.page}) \in {Cardinality(borrowed), Cardinality(borrowed) + 1}
      BY <1>1, FS_AddElement
    <3>3. PICK n \in Nat, m \in Nat : n = Cardinality(borrowed) /\ m = Cardinality(borrowed \cup {it.page})
      BY <1>1, <3>2
    <3>4. n + 1 + SpareFrames <= PoolSize /\ m <= n + 1
      BY <1>1, <1>4, <3>2, <3>3
    <3>5. m + 2 <= PoolSize
      BY <1>2, <3>4
    <3> QED BY <1>3, <3>1, <3>2, <3>3, <3>5 DEF Enough
  <2> QED BY <2>1, <2>2
<1>5. CASE ~it.valid
  <2>1. it.page = INVALID_PAGE_ID
    BY <1>5 DEF HeapInv, IteratorSound, Finished
  <2>2. Pinned = borrowed
    BY <2>1 DEF Pinned
  <2> QED BY <1>3, <2>2
<1> QED BY <1>4, <1>5

LEMMA NoIteratorFields ==
  /\ NoIterator.valid = FALSE /\ (\A h : Finished(h, NoIterator)) /\ NoIterator \in IteratorSet
  /\ NoIterator.page = INVALID_PAGE_ID
<1>1. /\ NoIterator.valid = FALSE /\ NoIterator.page = INVALID_PAGE_ID
      /\ NoIterator.seen = <<>> /\ NoIterator.must = {}
  BY DEF NoIterator
<1>2. <<>> \in Seq(Rid) /\ Len(<<>>) = 0
  OBVIOUS
<1>3. NoIterator \in IteratorSet
  BY <1>2 DEF NoIterator, IteratorSet
<1>4. ASSUME NEW h PROVE Finished(h, NoIterator)
  BY <1>1, <1>2, <1>3 DEF Finished, Ordered, SeenOn
<1> QED BY <1>1, <1>3, <1>4

\* A call that ends with heap g, whatever it did to its records.
LEMMA BecomesKeeps ==
  ASSUME HeapInv, NEW g, Sound(g), Len(heap.pages) <= Len(g.pages), Becomes(g)
  PROVE  HeapInv' /\ heap' = g
<1>1. heap' = g /\ borrowed' = borrowed /\ Len(g.pages) <= MaxPages
  BY DEF Becomes
<1>2. Sound(heap)' /\ (Len(heap.pages) <= MaxPages)'
  BY <1>1
<1>3. Len(g.pages) \in Nat /\ Len(heap.pages) \in Nat
  BY HeapTypes DEF Sound, HeapInv
<1>4. IteratorSound(g, it') /\ it'.valid = it.valid
  <2>1. CASE it.valid
    <3>1. it' = [it EXCEPT !.must = (it.must \cap Live(g)) \cup Ahead(g, it)]
      BY <2>1 DEF Becomes
    <3>2. it \in IteratorSet /\ Scanning(heap, it)
      BY <2>1 DEF HeapInv, IteratorSound, Scanning
    <3>3. PICK M : M = (it.must \cap Live(g)) \cup Ahead(g, it)
      OBVIOUS
    <3>4. it' = [page |-> it.page, slot |-> it.slot, valid |-> it.valid, seen |-> it.seen, must |-> M]
      <4>1. PICK i : i = it
        OBVIOUS
      <4>2. i = [page |-> i.page, slot |-> i.slot, valid |-> i.valid, seen |-> i.seen, must |-> i.must]
        BY <3>2, <4>1, IteratorFields
      <4>3. [i EXCEPT !.must = M]
              = [page |-> i.page, slot |-> i.slot, valid |-> i.valid, seen |-> i.seen, must |-> M]
        BY <4>2
      <4>4. it' = [i EXCEPT !.must = M]
        BY <3>1, <3>3, <4>1
      <4> QED BY <4>1, <4>3, <4>4
    <3>5. it'.page \in 1 .. Len(g.pages) /\ it.page \in 1 .. Len(g.pages)
      BY <1>3, <3>2, <3>4 DEF Scanning
    <3>6. M \subseteq Live(g) /\ M \subseteq Rid
      <4>1. Live(g) \subseteq Rid
        BY LiveIs DEF Sound
      <4>2. M \subseteq Live(g)
        BY <3>3 DEF Ahead
      <4> QED BY <4>1, <4>2
    <3>7. it' \in IteratorSet /\ Place(it') = Place(it)
      BY <3>2, <3>4, <3>6, IteratorFields DEF IteratorSet, Place
    <3>8. it'.seen = it.seen /\ it'.must = M /\ it'.valid = it.valid
      BY <3>4
    <3>9. ASSUME NEW m \in M PROVE m \in ToSet(it.seen) \/ Before(Place(it), m)
      <4>1. CASE m \in it.must
        BY <3>2, <4>1 DEF Scanning
      <4>2. CASE m \in Ahead(g, it)
        <5>1. PICK a : a = Place(it)
          OBVIOUS
        <5>2. m \in Live(g) /\ Earlier(g, a, m) /\ a.page \in 1 .. Len(g.pages)
          BY <3>5, <4>2, <5>1 DEF Ahead, Place
        <5>3. m.page \in 1 .. Len(g.pages)
          BY <5>2, LiveIs DEF Sound
        <5>4. Before(a, m)
          BY <5>2, <5>3, EarlierIs
        <5> QED BY <5>1, <5>4
      <4> QED BY <3>3, <4>1, <4>2
    <3>10. SeenOn(g, it')
      <4>1. \A a \in 1 .. Len(it.seen) : it.seen[a].page \in 1 .. Len(heap.pages)
        BY <3>2 DEF Scanning, SeenOn
      <4> QED BY <1>3, <3>8, <4>1 DEF SeenOn
    <3>11. Scanning(g, it')
      BY <3>2, <3>5, <3>6, <3>7, <3>8, <3>9, <3>10 DEF Scanning
    <3> QED BY <2>1, <3>8, <3>11 DEF IteratorSound
  <2>2. CASE ~it.valid
    <3>1. it' = NoIterator
      BY <2>2 DEF Becomes
    <3>2. it.valid = FALSE
      BY <2>2 DEF HeapInv, IteratorSound, Finished, IteratorSet
    <3> QED BY <3>1, <3>2, NoIteratorFields DEF IteratorSound
  <2> QED BY <2>1, <2>2
<1>5. IteratorSound(heap, it)'
  BY <1>1, <1>4 DEF IteratorSound, Scanning, Finished, SeenOn, Live, Holds, LiveSlots
<1>6. PinsSound'
  <2>1. IsFiniteSet(borrowed) /\ borrowed \subseteq 1 .. Len(g.pages)
    BY <1>3 DEF HeapInv, PinsSound
  <2>2. LeavesSpare(borrowed', IF it'.valid THEN 1 ELSE 0)
    BY <1>1, <1>4 DEF HeapInv, PinsSound
  <2> QED BY <1>1, <2>1, <2>2 DEF PinsSound, LeavesSpare
<1> QED BY <1>1, <1>2, <1>5, <1>6 DEF HeapInv

-----------------------------------------------------------------------------
(* The calls. *)

LEMMA InsertCallKeeps ==
  ASSUME HeapInv, SpareFrames >= 2, NEW r \in Record, InsertCall(r)
  PROVE  HeapInv' /\ Moves(heap, heap')
<1>1. PICK g : g = Insert(heap, r, Pinned)
  OBVIOUS
<1>2. Enough(Pinned) /\ Sound(heap) /\ Becomes(g)
  BY <1>1, FramesLeft DEF HeapInv, InsertCall
<1>3. Sound(g) /\ Keeps(heap, g)
  <2>1. PICK h, pinned : h = heap /\ pinned = Pinned
    OBVIOUS
  <2>2. Sound(g) /\ (Same(h, g) \/ Adds(h, g, r))
    BY <1>1, <1>2, <2>1, InsertResult
  <2> QED BY <2>1, <2>2 DEF Same, Adds
<1>4. HeapInv' /\ heap' = g
  BY <1>2, <1>3, BecomesKeeps DEF Keeps
<1> QED BY <1>3, <1>4 DEF Moves

LEMMA DeleteCallKeeps ==
  ASSUME HeapInv, SpareFrames >= 2, NEW rid \in Known, DeleteCall(rid)
  PROVE  HeapInv' /\ Moves(heap, heap')
<1>1. PICK g : g = Delete(heap, rid, Pinned)
  OBVIOUS
<1>2. Enough(Pinned) /\ Sound(heap) /\ Becomes(g)
  BY <1>1, FramesLeft DEF HeapInv, DeleteCall
<1>3. rid \in Rid /\ rid.page \in 1 .. Len(heap.pages)
  BY <1>2, HeapTypes, SizesAssumption DEF Known, Sound, Rid
<1>4. Sound(g) /\ SameSize(heap, g) /\ Loses(heap, g, rid)
  <2>1. PICK h, pinned : h = heap /\ pinned = Pinned
    OBVIOUS
  <2>2. Enough(pinned) /\ Sound(h) /\ rid.page \in 1 .. Len(h.pages) /\ g = Delete(h, rid, pinned)
    BY <1>1, <1>2, <1>3, <2>1
  <2>3. Sound(g) /\ Keeps(g, h) /\ SameSize(h, g) /\ Live(g) = Live(h) \ {rid}
    BY <1>3, <2>2, DeleteResult
  <2> QED BY <2>1, <2>3 DEF Loses
<1>5. Len(heap.pages) <= Len(g.pages)
  BY <1>2, <1>4, HeapTypes DEF Sound, SameSize
<1>6. HeapInv' /\ heap' = g
  BY <1>2, <1>4, <1>5, BecomesKeeps
<1> QED BY <1>3, <1>4, <1>6 DEF Moves

LEMMA UpdateCallKeeps ==
  ASSUME HeapInv, SpareFrames >= 2, ~StaleUpdates, NEW rid \in Known, NEW r \in Record, UpdateCall(rid, r)
  PROVE  HeapInv' /\ Moves(heap, heap')
<1>1. PICK g : g = Update(heap, rid, r, Pinned)
  OBVIOUS
<1>2. Enough(Pinned) /\ Sound(heap) /\ Becomes(g) /\ rid \in Live(heap)
  BY <1>1, FramesLeft DEF HeapInv, UpdateCall
<1>3. Sound(g) /\ Updates(heap, g, rid, r)
  <2>1. PICK h, pinned : h = heap /\ pinned = Pinned
    OBVIOUS
  <2>2. Enough(pinned) /\ Sound(h) /\ rid \in Live(h) /\ g = Update(h, rid, r, pinned)
    BY <1>1, <1>2, <2>1
  <2>3. Sound(g) /\ Updates(h, g, rid, r)
    BY <2>2, UpdateResult
  <2> QED BY <2>1, <2>3
<1>4. Len(heap.pages) <= Len(g.pages)
  <2>1. Len(heap.pages) \in Nat
    BY <1>2, HeapTypes DEF Sound
  <2>2. \A f : SameSize(heap, f) /\ (Same(f, g) \/ Adds(f, g, r)) => Len(heap.pages) <= Len(g.pages)
    BY <2>1 DEF SameSize, Same, Adds, Keeps
  <2>3. SameSize(heap, g) => Len(heap.pages) <= Len(g.pages)
    BY <2>1 DEF SameSize
  <2> QED BY <1>3, <2>2, <2>3 DEF Updates
<1>5. HeapInv' /\ heap' = g
  BY <1>2, <1>3, <1>4, BecomesKeeps
<1> QED BY <1>2, <1>3, <1>5 DEF Moves

LEMMA BulkInsertCallKeeps ==
  ASSUME HeapInv, SpareFrames >= 2, NEW n \in Nat, NEW batch \in [1 .. n -> Record], BulkInsertCall(batch)
  PROVE  HeapInv' /\ Moves(heap, heap')
<1>1. PICK b : b = Bulk(heap, batch, Pinned)
  OBVIOUS
<1>2. Enough(Pinned) /\ Sound(heap) /\ Becomes(b.heap)
  BY <1>1, FramesLeft DEF HeapInv, BulkInsertCall
<1>3. Sound(b.heap) /\ Keeps(heap, b.heap)
  <2>1. PICK h : h = heap
    OBVIOUS
  <2>2. Sound(b.heap) /\ Keeps(h, b.heap)
    BY <1>1, <1>2, <2>1, BulkResult
  <2> QED BY <2>1, <2>2
<1>4. PICK g : g = b.heap
  OBVIOUS
<1>5. HeapInv' /\ heap' = g
  BY <1>2, <1>3, <1>4, BecomesKeeps DEF Keeps
<1> QED BY <1>3, <1>4, <1>5 DEF Moves
\* Calls that leave the heap alone.
LEMMA HeapUnchanged ==
  ASSUME HeapInv, UNCHANGED heap, IteratorSound(heap, it'), PinsSound'
  PROVE  HeapInv' /\ Moves(heap, heap')
<1>1. Sound(heap) /\ Same(heap, heap)
  BY SameItself DEF HeapInv
<1>2. IteratorSound(heap, it)'
  <2>1. IteratorSound(heap', it')
    OBVIOUS
  <2> QED BY <2>1 DEF IteratorSound, Scanning, Finished, SeenOn, Live, Holds, LiveSlots
<1>3. Sound(heap)' /\ (Len(heap.pages) <= MaxPages)'
  BY <1>1 DEF HeapInv
<1>4. HeapInv'
  BY <1>2, <1>3 DEF HeapInv
<1> QED BY <1>1, <1>4 DEF Moves, Same

LEMMA GetRecordCallKeeps ==
  ASSUME HeapInv, NEW rid \in Known, GetRecordCall(rid)
  PROVE  HeapInv' /\ Moves(heap, heap')
<1>1. /\ borrowed' = borrowed \cup {rid.page} /\ heap' = heap /\ it' = it
      /\ LeavesSpare(borrowed \cup {rid.page}, IF it.valid THEN 1 ELSE 0)
  BY DEF GetRecordCall, MayPin
<1>2. rid.page \in 1 .. Len(heap.pages)
  BY HeapTypes DEF HeapInv, Sound, Known
<1>3. IsFiniteSet(borrowed \cup {rid.page}) /\ borrowed \cup {rid.page} \subseteq 1 .. Len(heap.pages)
  BY <1>2, FS_AddElement DEF HeapInv, PinsSound
<1>4. PinsSound'
  BY <1>1, <1>3 DEF PinsSound, LeavesSpare
<1>5. IteratorSound(heap, it')
  BY <1>1 DEF HeapInv
<1> QED BY <1>1, <1>4, <1>5, HeapUnchanged

LEMMA UnpinPageKeeps ==
  ASSUME HeapInv, NEW p \in PageIds, UnpinPage(p)
  PROVE  HeapInv' /\ Moves(heap, heap')
<1>1. borrowed' = borrowed \ {p} /\ p \in borrowed /\ heap' = heap /\ it' = it
  BY DEF UnpinPage
<1>2. /\ IsFiniteSet(borrowed) /\ borrowed \subseteq 1 .. Len(heap.pages)
      /\ Cardinality(borrowed) + (IF it.valid THEN 1 ELSE 0) + SpareFrames <= PoolSize
  BY DEF HeapInv, PinsSound, LeavesSpare
<1>3. IsFiniteSet(borrowed') /\ Cardinality(borrowed') = Cardinality(borrowed) - 1
  BY <1>1, <1>2, FS_RemoveElement
<1>4. Cardinality(borrowed') + (IF it.valid THEN 1 ELSE 0) + SpareFrames <= PoolSize
  <2>1. Cardinality(borrowed) \in Nat /\ PoolSize \in Nat /\ SpareFrames \in Nat
    BY <1>2, FS_CardinalityType, PoolAssumption
  <2> QED BY <1>2, <1>3, <2>1
<1>5. PinsSound'
  BY <1>1, <1>2, <1>3, <1>4 DEF PinsSound, LeavesSpare
<1>6. IteratorSound(heap, it')
  BY <1>1 DEF HeapInv
<1> QED BY <1>1, <1>5, <1>6, HeapUnchanged

LEMMA IteratorNextKeeps ==
  ASSUME HeapInv, SpareFrames >= 2, IteratorNext
  PROVE  HeapInv' /\ Moves(heap, heap')
<1>1. it.valid /\ it' = AdvanceToNextRecord(heap, it) /\ heap' = heap /\ borrowed' = borrowed
  BY DEF IteratorNext
<1>2. Sound(heap) /\ Scanning(heap, it) /\ Enough(borrowed)
  BY <1>1, FramesLeft DEF HeapInv, IteratorSound
<1>3. IteratorSound(heap, it')
  <2>1. PICK h, i : h = heap /\ i = it
    OBVIOUS
  <2>2. IteratorSound(h, AdvanceToNextRecord(h, i))
    BY <1>2, <2>1, AdvanceKeeps
  <2> QED BY <1>1, <2>1, <2>2
<1>4. PinsSound'
  <2>1. /\ IsFiniteSet(borrowed) /\ borrowed \subseteq 1 .. Len(heap.pages)
        /\ Cardinality(borrowed) + 1 + SpareFrames <= PoolSize
    BY <1>1 DEF HeapInv, PinsSound, LeavesSpare
  <2>2. Cardinality(borrowed) \in Nat /\ PoolSize \in Nat /\ SpareFrames \in Nat
    BY <2>1, FS_CardinalityType, PoolAssumption
  <2>3. Cardinality(borrowed) + (IF it'.valid THEN 1 ELSE 0) + SpareFrames <= PoolSize
    BY <2>1, <2>2
  <2> QED BY <1>1, <2>1, <2>3 DEF PinsSound, LeavesSpare
<1> QED BY <1>1, <1>3, <1>4, HeapUnchanged

LEMMA BeginKeeps ==
  ASSUME HeapInv, SpareFrames >= 2, Begin
  PROVE  HeapInv' /\ Moves(heap, heap')
<1>1. /\ it' = AdvanceToNextRecord(heap, [NoIterator EXCEPT !.page = 1, !.must = Live(heap)])
      /\ heap' = heap /\ borrowed' = borrowed /\ LeavesSpare(borrowed, 1)
  BY DEF Begin
<1>2. PICK h, i : h = heap /\ i = [NoIterator EXCEPT !.page = 1, !.must = Live(h)]
  OBVIOUS
<1>3. Sound(h) /\ Enough(borrowed) /\ h \in HeapSet /\ Len(h.pages) \in Nat /\ Len(h.pages) >= 1
  BY <1>2, FramesLeft, HeapTypes DEF HeapInv, Sound, Chained
<1>4. i = [page |-> 1, slot |-> 0, valid |-> FALSE, seen |-> <<>>, must |-> Live(h)]
  BY <1>2 DEF NoIterator
<1>5. Scanning(h, i)
  <2>1. i.page = 1 /\ i.slot = 0 /\ i.seen = <<>> /\ i.must = Live(h) /\ Len(<<>>) = 0
    BY <1>4
  <2>2. Live(h) \subseteq Rid
    BY <1>3, LiveIs
  <2>3. i \in IteratorSet
    <3>1. <<>> \in Seq(Rid) /\ FALSE \in BOOLEAN /\ 1 \in Nat /\ 0 \in Nat
      OBVIOUS
    <3> QED BY <1>4, <2>2, <3>1 DEF IteratorSet
  <2>4. ASSUME NEW m \in i.must PROVE Before(Place(i), m)
    <3>1. m.page \in 1 .. Len(h.pages) /\ m.slot \in 1 .. Capacity
      BY <1>3, <2>1, LiveIs
    <3>2. Place(i).page = 1 /\ Place(i).slot = 0
      BY <2>1 DEF Place
    <3> QED BY <1>3, <3>1, <3>2, SizesAssumption DEF Before
  <2>5. i.page \in 1 .. Len(h.pages) /\ Ordered(i.seen) /\ SeenOn(h, i)
    BY <1>3, <2>1 DEF Ordered, SeenOn
  <2> QED BY <2>1, <2>3, <2>4, <2>5 DEF Scanning
<1>6. IteratorSound(h, AdvanceToNextRecord(h, i))
  BY <1>3, <1>5, AdvanceKeeps
<1>7. IteratorSound(heap, it')
  BY <1>1, <1>2, <1>6
<1>8. PinsSound'
  <2>1. /\ IsFiniteSet(borrowed) /\ borrowed \subseteq 1 .. Len(heap.pages)
        /\ Cardinality(borrowed) + 1 + SpareFrames <= PoolSize
    BY <1>1 DEF HeapInv, PinsSound, LeavesSpare
  <2>2. Cardinality(borrowed) \in Nat /\ PoolSize \in Nat /\ SpareFrames \in Nat
    BY <2>1, FS_CardinalityType, PoolAssumption
  <2>3. Cardinality(borrowed) + (IF it'.valid THEN 1 ELSE 0) + SpareFrames <= PoolSize
    BY <2>1, <2>2
  <2> QED BY <1>1, <2>1, <2>3 DEF PinsSound, LeavesSpare
<1> QED BY <1>1, <1>7, <1>8, HeapUnchanged

LEMMA IteratorDroppedKeeps ==
  ASSUME HeapInv, IteratorDropped
  PROVE  HeapInv' /\ Moves(heap, heap')
<1>1. /\ borrowed' = borrowed \cup ({it.page} \ {INVALID_PAGE_ID})
      /\ it' = NoIterator /\ heap' = heap
  BY DEF IteratorDropped
<1>2. /\ IsFiniteSet(borrowed) /\ borrowed \subseteq 1 .. Len(heap.pages)
      /\ Cardinality(borrowed) + (IF it.valid THEN 1 ELSE 0) + SpareFrames <= PoolSize
      /\ Cardinality(borrowed) \in Nat /\ PoolSize \in Nat /\ SpareFrames \in Nat
  BY FS_CardinalityType, PoolAssumption DEF HeapInv, PinsSound, LeavesSpare
<1>3. /\ IsFiniteSet(borrowed') /\ borrowed' \subseteq 1 .. Len(heap.pages)
      /\ Cardinality(borrowed') + 0 + SpareFrames <= PoolSize
  <2>1. CASE it.valid
    <3>1. it.page \in 1 .. Len(heap.pages)
      BY <2>1 DEF HeapInv, IteratorSound, Scanning
    <3>2. borrowed' = borrowed \cup {it.page}
      <4>1. it.page # INVALID_PAGE_ID
        BY <3>1, InvalidAssumption
      <4> QED BY <1>1, <4>1
    <3>3. /\ IsFiniteSet(borrowed \cup {it.page})
          /\ Cardinality(borrowed \cup {it.page}) \in {Cardinality(borrowed), Cardinality(borrowed) + 1}
      BY <1>2, FS_AddElement
    <3>4. PICK n \in Nat, m \in Nat : n = Cardinality(borrowed) /\ m = Cardinality(borrowed \cup {it.page})
      BY <1>2, <3>3
    <3>5. n + 1 + SpareFrames <= PoolSize /\ m <= n + 1
      BY <1>2, <2>1, <3>3, <3>4
    <3>6. m + 0 + SpareFrames <= PoolSize
      BY <1>2, <3>5
    <3> QED BY <1>2, <3>1, <3>2, <3>3, <3>4, <3>6
  <2>2. CASE ~it.valid
    <3>1. borrowed' = borrowed
      BY <1>1, <2>2 DEF HeapInv, IteratorSound, Finished
    <3> QED BY <1>2, <2>2, <3>1
  <2> QED BY <2>1, <2>2
<1>4. PinsSound'
  BY <1>1, <1>3, NoIteratorFields DEF PinsSound, LeavesSpare
<1>5. IteratorSound(heap, it')
  BY <1>1, NoIteratorFields DEF IteratorSound
<1> QED BY <1>1, <1>4, <1>5, HeapUnchanged

LEMMA ReopenKeeps ==
  ASSUME HeapInv, SpareFrames >= 2, Reopen
  PROVE  HeapInv' /\ Moves(heap, heap')
<1>1. it' = it /\ borrowed' = borrowed
  BY DEF Reopen
<1>2. Sound(heap') /\ Same(heap, heap') /\ heap'.pages = heap.pages
  BY FramesLeft, ReopenResult DEF HeapInv
<1>3. IteratorSound(heap, it)'
  BY <1>1, <1>2 DEF HeapInv, IteratorSound, Scanning, Finished, SeenOn, Live, Holds, LiveSlots
<1>4. PinsSound'
  BY <1>1, <1>2 DEF HeapInv, PinsSound, LeavesSpare
<1>5. Sound(heap)' /\ (Len(heap.pages) <= MaxPages)'
  BY <1>2 DEF HeapInv
<1> QED BY <1>2, <1>3, <1>4, <1>5 DEF HeapInv, Moves, Same

LEMMA NextKeeps ==
  ASSUME HeapInv, SpareFrames >= 2, ~StaleUpdates, [Next]_vars
  PROVE  HeapInv' /\ Moves(heap, heap')
<1>1. CASE UNCHANGED vars
  <2>1. heap' = heap /\ it' = it /\ borrowed' = borrowed
    BY <1>1 DEF vars
  <2>2. IteratorSound(heap, it') /\ PinsSound'
    BY <2>1 DEF HeapInv, PinsSound, LeavesSpare
  <2> QED BY <2>1, <2>2, HeapUnchanged
<1>2. ASSUME NEW r \in Record, InsertCall(r) PROVE HeapInv' /\ Moves(heap, heap')
  BY <1>2, InsertCallKeeps
<1>3. ASSUME NEW r \in Record, NEW rid \in Known, UpdateCall(rid, r) PROVE HeapInv' /\ Moves(heap, heap')
  BY <1>3, UpdateCallKeeps
<1>4. ASSUME NEW rid \in Known, DeleteCall(rid) PROVE HeapInv' /\ Moves(heap, heap')
  BY <1>4, DeleteCallKeeps
<1>5. ASSUME NEW rid \in Known, GetRecordCall(rid) PROVE HeapInv' /\ Moves(heap, heap')
  BY <1>5, GetRecordCallKeeps
<1>6. ASSUME NEW n \in 2 .. MaxBatch, NEW batch \in [1 .. n -> Record], BulkInsertCall(batch)
      PROVE  HeapInv' /\ Moves(heap, heap')
  <2>1. n \in Nat
    BY BoundAssumption
  <2> QED BY <1>6, <2>1, BulkInsertCallKeeps
<1>7. ASSUME NEW p \in PageIds, UnpinPage(p) PROVE HeapInv' /\ Moves(heap, heap')
  BY <1>7, UnpinPageKeeps
<1>8. CASE Begin
  BY <1>8, BeginKeeps
<1>9. CASE IteratorNext
  BY <1>9, IteratorNextKeeps
<1>10. CASE IteratorDropped
  BY <1>10, IteratorDroppedKeeps
<1>11. CASE Reopen
  BY <1>11, ReopenKeeps
<1> QED BY <1>1, <1>2, <1>3, <1>4, <1>5, <1>6, <1>7, <1>8, <1>9, <1>10, <1>11 DEF Next

\* A new heap file is sound.
LEMMA InitIsSound ==
  ASSUME Init
  PROVE  Sound(heap)
<1>1. /\ heap.pages = <<EmptyPage>> /\ heap.last_page_id = 1 /\ heap.record_count = 0
      /\ heap.page_count = 1 /\ heap.pages_with_space = <<1>> /\ it = NoIterator /\ borrowed = {}
  BY DEF Init
<1>2. /\ <<EmptyPage>> \in Seq(Page) /\ Len(<<EmptyPage>>) = 1 /\ <<EmptyPage>>[1] = EmptyPage
      /\ SoundPage(EmptyPage) /\ EmptyPage.next = INVALID_PAGE_ID /\ EmptyPage.slots = <<>>
  <2>1. <<>> \in Contents /\ Len(<<>>) = 0
    BY DEF Contents
  <2>2. EmptyPage \in Page /\ SoundPage(EmptyPage) /\ EmptyPage.next = INVALID_PAGE_ID /\ EmptyPage.slots = <<>>
    BY <2>1, SizesAssumption DEF EmptyPage, SoundPage, Page
  <2> QED BY <2>2
<1>3. <<1>> \in Seq(Nat) /\ Len(<<1>>) = 1 /\ <<1>>[1] = 1
  OBVIOUS
<1>4. heap \in HeapSet
  BY <1>2, <1>3 DEF Init, HeapSet
<1>5. Chained(heap)
  BY <1>1, <1>2 DEF Chained
<1>6. Live(heap) = {}
  <2>1. ASSUME NEW x \in Live(heap) PROVE FALSE
    <3>1. x.page \in 1 .. Len(heap.pages) /\ Holds(heap.pages[x.page], x.slot)
      BY <1>4, LiveIs
    <3>2. heap.pages[x.page] = EmptyPage
      BY <1>1, <1>2, <3>1
    <3> QED BY <1>2, <3>1, <3>2 DEF Holds, LiveSlots
  <2> QED BY <2>1
<1>7. Counted(heap)
  BY <1>1, <1>6, FS_EmptySet DEF Counted
<1>8. Listing(<<1>>, 1)
  BY <1>3 DEF Listing
<1> QED BY <1>1, <1>2, <1>4, <1>5, <1>7, <1>8 DEF Sound

LEMMA InitKeeps ==
  ASSUME Init, SpareFrames <= PoolSize
  PROVE  HeapInv
<1>1. heap.pages = <<EmptyPage>> /\ Len(<<EmptyPage>>) = 1 /\ it = NoIterator /\ borrowed = {}
  BY DEF Init
<1>2. Sound(heap)
  BY InitIsSound
<1>3. IteratorSound(heap, it)
  BY <1>1, NoIteratorFields DEF IteratorSound
<1>4. PinsSound
  <2>1. IsFiniteSet({}) /\ Cardinality({}) = 0
    BY FS_EmptySet
  <2> QED BY <1>1, <2>1, NoIteratorFields, PoolAssumption DEF PinsSound, LeavesSpare
<1> QED BY <1>1, <1>2, <1>3, <1>4, BoundAssumption DEF HeapInv

\* What the theorems ask of the clients: two frames stay free for the calls, and no
\* record is updated that is gone.
CarefulClients == SpareFrames \in 2 .. PoolSize /\ ~StaleUpdates

LEMMA CarefulFacts ==
  CarefulClients => SpareFrames >= 2 /\ SpareFrames <= PoolSize /\ ~StaleUpdates
BY PoolAssumption DEF CarefulClients

LEMMA Invariance == ASSUME CarefulClients PROVE Spec => []HeapInv
<1>1. Init => HeapInv
  BY CarefulFacts, InitKeeps
<1>2. HeapInv /\ [Next]_vars => HeapInv'
  BY CarefulFacts, NextKeeps
<1> QED BY <1>1, <1>2, PTL DEF Spec

-----------------------------------------------------------------------------
(* What the invariant says. *)

\* Every variable in its type.
LEMMA SoundTypes ==
  ASSUME Sound(heap), Len(heap.pages) <= MaxPages, borrowed \subseteq 1 .. Len(heap.pages),
         it.page \in 1 .. Len(heap.pages) \cup {INVALID_PAGE_ID}, it.valid \in BOOLEAN
  PROVE  TypeOK
<1>1. /\ Sound(heap) /\ heap \in HeapSet /\ Len(heap.pages) <= MaxPages /\ MaxPages \in Nat
      /\ Len(heap.pages) \in Nat /\ DOMAIN heap.pages = 1 .. Len(heap.pages) /\ Chained(heap)
      /\ Listing(heap.pages_with_space, Len(heap.pages))
  BY HeapTypes, BoundAssumption DEF Sound
<1>2. ASSUME NEW i \in DOMAIN heap.pages
      PROVE  heap.pages[i] \in [slots : Seq(Record \cup {NoRecord}), free : Int,
                                next : PageIds \cup {INVALID_PAGE_ID}]
  <2>1. /\ heap.pages[i] \in Page
        /\ heap.pages[i].next = IF i = Len(heap.pages) THEN INVALID_PAGE_ID ELSE i + 1
    BY <1>1 DEF Chained, SoundPage
  <2>2. heap.pages[i].next \in PageIds \cup {INVALID_PAGE_ID}
    BY <1>1, <2>1 DEF PageIds
  <2> QED BY <2>1, <2>2 DEF Page, Contents
<1>3. heap.last_page_id \in DOMAIN heap.pages /\ heap.record_count \in Nat /\ heap.page_count \in Nat
  BY <1>1, HeapTypes DEF Chained
<1>4. heap.pages_with_space \in Seq(PageIds)
  <2>1. PICK d, L : d = heap.pages_with_space /\ L = Len(heap.pages)
    OBVIOUS
  <2>2. d \in Seq(Nat) /\ Len(d) \in Nat /\ \A i \in 1 .. Len(d) : d[i] \in 1 .. L
    BY <1>1, <2>1, LenProperties DEF Listing
  <2>3. d = [i \in 1 .. Len(d) |-> d[i]]
    BY <2>2, LenProperties
  <2>4. \A i \in 1 .. Len(d) : d[i] \in PageIds
    <3>1. 1 .. L \subseteq PageIds
      BY <1>1, <2>1 DEF PageIds
    <3> QED BY <2>2, <3>1
  <2>5. d \in [1 .. Len(d) -> PageIds]
    BY <2>3, <2>4
  <2> QED BY <2>1, <2>2, <2>5, SequenceOf
<1>5. it.page \in PageIds \cup {INVALID_PAGE_ID} /\ it.valid \in BOOLEAN /\ borrowed \subseteq PageIds
  BY <1>1 DEF PageIds
<1> QED BY <1>1, <1>2, <1>3, <1>4, <1>5 DEF TypeOK

LEMMA InvTypeOK == HeapInv => TypeOK
<1> SUFFICES ASSUME HeapInv PROVE TypeOK
  OBVIOUS
<1>1. it.page \in 1 .. Len(heap.pages) \cup {INVALID_PAGE_ID} /\ it.valid \in BOOLEAN
  <2>1. CASE it.valid
    BY <2>1 DEF HeapInv, IteratorSound, Scanning, IteratorSet
  <2>2. CASE ~it.valid
    BY <2>2 DEF HeapInv, IteratorSound, Finished, IteratorSet
  <2> QED BY <2>1, <2>2
<1> QED BY <1>1, SoundTypes DEF HeapInv, PinsSound

LEMMA InvBookkeepingExact == HeapInv => BookkeepingExact
<1> SUFFICES ASSUME HeapInv PROVE BookkeepingExact
  OBVIOUS
<1>1. PICK h, c, L : h = heap /\ c = ChainFrom(heap, 1) /\ L = Len(h.pages)
  OBVIOUS
<1>2. /\ Sound(h) /\ h \in HeapSet /\ L \in Nat /\ L >= 1 /\ DOMAIN h.pages = 1 .. L
      /\ h.last_page_id = L /\ h.page_count = L /\ h.record_count = Cardinality(Live(h))
      /\ Listing(h.pages_with_space, L)
  BY <1>1, HeapTypes DEF HeapInv, Sound, Chained, Counted
<1>3. c \in Seq(Nat) /\ Len(c) = L /\ \A n \in 1 .. L : c[n] = n
  <2>1. PICK p \in 1 .. L : p = 1
    BY <1>2
  <2>2. /\ ChainFrom(h, p) \in Seq(Nat) /\ Len(ChainFrom(h, p)) = Len(h.pages) - p + 1
        /\ \A n \in 1 .. Len(h.pages) - p + 1 : ChainFrom(h, p)[n] = p + n - 1
    BY <1>1, <1>2, ChainIs
  <2> QED BY <1>1, <1>2, <2>1, <2>2
<1>4. ToSet(c) = 1 .. L
  <2>1. DOMAIN c = 1 .. L
    BY <1>3, LenProperties
  <2> QED BY <1>3, <2>1 DEF ToSet
<1>5. Last(c) = L
  BY <1>2, <1>3 DEF Last
<1>6. ChainComplete
  BY <1>1, <1>2, <1>3, <1>4, <1>5 DEF ChainComplete
<1>7. CountExact
  BY <1>1, <1>2 DEF CountExact
<1>8. DirectorySound
  <2>1. PICK d : d = h.pages_with_space
    OBVIOUS
  <2>2. /\ DOMAIN d = 1 .. Len(d) /\ \A i \in 1 .. Len(d) : d[i] \in 1 .. L
        /\ \A i, j \in 1 .. Len(d) : d[i] = d[j] => i = j
    BY <1>2, <2>1, LenProperties DEF Listing
  <2>3. ToSet(d) \subseteq ToSet(c)
    BY <1>4, <2>2 DEF ToSet
  <2> QED BY <1>1, <2>1, <2>2, <2>3 DEF DirectorySound
<1> QED BY <1>6, <1>7, <1>8 DEF BookkeepingExact

LEMMA InvScanOverRids == HeapInv => ScanOverRids
<1> SUFFICES ASSUME HeapInv PROVE ScanOverRids
  OBVIOUS
<1>1. /\ it \in IteratorSet /\ Ordered(it.seen) /\ (~it.valid => it.must \subseteq ToSet(it.seen))
      /\ SeenOn(heap, it)
  BY DEF HeapInv, IteratorSound, Scanning, Finished
<1>2. PICK h, s : h = heap /\ s = it.seen
  OBVIOUS
<1>3. /\ s \in Seq(Rid) /\ Len(s) \in Nat /\ DOMAIN s = 1 .. Len(s) /\ Sound(h)
      /\ \A a \in 1 .. Len(s) : s[a].page \in 1 .. Len(h.pages)
  BY <1>1, <1>2, IteratorFields, LenProperties DEF HeapInv, SeenOn
<1>4. ASSUME NEW a \in 1 .. Len(s), NEW b \in 1 .. Len(s), a < b PROVE Earlier(h, s[a], s[b])
  <2>1. Before(s[a], s[b])
    BY <1>1, <1>2, <1>4 DEF Ordered
  <2>2. s[a].page \in 1 .. Len(h.pages) /\ s[b].page \in 1 .. Len(h.pages)
    BY <1>3
  <2> QED BY <1>3, <2>1, <2>2, EarlierIs
<1> QED BY <1>1, <1>2, <1>3, <1>4 DEF ScanOverRids

\* Every record fits a page that is empty.
RecordsFit == \A s \in Sizes : s + SLOT_ENTRY_SIZE <= Capacity

LEMMA InvUpdateKeepsRecord ==
  ASSUME CarefulClients, RecordsFit, HeapInv
  PROVE  UpdateKeepsRecord
<1> SUFFICES ASSUME NEW rid \in Live(heap), NEW r \in Record
             PROVE  LET h == Update(heap, rid, r, Pinned)
                    IN  /\ Cardinality(Live(h)) = Cardinality(Live(heap))
                        /\ \E new \in Live(h) \ (Live(heap) \ {rid}) :
                             h.pages[new.page].slots[new.slot] = r
  BY DEF UpdateKeepsRecord
<1>1. PICK h, pinned, g : h = heap /\ pinned = Pinned /\ g = Update(h, rid, r, pinned)
  OBVIOUS
<1>2. Sound(h) /\ Enough(pinned) /\ rid \in Live(h)
  BY <1>1, CarefulFacts, FramesLeft DEF HeapInv
<1>3. Sound(g) /\ Updates(h, g, rid, r)
  BY <1>1, <1>2, UpdateResult
<1>4. r.size + SLOT_ENTRY_SIZE <= Capacity
  BY RecordSizes DEF RecordsFit
<1>5. IsFiniteSet(Live(h))
  BY <1>2 DEF Sound, Counted
<1>6. Cardinality(Live(g)) = Cardinality(Live(h)) /\ \E new \in Live(g) \ (Live(h) \ {rid}) : Rec(g, new) = r
  <2>1. CASE Replaces(h, g, rid, r)
    <3>1. Live(g) = Live(h) /\ Rec(g, rid) = r
      BY <1>2, <2>1 DEF Replaces
    <3> QED BY <1>2, <3>1
  <2>2. ASSUME NEW f, Loses(h, f, rid), Adds(f, g, r)
        PROVE  Cardinality(Live(g)) = Cardinality(Live(h)) /\ \E new \in Live(g) \ (Live(h) \ {rid}) : Rec(g, new) = r
    <3>1. Live(f) = Live(h) \ {rid}
      BY <2>2 DEF Loses
    <3>2. PICK new : new \notin Live(f) /\ Live(g) = Live(f) \cup {new} /\ Rec(g, new) = r
      BY <2>2 DEF Adds
    <3>3. IsFiniteSet(Live(f)) /\ Cardinality(Live(f)) = Cardinality(Live(h)) - 1
      BY <1>2, <1>5, <3>1, FS_RemoveElement
    <3>4. Cardinality(Live(g)) = Cardinality(Live(f)) + 1
      BY <3>2, <3>3, FS_AddElement
    <3>5. Cardinality(Live(g)) = Cardinality(Live(h))
      BY <1>5, <3>3, <3>4, FS_CardinalityType
    <3>6. new \in Live(g) \ (Live(h) \ {rid})
      BY <3>1, <3>2
    <3> QED BY <3>2, <3>5, <3>6
  <2> QED BY <1>3, <1>4, <2>1, <2>2 DEF Updates
<1> QED BY <1>1, <1>6 DEF Rec
-----------------------------------------------------------------------------
(* A heap of records. *)

RecordsOf(h) == [rid \in Live(h) |-> h.pages[rid.page].slots[rid.slot]]
HeapRids     == [page : PageIds, slot : 1 .. Capacity]

\* What a step of RecordHeap may make of the records f.
RecordStep(f, g) ==
  \/ g = f
  \/ /\ DOMAIN g \subseteq HeapRids /\ \A rid \in DOMAIN g : g[rid] \in Record
     /\ DOMAIN f \subseteq DOMAIN g /\ [x \in DOMAIN f |-> g[x]] = f
  \/ \E rid \in DOMAIN f :
       \/ g = [x \in DOMAIN f \ {rid} |-> f[x]]
       \/ \E r \in Record : \E new \in HeapRids \ (DOMAIN f \ {rid}) :
            g = [x \in (DOMAIN f \ {rid}) \cup {new} |-> IF x = new THEN r ELSE f[x]]

LEMMA RecordsAre ==
  ASSUME NEW h, Sound(h), Len(h.pages) <= MaxPages, NEW f, f = RecordsOf(h)
  PROVE  /\ f = [rid \in Live(h) |-> f[rid]] /\ DOMAIN f = Live(h) /\ Live(h) \subseteq HeapRids
         /\ \A rid \in Live(h) : f[rid] = Rec(h, rid) /\ f[rid] \in Record
<1>1. \A rid \in Live(h) : f[rid] = Rec(h, rid) /\ f[rid] \in Record
  BY LiveRecords DEF RecordsOf, Rec
<1>2. f = [rid \in Live(h) |-> f[rid]] /\ DOMAIN f = Live(h)
  BY DEF RecordsOf
<1>3. ASSUME NEW rid \in Live(h) PROVE rid \in HeapRids
  <2>1. h \in HeapSet /\ Len(h.pages) \in Nat /\ MaxPages \in Nat
    BY HeapTypes, BoundAssumption DEF Sound
  <2>2. rid \in Rid /\ rid.page \in 1 .. Len(h.pages) /\ rid.slot \in 1 .. Capacity
    BY <2>1, LiveIs
  <2>3. rid = [page |-> rid.page, slot |-> rid.slot] /\ rid.page \in 1 .. MaxPages
    BY <2>1, <2>2, RidIs
  <2> QED BY <2>2, <2>3 DEF HeapRids, PageIds
<1> QED BY <1>1, <1>2, <1>3

LEMMA MovesAreSteps ==
  ASSUME NEW h, Sound(h), Len(h.pages) <= MaxPages, NEW g, Sound(g), Len(g.pages) <= MaxPages,
         Moves(h, g), NEW a, a = RecordsOf(h), NEW b, b = RecordsOf(g)
  PROVE  RecordStep(a, b)
<1>1. /\ a = [rid \in Live(h) |-> a[rid]] /\ DOMAIN a = Live(h) /\ Live(h) \subseteq HeapRids
      /\ \A rid \in Live(h) : a[rid] = Rec(h, rid) /\ a[rid] \in Record
  BY RecordsAre
<1>2. /\ b = [rid \in Live(g) |-> b[rid]] /\ DOMAIN b = Live(g) /\ Live(g) \subseteq HeapRids
      /\ \A rid \in Live(g) : b[rid] = Rec(g, rid) /\ b[rid] \in Record
  BY RecordsAre
<1>3. CASE Keeps(h, g)
  <2>1. Live(h) \subseteq Live(g) /\ \A x \in Live(h) : b[x] = a[x]
    BY <1>1, <1>2, <1>3 DEF Keeps
  <2>2. [x \in DOMAIN a |-> b[x]] = a
    BY <1>1, <2>1
  <2> QED BY <1>1, <1>2, <2>1, <2>2 DEF RecordStep
<1>4. ASSUME NEW rid, Live(g) = Live(h) \ {rid}, \A x \in Live(g) : Rec(h, x) = Rec(g, x)
      PROVE  RecordStep(a, b)
  <2>1. \A x \in Live(g) : b[x] = a[x]
    BY <1>1, <1>2, <1>4
  <2>2. b = [x \in Live(g) |-> a[x]]
    BY <1>2, <2>1
  <2>3. CASE rid \in Live(h)
    BY <1>1, <1>4, <2>2, <2>3 DEF RecordStep
  <2>4. CASE rid \notin Live(h)
    <3>1. Live(g) = Live(h)
      BY <1>4, <2>4
    <3>2. b = a
      BY <1>1, <2>2, <3>1
    <3> QED BY <3>2 DEF RecordStep
  <2> QED BY <2>3, <2>4
<1>5. ASSUME NEW rid \in Rid, Loses(h, g, rid) PROVE RecordStep(a, b)
  BY <1>4, <1>5 DEF Loses, Keeps
<1>6. ASSUME NEW rid \in Live(h), NEW r \in Record, NEW new \in HeapRids \ (Live(h) \ {rid}),
             Live(g) = (Live(h) \ {rid}) \cup {new},
             \A x \in Live(g) : Rec(g, x) = IF x = new THEN r ELSE Rec(h, x)
      PROVE  RecordStep(a, b)
  <2>1. ASSUME NEW x \in Live(g) PROVE b[x] = IF x = new THEN r ELSE a[x]
    BY <1>1, <1>2, <1>6
  <2>2. b = [x \in (DOMAIN a \ {rid}) \cup {new} |-> IF x = new THEN r ELSE a[x]]
    BY <1>1, <1>2, <1>6, <2>1
  <2> QED BY <1>1, <1>6, <2>2 DEF RecordStep
<1>7. ASSUME NEW rid \in Live(h), NEW r \in Record, Replaces(h, g, rid, r) PROVE RecordStep(a, b)
  <2>1. Live(g) = (Live(h) \ {rid}) \cup {rid} /\ rid \in HeapRids \ (Live(h) \ {rid})
    BY <1>1, <1>7 DEF Replaces
  <2>2. \A x \in Live(g) : Rec(g, x) = IF x = rid THEN r ELSE Rec(h, x)
    BY <1>7 DEF Replaces
  <2> QED BY <1>6, <2>1, <2>2
<1>8. ASSUME NEW rid \in Live(h), NEW r \in Record, NEW f, Loses(h, f, rid), Same(f, g)
      PROVE  RecordStep(a, b)
  BY <1>4, <1>8 DEF Loses, Same, Keeps
<1>9. ASSUME NEW rid \in Live(h), NEW r \in Record, NEW f, Loses(h, f, rid), Adds(f, g, r)
      PROVE  RecordStep(a, b)
  <2>1. PICK new : new \notin Live(f) /\ Live(g) = Live(f) \cup {new} /\ Rec(g, new) = r
    BY <1>9 DEF Adds
  <2>2. Live(f) = Live(h) \ {rid} /\ new \in HeapRids
    BY <1>2, <1>9, <2>1 DEF Loses
  <2>3. \A x \in Live(f) : Rec(g, x) = Rec(f, x) /\ Rec(h, x) = Rec(f, x)
    BY <1>9 DEF Loses, Adds, Keeps
  <2>4. \A x \in Live(g) : Rec(g, x) = IF x = new THEN r ELSE Rec(h, x)
    BY <2>1, <2>3
  <2> QED BY <1>6, <2>1, <2>2, <2>4
<1>10. ASSUME NEW rid \in Live(h), NEW r \in Record, Updates(h, g, rid, r) PROVE RecordStep(a, b)
  BY <1>7, <1>8, <1>9, <1>10 DEF Updates
<1> QED BY <1>3, <1>5, <1>10 DEF Moves

LEMMA InitIsEmpty ==
  ASSUME Init, HeapInv
  PROVE  Heap!Init
<1>1. /\ heap \in HeapSet /\ heap.pages = <<EmptyPage>>
  BY DEF Init, HeapInv, Sound
<1>2. ASSUME NEW x \in Live(heap) PROVE FALSE
  <2>1. x.page \in 1 .. Len(heap.pages) /\ Holds(heap.pages[x.page], x.slot)
    BY <1>1, LiveIs
  <2>2. heap.pages[x.page] = EmptyPage /\ EmptyPage.slots = <<>>
    BY <1>1, <2>1 DEF EmptyPage
  <2> QED BY <2>1, <2>2 DEF Holds, LiveSlots
<1>3. Live(heap) = {}
  BY <1>2
<1> QED BY <1>3 DEF Heap!Init

LEMMA NextIsHeapStep ==
  ASSUME HeapInv, HeapInv', Moves(heap, heap')
  PROVE  [Heap!Next]_(RecordsOf(heap))
<1>1. PICK h, g, a, b : h = heap /\ g = heap' /\ a = RecordsOf(h) /\ b = RecordsOf(g)
  OBVIOUS
<1>2. Sound(h) /\ Len(h.pages) <= MaxPages
  BY <1>1 DEF HeapInv
<1>3. Sound(g) /\ Len(g.pages) <= MaxPages
  <2>1. Sound(heap)' /\ (Len(heap.pages) <= MaxPages)'
    BY DEF HeapInv
  <2>2. Sound(heap')
    BY <2>1 DEF Sound, HeapSet, Chained, Counted, Live, Holds, LiveSlots, Page, SoundPage
  <2> QED BY <1>1, <2>1, <2>2
<1>4. RecordStep(a, b)
  BY <1>1, <1>2, <1>3, MovesAreSteps
<1>5. /\ a = [rid \in Live(heap) |-> heap.pages[rid.page].slots[rid.slot]]
      /\ b = [rid \in Live(heap) |-> heap.pages[rid.page].slots[rid.slot]]'
  BY <1>1 DEF RecordsOf, Live, Holds, LiveSlots
<1>6. CASE b = a
  BY <1>5, <1>6 DEF RecordsOf
<1>7. CASE /\ DOMAIN b \subseteq HeapRids /\ \A rid \in DOMAIN b : b[rid] \in Record
           /\ DOMAIN a \subseteq DOMAIN b /\ [x \in DOMAIN a |-> b[x]] = a
  BY <1>5, <1>7 DEF Heap!Next, Heap!Insert, Heap!Only, HeapRids
<1>8. ASSUME NEW rid \in DOMAIN a, b = [x \in DOMAIN a \ {rid} |-> a[x]] PROVE Heap!Next
  BY <1>5, <1>8 DEF Heap!Next, Heap!Delete, Heap!Only
<1>9. ASSUME NEW rid \in DOMAIN a, NEW r \in Record, NEW new \in HeapRids \ (DOMAIN a \ {rid}),
             b = [x \in (DOMAIN a \ {rid}) \cup {new} |-> IF x = new THEN r ELSE a[x]]
      PROVE  Heap!Next
  <2> DEFINE A == [x \in Live(heap) |-> heap.pages[x.page].slots[x.slot]]
  <2>1. a = A /\ b = A'
    BY <1>5
  <2>2. rid \in DOMAIN A /\ new \in DOMAIN A' \cap HeapRids /\ new \notin DOMAIN A \ {rid}
    <3>1. new \in DOMAIN b
      BY <1>9
    <3> HIDE DEF A
    <3> QED BY <1>9, <2>1, <3>1
  <2>3. A' = [x \in (DOMAIN A \ {rid}) \cup {new} |-> IF x = new THEN r ELSE A[x]]
    <3> HIDE DEF A
    <3> QED BY <1>9, <2>1
  <2>4. Heap!Update(rid, r)
    BY <2>2, <2>3, Zenon DEF Heap!Update, HeapRids
  <2> QED BY <2>2, <2>4, Zenon DEF Heap!Next
<1> QED BY <1>4, <1>6, <1>7, <1>8, <1>9 DEF RecordStep

-----------------------------------------------------------------------------
(* What follows. *)

\* With any number of pages, records and frames, every call leaves the heap file, its
\* directory and its iterator in their types, and no counter falls below zero.
THEOREM TypeCorrect ==
  ASSUME CarefulClients
  PROVE  Spec => []TypeOK
BY Invariance, InvTypeOK, PTL

\* heap_file.h:29 and 205-206: every page allocated is on the chain, once, the counters
\* are what a walk of it would count, and the directory lists pages of the chain, each once.
THEOREM BookkeepingKept ==
  ASSUME CarefulClients
  PROVE  Spec => []BookkeepingExact
BY Invariance, InvBookkeepingExact, PTL

\* heap_file.h:59, "visiting every live slot": a scan goes over the ids in the order of the
\* chain and the slots, and by its end stood on every id that has been live since it lay
\* ahead, whatever was inserted, deleted or moved.  A record that UpdateRecord gives another
\* id meanwhile is returned twice, once or not at all, as its two ids are passed.
THEOREM ScansCoverRids ==
  ASSUME CarefulClients
  PROVE  Spec => []ScanOverRids
BY Invariance, InvScanOverRids, PTL

\* heap_file.h:152: an update neither loses a record nor keeps its old version, as long as
\* every record would fit an empty page.
THEOREM UpdatesKeepRecords ==
  ASSUME CarefulClients, RecordsFit
  PROVE  Spec => []UpdateKeepsRecord
BY Invariance, InvUpdateKeepsRecord, PTL

\* heap_file.h:28: the heap file is a heap of records under stable ids.
THEOREM HeapOfRecords ==
  ASSUME CarefulClients
  PROVE  Spec => HeapSpec
<1>1. Init /\ HeapInv => Heap!Init
  BY InitIsEmpty
<1>2. HeapInv /\ HeapInv' /\ [Next]_vars => [Heap!Next]_(RecordsOf(heap))
  BY CarefulFacts, NextKeeps, NextIsHeapStep
<1>3. Spec => Heap!Init /\ [][Heap!Next]_(RecordsOf(heap))
  BY <1>1, <1>2, Invariance, PTL DEF Spec
<1> QED BY <1>3, PTL DEF HeapSpec, Heap!Spec, RecordsOf

-----------------------------------------------------------------------------
(* The table scan: its iterators. *)

\* The iterator of a scan that stands on a record.
At(rid) == [page |-> rid.page, slot |-> rid.slot, valid |-> TRUE, seen |-> <<>>, must |-> {}]

Scans(h) == {NoIterator} \cup {At(rid) : rid \in Live(h)}

LEMMA AtFields ==
  ASSUME NEW h, Sound(h), NEW rid \in Live(h)
  PROVE  /\ At(rid) \in IteratorSet /\ At(rid).page = rid.page /\ At(rid).slot = rid.slot
         /\ At(rid).valid = TRUE /\ At(rid).seen = <<>> /\ At(rid).must = {}
         /\ Place(At(rid)) = rid /\ rid.page \in 1 .. Len(h.pages) /\ rid \in Rid
         /\ At(rid) # NoIterator
<1>1. /\ rid \in Rid /\ rid.page \in 1 .. Len(h.pages) /\ rid = [page |-> rid.page, slot |-> rid.slot]
      /\ rid.page \in Nat /\ rid.slot \in Nat
  BY LiveIs, RidIs DEF Sound
<1>2. <<>> \in Seq(Rid)
  OBVIOUS
<1>3. /\ At(rid).page = rid.page /\ At(rid).slot = rid.slot /\ At(rid).valid = TRUE
      /\ At(rid).seen = <<>> /\ At(rid).must = {}
  BY DEF At
<1>4. At(rid) \in IteratorSet
  BY <1>1, <1>2 DEF At, IteratorSet
<1>5. Place(At(rid)) = rid
  BY <1>1, <1>3 DEF Place
<1> QED BY <1>1, <1>3, <1>4, <1>5, NoIteratorFields

\* Where an iterator at a goes: to the next record, or to its end.
Follows(h, a, j) ==
  \/ j = NoIterator /\ \A m \in Live(h) : ~Before(a, m)
  \/ \E next \in Live(h) : /\ j = At(next) /\ Before(a, next)
                           /\ \A m \in Live(h) : Before(a, m) => m = next \/ Before(next, m)

LEMMA StepGoes ==
  ASSUME Sound(heap), Enough(borrowed), NEW i \in IteratorSet, i.page \in 1 .. Len(heap.pages),
         i.must = {}
  PROVE  Follows(heap, Place(i), Step(i))
<1>1. PICK h, j, e, f, t, o : /\ h = heap /\ j = AdvanceToNextRecord(h, i)
                               /\ e = <<>> /\ f = FALSE /\ t = TRUE /\ o = {}
  OBVIOUS
<1>2. Step(i) = [j EXCEPT !.seen = e]
  BY <1>1 DEF Step
<1>3. \/ j = Ended(i) /\ \A m \in Live(h) : ~Before(Place(i), m)
      \/ \E next \in Live(h) :
           /\ j = StandsOn(i, next.page, next.slot) /\ Before(Place(i), next)
           /\ \A m \in Live(h) : Before(Place(i), m) => m = next \/ Before(next, m)
  BY <1>1, AdvanceTo
<1>4. CASE j = Ended(i) /\ \A m \in Live(h) : ~Before(Place(i), m)
  <2>1. /\ j \in IteratorSet /\ j.page = INVALID_PAGE_ID /\ j.valid = FALSE /\ j.must = {} /\ j.slot = 0
    BY <1>4, EndedFields
  <2>2. j = [page |-> INVALID_PAGE_ID, slot |-> 0, valid |-> f, seen |-> j.seen, must |-> o]
    BY <1>1, <2>1, IteratorFields
  <2>3. [j EXCEPT !.seen = e]
          = [page |-> INVALID_PAGE_ID, slot |-> 0, valid |-> f, seen |-> e, must |-> o]
    BY <2>2
  <2>4. e = <<>> /\ f = FALSE /\ o = {}
    BY <1>1
  <2>5. Step(i) = NoIterator
    BY <1>2, <2>3, <2>4, Zenon DEF NoIterator
  <2>6. h = heap
    BY <1>1
  <2> QED BY <1>4, <2>5, <2>6, Zenon DEF Follows
<1>5. ASSUME NEW next \in Live(h), j = StandsOn(i, next.page, next.slot), Before(Place(i), next),
             \A m \in Live(h) : Before(Place(i), m) => m = next \/ Before(next, m)
      PROVE  Follows(heap, Place(i), Step(i))
  <2>1. next \in Rid
    BY <1>1, LiveIs DEF Sound
  <2>2. MovedTo(i, j, next)
    BY <1>5, <2>1, StandsOnFields
  <2>3. j \in IteratorSet /\ j.page = next.page /\ j.slot = next.slot /\ j.valid = TRUE /\ j.must = {}
    BY <2>2 DEF MovedTo
  <2>4. j = [page |-> next.page, slot |-> next.slot, valid |-> t, seen |-> j.seen, must |-> o]
    BY <1>1, <2>3, IteratorFields
  <2>5. [j EXCEPT !.seen = e]
          = [page |-> next.page, slot |-> next.slot, valid |-> t, seen |-> e, must |-> o]
    BY <2>4
  <2>6. Step(i) = At(next)
    <3>1. e = <<>> /\ t = TRUE /\ o = {}
      BY <1>1
    <3> QED BY <1>2, <2>5, <3>1, Zenon DEF At
  <2>7. h = heap
    BY <1>1
  <2> QED BY <1>5, <2>6, <2>7, Zenon DEF Follows
<1> QED BY <1>3, <1>4, <1>5

\* The iterators that a scan goes through from i on.
Walk(h, i, w, C) ==
  /\ C \in Nat /\ w \in [1 .. C + 1 -> Scans(h)] /\ w[1] = i
  /\ \A n \in 1 .. C : IF w[n].valid THEN Follows(h, Place(w[n]), w[n + 1])
                       ELSE w[n + 1] = NoIterator

LEMMA ScansAre ==
  ASSUME NEW h, Sound(h), NEW i \in Scans(h)
  PROVE  /\ i \in IteratorSet /\ i.valid \in BOOLEAN /\ i.must = {} /\ i.seen = <<>>
         /\ i.valid => Place(i) \in Live(h) /\ i = At(Place(i)) /\ i.page \in 1 .. Len(h.pages)
         /\ ~i.valid => i = NoIterator
<1>1. CASE i = NoIterator
  BY <1>1, NoIteratorFields DEF NoIterator
<1>2. ASSUME NEW rid \in Live(h), i = At(rid)
      PROVE  /\ i \in IteratorSet /\ i.valid = TRUE /\ i.must = {} /\ i.seen = <<>>
             /\ Place(i) \in Live(h) /\ i = At(Place(i)) /\ i.page \in 1 .. Len(h.pages)
  BY <1>2, AtFields
<1> QED BY <1>1, <1>2 DEF Scans

LEMMA FollowsInside ==
  ASSUME NEW h, NEW a, NEW j, Follows(h, a, j)
  PROVE  j \in Scans(h)
BY DEF Follows, Scans

LEMMA StepsWalk ==
  ASSUME Sound(heap), Enough(borrowed), NEW i \in Scans(heap)
  PROVE  Walk(heap, i, Steps(i), Cardinality(Live(heap)))
<1>1. PICK C : C = Cardinality(Live(heap))
  OBVIOUS
<1>2. C \in Nat
  BY <1>1, FS_CardinalityType DEF Sound, Counted
<1> DEFINE On(j) == IF j.valid THEN Step(j) ELSE j
           F(f) == [n \in 1 .. C + 1 |-> IF n = 1 THEN i ELSE On(f[n - 1])]
           w == CHOOSE f : f = F(f)
<1>3. Steps(i) = w
  BY <1>1 DEF Steps
<1>4. \A j \in Scans(heap) : /\ j.valid => Follows(heap, Place(j), On(j))
                             /\ ~j.valid => On(j) = j /\ j = NoIterator
                             /\ On(j) \in Scans(heap)
  <2> SUFFICES ASSUME NEW j \in Scans(heap)
               PROVE  /\ j.valid => Follows(heap, Place(j), On(j))
                      /\ ~j.valid => On(j) = j /\ j = NoIterator
                      /\ On(j) \in Scans(heap)
    OBVIOUS
  <2>1. /\ j \in IteratorSet /\ j.must = {} /\ (j.valid => j.page \in 1 .. Len(heap.pages))
        /\ (~j.valid => j = NoIterator)
    <3>1. PICK h : h = heap
      OBVIOUS
    <3> QED BY <3>1, ScansAre
  <2>2. j.valid => Follows(heap, Place(j), On(j))
    BY <2>1, StepGoes
  <2>3. On(j) \in Scans(heap)
    BY <2>2, FollowsInside
  <2> QED BY <2>1, <2>2, <2>3
<1>5. \E f : f = F(f)
  <2> DEFINE S == Scans(heap)
             step == [n \in 1 .. C |-> [j \in S |-> On(j)]]
  <2>1. Passes(C, S, step)
    <3> HIDE DEF S, On
    <3>1. \A j \in S : On(j) \in S
      BY <1>4 DEF S
    <3> QED BY <3>1 DEF Passes
  <2>2. PICK f : RunOf(C, S, i, step, f)
    <3> HIDE DEF step
    <3> QED BY <1>2, <2>1, LoopRuns DEF S
  <2>3. /\ f \in [0 .. C -> S] /\ f[0] = i
        /\ \A n \in 1 .. C : f[n] = step[n][f[n - 1]]
    BY <2>2 DEF RunOf
  <2>4. \A n \in 1 .. C : f[n] = On(f[n - 1])
    <3> HIDE DEF S, On
    <3> SUFFICES ASSUME NEW n \in 1 .. C PROVE f[n] = On(f[n - 1])
      OBVIOUS
    <3>1. n - 1 \in 0 .. C
      BY <1>2
    <3>2. f[n - 1] \in S
      BY <2>3, <3>1
    <3> QED BY <2>3, <3>2
  <2> DEFINE g == [n \in 1 .. C + 1 |-> f[n - 1]]
  <2>5. ASSUME NEW n \in 1 .. C + 1 PROVE g[n] = IF n = 1 THEN i ELSE On(g[n - 1])
    <3> HIDE DEF On
    <3>1. CASE n = 1
      <4>1. 1 - 1 = 0 /\ 1 \in 1 .. C + 1
        BY <1>2
      <4> QED BY <2>3, <3>1, <4>1
    <3>2. CASE n # 1
      <4>1. n - 1 \in 1 .. C /\ n - 1 \in 1 .. C + 1
        BY <1>2, <3>2
      <4>2. g[n - 1] = f[(n - 1) - 1] /\ g[n] = f[n - 1]
        BY <4>1
      <4> QED BY <2>4, <3>2, <4>1, <4>2
    <3> QED BY <3>1, <3>2
  <2>6. g = [n \in 1 .. C + 1 |-> g[n]]
    OBVIOUS
  <2>7. g = F(g)
    <3> HIDE DEF g, On
    <3> QED BY <2>5, <2>6
  <2> HIDE DEF F, g
  <2> QED BY <2>7
<1>6. w = F(w)
  <2> HIDE DEF F
  <2> QED BY <1>5
<1>7. /\ w = [n \in 1 .. C + 1 |-> w[n]]
      /\ \A n \in 1 .. C + 1 : w[n] = IF n = 1 THEN i ELSE On(w[n - 1])
  <2> HIDE DEF w, On
  <2> QED BY <1>6
<1> HIDE DEF w, F, On
<1>8. \A n \in 1 .. C + 1 : w[n] \in Scans(heap)
  <2> DEFINE U == {n \in 1 .. C + 1 : w[n] \notin Scans(heap)}
  <2> SUFFICES ASSUME U # {} PROVE FALSE
    OBVIOUS
  <2>1. PICK m \in U : \A k \in U : m <= k
    <3>1. U \subseteq Nat
      OBVIOUS
    <3> HIDE DEF U
    <3> QED BY <3>1, LeastNatural
  <2>2. m \in 1 .. C + 1 /\ w[m] \notin Scans(heap) /\ m # 1
    BY <1>2, <1>7, <2>1
  <2>3. m - 1 \in 1 .. C + 1 /\ ~(m <= m - 1)
    BY <1>2, <2>2
  <2>4. w[m - 1] \in Scans(heap)
    BY <2>1, <2>3
  <2> QED BY <1>4, <1>7, <2>2, <2>4
<1>9. ASSUME NEW n \in 1 .. C
      PROVE  IF w[n].valid THEN Follows(heap, Place(w[n]), w[n + 1]) ELSE w[n + 1] = NoIterator
  <2>1. n \in 1 .. C + 1 /\ n + 1 \in 1 .. C + 1 /\ n + 1 # 1 /\ (n + 1) - 1 = n
    BY <1>2
  <2>2. w[n + 1] = On(w[n])
    BY <1>7, <2>1
  <2> QED BY <1>4, <1>8, <2>1, <2>2
<1>10. w[1] = i /\ w \in [1 .. C + 1 -> Scans(heap)]
  <2>1. 1 \in 1 .. C + 1
    BY <1>2
  <2>2. w[1] = i
    BY <1>7, <2>1
  <2>3. w \in [1 .. C + 1 -> Scans(heap)]
    <3>1. PICK S : S = Scans(heap)
      OBVIOUS
    <3>2. \A n \in 1 .. C + 1 : w[n] \in S
      BY <1>8, <3>1
    <3>3. w \in [1 .. C + 1 -> S]
      BY <1>7, <3>2
    <3> QED BY <3>1, <3>3
  <2> QED BY <2>2, <2>3
<1>11. Walk(heap, i, w, C)
  BY <1>2, <1>9, <1>10 DEF Walk
<1> QED BY <1>1, <1>3, <1>11, Zenon

LEMMA WalkFields ==
  ASSUME NEW h, Sound(h), NEW i, NEW w, NEW C, Walk(h, i, w, C)
  PROVE  /\ C \in Nat /\ w[1] = i
         /\ \A n \in 1 .. C + 1 :
              /\ w[n] \in Scans(h) /\ (~w[n].valid => w[n] = NoIterator)
              /\ w[n].valid => /\ Place(w[n]) \in Live(h) /\ Place(w[n]) \in Rid
                               /\ w[n] = At(Place(w[n]))
<1>1. \A n \in 1 .. C + 1 : w[n] \in Scans(h)
  BY DEF Walk
<1>2. Live(h) \subseteq Rid
  BY LiveIs DEF Sound
<1> QED BY <1>1, <1>2, ScansAre DEF Walk

\* The scan goes on and on in the order of the ids.
LEMMA WalkNext ==
  ASSUME NEW h, Sound(h), NEW i, NEW w, NEW C, Walk(h, i, w, C), NEW n \in 1 .. C, w[n + 1].valid
  PROVE  w[n].valid /\ Before(Place(w[n]), Place(w[n + 1]))
<1>1. w[n].valid
  BY NoIteratorFields DEF Walk
<1>2. Follows(h, Place(w[n]), w[n + 1])
  BY <1>1 DEF Walk
<1>3. PICK next \in Live(h) : w[n + 1] = At(next) /\ Before(Place(w[n]), next)
  BY <1>2, NoIteratorFields DEF Follows
<1> QED BY <1>1, <1>3, AtFields

LEMMA WalkAscends ==
  ASSUME NEW h, Sound(h), NEW i, NEW w, NEW C, Walk(h, i, w, C), NEW m \in 1 .. C + 1
  PROVE  \A n \in m + 1 .. C + 1 : w[n].valid => w[m].valid /\ Before(Place(w[m]), Place(w[n]))
<1> DEFINE Good(n) == w[n].valid => w[m].valid /\ Before(Place(w[m]), Place(w[n]))
           U == {n \in m + 1 .. C + 1 : ~Good(n)}
<1>1. C \in Nat
  BY WalkFields
<1> SUFFICES ASSUME U # {} PROVE FALSE
  OBVIOUS
<1>2. PICK n \in U : \A k \in U : n <= k
  <2>1. U \subseteq Nat
    BY <1>1
  <2> HIDE DEF U
  <2> QED BY <2>1, LeastNatural
<1>3. n \in m + 1 .. C + 1 /\ w[n].valid /\ ~(w[m].valid /\ Before(Place(w[m]), Place(w[n])))
  BY <1>2
<1>4. PICK k \in 1 .. C : k = n - 1
  BY <1>1, <1>3
<1>5. n = k + 1 /\ k \in 1 .. C + 1 /\ n \in 1 .. C + 1
  BY <1>1, <1>3, <1>4
<1>6. w[k].valid /\ Before(Place(w[k]), Place(w[n]))
  BY <1>3, <1>5, WalkNext
<1>7. k # m
  BY <1>3, <1>6
<1>8. k \in m + 1 .. C + 1 /\ ~(n <= k)
  BY <1>1, <1>3, <1>5, <1>7
<1>9. Good(k)
  BY <1>2, <1>8
<1>10. w[m].valid /\ Before(Place(w[m]), Place(w[k]))
  BY <1>6, <1>9
<1>11. Place(w[m]) \in Rid /\ Place(w[k]) \in Rid /\ Place(w[n]) \in Rid
  BY <1>3, <1>5, <1>6, <1>10, WalkFields
<1> QED BY <1>3, <1>6, <1>10, <1>11, BeforeOrder

\* It has more steps than there are records.
LEMMA WalkEnds ==
  ASSUME NEW h, Sound(h), NEW i, NEW w, NEW C, Walk(h, i, w, C), C = Cardinality(Live(h))
  PROVE  w[C + 1] = NoIterator
<1>1. C \in Nat /\ C + 1 \in 1 .. C + 1
  BY WalkFields
<1> SUFFICES ASSUME w[C + 1].valid PROVE FALSE
  BY <1>1, WalkFields
<1>2. \A n \in 1 .. C + 1 : w[n].valid
  <2> SUFFICES ASSUME NEW n \in 1 .. C + 1 PROVE w[n].valid
    OBVIOUS
  <2>1. n = C + 1 \/ C + 1 \in n + 1 .. C + 1
    BY <1>1
  <2> QED BY <2>1, WalkAscends
<1> DEFINE f == [n \in 1 .. C + 1 |-> Place(w[n])]
<1>3. f \in [1 .. C + 1 -> Live(h)]
  BY <1>2, WalkFields
<1>4. ASSUME NEW m \in 1 .. C + 1, NEW n \in 1 .. C + 1, f[m] = f[n] PROVE m = n
  <2>1. ASSUME NEW a \in 1 .. C + 1, NEW b \in 1 .. C + 1, a < b PROVE f[a] # f[b]
    <3>1. b \in a + 1 .. C + 1
      BY <1>1, <2>1
    <3>2. Before(Place(w[a]), Place(w[b])) /\ Place(w[a]) \in Rid
      BY <1>2, <3>1, WalkAscends, WalkFields
    <3> QED BY <3>2 DEF Before, Rid
  <2> HIDE DEF f
  <2>2. m < n \/ n < m \/ m = n
    BY <1>1
  <2> QED BY <1>4, <2>1, <2>2
<1>5. IsFiniteSet(1 .. C + 1) /\ Cardinality(1 .. C + 1) = C + 1
  BY <1>1, FS_Interval
<1>6. IsFiniteSet(Live(h)) /\ Cardinality(Live(h)) < Cardinality(1 .. C + 1)
  BY <1>1, <1>5 DEF Sound, Counted
<1>7. \E x, y \in 1 .. C + 1 : x # y /\ f[x] = f[y]
  <2> HIDE DEF f
  <2> QED BY <1>3, <1>5, <1>6, FS_PigeonHole
<1> QED BY <1>4, <1>7

\* The iterator will come to the record, or stands on it.
Reaches(i, rid) == i.valid /\ (Place(i) = rid \/ Before(Place(i), rid))

LEMMA WalkCovers ==
  ASSUME NEW h, Sound(h), NEW i, NEW w, NEW C, Walk(h, i, w, C), C = Cardinality(Live(h)),
         NEW rid \in Live(h), Reaches(i, rid)
  PROVE  \E n \in 1 .. C : w[n] = At(rid)
<1> DEFINE U == {n \in 1 .. C + 1 : ~Reaches(w[n], rid)}
<1>1. C \in Nat /\ w[1] = i /\ C + 1 \in U
  BY WalkFields, WalkEnds, NoIteratorFields DEF Reaches
<1>2. PICK n \in U : \A k \in U : n <= k
  <2>1. U \subseteq Nat
    BY <1>1
  <2> HIDE DEF U
  <2> QED BY <1>1, <2>1, LeastNatural
<1>3. n \in 1 .. C + 1 /\ ~Reaches(w[n], rid) /\ n # 1
  BY <1>1, <1>2
<1>4. PICK k \in 1 .. C : k = n - 1
  BY <1>1, <1>3
<1>5. n = k + 1 /\ k \in 1 .. C + 1 /\ ~(n <= k)
  BY <1>1, <1>3, <1>4
<1>6. Reaches(w[k], rid)
  BY <1>2, <1>5
<1>7. CASE Place(w[k]) = rid
  BY <1>5, <1>6, <1>7, WalkFields DEF Reaches
<1>8. CASE Before(Place(w[k]), rid)
  <2>1. Follows(h, Place(w[k]), w[n])
    BY <1>5, <1>6 DEF Reaches, Walk
  <2>2. PICK next \in Live(h) : w[n] = At(next) /\ (rid = next \/ Before(next, rid))
    BY <1>8, <2>1 DEF Follows
  <2>3. Reaches(w[n], rid)
    BY <2>2, AtFields DEF Reaches
  <2> QED BY <1>3, <2>3
<1> QED BY <1>6, <1>7, <1>8 DEF Reaches

-----------------------------------------------------------------------------
(* The entries of the index, in their order. *)

IndexEntry == [key : Nat, rid : Rid]

LEMMA PrecedesOrder ==
  /\ \A a, b \in IndexEntry : Precedes(a, b) => a # b /\ ~Precedes(b, a)
  /\ \A a, b, c \in IndexEntry : Precedes(a, b) /\ Precedes(b, c) => Precedes(a, c)
  /\ \A a, b \in IndexEntry : a # b => Precedes(a, b) \/ Precedes(b, a)
<1>0. \A a \in IndexEntry : /\ a = [key |-> a.key, rid |-> a.rid]
                            /\ a.rid = [page |-> a.rid.page, slot |-> a.rid.slot]
  BY RidIs DEF IndexEntry
<1>1. \A a \in IndexEntry : a.key \in Nat /\ a.rid.page \in Nat /\ a.rid.slot \in Nat
  BY RidIs DEF IndexEntry
<1>2. ASSUME NEW a \in IndexEntry, NEW b \in IndexEntry, a # b PROVE Precedes(a, b) \/ Precedes(b, a)
  <2>1. a.key # b.key \/ a.rid.page # b.rid.page \/ a.rid.slot # b.rid.slot
    <3> SUFFICES ASSUME a.key = b.key, a.rid.page = b.rid.page, a.rid.slot = b.rid.slot PROVE FALSE
      OBVIOUS
    <3>1. a.rid = b.rid
      BY <1>0
    <3> QED BY <1>0, <1>2, <3>1
  <2> QED BY <1>1, <2>1 DEF Precedes
<1>3. ASSUME NEW a \in IndexEntry, NEW b \in IndexEntry, Precedes(a, b)
      PROVE  a # b /\ ~Precedes(b, a)
  BY <1>1, <1>3 DEF Precedes
<1>4. ASSUME NEW a \in IndexEntry, NEW b \in IndexEntry, NEW c \in IndexEntry,
             Precedes(a, b), Precedes(b, c)
      PROVE  Precedes(a, c)
  BY <1>1, <1>4 DEF Precedes
<1> QED BY <1>2, <1>3, <1>4

\* s lists the entries of E in their order.
InOrder(E, s) ==
  s \in [1 .. Cardinality(E) -> E] /\ \A i, j \in DOMAIN s : i < j => Precedes(s[i], s[j])

\* The entries can be listed: each comes behind as many as precede it.
LEMMA EntriesListed ==
  ASSUME NEW E, E \subseteq IndexEntry, IsFiniteSet(E)
  PROVE  \E s : InOrder(E, s)
<1> DEFINE N == Cardinality(E)
           P(e) == {x \in E : Precedes(x, e)}
           r == [e \in E |-> Cardinality(P(e)) + 1]
<1>1. N \in Nat
  BY FS_CardinalityType
<1>2. \A e \in E : IsFiniteSet(P(e)) /\ Cardinality(P(e)) \in Nat
  BY FS_Subset, FS_CardinalityType
<1>3. ASSUME NEW a \in E, NEW b \in E, Precedes(a, b) PROVE r[a] < r[b]
  <2>1. P(a) \subseteq P(b)
    BY <1>3, PrecedesOrder
  <2>2. a \in P(b) /\ a \notin P(a)
    BY <1>3, PrecedesOrder
  <2>3. Cardinality(P(a)) < Cardinality(P(b))
    <3> HIDE DEF P
    <3>1. Cardinality(P(a)) <= Cardinality(P(b)) /\ (Cardinality(P(a)) = Cardinality(P(b)) => P(a) = P(b))
      BY <1>2, <2>1, FS_Subset
    <3> QED BY <1>2, <2>2, <3>1
  <2> HIDE DEF P
  <2> QED BY <1>2, <2>3
<1>4. ASSUME NEW e \in E PROVE r[e] \in 1 .. N
  <2>1. P(e) \subseteq E /\ e \notin P(e)
    BY PrecedesOrder
  <2>2. Cardinality(P(e)) <= N /\ Cardinality(P(e)) # N
    <3> HIDE DEF P
    <3> QED BY <2>1, FS_Subset
  <2> HIDE DEF P
  <2> QED BY <1>1, <1>2, <2>2
<1>5. \A a, b \in E : r[a] = r[b] => a = b
  <2> SUFFICES ASSUME NEW a \in E, NEW b \in E, r[a] = r[b], a # b PROVE FALSE
    OBVIOUS
  <2>1. r[a] \in 1 .. N /\ r[b] \in 1 .. N
    BY <1>4
  <2>2. r[a] < r[b] \/ r[b] < r[a]
    <3> HIDE DEF r
    <3> QED BY <1>3, PrecedesOrder
  <2> HIDE DEF r
  <2> QED BY <1>1, <2>1, <2>2
<1>6. r \in Injection(E, 1 .. N)
  <2>1. r = [e \in E |-> r[e]]
    OBVIOUS
  <2> HIDE DEF r
  <2> QED BY <1>4, <1>5, <2>1 DEF Injection, IsInjective
<1>7. r \in Surjection(E, 1 .. N)
  <2>1. IsFiniteSet(1 .. N) /\ Cardinality(1 .. N) = N
    BY <1>1, FS_Interval
  <2> HIDE DEF r
  <2> QED BY <1>6, <2>1, FS_Injection
<1>8. \A k \in 1 .. N : \E e \in E : r[e] = k
  <2> HIDE DEF r
  <2> QED BY <1>7 DEF Surjection
<1> DEFINE s == [k \in 1 .. N |-> CHOOSE e \in E : r[e] = k]
<1>9. \A k \in 1 .. N : s[k] \in E /\ r[s[k]] = k
  <2> HIDE DEF r
  <2> QED BY <1>8
<1>10. s \in [1 .. N -> E] /\ DOMAIN s = 1 .. N
  BY <1>9
<1>11. ASSUME NEW i \in 1 .. N, NEW j \in 1 .. N, i < j PROVE Precedes(s[i], s[j])
  <2> HIDE DEF r, s
  <2>1. r[s[i]] = i /\ r[s[j]] = j /\ s[i] \in E /\ s[j] \in E
    BY <1>9
  <2>2. ~Precedes(s[j], s[i])
    <3> SUFFICES ASSUME Precedes(s[j], s[i]) PROVE FALSE
      OBVIOUS
    <3>1. r[s[j]] < r[s[i]]
      BY <1>3, <2>1
    <3> QED BY <1>1, <1>11, <2>1, <3>1
  <2>3. s[i] # s[j]
    BY <1>1, <1>11, <2>1
  <2> QED BY <2>1, <2>2, <2>3, PrecedesOrder
<1> QED
  <2> HIDE DEF s
  <2> QED BY <1>10, <1>11 DEF InOrder

LEMMA InOrderIs ==
  ASSUME NEW E, E \subseteq IndexEntry, IsFiniteSet(E), NEW s, InOrder(E, s)
  PROVE  /\ s \in Seq(E) /\ Len(s) = Cardinality(E) /\ Len(s) \in Nat /\ DOMAIN s = 1 .. Len(s)
         /\ \A n \in 1 .. Len(s) : s[n] \in E
         /\ \A m, n \in 1 .. Len(s) : s[m] = s[n] => m = n
         /\ \A e \in E : \E n \in 1 .. Len(s) : s[n] = e
<1> DEFINE N == Cardinality(E)
<1>1. N \in Nat
  BY FS_CardinalityType
<1>2. s \in [1 .. N -> E] /\ DOMAIN s = 1 .. N
  BY DEF InOrder
<1>3. s \in Seq(E) /\ Len(s) = N
  BY <1>1, <1>2, SequenceOf
<1>4. ASSUME NEW m \in 1 .. N, NEW n \in 1 .. N, s[m] = s[n], m # n PROVE FALSE
  <2>1. m < n \/ n < m
    BY <1>1, <1>4
  <2>2. Precedes(s[m], s[n]) \/ Precedes(s[n], s[m])
    BY <1>2, <2>1 DEF InOrder
  <2>3. s[m] \in IndexEntry /\ s[n] \in IndexEntry
    BY <1>2
  <2> QED BY <1>4, <2>2, <2>3, PrecedesOrder
<1>5. s \in Injection(1 .. N, E)
  BY <1>2, <1>4 DEF Injection, IsInjective
<1>6. s \in Surjection(1 .. N, E)
  <2>1. IsFiniteSet(1 .. N) /\ Cardinality(1 .. N) = N
    BY <1>1, FS_Interval
  <2> QED BY <1>5, <2>1, FS_Injection
<1>7. \A e \in E : \E n \in 1 .. N : s[n] = e
  BY <1>6 DEF Surjection
<1> QED BY <1>1, <1>2, <1>3, <1>4, <1>7

-----------------------------------------------------------------------------
(* Rows, and what the table and the index hold for a plan. *)

Rows == [rid : Rid, rec : Record]

LEMMA RowFields ==
  ASSUME Sound(heap), NEW rid \in Live(heap)
  PROVE  /\ Row(rid) \in Rows /\ Row(rid).rid = rid /\ Row(rid).rec = Rec(heap, rid) /\ rid \in Rid
         /\ Row(rid).rec \in Record /\ Row(rid).rec.name \in Names
<1>1. rid \in Rid
  BY LiveIs DEF Sound
<1>2. Row(rid) = [rid |-> rid, rec |-> Rec(heap, rid)]
  BY DEF Row, Rec
<1>3. Rec(heap, rid) \in Record
  BY LiveRecords
<1>4. Row(rid).rid = rid /\ Row(rid).rec = Rec(heap, rid) /\ Row(rid) \in Rows
  BY <1>1, <1>2, <1>3 DEF Rows
<1>5. Row(rid).rec \in Record
  BY <1>3, <1>4
<1>6. Row(rid).rec.name \in Names
  BY <1>5 DEF Record
<1> QED BY <1>1, <1>4, <1>5, <1>6

LEMMA FiniteImage ==
  ASSUME NEW S, IsFiniteSet(S), NEW f, DOMAIN f = S
  PROVE  IsFiniteSet({f[x] : x \in S})
<1> DEFINE T == {f[x] : x \in S}
           g == [x \in S |-> f[x]]
<1>1. g \in Surjection(S, T)
  BY DEF Surjection
<1> QED
  <2> HIDE DEF g
  <2> QED BY <1>1, FS_Surjection

LEMMA EntriesAre ==
  ASSUME Sound(heap)
  PROVE  /\ IndexEntries \subseteq IndexEntry /\ IsFiniteSet(IndexEntries)
         /\ \A e \in IndexEntries : e.rid \in Live(heap) /\ e.key = Rec(heap, e.rid).name
         /\ \A rid \in Live(heap) : \E e \in IndexEntries : e.rid = rid /\ e.key = Rec(heap, rid).name
<1>1. \A rid \in Live(heap) : Row(rid).rec = Rec(heap, rid) /\ rid \in Rid /\ Row(rid).rec.name \in Nat
  BY RowFields, PlansAssumption
<1>2. ASSUME NEW e \in IndexEntries
      PROVE  e \in IndexEntry /\ e.rid \in Live(heap) /\ e.key = Rec(heap, e.rid).name
  <2>1. PICK rid \in Live(heap) : e = [key |-> Row(rid).rec.name, rid |-> rid]
    BY DEF IndexEntries
  <2>2. e.rid = rid /\ e.key = Row(rid).rec.name
    BY <2>1
  <2>3. e \in IndexEntry
    BY <1>1, <2>1 DEF IndexEntry
  <2> QED BY <1>1, <2>2, <2>3
<1>3. ASSUME NEW rid \in Live(heap)
      PROVE  \E e \in IndexEntries : e.rid = rid /\ e.key = Rec(heap, rid).name
  <2>1. [key |-> Row(rid).rec.name, rid |-> rid] \in IndexEntries
    BY DEF IndexEntries
  <2> QED BY <1>1, <2>1
<1>4. IsFiniteSet(IndexEntries)
  <2> DEFINE f == [rid \in Live(heap) |-> [key |-> Row(rid).rec.name, rid |-> rid]]
  <2>1. DOMAIN f = Live(heap) /\ IndexEntries = {f[rid] : rid \in Live(heap)}
    BY DEF IndexEntries
  <2>2. IsFiniteSet(Live(heap))
    BY DEF Sound, Counted
  <2> HIDE DEF f
  <2> QED BY <2>1, <2>2, FiniteImage
<1> QED BY <1>2, <1>3, <1>4

PlanSet == [source : {"table", "index"}, low : Nat, high : Nat, keep : SUBSET Names,
            op : {"none", "limit", "sort", "topn", "aggregate"}, limit : Nat]

LEMMA PlanFields ==
  ASSUME NEW plan \in Plans
  PROVE  /\ plan.source \in {"table", "index"} /\ plan.low \in Nat /\ plan.high \in Nat
         /\ plan.op \in {"none", "limit", "sort", "topn", "aggregate"} /\ plan.limit \in Nat
<1>1. plan \in PlanSet
  BY PlansAssumption DEF PlanSet
<1> QED BY <1>1 DEF PlanSet

\* What an index scan materializes: every record between its bounds, once.
LEMMA MaterializedIs ==
  ASSUME Sound(heap), NEW plan \in Plans, NEW r, r = Materialized(plan)
  PROVE  /\ r \in Seq(IndexEntry) /\ Len(r) \in Nat
         /\ \A n \in 1 .. Len(r) : /\ r[n] \in IndexEntry /\ r[n].rid \in Live(heap)
                                   /\ r[n].key = Rec(heap, r[n].rid).name
                                   /\ plan.low <= r[n].key /\ r[n].key <= plan.high
         /\ \A m, n \in 1 .. Len(r) : r[m].rid = r[n].rid => m = n
         /\ \A rid \in Live(heap) :
              plan.low <= Rec(heap, rid).name /\ Rec(heap, rid).name <= plan.high =>
                \E n \in 1 .. Len(r) : r[n].rid = rid
<1> DEFINE found == {e \in IndexEntries : plan.low <= e.key /\ e.key <= plan.high}
<1>1. found \subseteq IndexEntry /\ IsFiniteSet(found)
  BY EntriesAre, FS_Subset
<1>2. /\ \A e \in found : /\ e.rid \in Live(heap) /\ e.key = Rec(heap, e.rid).name
                          /\ plan.low <= e.key /\ e.key <= plan.high
      /\ \A rid \in Live(heap) :
           plan.low <= Rec(heap, rid).name /\ Rec(heap, rid).name <= plan.high =>
             \E e \in found : e.rid = rid
  BY EntriesAre
<1>3. r = CHOOSE s \in [1 .. Cardinality(found) -> found] :
            \A i, j \in DOMAIN s : i < j => Precedes(s[i], s[j])
  BY DEF Materialized
<1> HIDE DEF found
<1>4. InOrder(found, r)
  <2>1. PICK s : InOrder(found, s)
    BY <1>1, EntriesListed
  <2> QED BY <1>3, <2>1 DEF InOrder
<1>5. /\ r \in Seq(found) /\ Len(r) \in Nat /\ DOMAIN r = 1 .. Len(r)
      /\ \A n \in 1 .. Len(r) : r[n] \in found
      /\ \A m, n \in 1 .. Len(r) : r[m] = r[n] => m = n
      /\ \A e \in found : \E n \in 1 .. Len(r) : r[n] = e
  BY <1>1, <1>4, InOrderIs
<1>6. r \in Seq(IndexEntry)
  <2>1. r \in [1 .. Len(r) -> IndexEntry]
    BY <1>1, <1>5
  <2> QED BY <1>5, <2>1, SequenceOf
<1>7. \A m, n \in 1 .. Len(r) : r[m].rid = r[n].rid => r[m] = r[n]
  <2> SUFFICES ASSUME NEW m \in 1 .. Len(r), NEW n \in 1 .. Len(r), r[m].rid = r[n].rid
               PROVE  r[m] = r[n]
    OBVIOUS
  <2>1. r[m].key = r[n].key
    BY <1>2, <1>5
  <2>2. r[m] \in IndexEntry /\ r[n] \in IndexEntry
    BY <1>1, <1>5
  <2> QED BY <2>1, <2>2 DEF IndexEntry
<1>8. \A n \in 1 .. Len(r) : /\ r[n] \in IndexEntry /\ r[n].rid \in Live(heap)
                             /\ r[n].key = Rec(heap, r[n].rid).name
                             /\ plan.low <= r[n].key /\ r[n].key <= plan.high
  BY <1>1, <1>2, <1>5
<1>9. \A rid \in Live(heap) :
        plan.low <= Rec(heap, rid).name /\ Rec(heap, rid).name <= plan.high =>
          \E n \in 1 .. Len(r) : r[n].rid = rid
  <2> SUFFICES ASSUME NEW rid \in Live(heap), plan.low <= Rec(heap, rid).name,
                      Rec(heap, rid).name <= plan.high
               PROVE  \E n \in 1 .. Len(r) : r[n].rid = rid
    OBVIOUS
  <2>1. PICK e \in found : e.rid = rid
    BY <1>2
  <2> QED BY <1>5, <2>1
<1> QED BY <1>5, <1>6, <1>7, <1>8, <1>9

LEMMA RecordGot ==
  ASSUME Sound(heap), Enough(Pinned), NEW rid \in Rid
  PROVE  GetRecord(rid) <=> rid \in Live(heap)
<1>1. CanFetch(heap, rid.page, Pinned) <=> rid.page \in DOMAIN heap.pages
  BY FrameToSpare
<1>2. DOMAIN heap.pages = 1 .. Len(heap.pages)
  BY HeapTypes DEF Sound
<1>3. rid.page \in 1 .. Len(heap.pages) /\ Holds(heap.pages[rid.page], rid.slot) => rid.slot \in 1 .. Capacity
  <2> SUFFICES ASSUME rid.page \in 1 .. Len(heap.pages), Holds(heap.pages[rid.page], rid.slot)
               PROVE  rid.slot \in 1 .. Capacity
    OBVIOUS
  <2>1. SoundPage(heap.pages[rid.page])
    BY DEF Sound, Chained
  <2>2. heap.pages[rid.page].slots \in Contents /\ Len(heap.pages[rid.page].slots) <= Capacity
    BY <2>1, PageFacts DEF SoundPage
  <2>3. rid.slot \in 1 .. Len(heap.pages[rid.page].slots)
    BY <2>2, SlotsAre DEF Holds, LiveSlots
  <2> QED BY <2>2, <2>3, SlotsAre, SizesAssumption
<1>4. rid \in Live(heap) <=> /\ rid.page \in 1 .. Len(heap.pages)
                             /\ rid.slot \in 1 .. Capacity /\ Holds(heap.pages[rid.page], rid.slot)
  BY LiveIs DEF Sound
<1> QED BY <1>1, <1>2, <1>3, <1>4 DEF GetRecord

\* A scan begins before every record.
LEMMA BeginIs ==
  ASSUME Sound(heap), Enough(borrowed), Enough(Pinned)
  PROVE  /\ BeginScan \in Scans(heap)
         /\ \A rid \in Live(heap) : Reaches(BeginScan, rid)
<1> DEFINE i == [NoIterator EXCEPT !.page = 1]
<1>1. 1 \in 1 .. Len(heap.pages) /\ DOMAIN heap.pages = 1 .. Len(heap.pages)
  BY HeapTypes DEF Sound, Chained
<1>2. CanFetch(heap, 1, Pinned)
  BY <1>1, FrameToSpare
<1>3. BeginScan = Step(i)
  BY <1>2 DEF BeginScan
<1>4. i \in IteratorSet /\ i.page = 1 /\ i.slot = 0 /\ i.must = {}
  BY NoIteratorFields DEF NoIterator, IteratorSet
<1> HIDE DEF i
<1>5. Follows(heap, Place(i), BeginScan)
  BY <1>1, <1>3, <1>4, StepGoes
<1>6. \A rid \in Live(heap) : Before(Place(i), rid)
  <2> SUFFICES ASSUME NEW rid \in Live(heap) PROVE Before(Place(i), rid)
    OBVIOUS
  <2>1. rid.page \in 1 .. Len(heap.pages) /\ rid.slot \in 1 .. Capacity /\ Len(heap.pages) \in Nat
    BY LiveIs, HeapTypes DEF Sound
  <2>2. Place(i).page = 1 /\ Place(i).slot = 0
    BY <1>4 DEF Place
  <2> QED BY <2>1, <2>2, SizesAssumption DEF Before
<1>7. BeginScan \in Scans(heap)
  BY <1>5, FollowsInside
<1>8. \A rid \in Live(heap) : Reaches(BeginScan, rid)
  <2> SUFFICES ASSUME NEW rid \in Live(heap) PROVE Reaches(BeginScan, rid)
    OBVIOUS
  <2>1. PICK next \in Live(heap) :
          /\ BeginScan = At(next) /\ \A m \in Live(heap) : Before(Place(i), m) => m = next \/ Before(next, m)
    BY <1>5, <1>6 DEF Follows
  <2>2. rid = next \/ Before(next, rid)
    BY <1>6, <2>1
  <2> QED BY <2>1, <2>2, AtFields DEF Reaches
<1> QED BY <1>7, <1>8

LEMMA WantedIs ==
  ASSUME Sound(heap), NEW plan
  PROVE  /\ Wanted(plan) \subseteq Rows /\ IsFiniteSet(Wanted(plan))
         /\ \A row \in Wanted(plan) : /\ row.rid \in Live(heap) /\ row = Row(row.rid)
                                      /\ InRange(plan, row.rec) /\ Predicate(plan, row)
         /\ \A rid \in Live(heap) :
              InRange(plan, Row(rid).rec) /\ Predicate(plan, Row(rid)) => Row(rid) \in Wanted(plan)
<1> DEFINE f == [rid \in Live(heap) |-> Row(rid)]
           all == {f[rid] : rid \in Live(heap)}
<1>1. DOMAIN f = Live(heap) /\ all = {Row(rid) : rid \in Live(heap)}
  OBVIOUS
<1>2. IsFiniteSet(all)
  <2> HIDE DEF f
  <2> QED BY <1>1, FiniteImage DEF Sound, Counted
<1>3. Wanted(plan) = {row \in all : InRange(plan, row.rec) /\ Predicate(plan, row)}
  BY <1>1 DEF Wanted
<1>4. \A row \in all : row \in Rows /\ row.rid \in Live(heap) /\ row = Row(row.rid)
  <2> HIDE DEF f
  <2> SUFFICES ASSUME NEW rid \in Live(heap), NEW row, row = Row(rid)
               PROVE  row \in Rows /\ row.rid \in Live(heap) /\ row = Row(row.rid)
    BY <1>1
  <2> QED BY RowFields
<1>5. \A rid \in Live(heap) : Row(rid) \in all
  BY <1>1
<1> HIDE DEF all
<1> QED BY <1>2, <1>3, <1>4, <1>5, FS_Subset

\* Which of the entries that are left give a row.
LEMMA IndexHitsAre ==
  ASSUME Sound(heap), Enough(Pinned), NEW plan, NEW r \in Seq(IndexEntry), NEW from \in Nat, from >= 1
  PROVE  IndexHits(plan, r, from)
           = {n \in from .. Len(r) : r[n].rid \in Live(heap) /\ Predicate(plan, Row(r[n].rid))}
<1>1. \A n \in from .. Len(r) : r[n].rid \in Rid
  <2> SUFFICES ASSUME NEW n \in from .. Len(r) PROVE r[n].rid \in Rid
    OBVIOUS
  <2>1. n \in 1 .. Len(r)
    OBVIOUS
  <2>2. r[n] \in IndexEntry
    BY <2>1
  <2> QED BY <2>2 DEF IndexEntry
<1>2. \A n \in from .. Len(r) : GetRecord(r[n].rid) <=> r[n].rid \in Live(heap)
  BY <1>1, RecordGot
<1> QED BY <1>2 DEF IndexHits

\* A scan of the table or of the index finds all that is wanted, and nothing else.
LEMMA InputIsWanted ==
  ASSUME Sound(heap), Enough(borrowed), Enough(Pinned), NEW plan \in Plans
  PROVE  Input(plan) = Wanted(plan)
<1>1. CASE plan.source = "table"
  <2> DEFINE w == Steps(BeginScan)
             C == Cardinality(Live(heap))
  <2>1. Walk(heap, BeginScan, w, C)
    BY BeginIs, StepsWalk
  <2>2. DOMAIN w = 1 .. C + 1
    BY <2>1 DEF Walk
  <2>3. Input(plan) = {TupleAt(w[n]) : n \in TableHits(plan, w)}
    BY <1>1 DEF Input
  <2> HIDE DEF w
  <2>4. ASSUME NEW row \in Input(plan) PROVE row \in Wanted(plan)
    <3>1. PICK n \in 1 .. C + 1 : w[n].valid /\ Predicate(plan, TupleAt(w[n])) /\ row = TupleAt(w[n])
      BY <2>2, <2>3, <2>4 DEF TableHits
    <3>2. Place(w[n]) \in Live(heap) /\ row = Row(Place(w[n])) /\ Predicate(plan, Row(Place(w[n])))
      BY <2>1, <3>1, WalkFields DEF TupleAt, Place
    <3> QED BY <1>1, <3>2, WantedIs DEF InRange
  <2>5. ASSUME NEW row \in Wanted(plan) PROVE row \in Input(plan)
    <3>1. row.rid \in Live(heap) /\ row = Row(row.rid) /\ Predicate(plan, row)
      BY <2>5, WantedIs
    <3>2. PICK n \in 1 .. C : w[n] = At(row.rid)
      BY <2>1, <3>1, BeginIs, WalkCovers
    <3>3. n \in 1 .. C + 1
      BY <2>1 DEF Walk
    <3>4. w[n].valid /\ Place(w[n]) = row.rid
      BY <3>1, <3>2, AtFields
    <3>5. TupleAt(w[n]) = row
      BY <3>1, <3>4 DEF TupleAt, Place
    <3>6. n \in TableHits(plan, w)
      BY <2>2, <3>1, <3>3, <3>4, <3>5 DEF TableHits
    <3> QED BY <2>3, <3>5, <3>6
  <2> QED BY <2>4, <2>5
<1>2. CASE plan.source # "table"
  <2>1. plan.source = "index"
    BY <1>2, PlanFields
  <2>2. PICK r : r = Materialized(plan)
    OBVIOUS
  <2>3. Input(plan) = {Row(r[n].rid) : n \in IndexHits(plan, r, 1)}
    BY <1>2, <2>2 DEF Input
  <2>4. /\ r \in Seq(IndexEntry) /\ Len(r) \in Nat
        /\ \A n \in 1 .. Len(r) : /\ r[n].rid \in Live(heap) /\ r[n].key = Rec(heap, r[n].rid).name
                                  /\ plan.low <= r[n].key /\ r[n].key <= plan.high
        /\ \A rid \in Live(heap) :
             plan.low <= Rec(heap, rid).name /\ Rec(heap, rid).name <= plan.high =>
               \E n \in 1 .. Len(r) : r[n].rid = rid
    BY <2>2, MaterializedIs
  <2>5. Input(plan) = {Row(r[n].rid) : n \in {n \in 1 .. Len(r) : r[n].rid \in Live(heap)
                                                        /\ Predicate(plan, Row(r[n].rid))}}
    BY <2>3, <2>4, IndexHitsAre
  <2>6. ASSUME NEW row \in Input(plan) PROVE row \in Wanted(plan)
    <3>1. PICK n \in 1 .. Len(r) : Predicate(plan, Row(r[n].rid)) /\ row = Row(r[n].rid)
      BY <2>5, <2>6
    <3>2. r[n].rid \in Live(heap) /\ plan.low <= Row(r[n].rid).rec.name /\ Row(r[n].rid).rec.name <= plan.high
      BY <2>4, RowFields
    <3> QED BY <3>1, <3>2, WantedIs DEF InRange
  <2>7. ASSUME NEW row \in Wanted(plan) PROVE row \in Input(plan)
    <3>1. row.rid \in Live(heap) /\ row = Row(row.rid) /\ Predicate(plan, row) /\ InRange(plan, row.rec)
      BY <2>7, WantedIs
    <3>2. row.rec = Rec(heap, row.rid)
      BY <3>1, RowFields
    <3>3. PICK n \in 1 .. Len(r) : r[n].rid = row.rid
      BY <2>1, <2>4, <3>1, <3>2 DEF InRange
    <3> QED BY <2>5, <3>1, <3>3
  <2> QED BY <2>6, <2>7
<1> QED BY <1>1, <1>2

-----------------------------------------------------------------------------
(* The inductive invariant of the executor. *)

Groupings == [group : Names, count : Nat]

\* A row as it is now in the table.
Current(h, row) == row.rid \in Live(h) /\ row.rec = Rec(h, row.rid)

Asked(plan, row) == row \in Rows /\ InRange(plan, row.rec) /\ Predicate(plan, row)

\* All that had to be returned has been, or as much as was asked for.
Answered(q) ==
  q.must \subseteq ToSet(q.out) \/ (q.plan.op = "limit" /\ Len(q.out) = q.plan.limit)

Queries == [stage : {"open", "done"}, plan : Plans, pending : SUBSET (Rows \cup Groupings),
            results : Seq(IndexEntry), current_idx : Nat, out : Seq(Rows \cup Groupings),
            must : SUBSET Rows]

\* A scan of the table has returned rows in the order of their ids, from before the record
\* its iterator stands on, and will come to every row it still owes.
TableSound(h, i, q) ==
  /\ \A a \in 1 .. Len(q.out) : Asked(q.plan, q.out[a])
  /\ \A a, b \in 1 .. Len(q.out) : a < b => Before(q.out[a].rid, q.out[b].rid)
  /\ i.valid => \A a \in 1 .. Len(q.out) : Before(q.out[a].rid, Place(i))
  /\ q.stage = "open" => \A row \in q.must : /\ Current(h, row) /\ Predicate(q.plan, row)
                                             /\ row \in ToSet(q.out) \/ Reaches(i, row.rid)
  /\ i.valid /\ q.stage = "done" => q.plan.op = "limit" /\ Len(q.out) = q.plan.limit

\* A scan of an index has returned rows of other ids than those it is to read, among
\* which are those it still owes; where there is a record it has the key of the entry.
IndexSound(h, q) ==
  /\ \A n \in 1 .. Len(q.results) : q.plan.low <= q.results[n].key /\ q.results[n].key <= q.plan.high
  /\ \A n, m \in 1 .. Len(q.results) : q.results[n].rid = q.results[m].rid => n = m
  /\ \A n \in q.current_idx .. Len(q.results) :
       q.results[n].rid \in Live(h) => Rec(h, q.results[n].rid).name = q.results[n].key
  /\ \A a \in 1 .. Len(q.out) : Asked(q.plan, q.out[a])
  /\ \A a, b \in 1 .. Len(q.out) : q.out[a].rid = q.out[b].rid => a = b
  /\ \A a \in 1 .. Len(q.out), n \in q.current_idx .. Len(q.results) : q.results[n].rid # q.out[a].rid
  /\ q.stage = "open" => \A row \in q.must :
       /\ Current(h, row) /\ Predicate(q.plan, row)
       /\ row \in ToSet(q.out) \/ \E n \in q.current_idx .. Len(q.results) : q.results[n].rid = row.rid

StreamSound(q) ==
  /\ q.plan.op = "limit" => Len(q.out) <= q.plan.limit
  /\ q.stage = "done" => Answered(q)

\* What has been returned and what is pending are together what was materialized.
MaterialSound(q) ==
  LET all == ToSet(q.out) \cup q.pending
  IN  /\ IsFiniteSet(q.pending) /\ IsFiniteSet(q.must) /\ ToSet(q.out) \cap q.pending = {}
      /\ \A a, b \in 1 .. Len(q.out) : q.out[a] = q.out[b] => a = b
      /\ q.plan.op = "aggregate" => all = Groups(q.must)
      /\ q.plan.op = "sort" => all = q.must
      /\ q.plan.op = "topn" => all \in TopRows(q.must, q.plan.limit)
      /\ q.plan.op # "aggregate" =>
           /\ \A row \in q.must : Asked(q.plan, row)
           /\ \A a, b \in 1 .. Len(q.out) : a < b => q.out[a].rec.name <= q.out[b].rec.name
           /\ \A a \in 1 .. Len(q.out), row \in q.pending : q.out[a].rec.name <= row.rec.name
      /\ q.stage = "done" => q.pending = {}

SourceSound(h, i, q) ==
  /\ q.plan.source = "table" => TableSound(h, i, q)
  /\ q.plan.source = "index" => IndexSound(h, q)

QuerySound(h, i, q) ==
  /\ q \in Queries /\ 1 <= q.current_idx /\ q.current_idx <= Len(q.results) + 1
  /\ i # NoIterator => Streams(q.plan) /\ q.plan.source = "table"
  /\ Streams(q.plan) => StreamSound(q) /\ SourceSound(h, i, q)
  /\ ~Streams(q.plan) => MaterialSound(q)

QueryState(h, i, q) == (q = NoQuery /\ i = NoIterator) \/ QuerySound(h, i, q)

ExecInv ==
  /\ Sound(heap) /\ Len(heap.pages) <= MaxPages
  /\ IsFiniteSet(borrowed) /\ borrowed \subseteq 1 .. Len(heap.pages)
  /\ it \in Scans(heap)
  /\ QueryState(heap, it, query)

-----------------------------------------------------------------------------
(* The fields of a query, and how the steps change them. *)

QueryOf(stage, plan, pending, results, idx, out, must) ==
  [stage |-> stage, plan |-> plan, pending |-> pending, results |-> results, current_idx |-> idx,
   out |-> out, must |-> must]

LEMMA QueryFields ==
  /\ \A q \in Queries :
       q = QueryOf(q.stage, q.plan, q.pending, q.results, q.current_idx, q.out, q.must)
  /\ \A a, b, c, d, e, f, g, x : [QueryOf(a, b, c, d, e, f, g) EXCEPT !.stage = x] = QueryOf(x, b, c, d, e, f, g)
  /\ \A a, b, c, d, e, f, g, x : [QueryOf(a, b, c, d, e, f, g) EXCEPT !.pending = x] = QueryOf(a, b, x, d, e, f, g)
  /\ \A a, b, c, d, e, f, g, x : [QueryOf(a, b, c, d, e, f, g) EXCEPT !.current_idx = x] = QueryOf(a, b, c, d, x, f, g)
  /\ \A a, b, c, d, e, f, g, x : [QueryOf(a, b, c, d, e, f, g) EXCEPT !.out = x] = QueryOf(a, b, c, d, e, x, g)
  /\ \A a, b, c, d, e, f, g, x : [QueryOf(a, b, c, d, e, f, g) EXCEPT !.must = x] = QueryOf(a, b, c, d, e, f, x)
BY DEF QueryOf, Queries

LEMMA QueryParts ==
  ASSUME NEW a, NEW b, NEW c, NEW d, NEW e, NEW f, NEW g, NEW q, q = QueryOf(a, b, c, d, e, f, g)
  PROVE  /\ q.stage = a /\ q.plan = b /\ q.pending = c /\ q.results = d /\ q.current_idx = e
         /\ q.out = f /\ q.must = g
         /\ a \in {"open", "done"} /\ b \in Plans /\ c \subseteq Rows \cup Groupings /\ d \in Seq(IndexEntry)
              /\ e \in Nat /\ f \in Seq(Rows \cup Groupings) /\ g \subseteq Rows => q \in Queries
BY DEF QueryOf, Queries

LEMMA QueryTypes ==
  ASSUME NEW q \in Queries
  PROVE  /\ q.stage \in {"open", "done"} /\ q.plan \in Plans /\ q.pending \subseteq Rows \cup Groupings
         /\ q.results \in Seq(IndexEntry) /\ Len(q.results) \in Nat /\ q.current_idx \in Nat
         /\ q.out \in Seq(Rows \cup Groupings) /\ Len(q.out) \in Nat /\ q.must \subseteq Rows
         /\ q # NoQuery
<1>1. /\ q.stage \in {"open", "done"} /\ q.plan \in Plans /\ q.pending \subseteq Rows \cup Groupings
      /\ q.results \in Seq(IndexEntry) /\ q.current_idx \in Nat
      /\ q.out \in Seq(Rows \cup Groupings) /\ q.must \subseteq Rows
  BY DEF Queries
<1>2. NoQuery.stage = "none"
  BY DEF NoQuery
<1>3. Len(q.results) \in Nat /\ Len(q.out) \in Nat
  BY <1>1
<1> QED BY <1>1, <1>2, <1>3

LEMMA StepsOfQueries ==
  ASSUME query \in Queries
  PROVE  /\ ReturnsFalse = QueryOf("done", query.plan, query.pending, query.results, query.current_idx,
                                   query.out, query.must)
         /\ \A row : Emits(row) = QueryOf(query.stage, query.plan, query.pending, query.results,
                                          query.current_idx, Append(query.out, row), query.must)
<1>1. PICK q : q = query
  OBVIOUS
<1>2. q = QueryOf(q.stage, q.plan, q.pending, q.results, q.current_idx, q.out, q.must)
  BY <1>1, QueryFields
<1>3. [q EXCEPT !.stage = "done"] = QueryOf("done", q.plan, q.pending, q.results, q.current_idx, q.out, q.must)
  BY <1>2, QueryFields
<1>4. \A x : [q EXCEPT !.out = x] = QueryOf(q.stage, q.plan, q.pending, q.results, q.current_idx, x, q.must)
  BY <1>2, QueryFields
<1> QED BY <1>1, <1>3, <1>4 DEF ReturnsFalse, Emits

\* The last row returned, and those before it.
Longer(s, row, t) ==
  /\ t \in Seq(Rows \cup Groupings) /\ Len(t) = Len(s) + 1 /\ Len(s) \in Nat
  /\ \A a \in 1 .. Len(s) : t[a] = s[a]
  /\ t[Len(s) + 1] = row
  /\ ToSet(t) = ToSet(s) \cup {row}
  /\ \A a \in 1 .. Len(t) : a \in 1 .. Len(s) \/ a = Len(s) + 1

LEMMA AppendedRow ==
  ASSUME NEW s \in Seq(Rows \cup Groupings), NEW row \in Rows \cup Groupings, NEW t, t = Append(s, row)
  PROVE  Longer(s, row, t)
<1>1. t \in Seq(Rows \cup Groupings) /\ Len(t) = Len(s) + 1 /\ Len(s) \in Nat
  OBVIOUS
<1>2. (\A a \in 1 .. Len(s) : t[a] = s[a]) /\ t[Len(s) + 1] = row
  OBVIOUS
<1>3. \A x : x \in ToSet(t) <=> x \in ToSet(s) \cup {row}
  <2>1. DOMAIN t = 1 .. Len(s) + 1 /\ DOMAIN s = 1 .. Len(s)
    BY <1>1
  <2>2. \A x : x \in ToSet(t) <=> \E a \in 1 .. Len(s) + 1 : x = t[a]
    BY <2>1 DEF ToSet
  <2>3. \A x : x \in ToSet(s) <=> \E a \in 1 .. Len(s) : x = s[a]
    BY <2>1 DEF ToSet
  <2> QED BY <1>1, <1>2, <2>2, <2>3
<1>4. \A a \in 1 .. Len(t) : a \in 1 .. Len(s) \/ a = Len(s) + 1
  BY <1>1
<1> QED BY <1>1, <1>2, <1>3, <1>4 DEF Longer

LEMMA ReturnedIs ==
  ASSUME NEW s \in Seq(Rows \cup Groupings)
  PROVE  \A x : x \in ToSet(s) <=> \E a \in 1 .. Len(s) : x = s[a]
BY DEF ToSet

LEMMA FramesForScan ==
  ASSUME Enough(Pinned)
  PROVE  Enough(borrowed)
<1>1. borrowed \subseteq Pinned /\ IsFiniteSet(Pinned) /\ Cardinality(Pinned) + 2 <= PoolSize
  BY DEF Enough, Pinned
<1>2. IsFiniteSet(borrowed) /\ Cardinality(borrowed) <= Cardinality(Pinned)
  BY <1>1, FS_Subset
<1>3. Cardinality(borrowed) \in Nat /\ Cardinality(Pinned) \in Nat
  BY <1>1, <1>2, FS_CardinalityType
<1> QED BY <1>1, <1>2, <1>3, PoolAssumption DEF Enough

LEMMA OpenIs ==
  ASSUME ExecInv, query.stage = "open"
  PROVE  QuerySound(heap, it, query) /\ query \in Queries
<1>1. NoQuery.stage = "none"
  BY DEF NoQuery
<1> QED BY <1>1 DEF ExecInv, QueryState, QuerySound

\* A step that leaves the table alone.
LEMMA TableUnchanged ==
  ASSUME ExecInv, UNCHANGED <<heap, borrowed>>, it' \in Scans(heap), QueryState(heap, it', query')
  PROVE  ExecInv'
BY DEF ExecInv

-----------------------------------------------------------------------------
(* One lemma per action: it preserves the invariant. *)

LEMMA ExecutorInitKeeps ==
  ASSUME ExecutorInit
  PROVE  ExecInv
<1>1. Sound(heap) /\ Len(heap.pages) = 1 /\ it = NoIterator /\ borrowed = {} /\ query = NoQuery
  <2>1. Len(heap.pages) = 1
    BY DEF ExecutorInit, Init
  <2> QED BY <2>1, InitIsSound DEF ExecutorInit, Init
<1>2. IsFiniteSet(borrowed)
  BY <1>1, FS_EmptySet
<1> QED BY <1>1, <1>2, BoundAssumption DEF ExecInv, QueryState, Scans

\* A dropped scan leaves its page pinned.
LEMMA ScanDroppedKeeps ==
  ASSUME ExecInv, ScanDropped
  PROVE  ExecInv'
<1>1. /\ heap' = heap /\ it' = NoIterator /\ query' = NoQuery
      /\ borrowed' = borrowed \cup ({it.page} \ {INVALID_PAGE_ID}) /\ it # NoIterator
  BY DEF ScanDropped, IteratorDropped
<1>2. it.page \in 1 .. Len(heap.pages)
  <2>1. PICK rid \in Live(heap) : it = At(rid)
    BY <1>1 DEF ExecInv, Scans
  <2> QED BY <2>1, AtFields DEF ExecInv
<1>3. IsFiniteSet({it.page} \ {INVALID_PAGE_ID})
  BY FS_Singleton, FS_Subset
<1>4. IsFiniteSet(borrowed')
  BY <1>1, <1>3, FS_Union DEF ExecInv
<1> QED BY <1>1, <1>2, <1>4 DEF ExecInv, QueryState, Scans

LEMMA NextAtLimitKeeps ==
  ASSUME ExecInv, NextAtLimit
  PROVE  ExecInv'
<1>1. UNCHANGED <<heap, it, borrowed>> /\ query' = ReturnsFalse /\ query.stage = "open"
  BY DEF NextAtLimit
<1>2. query.plan.op = "limit" /\ Len(query.out) >= query.plan.limit /\ Streams(query.plan)
  BY DEF NextAtLimit, LimitReached, Streams
<1>3. QuerySound(heap, it, query) /\ query \in Queries
  BY <1>1, OpenIs
<1>4. PICK q : q = query'
  OBVIOUS
<1>5. /\ q.stage = "done" /\ q.plan = query.plan /\ q.pending = query.pending /\ q.results = query.results
      /\ q.current_idx = query.current_idx /\ q.out = query.out /\ q.must = query.must /\ q \in Queries
  BY <1>1, <1>3, <1>4, StepsOfQueries, QueryParts, QueryTypes
<1>6. Len(q.out) = q.plan.limit
  <2>1. Len(query.out) <= query.plan.limit
    BY <1>2, <1>3 DEF QuerySound, StreamSound
  <2> QED BY <1>2, <1>3, <1>5, <2>1, PlanFields, QueryTypes
<1>7. StreamSound(q)
  BY <1>2, <1>3, <1>5, <1>6 DEF QuerySound, StreamSound, Answered
<1>8. SourceSound(heap, it, q)
  <2>1. SourceSound(heap, it, query)
    BY <1>2, <1>3 DEF QuerySound
  <2>2. ASSUME q.plan.source = "table" PROVE TableSound(heap, it, q)
    <3>1. TableSound(heap, it, query)
      BY <1>5, <2>1, <2>2 DEF SourceSound
    <3> QED BY <1>2, <1>5, <1>6, <3>1 DEF TableSound
  <2>3. ASSUME q.plan.source = "index" PROVE IndexSound(heap, q)
    <3>1. IndexSound(heap, query)
      BY <1>5, <2>1, <2>3 DEF SourceSound
    <3> QED BY <1>5, <3>1 DEF IndexSound
  <2> QED BY <2>2, <2>3 DEF SourceSound
<1>9. QuerySound(heap, it, q)
  BY <1>2, <1>3, <1>5, <1>7, <1>8 DEF QuerySound
<1>10. it' \in Scans(heap) /\ QueryState(heap, it', query')
  BY <1>1, <1>4, <1>9 DEF ExecInv, QueryState
<1> QED BY <1>1, <1>10, TableUnchanged

\* An operator that has materialized its input emits it row by row.
LEMMA NextOfMaterializedKeeps ==
  ASSUME ExecInv, NextOfMaterialized
  PROVE  ExecInv'
<1>1. UNCHANGED <<heap, it, borrowed>> /\ query.stage = "open" /\ ~Streams(query.plan)
  BY DEF NextOfMaterialized
<1>2. QuerySound(heap, it, query) /\ query \in Queries
  BY <1>1, OpenIs
<1>3. MaterialSound(query) /\ it = NoIterator
  BY <1>1, <1>2 DEF QuerySound
<1>4. PICK q : q = query'
  OBVIOUS
<1>5. CASE query.pending = {} /\ query' = ReturnsFalse
  <2>1. /\ q.stage = "done" /\ q.plan = query.plan /\ q.pending = query.pending /\ q.results = query.results
        /\ q.current_idx = query.current_idx /\ q.out = query.out /\ q.must = query.must /\ q \in Queries
    BY <1>5, <1>2, <1>4, StepsOfQueries, QueryParts, QueryTypes
  <2>2. MaterialSound(q)
    BY <1>3, <1>5, <2>1 DEF MaterialSound
  <2>3. QuerySound(heap, it, q)
    BY <1>1, <1>2, <2>1, <2>2 DEF QuerySound
  <2>4. it' \in Scans(heap) /\ QueryState(heap, it', query')
    BY <1>1, <1>4, <2>3 DEF ExecInv, QueryState
  <2> QED BY <1>1, <2>4, TableUnchanged
<1>6. ASSUME NEW row \in Emittable(query.plan, query.pending), query' = [Emits(row) EXCEPT !.pending = @ \ {row}]
      PROVE  ExecInv'
  <2>1. row \in query.pending /\ row \in Rows \cup Groupings
    BY <1>2, <1>6, QueryTypes DEF Emittable
  <2>2. /\ q.stage = "open" /\ q.plan = query.plan /\ q.pending = query.pending \ {row}
        /\ q.results = query.results /\ q.current_idx = query.current_idx
        /\ q.out = Append(query.out, row) /\ q.must = query.must /\ q \in Queries
    <3>1. PICK e : e = Emits(row)
      OBVIOUS
    <3>2. e = QueryOf("open", query.plan, query.pending, query.results,
                                query.current_idx, Append(query.out, row), query.must)
      BY <1>1, <1>2, <3>1, StepsOfQueries
    <3>3. PICK p : p = query.pending \ {row}
      OBVIOUS
    <3>4. q = [e EXCEPT !.pending = p]
      <4>1. e.pending = query.pending
        BY <3>2, QueryParts
      <4> QED BY <1>4, <1>6, <3>1, <3>3, <4>1
    <3>5. PICK s : s = Append(query.out, row)
      OBVIOUS
    <3>6. q = QueryOf("open", query.plan, p, query.results, query.current_idx, s, query.must)
      BY <3>2, <3>4, <3>5, QueryFields
    <3>7. query.out \in Seq(Rows \cup Groupings)
      BY <1>2, QueryTypes
    <3>8. s \in Seq(Rows \cup Groupings)
      BY <2>1, <3>5, <3>7
    <3>9. /\ p \subseteq Rows \cup Groupings /\ query.plan \in Plans /\ query.results \in Seq(IndexEntry)
          /\ query.current_idx \in Nat /\ query.must \subseteq Rows
      BY <1>2, <3>3, QueryTypes
    <3>10. q \in Queries
      BY <3>6, <3>8, <3>9 DEF QueryOf, Queries
    <3>11. /\ q.stage = "open" /\ q.plan = query.plan /\ q.pending = p /\ q.results = query.results
           /\ q.current_idx = query.current_idx /\ q.out = s /\ q.must = query.must
      BY <3>6 DEF QueryOf
    <3> QED BY <3>3, <3>5, <3>10, <3>11
  <2>3. /\ Len(q.out) = Len(query.out) + 1 /\ Len(query.out) \in Nat
        /\ \A a \in 1 .. Len(query.out) : q.out[a] = query.out[a]
        /\ q.out[Len(query.out) + 1] = row /\ ToSet(q.out) = ToSet(query.out) \cup {row}
    <3>1. query.out \in Seq(Rows \cup Groupings)
      BY <1>2, QueryTypes
    <3>2. Longer(query.out, row, q.out)
      BY <2>1, <2>2, <3>1, AppendedRow
    <3> QED BY <3>2 DEF Longer
  <2>4. ToSet(q.out) \cup q.pending = ToSet(query.out) \cup query.pending
    BY <2>1, <2>2, <2>3
  <2>5. IsFiniteSet(q.pending) /\ IsFiniteSet(q.must) /\ ToSet(q.out) \cap q.pending = {}
    <3>1. IsFiniteSet(q.pending)
      BY <1>3, <2>2, FS_Subset DEF MaterialSound
    <3> QED BY <1>3, <2>2, <2>3, <3>1 DEF MaterialSound
  <2>6. \A a \in 1 .. Len(query.out) : query.out[a] # row
    <3> SUFFICES ASSUME NEW a \in 1 .. Len(query.out), query.out[a] = row PROVE FALSE
      OBVIOUS
    <3>1. row \in ToSet(query.out)
      BY <1>2, ReturnedIs, QueryTypes
    <3> QED BY <1>3, <2>1, <3>1 DEF MaterialSound
  <2>7. \A a, b \in 1 .. Len(q.out) : q.out[a] = q.out[b] => a = b
    <3>1. \A a, b \in 1 .. Len(query.out) : query.out[a] = query.out[b] => a = b
      BY <1>3 DEF MaterialSound
    <3>2. \A a \in 1 .. Len(q.out) : a \in 1 .. Len(query.out) \/ a = Len(query.out) + 1
      BY <2>3
    <3> QED BY <2>3, <2>6, <3>1, <3>2
  <2>8. q.plan.op # "aggregate" =>
          /\ \A r \in q.must : Asked(q.plan, r)
          /\ \A a, b \in 1 .. Len(q.out) : a < b => q.out[a].rec.name <= q.out[b].rec.name
          /\ \A a \in 1 .. Len(q.out), r \in q.pending : q.out[a].rec.name <= r.rec.name
    <3> SUFFICES ASSUME q.plan.op # "aggregate"
                 PROVE  /\ \A r \in q.must : Asked(q.plan, r)
                        /\ \A a, b \in 1 .. Len(q.out) : a < b => q.out[a].rec.name <= q.out[b].rec.name
                        /\ \A a \in 1 .. Len(q.out), r \in q.pending : q.out[a].rec.name <= r.rec.name
      OBVIOUS
    <3>1. /\ \A r \in query.must : Asked(query.plan, r)
          /\ \A a, b \in 1 .. Len(query.out) : a < b => query.out[a].rec.name <= query.out[b].rec.name
          /\ \A a \in 1 .. Len(query.out), r \in query.pending : query.out[a].rec.name <= r.rec.name
      BY <1>3, <2>2 DEF MaterialSound
    <3>2. \A r \in query.pending : row.rec.name <= r.rec.name
      BY <1>6, <2>2 DEF Emittable
    <3>3. \A a \in 1 .. Len(q.out) : a \in 1 .. Len(query.out) \/ a = Len(query.out) + 1
      BY <2>3
    <3>4. \A a \in 1 .. Len(q.out), r \in q.pending : q.out[a].rec.name <= r.rec.name
      BY <2>2, <2>3, <3>1, <3>2, <3>3
    <3>5. ASSUME NEW a \in 1 .. Len(q.out), NEW b \in 1 .. Len(q.out), a < b
          PROVE  q.out[a].rec.name <= q.out[b].rec.name
      <4>1. a \in 1 .. Len(query.out)
        BY <2>3, <3>5
      <4>2. q.out[a] = query.out[a]
        BY <2>3, <4>1
      <4>3. CASE b \in 1 .. Len(query.out)
        <5>1. q.out[b] = query.out[b]
          BY <2>3, <4>3
        <5> QED BY <3>1, <3>5, <4>1, <4>2, <4>3, <5>1
      <4>4. CASE b = Len(query.out) + 1
        BY <2>1, <2>3, <3>1, <4>1, <4>2, <4>4
      <4> QED BY <3>3, <4>3, <4>4
    <3>6. \A r \in q.must : Asked(q.plan, r)
      BY <2>2, <3>1
    <3> QED BY <3>4, <3>5, <3>6
  <2>9. MaterialSound(q)
    BY <1>3, <2>2, <2>4, <2>5, <2>7, <2>8 DEF MaterialSound
  <2>10. QuerySound(heap, it, q)
    BY <1>1, <1>2, <1>3, <2>2, <2>9 DEF QuerySound
  <2>11. it' \in Scans(heap) /\ QueryState(heap, it', query')
    BY <1>1, <1>4, <2>10 DEF ExecInv, QueryState
  <2> QED BY <1>1, <2>11, TableUnchanged
<1> QED BY <1>5, <1>6 DEF NextOfMaterialized

\* The walk of a call of Next, and the rows it comes by.
LEMMA HitsAre ==
  ASSUME Sound(heap), NEW i, NEW w, NEW C, Walk(heap, i, w, C), C = Cardinality(Live(heap)), NEW plan,
         NEW hits, hits = TableHits(plan, w)
  PROVE  /\ hits \subseteq 1 .. C
         /\ \A n \in hits : /\ w[n].valid /\ Place(w[n]) \in Live(heap) /\ TupleAt(w[n]) = Row(Place(w[n]))
                            /\ Predicate(plan, Row(Place(w[n])))
         /\ \A rid \in Live(heap) : Reaches(i, rid) /\ Predicate(plan, Row(rid)) =>
              \E n \in hits : w[n] = At(rid) /\ Place(w[n]) = rid
<1>1. C \in Nat /\ DOMAIN w = 1 .. C + 1 /\ w[C + 1].valid = FALSE
  BY WalkFields, WalkEnds, NoIteratorFields DEF Walk
<1>2. \A n : n \in hits <=> n \in 1 .. C + 1 /\ w[n].valid /\ Predicate(plan, TupleAt(w[n]))
  BY <1>1 DEF TableHits
<1>3. ASSUME NEW n \in hits
      PROVE  /\ n \in 1 .. C /\ w[n].valid /\ Place(w[n]) \in Live(heap)
             /\ TupleAt(w[n]) = Row(Place(w[n])) /\ Predicate(plan, Row(Place(w[n])))
  <2>1. n \in 1 .. C + 1 /\ w[n].valid /\ Predicate(plan, TupleAt(w[n]))
    BY <1>2
  <2>2. n # C + 1
    BY <1>1, <2>1
  <2>3. n \in 1 .. C
    BY <1>1, <2>1, <2>2
  <2>4. TupleAt(w[n]) = Row(Place(w[n]))
    BY DEF TupleAt, Place
  <2>5. Place(w[n]) \in Live(heap)
    BY <2>1, WalkFields
  <2> QED BY <2>1, <2>3, <2>4, <2>5
<1>4. ASSUME NEW rid \in Live(heap), Reaches(i, rid), Predicate(plan, Row(rid))
      PROVE  \E n \in hits : w[n] = At(rid) /\ Place(w[n]) = rid
  <2>1. PICK n \in 1 .. C : w[n] = At(rid)
    BY <1>4, WalkCovers
  <2>2. w[n].valid = TRUE /\ Place(w[n]) = rid
    BY <2>1, AtFields
  <2>3. TupleAt(w[n]) = Row(rid)
    BY <2>2 DEF TupleAt, Place
  <2>4. n \in 1 .. C + 1
    BY <1>1
  <2> QED BY <1>2, <1>4, <2>1, <2>2, <2>3, <2>4
<1> QED BY <1>3, <1>4

LEMMA NextOfTableKeeps ==
  ASSUME ExecInv, Enough(Pinned), NextOfTable
  PROVE  ExecInv'
<1> DEFINE C == Cardinality(Live(heap))
<1>1. /\ query.stage = "open" /\ Streams(query.plan) /\ query.plan.source = "table"
      /\ ~LimitReached(query.plan) /\ UNCHANGED <<heap, borrowed>>
  BY DEF NextOfTable
<1>2. PICK w : w = Steps(it)
  OBVIOUS
<1>3. PICK hits : hits = TableHits(query.plan, w)
  OBVIOUS
<1>4. IF hits = {} THEN it' = w[Len(w)] /\ query' = ReturnsFalse
      ELSE it' = w[Min(hits) + 1] /\ query' = Emits(TupleAt(w[Min(hits)]))
  BY <1>2, <1>3 DEF NextOfTable
<1>5. QuerySound(heap, it, query) /\ query \in Queries /\ Sound(heap) /\ it \in Scans(heap)
  BY <1>1, OpenIs DEF ExecInv
<1>6. TableSound(heap, it, query) /\ StreamSound(query)
  BY <1>1, <1>5 DEF QuerySound, SourceSound
<1>7. Walk(heap, it, w, C)
  BY <1>2, <1>5, FramesForScan, StepsWalk
<1>8. /\ C \in Nat /\ w[1] = it /\ w[C + 1] = NoIterator /\ w \in [1 .. C + 1 -> Scans(heap)]
      /\ \A n \in 1 .. C + 1 : w[n] \in Scans(heap)
  BY <1>5, <1>7, WalkFields, WalkEnds DEF Walk
<1> HIDE DEF C
<1>9. PICK q : q = query'
  OBVIOUS
<1>10. /\ query.plan \in Plans /\ query.pending \subseteq Rows \cup Groupings
       /\ query.results \in Seq(IndexEntry) /\ query.current_idx \in Nat
       /\ query.out \in Seq(Rows \cup Groupings) /\ Len(query.out) \in Nat /\ query.must \subseteq Rows
  BY <1>5, QueryTypes
<1>11. CASE hits = {}
  <2>1. Len(w) = C + 1
    BY <1>8, SequenceOf
  <2>2. it' = NoIterator /\ query' = ReturnsFalse
    BY <1>4, <1>8, <1>11, <2>1
  <2>3. q = QueryOf("done", query.plan, query.pending, query.results, query.current_idx, query.out, query.must)
    BY <1>5, <1>9, <2>2, StepsOfQueries
  <2>4. /\ q.stage = "done" /\ q.plan = query.plan /\ q.results = query.results
        /\ q.current_idx = query.current_idx /\ q.out = query.out /\ q.must = query.must
    BY <2>3, QueryParts
  <2>5. q \in Queries
    BY <1>10, <2>3 DEF QueryOf, Queries
  <2>6. query.must \subseteq ToSet(query.out)
    <3> SUFFICES ASSUME NEW row \in query.must, row \notin ToSet(query.out) PROVE FALSE
      OBVIOUS
    <3>1. Current(heap, row) /\ Predicate(query.plan, row) /\ Reaches(it, row.rid)
      BY <1>1, <1>6 DEF TableSound
    <3>2. row.rid \in Live(heap) /\ row.rec = Row(row.rid).rec /\ Predicate(query.plan, Row(row.rid))
      BY <1>5, <3>1, RowFields DEF Current, Predicate
    <3> QED BY <1>3, <1>5, <1>7, <1>11, <3>1, <3>2, HitsAre DEF C
  <2>7. TableSound(heap, NoIterator, q)
    BY <1>6, <2>4, NoIteratorFields DEF TableSound
  <2>8. StreamSound(q)
    BY <1>6, <2>4, <2>6 DEF StreamSound, Answered
  <2>9. QuerySound(heap, NoIterator, q)
    BY <1>1, <1>5, <2>4, <2>5, <2>7, <2>8 DEF QuerySound, SourceSound
  <2>10. QueryState(heap, it', query') /\ it' \in Scans(heap)
    BY <1>9, <2>2, <2>9 DEF QueryState, Scans
  <2> QED BY <1>1, <2>10, TableUnchanged
<1>12. CASE hits # {}
  <2>1. hits \subseteq 1 .. C
    BY <1>3, <1>5, <1>7, HitsAre DEF C
  <2>2. PICK k : k = Min(hits)
    OBVIOUS
  <2>3. k \in hits /\ k \in 1 .. C /\ \A n \in hits : k <= n
    <3>1. hits \subseteq Nat
      BY <2>1
    <3> QED BY <1>12, <2>1, <2>2, <3>1, MinIsLeast
  <2>4. PICK row : row = Row(Place(w[k]))
    OBVIOUS
  <2>5. /\ w[k].valid /\ Place(w[k]) \in Live(heap) /\ TupleAt(w[k]) = row /\ Predicate(query.plan, row)
    BY <1>3, <1>5, <1>7, <2>3, <2>4, HitsAre DEF C
  <2>6. it' = w[k + 1] /\ query' = Emits(row)
    BY <1>4, <1>12, <2>2, <2>5
  <2>7. row \in Rows /\ row.rid = Place(w[k]) /\ row.rec = Rec(heap, row.rid) /\ row.rid \in Rid
    BY <1>5, <2>4, <2>5, RowFields
  <2>8. /\ q = QueryOf("open", query.plan, query.pending, query.results, query.current_idx,
                       Append(query.out, row), query.must)
    BY <1>1, <1>5, <1>9, <2>6, StepsOfQueries
  <2>9. Longer(query.out, row, q.out)
    <3>1. q.out = Append(query.out, row)
      BY <2>8 DEF QueryOf
    <3>2. row \in Rows \cup Groupings /\ query.out \in Seq(Rows \cup Groupings)
      BY <1>10, <2>7
    <3> QED BY <3>1, <3>2, AppendedRow
  <2>10. /\ q.stage = "open" /\ q.plan = query.plan /\ q.results = query.results
         /\ q.current_idx = query.current_idx /\ q.must = query.must
    BY <2>8, QueryParts
  <2>11. q \in Queries
    <3>1. Append(query.out, row) \in Seq(Rows \cup Groupings)
      BY <1>10, <2>7
    <3> QED BY <1>10, <2>8, <3>1 DEF QueryOf, Queries
  <2>12. it.valid /\ (Place(it) = row.rid \/ Before(Place(it), row.rid))
    <3>1. CASE k = 1
      BY <1>8, <2>5, <2>7, <3>1
    <3>2. CASE k # 1
      <4>1. 1 \in 1 .. C + 1 /\ k \in 1 + 1 .. C + 1
        BY <1>8, <2>3, <3>2
      <4>2. w[1].valid /\ Before(Place(w[1]), Place(w[k]))
        BY <1>5, <1>7, <2>5, <4>1, WalkAscends
      <4> QED BY <1>8, <2>7, <4>2
    <3> QED BY <3>1, <3>2
  <2>13. \A a \in 1 .. Len(query.out) : query.out[a] \in Rows /\ query.out[a].rid \in Rid
    BY <1>6 DEF TableSound, Asked, Rows
  <2>14. \A a \in 1 .. Len(query.out) : Before(query.out[a].rid, row.rid)
    <3> SUFFICES ASSUME NEW a \in 1 .. Len(query.out) PROVE Before(query.out[a].rid, row.rid)
      OBVIOUS
    <3>1. Before(query.out[a].rid, Place(it))
      BY <1>6, <2>12 DEF TableSound
    <3>2. Place(it) \in Rid
      BY <1>5, <2>12, ScansAre, LiveIs DEF Sound
    <3> QED BY <2>7, <2>12, <2>13, <3>1, <3>2, BeforeOrder
  <2>15. k \in 1 .. C + 1 /\ k + 1 \in 1 .. C + 1
    BY <1>8, <2>3
  <2>16. w[k + 1].valid => Before(row.rid, Place(w[k + 1])) /\ Place(w[k + 1]) \in Rid
    <3> SUFFICES ASSUME w[k + 1].valid PROVE Before(row.rid, Place(w[k + 1])) /\ Place(w[k + 1]) \in Rid
      OBVIOUS
    <3>1. Before(Place(w[k]), Place(w[k + 1]))
      BY <1>5, <1>7, <2>3, WalkNext
    <3>2. Place(w[k + 1]) \in Rid
      BY <1>5, <1>7, <2>15, WalkFields
    <3> QED BY <2>7, <3>1, <3>2
  <2>17. \A a \in 1 .. Len(q.out) : Asked(q.plan, q.out[a])
    <3>1. Asked(query.plan, row)
      BY <1>1, <2>5, <2>7 DEF Asked, InRange
    <3> QED BY <1>6, <2>9, <2>10, <3>1 DEF TableSound, Longer
  <2>18. ASSUME NEW a \in 1 .. Len(q.out), NEW b \in 1 .. Len(q.out), a < b
         PROVE  Before(q.out[a].rid, q.out[b].rid)
    <3>1. a \in 1 .. Len(query.out) /\ q.out[a] = query.out[a]
      BY <2>9, <2>18 DEF Longer
    <3>2. CASE b \in 1 .. Len(query.out)
      <4>1. q.out[b] = query.out[b]
        BY <2>9, <3>2 DEF Longer
      <4> QED BY <1>6, <2>18, <3>1, <3>2, <4>1 DEF TableSound
    <3>3. CASE b = Len(query.out) + 1
      <4>1. q.out[b] = row
        BY <2>9, <3>3 DEF Longer
      <4> QED BY <2>14, <3>1, <4>1
    <3> QED BY <2>9, <3>2, <3>3 DEF Longer
  <2>19. ASSUME w[k + 1].valid, NEW a \in 1 .. Len(q.out)
         PROVE  Before(q.out[a].rid, Place(w[k + 1]))
    <3>1. CASE a \in 1 .. Len(query.out)
      <4>1. q.out[a] = query.out[a] /\ query.out[a].rid \in Rid /\ Before(query.out[a].rid, row.rid)
        BY <2>9, <2>13, <2>14, <3>1 DEF Longer
      <4> QED BY <2>7, <2>16, <2>19, <4>1, BeforeOrder
    <3>2. CASE a = Len(query.out) + 1
      BY <2>9, <2>16, <2>19, <3>2 DEF Longer
    <3> QED BY <2>9, <3>1, <3>2 DEF Longer
  <2>20. ASSUME NEW r \in q.must
         PROVE  /\ Current(heap, r) /\ Predicate(q.plan, r)
                /\ r \in ToSet(q.out) \/ Reaches(w[k + 1], r.rid)
    <3>1. /\ Current(heap, r) /\ Predicate(query.plan, r)
          /\ r \in ToSet(query.out) \/ Reaches(it, r.rid)
      BY <1>1, <1>6, <2>10, <2>20 DEF TableSound
    <3>2. CASE r \in ToSet(query.out)
      BY <2>9, <2>10, <3>1, <3>2 DEF Longer
    <3>3. CASE Reaches(it, r.rid)
      <4>1. r.rid \in Live(heap) /\ r.rec = Row(r.rid).rec /\ Predicate(query.plan, Row(r.rid))
        BY <1>5, <3>1, RowFields DEF Current, Predicate
      <4>2. PICK n \in hits : w[n] = At(r.rid) /\ Place(w[n]) = r.rid
        BY <1>3, <1>5, <1>7, <3>3, <4>1, HitsAre DEF C
      <4>3. w[n].valid
        BY <1>5, <4>1, <4>2, AtFields
      <4>4. n \in 1 .. C /\ k <= n
        BY <2>1, <2>3
      <4>5. CASE n = k
        <5>1. r.rid = row.rid /\ r.rec = row.rec
          BY <2>7, <3>1, <4>2, <4>5 DEF Current
        <5>2. r \in Rows
          BY <1>10, <2>10
        <5>3. r = row
          BY <2>7, <5>1, <5>2 DEF Rows
        <5> QED BY <2>9, <2>10, <3>1, <5>3 DEF Longer
      <4>6. CASE n = k + 1
        BY <2>10, <3>1, <4>2, <4>3, <4>6 DEF Reaches
      <4>7. CASE n > k + 1
        <5>1. n \in (k + 1) + 1 .. C + 1
          BY <1>8, <2>3, <4>4, <4>7
        <5>2. w[k + 1].valid /\ Before(Place(w[k + 1]), Place(w[n]))
          BY <1>5, <1>7, <2>15, <4>3, <5>1, WalkAscends
        <5> QED BY <2>10, <3>1, <4>2, <5>2 DEF Reaches
      <4> QED BY <2>3, <4>4, <4>5, <4>6, <4>7
    <3> QED BY <3>1, <3>2, <3>3
  <2>21. TableSound(heap, w[k + 1], q)
    BY <2>10, <2>17, <2>18, <2>19, <2>20 DEF TableSound
  <2>22. StreamSound(q)
    <3>1. ASSUME q.plan.op = "limit" PROVE Len(q.out) <= q.plan.limit
      <4>1. ~(Len(query.out) >= query.plan.limit)
        BY <1>1, <2>10, <3>1 DEF LimitReached
      <4>2. Len(q.out) = Len(query.out) + 1
        BY <2>9 DEF Longer
      <4> QED BY <1>10, <2>10, <4>1, <4>2, PlanFields
    <3> QED BY <2>10, <3>1 DEF StreamSound
  <2>23. QuerySound(heap, w[k + 1], q)
    BY <1>1, <1>5, <2>10, <2>11, <2>21, <2>22 DEF QuerySound, SourceSound
  <2>24. QueryState(heap, it', query') /\ it' \in Scans(heap)
    BY <1>8, <1>9, <2>6, <2>15, <2>23 DEF QueryState
  <2> QED BY <1>1, <2>24, TableUnchanged
<1> QED BY <1>11, <1>12

LEMMA NextOfIndexKeeps ==
  ASSUME ExecInv, Enough(Pinned), NextOfIndex
  PROVE  ExecInv'
<1>1. /\ query.stage = "open" /\ Streams(query.plan) /\ query.plan.source = "index"
      /\ ~LimitReached(query.plan) /\ UNCHANGED <<heap, it, borrowed>>
  BY DEF NextOfIndex
<1>2. PICK hits : hits = IndexHits(query.plan, query.results, query.current_idx)
  OBVIOUS
<1>3. query' = IF hits = {}
               THEN [ReturnsFalse EXCEPT !.current_idx = Len(query.results) + 1]
               ELSE [Emits(Row(query.results[Min(hits)].rid)) EXCEPT !.current_idx = IndexAfter(Min(hits))]
  BY <1>2 DEF NextOfIndex
<1>4. QuerySound(heap, it, query) /\ query \in Queries /\ Sound(heap)
  BY <1>1, OpenIs DEF ExecInv
<1>5. IndexSound(heap, query) /\ StreamSound(query) /\ it = NoIterator
  BY <1>1, <1>4 DEF QuerySound, SourceSound
<1>6. /\ query.plan \in Plans /\ query.pending \subseteq Rows \cup Groupings
      /\ query.results \in Seq(IndexEntry) /\ Len(query.results) \in Nat /\ query.current_idx \in Nat
      /\ query.out \in Seq(Rows \cup Groupings) /\ Len(query.out) \in Nat /\ query.must \subseteq Rows
  BY <1>4, QueryTypes
<1>7. 1 <= query.current_idx /\ query.current_idx <= Len(query.results) + 1
  BY <1>4 DEF QuerySound
<1>8. PICK L : L = Len(query.results)
  OBVIOUS
<1>9. PICK c : c = query.current_idx
  OBVIOUS
<1>10. L \in Nat /\ c \in Nat /\ 1 <= c /\ c <= L + 1
  BY <1>6, <1>7, <1>8, <1>9
<1>11. \A n : n \in hits <=> /\ n \in c .. L /\ query.results[n].rid \in Live(heap)
                             /\ Predicate(query.plan, Row(query.results[n].rid))
  <2>1. hits = {n \in c .. L : query.results[n].rid \in Live(heap)
                                     /\ Predicate(query.plan, Row(query.results[n].rid))}
    BY <1>2, <1>4, <1>6, <1>7, <1>8, <1>9, IndexHitsAre
  <2> QED BY <2>1
<1>12. PICK q : q = query'
  OBVIOUS
<1>13. \A row \in query.must :
         /\ Current(heap, row) /\ Predicate(query.plan, row)
         /\ row \in ToSet(query.out) \/ \E n \in hits : query.results[n].rid = row.rid
  <2> SUFFICES ASSUME NEW row \in query.must
               PROVE  /\ Current(heap, row) /\ Predicate(query.plan, row)
                      /\ row \in ToSet(query.out) \/ \E n \in hits : query.results[n].rid = row.rid
    OBVIOUS
  <2>1. /\ Current(heap, row) /\ Predicate(query.plan, row)
        /\ row \in ToSet(query.out) \/ \E n \in c .. L : query.results[n].rid = row.rid
    BY <1>1, <1>5, <1>8, <1>9 DEF IndexSound
  <2>2. row.rid \in Live(heap) /\ Predicate(query.plan, Row(row.rid))
    BY <1>4, <2>1, RowFields DEF Current, Predicate
  <2> QED BY <1>11, <2>1, <2>2
<1>14. CASE hits = {}
  <2>1. q = QueryOf("done", query.plan, query.pending, query.results, L + 1, query.out, query.must)
    <3>1. PICK e : e = ReturnsFalse
      OBVIOUS
    <3>2. e = QueryOf("done", query.plan, query.pending, query.results, query.current_idx,
                      query.out, query.must)
      BY <1>4, <3>1, StepsOfQueries
    <3>3. PICK x : x = L + 1
      OBVIOUS
    <3>4. q = [e EXCEPT !.current_idx = x]
      BY <1>3, <1>8, <1>12, <1>14, <3>1, <3>3
    <3> QED BY <3>2, <3>3, <3>4, QueryFields
  <2>2. /\ q.stage = "done" /\ q.plan = query.plan /\ q.results = query.results
        /\ q.current_idx = L + 1 /\ q.out = query.out /\ q.must = query.must
    BY <2>1 DEF QueryOf
  <2>3. q \in Queries
    <3>1. L + 1 \in Nat
      BY <1>10
    <3> QED BY <1>6, <2>1, <3>1 DEF QueryOf, Queries
  <2>4. q.must \subseteq ToSet(q.out)
    BY <1>13, <1>14, <2>2
  <2>5. IndexSound(heap, q)
    <3>1. \A n : n \notin q.current_idx .. Len(q.results)
      BY <1>8, <1>10, <2>2
    <3> QED BY <1>5, <2>2, <3>1 DEF IndexSound
  <2>6. StreamSound(q)
    BY <1>5, <2>2, <2>4 DEF StreamSound, Answered
  <2>7. 1 <= q.current_idx /\ q.current_idx <= Len(q.results) + 1
    BY <1>8, <1>10, <2>2
  <2>8. QuerySound(heap, it, q)
    BY <1>1, <1>5, <2>2, <2>3, <2>5, <2>6, <2>7 DEF QuerySound, SourceSound
  <2>9. QueryState(heap, it', query') /\ it' \in Scans(heap)
    BY <1>1, <1>12, <2>8 DEF QueryState, ExecInv
  <2> QED BY <1>1, <2>9, TableUnchanged
<1>15. CASE hits # {}
  <2>1. PICK k : k = Min(hits)
    OBVIOUS
  <2>2. k \in hits /\ k \in c .. L /\ \A n \in hits : k <= n
    <3>1. hits \subseteq Nat
      BY <1>10, <1>11
    <3> QED BY <1>11, <1>15, <2>1, <3>1, MinIsLeast
  <2>3. PICK rid : rid = query.results[k].rid
    OBVIOUS
  <2>4. PICK row : row = Row(rid)
    OBVIOUS
  <2>5. rid \in Live(heap) /\ Predicate(query.plan, row)
    BY <1>11, <2>2, <2>3, <2>4
  <2>6. row \in Rows /\ row.rid = rid /\ row.rec = Rec(heap, rid) /\ rid \in Rid
    BY <1>4, <2>4, <2>5, RowFields
  <2>7. q = QueryOf("open", query.plan, query.pending, query.results, k + 1, Append(query.out, row), query.must)
    <3>1. PICK e : e = Emits(row)
      OBVIOUS
    <3>2. e = QueryOf("open", query.plan, query.pending, query.results, query.current_idx,
                      Append(query.out, row), query.must)
      BY <1>1, <1>4, <3>1, StepsOfQueries
    <3>3. PICK x : x = k + 1
      OBVIOUS
    <3>4. q = [e EXCEPT !.current_idx = x]
      BY <1>3, <1>12, <1>15, <2>1, <2>3, <2>4, <3>1, <3>3 DEF IndexAfter
    <3> QED BY <3>2, <3>3, <3>4, QueryFields
  <2>8. /\ q.stage = "open" /\ q.plan = query.plan /\ q.results = query.results
        /\ q.current_idx = k + 1 /\ q.out = Append(query.out, row) /\ q.must = query.must
    BY <2>7 DEF QueryOf
  <2>9. k \in Nat /\ c <= k /\ k <= L /\ 1 <= k
    BY <1>10, <2>2
  <2>10. q \in Queries
    <3>1. k + 1 \in Nat
      BY <2>9
    <3>2. Append(query.out, row) \in Seq(Rows \cup Groupings)
      BY <1>6, <2>6
    <3> QED BY <1>6, <2>7, <3>1, <3>2 DEF QueryOf, Queries
  <2>11. Longer(query.out, row, q.out)
    <3>1. row \in Rows \cup Groupings /\ query.out \in Seq(Rows \cup Groupings)
      BY <1>6, <2>6
    <3> QED BY <2>8, <3>1, AppendedRow
  <2>12. \A n \in k + 1 .. L : n \in c .. L /\ n \in 1 .. L /\ n # k
    BY <1>10, <2>9
  <2>13. k \in 1 .. L
    BY <1>10, <2>9
  <2>14. query.plan.low <= row.rec.name /\ row.rec.name <= query.plan.high
    <3>1. query.plan.low <= query.results[k].key /\ query.results[k].key <= query.plan.high
      BY <1>5, <1>8, <2>13 DEF IndexSound
    <3>2. Rec(heap, rid).name = query.results[k].key
      BY <1>5, <1>8, <1>9, <2>2, <2>3, <2>5 DEF IndexSound
    <3> QED BY <2>6, <3>1, <3>2
  <2>15. Asked(query.plan, row)
    BY <2>5, <2>6, <2>14 DEF Asked, InRange
  <2>16. \A a \in 1 .. Len(query.out) : query.out[a].rid # rid
    BY <1>5, <1>8, <1>9, <2>2, <2>3 DEF IndexSound
  <2>17. \A a \in 1 .. Len(q.out) : Asked(q.plan, q.out[a])
    BY <1>5, <2>8, <2>11, <2>15 DEF IndexSound, Longer
  <2>18. \A a, b \in 1 .. Len(q.out) : q.out[a].rid = q.out[b].rid => a = b
    <3>1. \A a, b \in 1 .. Len(query.out) : query.out[a].rid = query.out[b].rid => a = b
      BY <1>5 DEF IndexSound
    <3> QED BY <2>6, <2>11, <2>16, <3>1 DEF Longer
  <2>19. ASSUME NEW a \in 1 .. Len(q.out), NEW n \in k + 1 .. L
         PROVE  query.results[n].rid # q.out[a].rid
    <3>1. CASE a \in 1 .. Len(query.out)
      <4>1. q.out[a] = query.out[a]
        BY <2>11, <3>1 DEF Longer
      <4> QED BY <1>5, <1>8, <1>9, <2>12, <2>19, <3>1, <4>1 DEF IndexSound
    <3>2. CASE a = Len(query.out) + 1
      <4>1. q.out[a].rid = query.results[k].rid
        BY <2>3, <2>6, <2>11, <3>2 DEF Longer
      <4> QED BY <1>5, <1>8, <2>12, <2>13, <2>19, <4>1 DEF IndexSound
    <3> QED BY <2>11, <3>1, <3>2 DEF Longer
  <2>20. ASSUME NEW r \in q.must
         PROVE  /\ Current(heap, r) /\ Predicate(q.plan, r)
                /\ r \in ToSet(q.out) \/ \E n \in k + 1 .. L : query.results[n].rid = r.rid
    <3>1. /\ Current(heap, r) /\ Predicate(query.plan, r)
          /\ r \in ToSet(query.out) \/ \E n \in hits : query.results[n].rid = r.rid
      BY <1>13, <2>8
    <3>2. CASE r \in ToSet(query.out)
      BY <2>8, <2>11, <3>1, <3>2 DEF Longer
    <3>3. ASSUME NEW n \in hits, query.results[n].rid = r.rid
          PROVE  r \in ToSet(q.out) \/ \E m \in k + 1 .. L : query.results[m].rid = r.rid
      <4>1. n \in c .. L /\ k <= n
        BY <1>11, <2>2
      <4>2. CASE n = k
        <5>1. r.rid = row.rid /\ r.rec = row.rec /\ r \in Rows
          BY <1>6, <2>3, <2>6, <2>8, <3>1, <3>3, <4>2 DEF Current
        <5>2. r = row
          BY <2>6, <5>1 DEF Rows
        <5> QED BY <2>11, <5>2 DEF Longer
      <4>3. CASE n # k
        <5>1. n \in k + 1 .. L
          BY <1>10, <2>9, <4>1, <4>3
        <5> QED BY <3>3, <5>1
      <4> QED BY <4>2, <4>3
    <3> QED BY <2>8, <3>1, <3>2, <3>3
  <2>21. IndexSound(heap, q)
    <3>1. \A n \in k + 1 .. L : query.results[n].rid \in Live(heap) =>
                                  Rec(heap, query.results[n].rid).name = query.results[n].key
      BY <1>5, <1>8, <1>9, <2>12 DEF IndexSound
    <3>2. /\ \A n \in 1 .. L : query.plan.low <= query.results[n].key /\ query.results[n].key <= query.plan.high
          /\ \A n, m \in 1 .. L : query.results[n].rid = query.results[m].rid => n = m
      BY <1>5, <1>8 DEF IndexSound
    <3>3. q.results = query.results /\ Len(q.results) = L /\ q.current_idx = k + 1 /\ q.plan = query.plan
      BY <1>8, <2>8
    <3> QED BY <2>17, <2>18, <2>19, <2>20, <3>1, <3>2, <3>3 DEF IndexSound
  <2>22. StreamSound(q)
    <3>1. ASSUME q.plan.op = "limit" PROVE Len(q.out) <= q.plan.limit
      <4>1. ~(Len(query.out) >= query.plan.limit)
        BY <1>1, <2>8, <3>1 DEF LimitReached
      <4>2. Len(q.out) = Len(query.out) + 1
        BY <2>11 DEF Longer
      <4> QED BY <1>6, <2>8, <4>1, <4>2, PlanFields
    <3> QED BY <2>8, <3>1 DEF StreamSound
  <2>23. 1 <= q.current_idx /\ q.current_idx <= Len(q.results) + 1
    BY <1>8, <1>10, <2>8, <2>9
  <2>24. QuerySound(heap, it, q)
    BY <1>1, <1>5, <2>8, <2>10, <2>21, <2>22, <2>23 DEF QuerySound, SourceSound
  <2>25. QueryState(heap, it', query') /\ it' \in Scans(heap)
    BY <1>1, <1>12, <2>24 DEF QueryState, ExecInv
  <2> QED BY <1>1, <2>25, TableUnchanged
<1> QED BY <1>14, <1>15

LEMMA GroupsAre ==
  ASSUME NEW rows, rows \subseteq Rows, IsFiniteSet(rows)
  PROVE  Groups(rows) \subseteq Groupings /\ IsFiniteSet(Groups(rows))
<1> DEFINE N == {row.rec.name : row \in rows}
           f == [row \in rows |-> row.rec.name]
           g == [n \in N |-> [group |-> n, count |-> Cardinality({row \in rows : row.rec.name = n})]]
<1>1. N \subseteq Names
  <2>1. \A row \in rows : row.rec \in Record
    BY DEF Rows
  <2> QED BY <2>1 DEF Record
<1>2. IsFiniteSet(N)
  <2>1. DOMAIN f = rows /\ N = {f[row] : row \in rows}
    OBVIOUS
  <2> HIDE DEF f, N
  <2> QED BY <2>1, FiniteImage
<1>3. \A n : Cardinality({row \in rows : row.rec.name = n}) \in Nat
  BY FS_Subset, FS_CardinalityType
<1>4. Groups(rows) = {g[n] : n \in N} /\ DOMAIN g = N
  BY DEF Groups
<1>5. ASSUME NEW n \in N PROVE g[n] \in Groupings
  <2>1. PICK c : c = Cardinality({row \in rows : row.rec.name = n})
    OBVIOUS
  <2>2. g[n] = [group |-> n, count |-> c]
    BY <2>1
  <2>3. c \in Nat /\ n \in Names
    BY <1>1, <1>3, <2>1
  <2> HIDE DEF N, g
  <2> QED BY <2>2, <2>3 DEF Groupings
<1>6. IsFiniteSet(Groups(rows))
  <2> HIDE DEF g, N
  <2> QED BY <1>2, <1>4, FiniteImage
<1> HIDE DEF g, N
<1> QED BY <1>4, <1>5, <1>6

LEMMA OpenKeeps ==
  ASSUME ExecInv, Enough(Pinned), NEW plan \in Plans, Open(plan)
  PROVE  ExecInv'
<1>1. /\ it = NoIterator /\ UNCHANGED <<heap, borrowed>>
      /\ it' = IF Streams(plan) /\ plan.source = "table" THEN BeginScan ELSE it
  BY DEF Open
<1>2. PICK pending \in Materializations(plan) :
        query' = [stage |-> "open", plan |-> plan, pending |-> pending,
                  results |-> IF Streams(plan) /\ plan.source = "index" THEN Materialized(plan) ELSE <<>>,
                  current_idx |-> 1, out |-> <<>>, must |-> Wanted(plan)]
  BY DEF Open
<1>3. PICK r : r = IF Streams(plan) /\ plan.source = "index" THEN Materialized(plan) ELSE <<>>
  OBVIOUS
<1>4. PICK e : e = <<>>
  OBVIOUS
<1>5. PICK must : must = Wanted(plan)
  OBVIOUS
<1>6. PICK q : q = query'
  OBVIOUS
<1>7. q = QueryOf("open", plan, pending, r, 1, e, must)
  BY <1>2, <1>3, <1>4, <1>5, <1>6 DEF QueryOf
<1>8. /\ q.stage = "open" /\ q.plan = plan /\ q.pending = pending /\ q.results = r
      /\ q.current_idx = 1 /\ q.out = e /\ q.must = must
  BY <1>7 DEF QueryOf
<1>9. Sound(heap) /\ Enough(borrowed)
  BY FramesForScan DEF ExecInv
<1>10. /\ must \subseteq Rows /\ IsFiniteSet(must)
       /\ \A row \in must : /\ row.rid \in Live(heap) /\ row = Row(row.rid)
                            /\ InRange(plan, row.rec) /\ Predicate(plan, row)
  BY <1>5, <1>9, WantedIs
<1>11. e \in Seq(Rows \cup Groupings) /\ Len(e) = 0 /\ ToSet(e) = {}
  BY <1>4 DEF ToSet
<1>12. \A a : a \notin 1 .. Len(e)
  BY <1>11
<1>13. r \in Seq(IndexEntry) /\ Len(r) \in Nat
  BY <1>3, <1>9, MaterializedIs
<1>14. /\ plan.source \in {"table", "index"} /\ plan.limit \in Nat
       /\ plan.op \in {"none", "limit", "sort", "topn", "aggregate"}
  BY PlanFields
<1>15. Input(plan) = must
  BY <1>5, <1>9, InputIsWanted
<1>16. /\ plan.op = "sort" => pending = must
       /\ plan.op = "topn" => pending \in TopRows(must, plan.limit)
       /\ plan.op = "aggregate" => pending = Groups(must)
       /\ Streams(plan) => pending = {}
  BY <1>2, <1>14, <1>15 DEF Materializations, Streams
<1>17. pending \subseteq Rows \cup Groupings /\ IsFiniteSet(pending)
  <2>1. CASE plan.op = "sort"
    BY <1>10, <1>16, <2>1
  <2>2. CASE plan.op = "topn"
    <3>1. pending \subseteq must
      BY <1>16, <2>2 DEF TopRows
    <3> QED BY <1>10, <3>1, FS_Subset
  <2>3. CASE plan.op = "aggregate"
    BY <1>10, <1>16, <2>3, GroupsAre
  <2>4. CASE Streams(plan)
    BY <1>16, <2>4, FS_EmptySet
  <2> QED BY <1>14, <2>1, <2>2, <2>3, <2>4 DEF Streams
<1>18. q \in Queries
  BY <1>7, <1>10, <1>11, <1>13, <1>17 DEF QueryOf, Queries
<1>19. 1 <= q.current_idx /\ q.current_idx <= Len(q.results) + 1
  BY <1>8, <1>13
<1>20. \A row \in must : Current(heap, row) /\ Asked(plan, row)
  <2> SUFFICES ASSUME NEW row \in must PROVE Current(heap, row) /\ Asked(plan, row)
    OBVIOUS
  <2>1. row.rec = Rec(heap, row.rid)
    BY <1>9, <1>10, RowFields
  <2> QED BY <1>10, <2>1 DEF Current, Asked
<1>21. it' \in Scans(heap) /\ (it' # NoIterator => Streams(plan) /\ plan.source = "table")
  <2>1. BeginScan \in Scans(heap)
    BY <1>9, BeginIs
  <2> QED BY <1>1, <2>1 DEF Scans
<1>22. Streams(plan) => StreamSound(q)
  BY <1>8, <1>11, <1>14 DEF StreamSound
<1>23. ASSUME Streams(plan), plan.source = "table" PROVE TableSound(heap, it', q)
  <2>1. \A row \in must : Reaches(it', row.rid)
    BY <1>1, <1>9, <1>10, <1>23, BeginIs
  <2> QED BY <1>8, <1>12, <1>20, <2>1 DEF TableSound, Asked
<1>24. ASSUME Streams(plan), plan.source = "index" PROVE IndexSound(heap, q)
  <2>1. r = Materialized(plan)
    BY <1>3, <1>24
  <2>2. /\ \A n \in 1 .. Len(r) : /\ r[n] \in IndexEntry /\ r[n].rid \in Live(heap)
                                  /\ r[n].key = Rec(heap, r[n].rid).name
                                  /\ plan.low <= r[n].key /\ r[n].key <= plan.high
        /\ \A m, n \in 1 .. Len(r) : r[m].rid = r[n].rid => m = n
        /\ \A rid \in Live(heap) :
             plan.low <= Rec(heap, rid).name /\ Rec(heap, rid).name <= plan.high =>
               \E n \in 1 .. Len(r) : r[n].rid = rid
    BY <1>9, <2>1, MaterializedIs
  <2>3. \A row \in must : \E n \in 1 .. Len(r) : r[n].rid = row.rid
    <3> SUFFICES ASSUME NEW row \in must PROVE \E n \in 1 .. Len(r) : r[n].rid = row.rid
      OBVIOUS
    <3>1. plan.low <= row.rec.name /\ row.rec.name <= plan.high /\ row.rid \in Live(heap)
      BY <1>10, <1>24 DEF InRange
    <3>2. row.rec = Rec(heap, row.rid)
      BY <1>20 DEF Current
    <3> QED BY <2>2, <3>1, <3>2
  <2> QED BY <1>8, <1>12, <1>20, <2>2, <2>3 DEF IndexSound, Asked
<1>25. ASSUME ~Streams(plan) PROVE MaterialSound(q)
  <2>1. ToSet(q.out) \cup q.pending = pending
    BY <1>8, <1>11
  <2>2. IsFiniteSet(q.pending) /\ IsFiniteSet(q.must) /\ ToSet(q.out) \cap q.pending = {}
    BY <1>8, <1>10, <1>11, <1>17
  <2> QED BY <1>8, <1>12, <1>16, <1>20, <2>1, <2>2 DEF MaterialSound
<1>26. QuerySound(heap, it', q)
  BY <1>8, <1>18, <1>19, <1>21, <1>22, <1>23, <1>24, <1>25 DEF QuerySound, SourceSound
<1>27. QueryState(heap, it', query')
  BY <1>6, <1>26 DEF QueryState
<1> QED BY <1>1, <1>21, <1>27, TableUnchanged

\* What an insert leaves of the table.
LEMMA ClientInsertKeeps ==
  ASSUME ExecInv, Enough(Pinned), Clashes = {}, NEW r \in Record, ClientInsert(r)
  PROVE  ExecInv'
<1>1. PICK h : h = Insert(heap, r, Pinned)
  OBVIOUS
<1>2. /\ Len(h.pages) <= MaxPages /\ heap' = h /\ UNCHANGED <<it, borrowed, query>>
      /\ (Live(h) \ Live(heap)) \cap ToBeRead = {}
  BY <1>1 DEF ClientInsert
<1>3. Sound(heap)
  BY DEF ExecInv
<1>4. Sound(h) /\ Keeps(heap, h)
  BY <1>1, <1>3, InsertResult DEF Same, Adds
<1>5. Live(heap) \subseteq Live(h) /\ \A rid \in Live(heap) : Rec(h, rid) = Rec(heap, rid)
  BY <1>4 DEF Keeps
<1>6. borrowed \subseteq 1 .. Len(h.pages)
  <2>1. Len(heap.pages) <= Len(h.pages) /\ Len(heap.pages) \in Nat /\ Len(h.pages) \in Nat
    BY <1>3, <1>4, HeapTypes DEF Keeps, Sound
  <2>2. 1 .. Len(heap.pages) \subseteq 1 .. Len(h.pages)
    BY <2>1
  <2> QED BY <2>2 DEF ExecInv
<1>7. it \in Scans(h)
  BY <1>5 DEF ExecInv, Scans
<1>8. \A row : Current(heap, row) => Current(h, row)
  BY <1>5 DEF Current
<1>9. ASSUME QuerySound(heap, it, query) PROVE QuerySound(h, it, query)
  <2>1. ASSUME TableSound(heap, it, query) PROVE TableSound(h, it, query)
    BY <1>8, <2>1 DEF TableSound
  <2>2. ASSUME IndexSound(heap, query) PROVE IndexSound(h, query)
    <3>1. ASSUME NEW n \in query.current_idx .. Len(query.results), query.results[n].rid \in Live(h)
          PROVE  Rec(h, query.results[n].rid).name = query.results[n].key
      <4>1. query.results[n].rid \in ToBeRead
        BY DEF ToBeRead
      <4>2. query.results[n].rid \in Live(heap)
        BY <1>2, <3>1, <4>1
      <4>3. Rec(heap, query.results[n].rid).name = query.results[n].key
        BY <2>2, <3>1, <4>2 DEF IndexSound
      <4> QED BY <1>5, <4>2, <4>3
    <3>2. query.stage = "open" => \A row \in query.must :
            /\ Current(h, row) /\ Predicate(query.plan, row)
            /\ \/ row \in ToSet(query.out)
               \/ \E n \in query.current_idx .. Len(query.results) : query.results[n].rid = row.rid
      BY <1>8, <2>2 DEF IndexSound
    <3> QED BY <2>2, <3>1, <3>2 DEF IndexSound
  <2> QED BY <1>9, <2>1, <2>2 DEF QuerySound, SourceSound
<1>10. QueryState(h, it, query)
  BY <1>9 DEF ExecInv, QueryState
<1> QED BY <1>2, <1>4, <1>6, <1>7, <1>10 DEF ExecInv

\* A row that is deleted during the scan is owed no longer.
LEMMA ClientDeleteKeeps ==
  ASSUME ExecInv, Enough(Pinned), Clashes = {}, NEW rid \in Live(heap), ClientDelete(rid)
  PROVE  ExecInv'
<1>1. PICK h : h = Delete(heap, rid, Pinned)
  OBVIOUS
<1>2. /\ heap' = h /\ UNCHANGED <<it, borrowed>>
      /\ ~(it.valid /\ it.page = rid.page /\ it.slot = rid.slot)
      /\ query' = IF OpenScan THEN [query EXCEPT !.must = {row \in @ : row.rid # rid}] ELSE query
  BY <1>1 DEF ClientDelete
<1>3. Sound(heap) /\ rid \in Rid /\ rid.page \in 1 .. Len(heap.pages)
  BY LiveIs DEF ExecInv, Sound
<1>4. Sound(h) /\ Keeps(h, heap) /\ Len(h.pages) = Len(heap.pages) /\ Live(h) = Live(heap) \ {rid}
  BY <1>1, <1>3, DeleteResult DEF SameSize
<1>5. \A x \in Live(h) : Rec(h, x) = Rec(heap, x)
  BY <1>4 DEF Keeps
<1>6. it \in Scans(h)
  <2>1. CASE it = NoIterator
    BY <2>1 DEF Scans
  <2>2. ASSUME NEW x \in Live(heap), it = At(x) PROVE it \in Scans(h)
    <3>1. x # rid
      BY <1>2, <1>3, <2>2, AtFields
    <3> QED BY <1>4, <2>2, <3>1 DEF Scans
  <2> QED BY <2>1, <2>2 DEF ExecInv, Scans
<1>7. \A row : Current(heap, row) /\ row.rid # rid => Current(h, row)
  BY <1>4, <1>5 DEF Current
<1>8. CASE OpenScan
  <2>1. query.stage = "open" /\ Streams(query.plan)
    BY <1>8 DEF OpenScan
  <2>2. QuerySound(heap, it, query) /\ query \in Queries
    BY <2>1, OpenIs
  <2>3. PICK must : must = {row \in query.must : row.rid # rid}
    OBVIOUS
  <2>4. PICK q : q = query'
    OBVIOUS
  <2>5. q = QueryOf("open", query.plan, query.pending, query.results, query.current_idx, query.out, must)
    <3>1. q = [query EXCEPT !.must = must]
      BY <1>2, <1>8, <2>3, <2>4
    <3> QED BY <2>1, <2>2, <3>1, QueryFields
  <2>6. /\ q.stage = "open" /\ q.plan = query.plan /\ q.results = query.results
        /\ q.current_idx = query.current_idx /\ q.out = query.out /\ q.must = must
    BY <2>5 DEF QueryOf
  <2>7. q \in Queries
    <3>1. must \subseteq Rows
      BY <2>2, <2>3, QueryTypes
    <3> QED BY <2>2, <2>5, <3>1, QueryTypes DEF QueryOf, Queries
  <2>8. StreamSound(q)
    BY <2>1, <2>2, <2>6 DEF QuerySound, StreamSound
  <2>9. ASSUME TableSound(heap, it, query) PROVE TableSound(h, it, q)
    <3>1. \A row \in must : /\ Current(h, row) /\ Predicate(q.plan, row)
                            /\ row \in ToSet(q.out) \/ Reaches(it, row.rid)
      BY <1>7, <2>1, <2>3, <2>6, <2>9 DEF TableSound
    <3> QED BY <2>1, <2>6, <2>9, <3>1 DEF TableSound
  <2>10. ASSUME IndexSound(heap, query) PROVE IndexSound(h, q)
    <3>1. \A row \in must :
            /\ Current(h, row) /\ Predicate(q.plan, row)
            /\ \/ row \in ToSet(q.out)
               \/ \E n \in q.current_idx .. Len(q.results) : q.results[n].rid = row.rid
      BY <1>7, <2>1, <2>3, <2>6, <2>10 DEF IndexSound
    <3>2. \A n \in q.current_idx .. Len(q.results) :
            q.results[n].rid \in Live(h) => Rec(h, q.results[n].rid).name = q.results[n].key
      BY <1>4, <1>5, <2>6, <2>10 DEF IndexSound
    <3> QED BY <2>6, <2>10, <3>1, <3>2 DEF IndexSound
  <2>11. QuerySound(h, it, q)
    BY <2>1, <2>2, <2>6, <2>7, <2>8, <2>9, <2>10 DEF QuerySound, SourceSound
  <2>12. QueryState(h, it, query')
    BY <2>4, <2>11 DEF QueryState
  <2> QED BY <1>2, <1>4, <1>6, <2>12 DEF ExecInv
<1>9. CASE ~OpenScan
  <2>1. query' = query
    BY <1>2, <1>9
  <2>2. ASSUME QuerySound(heap, it, query) PROVE QuerySound(h, it, query)
    <3>1. CASE ~Streams(query.plan)
      BY <2>2, <3>1 DEF QuerySound
    <3>2. CASE Streams(query.plan)
      <4>1. query.stage = "done"
        BY <1>9, <2>2, <3>2, QueryTypes DEF OpenScan, QuerySound
      <4>2. ASSUME TableSound(heap, it, query) PROVE TableSound(h, it, query)
        BY <4>1, <4>2 DEF TableSound
      <4>3. ASSUME IndexSound(heap, query) PROVE IndexSound(h, query)
        BY <1>4, <1>5, <4>1, <4>3 DEF IndexSound
      <4> QED BY <2>2, <4>2, <4>3 DEF QuerySound, SourceSound
    <3> QED BY <3>1, <3>2
  <2>3. QueryState(h, it, query)
    BY <2>2 DEF ExecInv, QueryState
  <2> QED BY <1>2, <1>4, <1>6, <2>1, <2>3 DEF ExecInv
<1> QED BY <1>8, <1>9

\* What the theorems ask of the clients: two frames that nothing has left pinned.
TwoFramesLeft == Cardinality(Pinned) + 2 <= PoolSize

LEMMA PinsAre ==
  ASSUME ExecInv
  PROVE  Pinned \subseteq 1 .. Len(heap.pages) /\ IsFiniteSet(Pinned) /\ Len(heap.pages) \in Nat
<1>1. {it.page} \ {INVALID_PAGE_ID} \subseteq 1 .. Len(heap.pages)
  <2>1. CASE it = NoIterator
    BY <2>1, NoIteratorFields
  <2>2. ASSUME NEW rid \in Live(heap), it = At(rid) PROVE it.page \in 1 .. Len(heap.pages)
    BY <2>2, AtFields DEF ExecInv
  <2> QED BY <2>1, <2>2 DEF ExecInv, Scans
<1>2. IsFiniteSet({it.page} \ {INVALID_PAGE_ID})
  BY FS_Singleton, FS_Subset
<1>3. IsFiniteSet(Pinned)
  BY <1>2, FS_Union DEF ExecInv, Pinned
<1>4. Len(heap.pages) \in Nat
  BY HeapTypes DEF ExecInv, Sound
<1> QED BY <1>1, <1>3, <1>4 DEF ExecInv, Pinned

LEMMA ExecutorNextKeeps ==
  ASSUME ExecInv, TwoFramesLeft, Clashes = {}, [ExecutorNext]_execVars
  PROVE  ExecInv'
<1>1. Enough(Pinned)
  BY PinsAre DEF Enough, TwoFramesLeft
<1>2. ASSUME NEW plan \in Plans, Open(plan) PROVE ExecInv'
  BY <1>1, <1>2, OpenKeeps
<1>3. CASE NextAtLimit
  BY <1>3, NextAtLimitKeeps
<1>4. CASE NextOfTable
  BY <1>1, <1>4, NextOfTableKeeps
<1>5. CASE NextOfIndex
  BY <1>1, <1>5, NextOfIndexKeeps
<1>6. CASE NextOfMaterialized
  BY <1>6, NextOfMaterializedKeeps
<1>7. CASE ScanDropped
  BY <1>7, ScanDroppedKeeps
<1>8. ASSUME NEW r \in Record, ClientInsert(r) PROVE ExecInv'
  BY <1>1, <1>8, ClientInsertKeeps
<1>9. ASSUME NEW rid \in Live(heap), ClientDelete(rid) PROVE ExecInv'
  BY <1>1, <1>9, ClientDeleteKeeps
<1>10. CASE UNCHANGED execVars
  <2>1. heap' = heap /\ it' = it /\ borrowed' = borrowed /\ query' = query
    BY <1>10 DEF execVars
  <2> QED BY <2>1 DEF ExecInv
<1> QED BY <1>2, <1>3, <1>4, <1>5, <1>6, <1>7, <1>8, <1>9, <1>10 DEF ExecutorNext

LEMMA QueriesInvariant ==
  ASSUME Clashes = {}
  PROVE  ExecutorSpec /\ []TwoFramesLeft => []ExecInv
<1>1. ExecutorInit => ExecInv
  BY ExecutorInitKeeps
<1>2. ExecInv /\ TwoFramesLeft /\ [ExecutorNext]_execVars => ExecInv'
  BY ExecutorNextKeeps
<1> QED BY <1>1, <1>2, PTL DEF ExecutorSpec

-----------------------------------------------------------------------------
(* What the invariant says of a query. *)

LEMMA NoQueryFields ==
  /\ NoQuery.stage = "none" /\ NoQuery.results = <<>> /\ NoQuery.current_idx = 1
BY DEF NoQuery

\* A query that has begun.
LEMMA BegunIs ==
  ASSUME ExecInv, query.stage # "none"
  PROVE  QuerySound(heap, it, query) /\ query \in Queries
BY NoQueryFields DEF ExecInv, QueryState, QuerySound

LEMMA InvExecutorTypeOK == ExecInv => ExecutorTypeOK
<1> SUFFICES ASSUME ExecInv PROVE ExecutorTypeOK
  OBVIOUS
<1>1. Sound(heap) /\ it \in Scans(heap)
  BY DEF ExecInv
<1>2. it.page \in 1 .. Len(heap.pages) \cup {INVALID_PAGE_ID} /\ it.valid \in BOOLEAN
  BY <1>1, ScansAre, NoIteratorFields
<1>3. TypeOK
  BY <1>2, SoundTypes DEF ExecInv
<1>4. it.seen = <<>> /\ it.must = {}
  BY <1>1, ScansAre
<1>5. CASE query = NoQuery
  <2>1. query.current_idx \in 1 .. Len(query.results) + 1
    BY <1>5, NoQueryFields
  <2> QED BY <1>3, <1>4, <1>5, <2>1, NoQueryFields DEF ExecutorTypeOK
<1>6. CASE QuerySound(heap, it, query)
  <2>1. query \in Queries /\ 1 <= query.current_idx /\ query.current_idx <= Len(query.results) + 1
    BY <1>6 DEF QuerySound
  <2>2. query.stage \in {"open", "done"} /\ query.plan \in Plans
    BY <2>1, QueryTypes
  <2>3. query.current_idx \in 1 .. Len(query.results) + 1
    BY <2>1, QueryTypes
  <2> QED BY <1>3, <1>4, <2>2, <2>3 DEF ExecutorTypeOK
<1> QED BY <1>5, <1>6 DEF ExecInv, QueryState

LEMMA DistinctRows ==
  ASSUME NEW s \in Seq(Rows \cup Groupings), \A a, b \in 1 .. Len(s) : s[a] = s[b] => a = b
  PROVE  IsFiniteSet(ToSet(s)) /\ Cardinality(ToSet(s)) = Len(s)
<1>1. Len(s) \in Nat /\ DOMAIN s = 1 .. Len(s)
  OBVIOUS
<1>2. IsFiniteSet(1 .. Len(s)) /\ Cardinality(1 .. Len(s)) = Len(s)
  BY <1>1, FS_Interval
<1>3. s \in [1 .. Len(s) -> ToSet(s)]
  BY <1>1 DEF ToSet
<1>4. s \in Surjection(1 .. Len(s), ToSet(s))
  BY <1>1, <1>3, ReturnedIs DEF Surjection
<1>5. s \in Injection(1 .. Len(s), ToSet(s))
  BY <1>3 DEF Injection, IsInjective
<1> QED BY <1>2, <1>4, <1>5, FS_Surjection

\* No row is returned twice.
LEMMA ReturnedOnce ==
  ASSUME ExecInv, query.stage # "none"
  PROVE  IsFiniteSet(Returned) /\ Cardinality(Returned) = Len(query.out)
<1>1. QuerySound(heap, it, query) /\ query \in Queries
  BY BegunIs
<1>2. query.out \in Seq(Rows \cup Groupings) /\ Len(query.out) \in Nat /\ query.plan \in Plans
  BY <1>1, QueryTypes
<1>3. ASSUME NEW a \in 1 .. Len(query.out), NEW b \in 1 .. Len(query.out), query.out[a] = query.out[b]
      PROVE  a = b
  <2>1. CASE ~Streams(query.plan)
    BY <1>1, <1>3, <2>1 DEF QuerySound, MaterialSound
  <2>2. CASE Streams(query.plan) /\ query.plan.source = "index"
    BY <1>1, <1>3, <2>2 DEF QuerySound, SourceSound, IndexSound
  <2>3. CASE Streams(query.plan) /\ query.plan.source = "table"
    <3>1. TableSound(heap, it, query)
      BY <1>1, <2>3 DEF QuerySound, SourceSound
    <3>2. query.out[a] \in Rows
      BY <3>1 DEF TableSound, Asked
    <3>3. query.out[a].rid.page \in Nat /\ query.out[a].rid.slot \in Nat
      BY <3>2, RidIs DEF Rows
    <3>4. ~Before(query.out[a].rid, query.out[b].rid) /\ ~Before(query.out[b].rid, query.out[a].rid)
      BY <1>3, <3>3 DEF Before
    <3>5. ~(a < b) /\ ~(b < a)
      BY <3>1, <3>4 DEF TableSound
    <3> QED BY <1>2, <3>5
  <2> QED BY <1>2, <2>1, <2>2, <2>3, PlanFields
<1> QED BY <1>2, <1>3, DistinctRows DEF Returned

LEMMA InvAnswerSound == ExecInv => AnswerSound
<1> SUFFICES ASSUME ExecInv, query.stage # "none"
             PROVE  /\ Cardinality(Returned) = Len(query.out)
                    /\ query.plan.op # "aggregate" =>
                         \A row \in Returned : InRange(query.plan, row.rec) /\ Predicate(query.plan, row)
                    /\ query.plan.op \in {"limit", "topn"} => Len(query.out) <= query.plan.limit
                    /\ query.plan.op \in {"sort", "topn"} =>
                         \A i, j \in DOMAIN query.out : i < j => query.out[i].rec.name <= query.out[j].rec.name
  BY DEF AnswerSound
<1>1. QuerySound(heap, it, query) /\ query \in Queries
  BY BegunIs
<1>2. query.out \in Seq(Rows \cup Groupings) /\ Len(query.out) \in Nat /\ query.plan \in Plans
  BY <1>1, QueryTypes
<1>3. IsFiniteSet(Returned) /\ Cardinality(Returned) = Len(query.out)
  BY ReturnedOnce
<1>4. query.plan.source \in {"table", "index"} /\ query.plan.limit \in Nat
  BY <1>2, PlanFields
<1>5. CASE Streams(query.plan)
  <2>1. \A a \in 1 .. Len(query.out) : Asked(query.plan, query.out[a])
    BY <1>1, <1>4, <1>5 DEF QuerySound, SourceSound, TableSound, IndexSound
  <2>2. \A row \in Returned : InRange(query.plan, row.rec) /\ Predicate(query.plan, row)
    BY <1>2, <2>1, ReturnedIs DEF Asked, Returned
  <2>3. query.plan.op = "limit" => Len(query.out) <= query.plan.limit
    BY <1>1, <1>5 DEF QuerySound, StreamSound
  <2> QED BY <1>3, <1>5, <2>2, <2>3 DEF Streams
<1>6. CASE ~Streams(query.plan)
  <2>1. MaterialSound(query)
    BY <1>1, <1>6 DEF QuerySound
  <2>2. query.plan.op # "limit"
    BY <1>6 DEF Streams
  <2>3. CASE query.plan.op = "aggregate"
    BY <1>3, <2>2, <2>3
  <2>4. CASE query.plan.op # "aggregate"
    <3>1. query.plan.op \in {"sort", "topn"}
      BY <1>2, <1>6, <2>4, PlanFields DEF Streams
    <3>2. Returned \cup query.pending \subseteq query.must
      BY <2>1, <3>1 DEF MaterialSound, TopRows, Returned
    <3>3. \A row \in Returned : InRange(query.plan, row.rec) /\ Predicate(query.plan, row)
      BY <2>1, <2>4, <3>2 DEF MaterialSound, Asked
    <3>4. \A a, b \in 1 .. Len(query.out) : a < b => query.out[a].rec.name <= query.out[b].rec.name
      BY <2>1, <2>4 DEF MaterialSound
    <3>5. ASSUME query.plan.op = "topn" PROVE Len(query.out) <= query.plan.limit
      <4>1. PICK all : all = Returned \cup query.pending
        OBVIOUS
      <4>2. all \in TopRows(query.must, query.plan.limit)
        BY <2>1, <3>5, <4>1 DEF MaterialSound, Returned
      <4>3. Cardinality(all) = IF query.plan.limit < Cardinality(query.must)
                               THEN query.plan.limit ELSE Cardinality(query.must)
        BY <4>2 DEF TopRows
      <4>4. IsFiniteSet(query.must) /\ Cardinality(query.must) \in Nat /\ IsFiniteSet(all)
        BY <2>1, <3>2, <4>1, FS_CardinalityType, FS_Subset DEF MaterialSound
      <4>5. Cardinality(Returned) <= Cardinality(all)
        BY <4>1, <4>4, FS_Subset
      <4> QED BY <1>2, <1>3, <1>4, <4>3, <4>4, <4>5
    <3> QED BY <1>2, <1>3, <2>2, <3>3, <3>4, <3>5
  <2> QED BY <2>3, <2>4
<1> QED BY <1>5, <1>6

LEMMA InvAnswerComplete == ExecInv => AnswerComplete
<1> DEFINE plan == query.plan
           all == query.must \subseteq Returned
           Complete ==
             CASE plan.op = "limit" -> Len(query.out) = plan.limit \/ all
               [] plan.op = "topn"  -> \/ all
                                       \/ /\ Len(query.out) = plan.limit
                                          /\ \A a \in Returned, b \in query.must \ Returned :
                                               a.rec.name <= b.rec.name
               [] plan.op = "aggregate" -> Returned = Groups(query.must)
               [] OTHER -> all
<1> SUFFICES ASSUME ExecInv, query.stage = "done" PROVE Complete
  BY DEF AnswerComplete
<1>1. QuerySound(heap, it, query) /\ query \in Queries /\ query.plan \in Plans
  BY BegunIs, QueryTypes
<1>2. plan.op \in {"none", "limit", "sort", "topn", "aggregate"}
  BY <1>1, PlanFields
<1>3. CASE Streams(plan)
  <2>1. Answered(query)
    BY <1>1, <1>3 DEF QuerySound, StreamSound
  <2> QED BY <1>3, <2>1 DEF Streams, Answered, Returned
<1>4. CASE ~Streams(plan)
  <2>1. MaterialSound(query) /\ query.pending = {}
    BY <1>1, <1>4 DEF QuerySound, MaterialSound
  <2>2. CASE plan.op = "aggregate"
    BY <2>1, <2>2 DEF MaterialSound, Returned
  <2>3. CASE plan.op = "sort"
    BY <2>1, <2>3 DEF MaterialSound, Returned
  <2>4. CASE plan.op = "topn"
    <3>1. Returned \in TopRows(query.must, plan.limit)
      BY <2>1, <2>4 DEF MaterialSound, Returned
    <3>2. /\ Returned \subseteq query.must
          /\ Cardinality(Returned) = IF plan.limit < Cardinality(query.must)
                                     THEN plan.limit ELSE Cardinality(query.must)
          /\ \A a \in Returned, b \in query.must \ Returned : a.rec.name <= b.rec.name
      BY <3>1 DEF TopRows
    <3>3. CASE Cardinality(Returned) = plan.limit
      <4>1. Len(query.out) = plan.limit
        BY <3>3, ReturnedOnce
      <4> QED BY <2>4, <3>2, <4>1
    <3>4. CASE Cardinality(Returned) = Cardinality(query.must)
      <4>1. IsFiniteSet(query.must)
        BY <2>1 DEF MaterialSound
      <4>2. Returned = query.must
        BY <3>2, <3>4, <4>1, FS_Subset
      <4> QED BY <2>4, <4>2
    <3> QED BY <3>2, <3>3, <3>4
  <2> QED BY <1>2, <1>4, <2>2, <2>3, <2>4 DEF Streams
<1> QED BY <1>3, <1>4

LEMMA InvNoPinLeft == ExecInv => NoPinLeft
<1> SUFFICES ASSUME ExecInv, it.page # INVALID_PAGE_ID PROVE NoPinLeft
  BY DEF NoPinLeft
<1>1. it # NoIterator
  BY NoIteratorFields
<1>2. QuerySound(heap, it, query)
  BY <1>1 DEF ExecInv, QueryState
<1>3. query \in Queries /\ Streams(query.plan) /\ query.plan.source = "table"
  BY <1>1, <1>2 DEF QuerySound
<1>4. it.valid
  BY <1>1, AtFields DEF ExecInv, Scans
<1>5. query.stage = "done" => query.plan.op = "limit" /\ Len(query.out) = query.plan.limit
  BY <1>2, <1>3, <1>4 DEF QuerySound, SourceSound, TableSound
<1>6. query.stage = "done" => LimitReached(query.plan)
  BY <1>3, <1>5, QueryTypes, PlanFields DEF LimitReached
<1> QED BY <1>3, <1>6, QueryTypes DEF NoPinLeft

-----------------------------------------------------------------------------
(* Queries: what follows.  Nothing is asked of what clients pin but that two *)
(* frames are left, and no change under an open scan is one of the clashes.  *)

\* With any table, index, pool and plans, a query, the scan below it and the pins it leaves
\* stay in their types, and the index scan does not go beyond its results.
THEOREM QueriesTypeCorrect ==
  ASSUME Clashes = {}
  PROVE  ExecutorSpec /\ []TwoFramesLeft => []ExecutorTypeOK
BY QueriesInvariant, InvExecutorTypeOK, PTL

\* docs/05_query_executor.md:42 and :59: however many rows are inserted and deleted around
\* the scan, no row is returned twice, none that the plan does not ask for, none beyond the
\* limit, and none out of order.
THEOREM AnswersAreSound ==
  ASSUME Clashes = {}
  PROVE  ExecutorSpec /\ []TwoFramesLeft => []AnswerSound
BY QueriesInvariant, InvAnswerSound, PTL

\* executor.h:33: when Next returns false, every row that matched all the while has been
\* returned, or as many of them, and those first in order, as were asked for.
THEOREM AnswersAreComplete ==
  ASSUME Clashes = {}
  PROVE  ExecutorSpec /\ []TwoFramesLeft => []AnswerComplete
BY QueriesInvariant, InvAnswerComplete, PTL

\* HeapFileIterator pins the page it stands on: no page is pinned but by the open scan of a
\* table, and a query that has run to its end has given it back, unless Limit stopped it.
THEOREM NoPinIsLeft ==
  ASSUME Clashes = {}
  PROVE  ExecutorSpec /\ []TwoFramesLeft => []NoPinLeft
BY QueriesInvariant, InvNoPinLeft, PTL

\* A pool with two frames more than the table has pages always has two frames left.
THEOREM AnswersFromALargePool ==
  ASSUME Clashes = {}, PoolSize >= MaxPages + 2
  PROVE  ExecutorSpec => [](AnswerSound /\ AnswerComplete /\ NoPinLeft)
<1>1. ExecInv => TwoFramesLeft
  <2> SUFFICES ASSUME ExecInv PROVE TwoFramesLeft
    OBVIOUS
  <2>1. PICK n : n = Len(heap.pages)
    OBVIOUS
  <2>2. n \in Nat /\ Pinned \subseteq 1 .. n /\ n <= MaxPages
    BY <2>1, PinsAre DEF ExecInv
  <2>3. IsFiniteSet(1 .. n) /\ Cardinality(1 .. n) = n
    BY <2>2, FS_Interval
  <2>4. IsFiniteSet(Pinned) /\ Cardinality(Pinned) <= n
    BY <2>2, <2>3, FS_Subset
  <2>5. Cardinality(Pinned) \in Nat
    BY <2>4, FS_CardinalityType
  <2> QED BY <2>2, <2>4, <2>5, BoundAssumption, PoolAssumption DEF TwoFramesLeft
<1>2. ExecutorInit => ExecInv
  BY ExecutorInitKeeps
<1>3. ExecInv /\ [ExecutorNext]_execVars => ExecInv'
  BY <1>1, ExecutorNextKeeps
<1>4. ExecInv => AnswerSound /\ AnswerComplete /\ NoPinLeft
  BY InvAnswerSound, InvAnswerComplete, InvNoPinLeft
<1> QED BY <1>2, <1>3, <1>4, PTL DEF ExecutorSpec
==============================================================================
