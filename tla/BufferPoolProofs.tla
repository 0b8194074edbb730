-------------------------- MODULE BufferPoolProofs --------------------------
(***************************************************************************)
(* For pools and files of every size and any number of clients: what the   *)
(* pool keeps whatever fails (IInv), that in a file which takes its writes *)
(* no frame and no change is lost, and that over such a file the pool      *)
(* implements PageStore.                                                   *)
(***************************************************************************)
EXTENDS BufferPool, FiniteSetTheorems, SequenceTheorems, TLAPS

-----------------------------------------------------------------------------
(* The lists of frames. *)

\* Removing the one entry of f from a list without duplicates (LRUReplacer::Remove)
\* leaves the other frames and no duplicates.
LEMMA LruRemoveProperties ==
  ASSUME NEW S, NEW s \in Seq(S), NEW f, NoDuplicates(s)
  PROVE  /\ LruRemove(s, f) \in Seq(S)
         /\ NoDuplicates(LruRemove(s, f))
         /\ \A g : In(g, LruRemove(s, f)) <=> In(g, s) /\ g # f
<1>0. DOMAIN s = 1 .. Len(s) /\ Len(s) \in Nat
  BY LenProperties
<1>1. CASE ~In(f, s)
  BY <1>1 DEF LruRemove, In
<1>2. CASE In(f, s)
  <2>1. PICK i \in 1 .. Len(s) : /\ s[i] = f
                                 /\ LruRemove(s, f) = RemoveAt(s, i)
    BY <1>0, <1>2 DEF LruRemove, In
  <2> DEFINE t == RemoveAt(s, i)
             l == SubSeq(s, 1, i - 1)
             r == SubSeq(s, i + 1, Len(s))
  <2>2. /\ l \in Seq(S) /\ Len(l) = i - 1
        /\ \A k \in 1 .. i - 1 : l[k] = s[k]
    <3>1. \A k \in 1 .. i - 1 : s[k] \in S
      BY <1>0, ElementOfSeq
    <3>2. /\ l \in Seq(S) /\ Len(l) = IF 1 <= i - 1 THEN (i - 1) - 1 + 1 ELSE 0
          /\ \A k \in 1 .. (i - 1) - 1 + 1 : l[k] = s[1 + k - 1]
      BY <1>0, <3>1, SubSeqProperties
    <3> QED BY <1>0, <3>2
  <2>3. /\ r \in Seq(S) /\ Len(r) = Len(s) - i
        /\ \A k \in 1 .. Len(s) - i : r[k] = s[i + k]
    <3>1. \A k \in i + 1 .. Len(s) : s[k] \in S
      BY <1>0, ElementOfSeq
    <3>2. /\ r \in Seq(S) /\ Len(r) = IF i + 1 <= Len(s) THEN Len(s) - (i + 1) + 1 ELSE 0
          /\ \A k \in 1 .. Len(s) - (i + 1) + 1 : r[k] = s[(i + 1) + k - 1]
      BY <1>0, <3>1, SubSeqProperties
    <3>3. ASSUME NEW k \in 1 .. Len(s) - i PROVE r[k] = s[i + k]
      <4>1. k \in 1 .. Len(s) - (i + 1) + 1 /\ (i + 1) + k - 1 = i + k
        BY <1>0
      <4>2. r[k] = s[(i + 1) + k - 1]
        BY <3>2, <4>1
      <4> QED BY <4>1, <4>2
    <3>4. CASE i + 1 <= Len(s)
      <4>1. Len(r) = Len(s) - (i + 1) + 1
        BY <3>2, <3>4
      <4>2. Len(r) = Len(s) - i
        <5>1. \A n \in Nat : \A k \in 1 .. n : n - (k + 1) + 1 = n - k
          OBVIOUS
        <5> QED BY <1>0, <4>1, <5>1
      <4> QED BY <3>2, <3>3, <4>2
    <3>5. CASE ~(i + 1 <= Len(s))
      <4>1. Len(r) = 0
        BY <3>2, <3>5
      <4>2. i = Len(s)
        <5>1. \A n \in Nat : \A k \in 1 .. n : ~(k + 1 <= n) => k = n
          OBVIOUS
        <5> QED BY <1>0, <3>5, <5>1
      <4> QED BY <1>0, <4>1, <4>2, <3>2, <3>3
    <3> QED BY <3>4, <3>5
  <2>4. /\ t \in Seq(S)
        /\ Len(t) = Len(s) - 1
        /\ \A k \in 1 .. Len(s) - 1 : t[k] = IF k < i THEN s[k] ELSE s[k + 1]
    <3>1. t = l \o r
      BY DEF RemoveAt
    <3> HIDE DEF t, l, r
    <3>2. /\ t \in Seq(S) /\ Len(t) = Len(l) + Len(r)
          /\ \A k \in 1 .. Len(l) + Len(r) : t[k] = IF k <= Len(l) THEN l[k] ELSE r[k - Len(l)]
      BY <3>1, <2>2, <2>3, ConcatProperties
    <3>3. ASSUME NEW k \in 1 .. Len(s) - 1
          PROVE  t[k] = IF k < i THEN s[k] ELSE s[k + 1]
      <4>1. k \in 1 .. Len(l) + Len(r) /\ Len(l) = i - 1
        BY <1>0, <2>2, <2>3
      <4>2. CASE k < i
        BY <1>0, <3>2, <4>1, <4>2, <2>2
      <4>3. CASE k >= i
        <5>1. k - (i - 1) \in 1 .. Len(s) - i /\ i + (k - (i - 1)) = k + 1
          BY <1>0, <4>3
        <5>2. t[k] = r[k - (i - 1)]
          BY <1>0, <3>2, <4>1, <4>3
        <5> QED BY <5>1, <5>2, <4>3, <2>3
      <4> QED BY <4>2, <4>3
    <3>4. t \in Seq(S) /\ Len(t) = Len(s) - 1
      BY <1>0, <3>2, <2>2, <2>3
    <3> QED BY <3>3, <3>4
  <2>9. LruRemove(s, f) = t
    BY <2>1
  <2> HIDE DEF t
  <2>5. DOMAIN t = 1 .. Len(s) - 1
    BY <2>4, LenProperties
  <2>6. NoDuplicates(t)
    <3> SUFFICES ASSUME NEW j \in 1 .. Len(s) - 1, NEW k \in 1 .. Len(s) - 1, t[j] = t[k]
                 PROVE  j = k
      BY <2>5 DEF NoDuplicates
    <3> DEFINE at(x) == IF x < i THEN x ELSE x + 1
    <3>1. at(j) \in 1 .. Len(s) /\ at(k) \in 1 .. Len(s)
      BY <1>0
    <3>2. s[at(j)] = s[at(k)]
      BY <2>4
    <3>3. at(j) = at(k)
      BY <1>0, <3>1, <3>2 DEF NoDuplicates
    <3> QED BY <1>0, <3>3
  <2>7. ASSUME NEW g PROVE In(g, t) <=> In(g, s) /\ g # f
    <3>1. ASSUME In(g, t) PROVE In(g, s) /\ g # f
      <4>1. PICK k \in 1 .. Len(s) - 1 : t[k] = g
        BY <2>5, <3>1 DEF In
      <4>2. PICK x \in 1 .. Len(s) : s[x] = g /\ x # i
        <5>1. CASE k < i
          BY <1>0, <2>4, <4>1, <5>1
        <5>2. CASE k >= i
          <6>1. k + 1 \in 1 .. Len(s) /\ k + 1 # i /\ s[k + 1] = g
            BY <1>0, <2>4, <4>1, <5>2
          <6> QED BY <6>1
        <5> QED BY <1>0, <5>1, <5>2
      <4>3. g # f
        <5> SUFFICES ASSUME g = f PROVE FALSE
          OBVIOUS
        <5>1. s[x] = s[i]
          BY <2>1, <4>2
        <5>2. x \in DOMAIN s /\ i \in DOMAIN s
          BY <1>0
        <5> QED BY <1>0, <4>2, <5>1, <5>2 DEF NoDuplicates
      <4> QED BY <1>0, <4>2, <4>3 DEF In
    <3>2. ASSUME In(g, s), g # f PROVE In(g, t)
      <4>1. PICK k \in 1 .. Len(s) : s[k] = g
        BY <1>0, <3>2 DEF In
      <4>2. CASE k < i
        <5>1. k \in DOMAIN t /\ t[k] = g
          BY <1>0, <2>4, <2>5, <4>1, <4>2
        <5> QED BY <5>1 DEF In
      <4>3. CASE k > i
        <5>1. k - 1 \in DOMAIN t /\ t[k - 1] = g
          BY <1>0, <2>4, <2>5, <4>1, <4>3
        <5> QED BY <5>1 DEF In
      <4> QED BY <2>1, <3>2, <4>1, <4>2, <4>3
    <3> QED BY <3>1, <3>2
  <2> QED BY <2>4, <2>6, <2>7, <2>9
<1> QED BY <1>1, <1>2

\* Taking the first frame of the free list, as FindFreeFrame does.
LEMMA TailProperties ==
  ASSUME NEW S, NEW s \in Seq(S), s # <<>>, NoDuplicates(s)
  PROVE  /\ Head(s) \in S /\ In(Head(s), s)
         /\ Tail(s) \in Seq(S)
         /\ NoDuplicates(Tail(s))
         /\ \A g : In(g, Tail(s)) <=> In(g, s) /\ g # Head(s)
<1>0. DOMAIN s = 1 .. Len(s) /\ Len(s) \in Nat \ {0}
  BY LenProperties, EmptySeq
<1>1. /\ Head(s) \in S /\ Tail(s) \in Seq(S) /\ Len(Tail(s)) = Len(s) - 1
      /\ \A i \in 1 .. Len(Tail(s)) : Tail(s)[i] = s[i + 1]
  BY HeadTailProperties
<1>2. DOMAIN Tail(s) = 1 .. Len(s) - 1
  BY <1>1, LenProperties
<1>3. Head(s) = s[1]
  OBVIOUS
<1>4. NoDuplicates(Tail(s))
  BY <1>0, <1>1, <1>2 DEF NoDuplicates
<1>5. ASSUME NEW g PROVE In(g, Tail(s)) <=> In(g, s) /\ g # Head(s)
  <2>1. ASSUME In(g, Tail(s)) PROVE In(g, s) /\ g # Head(s)
    BY <1>0, <1>1, <1>2, <1>3, <2>1 DEF In, NoDuplicates
  <2>2. ASSUME In(g, s), g # Head(s) PROVE In(g, Tail(s))
    <3>1. PICK k \in 1 .. Len(s) : s[k] = g
      BY <1>0, <2>2 DEF In
    <3>2. k - 1 \in DOMAIN Tail(s) /\ Tail(s)[k - 1] = g
      BY <1>0, <1>1, <1>2, <1>3, <2>2, <3>1
    <3> QED BY <3>2 DEF In
  <2> QED BY <2>1, <2>2
<1>6. In(Head(s), s)
  BY <1>0, <1>3 DEF In
<1> QED BY <1>1, <1>4, <1>5, <1>6

\* Taking the last frame of the replacer, its victim.
LEMMA FrontProperties ==
  ASSUME NEW S, NEW s \in Seq(S), s # <<>>, NoDuplicates(s)
  PROVE  /\ Last(s) \in S /\ In(Last(s), s)
         /\ Front(s) \in Seq(S)
         /\ NoDuplicates(Front(s))
         /\ \A g : In(g, Front(s)) <=> In(g, s) /\ g # Last(s)
<1> DEFINE t == Front(s)
           n == Len(s)
<1>0. DOMAIN s = 1 .. n /\ n \in Nat \ {0} /\ Last(s) = s[n]
  BY LenProperties, EmptySeq DEF Last
<1>1. /\ t \in Seq(S) /\ Len(t) = n - 1
      /\ \A i \in 1 .. n - 1 : t[i] = s[i]
  <2>1. \A k \in 1 .. n - 1 : s[k] \in S
    BY <1>0, ElementOfSeq
  <2>2. /\ t \in Seq(S) /\ Len(t) = IF 1 <= n - 1 THEN (n - 1) - 1 + 1 ELSE 0
        /\ \A k \in 1 .. (n - 1) - 1 + 1 : t[k] = s[1 + k - 1]
    BY <1>0, <2>1, SubSeqProperties DEF Front
  <2>3. ASSUME NEW k \in 1 .. n - 1 PROVE t[k] = s[k]
    <3>1. k \in 1 .. (n - 1) - 1 + 1 /\ 1 + k - 1 = k
      BY <1>0
    <3>2. t[k] = s[1 + k - 1]
      BY <2>2, <3>1
    <3> QED BY <3>1, <3>2
  <2>4. Len(t) = n - 1
    <3>1. CASE 1 <= n - 1
      <4>1. Len(t) = (n - 1) - 1 + 1
        BY <2>2, <3>1
      <4> QED BY <1>0, <4>1
    <3>2. CASE ~(1 <= n - 1)
      <4>1. Len(t) = 0
        BY <2>2, <3>2
      <4>2. n = 1
        BY <1>0, <3>2
      <4> QED BY <4>1, <4>2
    <3> QED BY <3>1, <3>2
  <2> QED BY <2>2, <2>3, <2>4
<1>2. DOMAIN t = 1 .. n - 1
  BY <1>1, LenProperties
<1> HIDE DEF t
<1>4. NoDuplicates(t)
  BY <1>0, <1>1, <1>2 DEF NoDuplicates
<1>5. ASSUME NEW g PROVE In(g, t) <=> In(g, s) /\ g # Last(s)
  <2>1. ASSUME In(g, t) PROVE In(g, s) /\ g # Last(s)
    BY <1>0, <1>1, <1>2, <2>1 DEF In, NoDuplicates
  <2>2. ASSUME In(g, s), g # Last(s) PROVE In(g, t)
    BY <1>0, <1>1, <1>2, <2>2 DEF In
  <2> QED BY <2>1, <2>2
<1>6. In(Last(s), s) /\ Last(s) \in S
  BY <1>0, ElementOfSeq DEF In
<1> QED BY <1>1, <1>4, <1>5, <1>6 DEF t

\* Adding a frame that is not on the list at the back, as on free_list_.
LEMMA AppendNew ==
  ASSUME NEW S, NEW s \in Seq(S), NEW f \in S, NoDuplicates(s), ~In(f, s)
  PROVE  /\ Append(s, f) \in Seq(S)
         /\ NoDuplicates(Append(s, f))
         /\ \A g : In(g, Append(s, f)) <=> In(g, s) \/ g = f
<1> DEFINE t == Append(s, f)
           n == Len(s)
<1>0. DOMAIN s = 1 .. n /\ n \in Nat
  BY LenProperties
<1>1. /\ t \in Seq(S) /\ Len(t) = n + 1 /\ t[n + 1] = f
      /\ \A i \in 1 .. n : t[i] = s[i]
  BY AppendProperties
<1>2. DOMAIN t = 1 .. n + 1
  BY <1>1, LenProperties
<1> HIDE DEF t
<1>3. NoDuplicates(t)
  BY <1>0, <1>1, <1>2 DEF NoDuplicates, In
<1>4. \A g : In(g, t) <=> In(g, s) \/ g = f
  BY <1>0, <1>1, <1>2 DEF In
<1> QED BY <1>1, <1>3, <1>4 DEF t

\* Adding a frame that is not on the list at the front, as LRUReplacer does.
LEMMA ConsNew ==
  ASSUME NEW S, NEW s \in Seq(S), NEW f \in S, NoDuplicates(s), ~In(f, s)
  PROVE  /\ <<f>> \o s \in Seq(S)
         /\ NoDuplicates(<<f>> \o s)
         /\ \A g : In(g, <<f>> \o s) <=> In(g, s) \/ g = f
<1> DEFINE t == <<f>> \o s
           n == Len(s)
<1>0. DOMAIN s = 1 .. n /\ n \in Nat
  BY LenProperties
<1>1. /\ t \in Seq(S) /\ Len(t) = n + 1 /\ t[1] = f
      /\ \A i \in 1 .. n : t[i + 1] = s[i]
  <2>1. <<f>> \in Seq(S) /\ Len(<<f>>) = 1 /\ <<f>>[1] = f
    OBVIOUS
  <2>2. /\ t \in Seq(S) /\ Len(t) = 1 + n
        /\ \A i \in 1 .. 1 + n : t[i] = IF i <= 1 THEN <<f>>[i] ELSE s[i - 1]
    BY <2>1, ConcatProperties
  <2> HIDE DEF t
  <2>3. t[1] = f
    BY <1>0, <2>1, <2>2
  <2>4. ASSUME NEW i \in 1 .. n PROVE t[i + 1] = s[i]
    BY <1>0, <2>2
  <2> QED BY <1>0, <2>2, <2>3, <2>4
<1>2. DOMAIN t = 1 .. n + 1
  BY <1>1, LenProperties
<1> HIDE DEF t
<1>3. ASSUME NEW i \in 2 .. n + 1 PROVE i - 1 \in 1 .. n /\ t[i] = s[i - 1]
  BY <1>0, <1>1
<1>4. NoDuplicates(t)
  <2> SUFFICES ASSUME NEW i \in 1 .. n + 1, NEW j \in 1 .. n + 1, t[i] = t[j]
               PROVE  i = j
    BY <1>2 DEF NoDuplicates
  <2>1. CASE i = 1 /\ j # 1
    <3>1. j - 1 \in 1 .. n /\ s[j - 1] = f
      BY <1>0, <1>1, <1>3, <2>1
    <3> QED BY <1>0, <3>1 DEF In
  <2>2. CASE i # 1 /\ j = 1
    <3>1. i - 1 \in 1 .. n /\ s[i - 1] = f
      BY <1>0, <1>1, <1>3, <2>2
    <3> QED BY <1>0, <3>1 DEF In
  <2>3. CASE i # 1 /\ j # 1
    <3>1. /\ i - 1 \in 1 .. n /\ j - 1 \in 1 .. n
          /\ s[i - 1] = s[j - 1]
      BY <1>0, <1>3, <2>3
    <3>2. i - 1 = j - 1
      BY <1>0, <3>1 DEF NoDuplicates
    <3> QED BY <1>0, <3>2
  <2> QED BY <2>1, <2>2, <2>3
<1>5. ASSUME NEW g, In(g, t)
      PROVE  In(g, s) \/ g = f
  <2>1. PICK i \in 1 .. n + 1 : t[i] = g
    BY <1>1, <1>5 DEF In
  <2>2. CASE i = 1
    BY <1>1, <1>2, <2>1, <2>2
  <2>3. CASE i # 1
    <3>1. i - 1 \in 1 .. n /\ s[i - 1] = g
      BY <1>0, <1>3, <2>1, <2>3
    <3> QED BY <1>0, <3>1 DEF In
  <2> QED BY <2>2, <2>3
<1>6. \A g : In(g, s) \/ g = f => In(g, t)
  BY <1>0, <1>1, <1>2 DEF In
<1> QED BY <1>1, <1>4, <1>5, <1>6 DEF t

-----------------------------------------------------------------------------
(* The inductive invariant.  The steps of an operation change the metadata,  *)
(* the table, the two lists and the pointers one after the other; its parts  *)
(* are therefore stated of any value of these, so that the pool between      *)
(* FindFreeFrame and the rest of FetchPage or NewPage can be spoken of.      *)

Holding(q, p) == {h \in Holders : q[h].page = p}

PoolTypes(m, t, fl, l, q) ==
  /\ m \in [Frames -> FrameMetadata]
  /\ t \in [Pages -> Frames \cup {INVALID_FRAME_ID}]
  /\ fl \in Seq(Frames)
  /\ l \in Seq(Frames)
  /\ q \in [Holders -> Pointer]

TableSound(m, t, L) ==
  /\ \A p \in Pages : t[p] # INVALID_FRAME_ID => p \in L /\ m[t[p]].page_id = p
  /\ \A f \in Frames : m[f].page_id # INVALID_PAGE_ID => t[m[f].page_id] = f

ListsSound(m, fl, l) ==
  /\ NoDuplicates(fl) /\ NoDuplicates(l)
  /\ \A f \in Frames : In(f, fl) => m[f] = Unoccupied
  /\ \A f \in Frames : In(f, l) <=> m[f].page_id # INVALID_PAGE_ID /\ m[f].pin_count = 0

PinsExact(m, t, q) ==
  \A p \in Pages : Cardinality(Holding(q, p)) =
                     IF t[p] # INVALID_FRAME_ID THEN m[t[p]].pin_count ELSE 0

PointersSound(t, q, L) ==
  \A h \in Holders : q[h] # Null => /\ q[h].page \in L
                                    /\ q[h].frame \in Frames
                                    /\ t[q[h].page] = q[h].frame

PoolSound(m, t, fl, l, q, L) ==
  /\ PoolTypes(m, t, fl, l, q)
  /\ TableSound(m, t, L)
  /\ ListsSound(m, fl, l)
  /\ PinsExact(m, t, q)
  /\ PointersSound(t, q, L)

FileTypes ==
  /\ page_count \in 1 .. MaxPages + 1
  /\ free_pages \in SUBSET (1 .. page_count - 1)
  /\ disk \in [Pages -> Content]
  /\ pages \in [Frames -> Content]

IInv == FileTypes /\ PoolSound(meta, page_table, free_list, lru, ptr, Live)

\* The parts of the invariant are the properties of BufferPool.
LEMMA IInvImplies ==
  IInv => TypeOK /\ OnePageOneFrame /\ FrameLists /\ PinCountExact /\ PointersValid
BY DEF IInv, FileTypes, PoolSound, PoolTypes, TableSound, ListsSound, PinsExact, PointersSound,
       Holding, TypeOK, OnePageOneFrame, FrameLists, PinCountExact, PointersValid, InPool,
       HeldBy, Idle

\* The parts, found to hold in the next state, make up the invariant there.
LEMMA PrimedIInv ==
  FileTypes' /\ PoolSound(meta', page_table', free_list', lru', ptr', Live') => IInv'
BY DEF IInv, FileTypes, PoolSound, PoolTypes, TableSound, ListsSound, PinsExact, PointersSound,
       Holding

\* The number of pointers to a page is a natural number, and 0 only for none.
LEMMA HoldingFinite ==
  ASSUME NEW q, NEW p
  PROVE  /\ IsFiniteSet(Holding(q, p))
         /\ Cardinality(Holding(q, p)) \in Nat
         /\ Cardinality(Holding(q, p)) = 0 <=> Holding(q, p) = {}
<1>1. IsFiniteSet(Holding(q, p))
  BY HoldersAssumption, FS_Subset DEF Holding
<1> QED BY <1>1, FS_CardinalityType, FS_EmptySet

\* Handing out a pointer raises the number of pointers to its page by one.
LEMMA HoldingTaken ==
  ASSUME NEW q, NEW r, NEW h \in Holders, NEW p \in Pages, q[h] = Null, r[h].page = p,
         \A g \in Holders : g # h => r[g] = q[g]
  PROVE  /\ Cardinality(Holding(r, p)) = Cardinality(Holding(q, p)) + 1
         /\ \A x \in Pages : x # p => Holding(r, x) = Holding(q, x)
<1>1. q[h].page = INVALID_PAGE_ID /\ INVALID_PAGE_ID \notin Pages
  BY InvalidAssumption DEF Null
<1>3. Holding(r, p) = Holding(q, p) \cup {h} /\ h \notin Holding(q, p)
  BY <1>1 DEF Holding
<1>4. \A x \in Pages : x # p => Holding(r, x) = Holding(q, x)
  BY <1>1 DEF Holding
<1>5. Cardinality(Holding(q, p) \cup {h}) = Cardinality(Holding(q, p)) + 1
  <2>1. IsFiniteSet(Holding(q, p))
    BY HoldingFinite
  <2> QED BY <2>1, <1>3, FS_AddElement
<1> QED BY <1>3, <1>4, <1>5

\* Giving one back lowers it by one.
LEMMA HoldingReleased ==
  ASSUME NEW q, NEW r, NEW h \in Holders, q[h].page \in Pages, r[h] = Null,
         \A g \in Holders : g # h => r[g] = q[g]
  PROVE  /\ Cardinality(Holding(r, q[h].page)) = Cardinality(Holding(q, q[h].page)) - 1
         /\ \A x \in Pages : x # q[h].page => Holding(r, x) = Holding(q, x)
<1> DEFINE p == q[h].page
<1>1. r[h].page = INVALID_PAGE_ID /\ INVALID_PAGE_ID \notin Pages
  BY InvalidAssumption DEF Null
<1>3. Holding(r, p) = Holding(q, p) \ {h} /\ h \in Holding(q, p)
  BY <1>1 DEF Holding
<1>4. \A x \in Pages : x # p => Holding(r, x) = Holding(q, x)
  BY <1>1 DEF Holding
<1>5. Cardinality(Holding(r, p)) = Cardinality(Holding(q, p)) - 1
  <2>1. IsFiniteSet(Holding(q, p))
    BY HoldingFinite
  <2>2. Cardinality(Holding(q, p) \ {h}) = Cardinality(Holding(q, p)) - 1
    BY <1>3, <2>1, FS_RemoveElement
  <2> QED BY <1>3, <2>2
<1> QED BY <1>4, <1>5

-----------------------------------------------------------------------------
(* FindFreeFrame. *)

\* What is left once FindFreeFrame took a frame, from the free list or by
\* eviction: a sound pool in which the frame is unoccupied and on no list.
LEMMA FrameFound ==
  ASSUME IInv, FrameAvailable
  PROVE  /\ PoolSound(MetaAfter, TableAfter, FreeListAfter, LruAfter, ptr, Live)
         /\ FindFreeFrame \in Frames
         /\ MetaAfter[FindFreeFrame] = Unoccupied
         /\ ~In(FindFreeFrame, FreeListAfter)
<1> USE DEF IInv, PoolSound
<1>1. CASE free_list # <<>>
  <2>1. /\ MetaAfter = meta /\ TableAfter = page_table /\ LruAfter = lru
        /\ FreeListAfter = Tail(free_list) /\ FindFreeFrame = Head(free_list)
    BY <1>1 DEF MetaAfter, TableAfter, LruAfter, FreeListAfter, FindFreeFrame, Victims, PoolTypes
  <2>2. NoDuplicates(free_list) /\ free_list \in Seq(Frames)
    BY DEF ListsSound, PoolTypes
  <2>3. /\ Head(free_list) \in Frames /\ In(Head(free_list), free_list)
        /\ Tail(free_list) \in Seq(Frames) /\ NoDuplicates(Tail(free_list))
        /\ \A g : In(g, Tail(free_list)) <=> In(g, free_list) /\ g # Head(free_list)
    BY <1>1, <2>2, TailProperties
  <2>4. ListsSound(meta, Tail(free_list), lru) /\ meta[Head(free_list)] = Unoccupied
    BY <2>3 DEF ListsSound
  <2> QED BY <2>1, <2>3, <2>4 DEF PoolTypes
<1>2. CASE free_list = <<>>
  <2> DEFINE v == Last(lru)
             p == meta[v].page_id
  <2>0. lru # <<>> /\ lru \in Seq(Frames) /\ NoDuplicates(lru)
    BY <1>2 DEF FrameAvailable, PoolTypes, ListsSound
  <2>1. /\ v \in Frames /\ In(v, lru) /\ Front(lru) \in Seq(Frames) /\ NoDuplicates(Front(lru))
        /\ \A g : In(g, Front(lru)) <=> In(g, lru) /\ g # v
    BY <2>0, FrontProperties
  <2>2. Victims = {v} /\ LruAfter = Front(lru) /\ FreeListAfter = <<>> /\ FindFreeFrame = v
    BY <1>2, <2>0 DEF Victims, LruAfter, FreeListAfter, FindFreeFrame
  <2> HIDE DEF v
  <2>3. /\ p \in Pages /\ p # INVALID_PAGE_ID /\ meta[v].pin_count = 0
        /\ page_table[p] = v /\ v # INVALID_FRAME_ID
    BY <2>1, InvalidAssumption DEF ListsSound, TableSound, PoolTypes, FrameMetadata
  <2>4. /\ MetaAfter = [f \in Frames |-> IF f = v THEN Unoccupied ELSE meta[f]]
        /\ TableAfter = [x \in Pages |-> IF x = p THEN INVALID_FRAME_ID ELSE page_table[x]]
    BY <2>2 DEF MetaAfter, TableAfter
  <2> HIDE DEF p
  <2>5. Unoccupied \in FrameMetadata /\ Unoccupied.page_id = INVALID_PAGE_ID
    BY DEF Unoccupied, FrameMetadata
  <2>6. PoolTypes(MetaAfter, TableAfter, FreeListAfter, LruAfter, ptr)
    BY <2>1, <2>2, <2>4, <2>5 DEF PoolTypes
  <2>7. \A x \in Pages : x # p /\ page_table[x] # INVALID_FRAME_ID => page_table[x] # v
    BY <2>1, <2>3 DEF TableSound, p
  <2>8. TableSound(MetaAfter, TableAfter, Live)
    <3>1. ASSUME NEW x \in Pages, TableAfter[x] # INVALID_FRAME_ID
          PROVE  x \in Live /\ MetaAfter[TableAfter[x]].page_id = x
      <4>1. x # p /\ TableAfter[x] = page_table[x]
        BY <2>4, <3>1
      <4>2. page_table[x] \in Frames /\ page_table[x] # v
        BY <2>7, <3>1, <4>1 DEF PoolTypes
      <4> QED BY <2>4, <3>1, <4>1, <4>2 DEF TableSound
    <3>2. ASSUME NEW f \in Frames, MetaAfter[f].page_id # INVALID_PAGE_ID
          PROVE  TableAfter[MetaAfter[f].page_id] = f
      <4>1. f # v /\ MetaAfter[f] = meta[f]
        BY <2>4, <2>5, <3>2
      <4>2. meta[f].page_id \in Pages /\ page_table[meta[f].page_id] = f
        BY <3>2, <4>1 DEF PoolTypes, FrameMetadata, TableSound
      <4> QED BY <2>3, <2>4, <4>1, <4>2
    <3> QED BY <3>1, <3>2 DEF TableSound
  <2>9. ListsSound(MetaAfter, FreeListAfter, LruAfter)
    BY <1>2, <2>1, <2>2, <2>4, <2>5 DEF ListsSound
  <2>10. PinsExact(MetaAfter, TableAfter, ptr)
    <3> SUFFICES ASSUME NEW x \in Pages
                 PROVE  Cardinality(Holding(ptr, x)) =
                          IF TableAfter[x] # INVALID_FRAME_ID
                          THEN MetaAfter[TableAfter[x]].pin_count ELSE 0
      BY DEF PinsExact
    <3>1. CASE x = p
      BY <2>3, <2>4, <3>1 DEF PinsExact
    <3>2. CASE x # p
      <4>1. TableAfter[x] = page_table[x]
        BY <2>4, <3>2
      <4>2. page_table[x] # INVALID_FRAME_ID =>
              /\ page_table[x] \in Frames
              /\ MetaAfter[page_table[x]] = meta[page_table[x]]
        BY <2>4, <2>7, <3>2 DEF PoolTypes
      <4> QED BY <4>1, <4>2 DEF PinsExact
    <3> QED BY <3>1, <3>2
  <2>11. PointersSound(TableAfter, ptr, Live)
    <3>1. Holding(ptr, p) = {}
      BY <2>3, HoldingFinite DEF PinsExact
    <3>2. \A h \in Holders : ptr[h].page # p
      BY <3>1 DEF Holding
    <3>3. Live \subseteq Pages
      BY MaxPagesAssumption DEF FileTypes, Live, Pages
    <3> QED BY <2>4, <3>2, <3>3 DEF PointersSound
  <2>12. ~In(v, <<>>) /\ MetaAfter[v] = Unoccupied
    BY <2>1, <2>4 DEF In
  <2> QED BY <2>1, <2>2, <2>6, <2>8, <2>9, <2>10, <2>11, <2>12
<1> QED BY <1>1, <1>2

\* Putting a page that is not resident into such a frame and handing out the
\* first pointer to it keeps the pool sound (the end of FetchPage and NewPage).
LEMMA FrameOccupied ==
  ASSUME NEW m, NEW t, NEW fl, NEW l, NEW q, NEW L, NEW L2, NEW F \in Frames, NEW p \in Pages,
         NEW h \in Holders, NEW d \in BOOLEAN, PoolSound(m, t, fl, l, q, L),
         m[F] = Unoccupied, ~In(F, fl), t[p] = INVALID_FRAME_ID, q[h] = Null,
         L \subseteq L2, L \subseteq Pages, p \in L2
  PROVE  PoolSound([m EXCEPT ![F] = [page_id |-> p, pin_count |-> 1, is_dirty |-> d]],
                   [t EXCEPT ![p] = F], fl, l,
                   [q EXCEPT ![h] = [page |-> p, frame |-> F, wrote |-> FALSE]], L2)
<1> DEFINE e == [page_id |-> p, pin_count |-> 1, is_dirty |-> d]
           m2 == [m EXCEPT ![F] = e]
           t2 == [t EXCEPT ![p] = F]
           q2 == [q EXCEPT ![h] = [page |-> p, frame |-> F, wrote |-> FALSE]]
<1> USE DEF PoolSound
<1>0. p # INVALID_PAGE_ID /\ F # INVALID_FRAME_ID
  BY InvalidAssumption
<1>1. e \in FrameMetadata /\ e.page_id = p /\ e.pin_count = 1
  BY DEF FrameMetadata
<1>2. [page |-> p, frame |-> F, wrote |-> FALSE] \in Pointer
  BY DEF Pointer
<1>3. m2[F] = e /\ \A f \in Frames : f # F => m2[f] = m[f]
  BY DEF PoolTypes
<1>4. t2[p] = F /\ \A x \in Pages : x # p => t2[x] = t[x]
  BY DEF PoolTypes
<1>5. q2[h] = [page |-> p, frame |-> F, wrote |-> FALSE] /\ \A g \in Holders : g # h => q2[g] = q[g]
  BY DEF PoolTypes
<1>6. PoolTypes(m2, t2, fl, l, q2)
  BY <1>1, <1>2 DEF PoolTypes
<1>7. \A x \in Pages : t[x] # INVALID_FRAME_ID => t[x] \in Frames /\ t[x] # F
  BY InvalidAssumption DEF PoolTypes, TableSound, Unoccupied
<1>13. /\ Cardinality(Holding(q2, p)) = Cardinality(Holding(q, p)) + 1
       /\ \A x \in Pages : x # p => Holding(q2, x) = Holding(q, x)
  <2>1. q2[h].page = p
    BY <1>5
  <2> HIDE DEF q2, PoolSound
  <2> QED BY <1>5, <2>1, HoldingTaken
<1> HIDE DEF m2, t2, q2, e
<1>8. TableSound(m2, t2, L2)
  <2>1. ASSUME NEW x \in Pages, t2[x] # INVALID_FRAME_ID PROVE x \in L2 /\ m2[t2[x]].page_id = x
    <3>1. CASE x = p
      BY <1>1, <1>3, <1>4, <3>1
    <3>2. CASE x # p
      BY <1>3, <1>4, <1>7, <2>1, <3>2 DEF TableSound
    <3> QED BY <3>1, <3>2
  <2>2. ASSUME NEW f \in Frames, m2[f].page_id # INVALID_PAGE_ID PROVE t2[m2[f].page_id] = f
    <3>1. CASE f = F
      BY <1>1, <1>3, <1>4, <3>1
    <3>2. CASE f # F
      <4>1. m2[f] = m[f] /\ m[f].page_id \in Pages /\ t[m[f].page_id] = f
        BY <1>3, <2>2, <3>2 DEF TableSound, PoolTypes, FrameMetadata
      <4>2. f # INVALID_FRAME_ID
        BY InvalidAssumption
      <4> QED BY <1>4, <4>1, <4>2
    <3> QED BY <3>1, <3>2
  <2> QED BY <2>1, <2>2 DEF TableSound
<1>9. ListsSound(m2, fl, l)
  <2>1. ~In(F, l)
    BY DEF ListsSound, Unoccupied
  <2> QED BY <1>0, <1>1, <1>3, <2>1 DEF ListsSound
<1>10. PinsExact(m2, t2, q2)
  <2> SUFFICES ASSUME NEW x \in Pages
               PROVE  Cardinality(Holding(q2, x)) =
                        IF t2[x] # INVALID_FRAME_ID THEN m2[t2[x]].pin_count ELSE 0
    BY DEF PinsExact
  <2>1. CASE x = p
    <3>1. Cardinality(Holding(q, p)) = 0
      BY DEF PinsExact
    <3> QED BY <1>0, <1>1, <1>3, <1>4, <1>13, <2>1, <3>1
  <2>2. CASE x # p
    BY <1>3, <1>4, <1>7, <1>13, <2>2 DEF PinsExact
  <2> QED BY <2>1, <2>2
<1>11. PointersSound(t2, q2, L2)
  <2> SUFFICES ASSUME NEW g \in Holders, q2[g] # Null
               PROVE  q2[g].page \in L2 /\ q2[g].frame \in Frames /\ t2[q2[g].page] = q2[g].frame
    BY DEF PointersSound
  <2>1. CASE g = h
    BY <1>4, <1>5, <2>1
  <2>2. CASE g # h
    <3>1. q2[g] = q[g] /\ q[g].page \in L /\ q[g].frame \in Frames /\ t[q[g].page] = q[g].frame
      BY <1>5, <2>2 DEF PointersSound
    <3>2. q[g].page \in Pages /\ q[g].page # p
      BY <3>1, InvalidAssumption
    <3> QED BY <1>4, <3>1, <3>2
  <2> QED BY <2>1, <2>2
<1> QED BY <1>6, <1>8, <1>9, <1>10, <1>11 DEF m2, t2, q2, e

\* Writing frames out leaves a page's content in every page.
LEMMA WritePagesType ==
  ASSUME FileTypes, NEW fs \in SUBSET Frames
  PROVE  WritePages(fs) \subseteq [Pages -> Content]
<1> SUFFICES ASSUME NEW d \in WritePages(fs)
             PROVE  d \in [Pages -> Content]
  OBVIOUS
<1>1. PICK ok \in SUBSET fs : d = Written(ok)
  BY DEF WritePages
<1>2. ASSUME NEW p \in Pages PROVE d[p] \in Content
  <2>1. CASE \E f \in ok : meta[f].page_id = p
    <3>1. (CHOOSE f \in ok : meta[f].page_id = p) \in ok
      BY <2>1
    <3> QED BY <1>1, <2>1, <3>1 DEF FileTypes, Written
  <2>2. CASE ~\E f \in ok : meta[f].page_id = p
    BY <1>1, <2>2 DEF FileTypes, Written
  <2> QED BY <2>1, <2>2
<1> QED BY <1>1, <1>2 DEF Written

-----------------------------------------------------------------------------
(* Every operation keeps the invariant. *)

\* Only pages of the file are live, so a live page has an entry in the table.
LEMMA LivePages == FileTypes => Live \subseteq Pages
BY MaxPagesAssumption DEF FileTypes, Live, Pages

\* The pool is sound when it is built, and so again after a crash.
LEMMA FreshPoolSound ==
  ASSUME NEW L
  PROVE  PoolSound([f \in Frames |-> Unoccupied], [p \in Pages |-> INVALID_FRAME_ID],
                   [i \in 1 .. PoolSize |-> i - 1], <<>>, [h \in Holders |-> Null], L)
<1> DEFINE m == [f \in Frames |-> Unoccupied]
           t == [p \in Pages |-> INVALID_FRAME_ID]
           fl == [i \in 1 .. PoolSize |-> i - 1]
           q == [h \in Holders |-> Null]
<1>1. Unoccupied \in FrameMetadata /\ Null \in Pointer
  BY DEF Unoccupied, FrameMetadata, Null, Pointer
<1>2. fl \in [1 .. PoolSize -> Frames]
  BY PoolSizeAssumption DEF Frames
<1>3. fl \in Seq(Frames)
  BY <1>2, PoolSizeAssumption, IsASeq
<1>4. PoolTypes(m, t, fl, <<>>, q)
  BY <1>1, <1>3, EmptySeq DEF PoolTypes
<1>5. TableSound(m, t, L)
  BY DEF TableSound, Unoccupied
<1>6. ListsSound(m, fl, <<>>)
  <2>1. NoDuplicates(fl)
    BY PoolSizeAssumption DEF NoDuplicates
  <2>2. NoDuplicates(<<>>) /\ \A f : ~In(f, <<>>)
    BY EmptySeq, LenProperties DEF NoDuplicates, In
  <2> QED BY <2>1, <2>2 DEF ListsSound, Unoccupied
<1>7. PinsExact(m, t, q)
  <2>1. ASSUME NEW p \in Pages PROVE Cardinality(Holding(q, p)) = 0
    <3>1. Holding(q, p) = {}
      BY InvalidAssumption DEF Holding, Null
    <3> QED BY <3>1, FS_EmptySet
  <2> QED BY <2>1 DEF PinsExact
<1>8. PointersSound(t, q, L)
  BY DEF PointersSound
<1> QED BY <1>4, <1>5, <1>6, <1>7, <1>8 DEF PoolSound

\* Clearing a dirty bit touches nothing else.
LEMMA CleanedMetadata ==
  ASSUME NEW e \in FrameMetadata, NEW c, c = [e EXCEPT !.is_dirty = FALSE]
  PROVE  /\ c \in FrameMetadata /\ c.page_id = e.page_id /\ c.pin_count = e.pin_count
         /\ e = Unoccupied => c = Unoccupied
<1>1. c = [page_id |-> e.page_id, pin_count |-> e.pin_count, is_dirty |-> FALSE]
  BY DEF FrameMetadata
<1>2. c \in FrameMetadata /\ c.page_id = e.page_id /\ c.pin_count = e.pin_count
  BY <1>1 DEF FrameMetadata
<1>3. ASSUME e = Unoccupied PROVE c = Unoccupied
  <2>1. e.page_id = INVALID_PAGE_ID /\ e.pin_count = 0
    BY <1>3 DEF Unoccupied
  <2> QED BY <1>1, <2>1 DEF Unoccupied
<1> QED BY <1>2, <1>3

\* Writing frames back changes nothing but dirty bits.
LEMMA CleanedSound ==
  ASSUME NEW m, NEW t, NEW fl, NEW l, NEW q, NEW L, PoolSound(m, t, fl, l, q, L),
         NEW m2 \in [Frames -> FrameMetadata],
         \A f \in Frames : m2[f].page_id = m[f].page_id /\ m2[f].pin_count = m[f].pin_count,
         \A f \in Frames : m[f] = Unoccupied => m2[f] = Unoccupied
  PROVE  PoolSound(m2, t, fl, l, q, L)
<1> USE DEF PoolSound
<1>1. PoolTypes(m2, t, fl, l, q) /\ ListsSound(m2, fl, l)
  BY DEF PoolTypes, ListsSound
<1>2. \A p \in Pages : t[p] # INVALID_FRAME_ID => t[p] \in Frames
  BY DEF PoolTypes
<1>3. TableSound(m2, t, L) /\ PinsExact(m2, t, q)
  BY <1>2 DEF TableSound, PinsExact
<1> QED BY <1>1, <1>3

\* A page without pointers may go from the file.
LEMMA RemovedSound ==
  ASSUME NEW m, NEW t, NEW fl, NEW l, NEW q, NEW L, PoolSound(m, t, fl, l, q, L),
         NEW p \in Pages, t[p] = INVALID_FRAME_ID
  PROVE  PoolSound(m, t, fl, l, q, L \ {p})
<1> USE DEF PoolSound
<1>1. TableSound(m, t, L \ {p})
  BY DEF TableSound
<1>2. PointersSound(t, q, L \ {p})
  <2>1. \A h \in Holders : q[h].page # p
    BY HoldingFinite DEF PinsExact, Holding
  <2> QED BY <2>1 DEF PointersSound
<1> QED BY <1>1, <1>2

\* A hit pins the page once more and takes its frame from the replacer.
LEMMA FetchHitIInv ==
  ASSUME IInv, NEW h \in Holders, NEW p \in Pages, FetchHit(h, p)
  PROVE  IInv'
<1> DEFINE f == page_table[p]
<1>0. /\ PoolTypes(meta, page_table, free_list, lru, ptr)
      /\ TableSound(meta, page_table, Live) /\ ListsSound(meta, free_list, lru)
      /\ PinsExact(meta, page_table, ptr) /\ PointersSound(page_table, ptr, Live) /\ FileTypes
  BY DEF IInv, PoolSound
<1>1. f \in Frames /\ f # INVALID_FRAME_ID /\ meta[f].page_id = p /\ p \in Live
  BY <1>0 DEF FetchHit, InPool, PoolTypes, TableSound
<1>2. /\ meta' = [meta EXCEPT ![f].pin_count = @ + 1]
      /\ lru' = IF meta'[f].pin_count = 1 THEN LruRemove(lru, f) ELSE lru
      /\ ptr' = [ptr EXCEPT ![h] = [page |-> p, frame |-> f, wrote |-> FALSE]]
      /\ page_table' = page_table /\ free_list' = free_list /\ Live' = Live /\ FileTypes'
      /\ ptr[h] = Null
  BY <1>0 DEF FetchHit, diskVars, Live, FileTypes, Pinned, Idle
<1> HIDE DEF f
<1>3. /\ meta' \in [Frames -> FrameMetadata]
      /\ meta'[f].page_id = p /\ meta'[f].pin_count = meta[f].pin_count + 1
      /\ meta[f].pin_count \in Nat
      /\ \A g \in Frames : g # f => meta'[g] = meta[g]
  <2> DEFINE e == [meta[f] EXCEPT !.pin_count = meta[f].pin_count + 1]
  <2>1. meta \in [Frames -> FrameMetadata] /\ meta[f] \in FrameMetadata
    BY <1>0, <1>1 DEF PoolTypes
  <2>2. /\ e \in FrameMetadata /\ e.page_id = p /\ e.pin_count = meta[f].pin_count + 1
        /\ meta[f].pin_count \in Nat
    BY <1>1, <2>1 DEF FrameMetadata
  <2>3. meta' = [meta EXCEPT ![f] = e]
    BY <1>2
  <2> HIDE DEF e
  <2> QED BY <1>1, <2>1, <2>2, <2>3
<1>4. p # INVALID_PAGE_ID
  BY InvalidAssumption
<1>5. /\ lru' \in Seq(Frames) /\ NoDuplicates(lru')
      /\ \A g : In(g, lru') <=> In(g, lru) /\ g # f
  <2>1. lru \in Seq(Frames) /\ NoDuplicates(lru)
    BY <1>0 DEF PoolTypes, ListsSound
  <2>2. CASE meta'[f].pin_count = 1
    BY <1>2, <2>1, <2>2, LruRemoveProperties
  <2>3. CASE meta'[f].pin_count # 1
    <3>1. ~In(f, lru)
      BY <1>0, <1>1, <1>3, <2>3 DEF ListsSound
    <3> QED BY <1>2, <2>1, <2>3, <3>1
  <2> QED BY <2>2, <2>3
<1>6. /\ ptr' \in [Holders -> Pointer] /\ ptr'[h].page = p
      /\ ptr'[h].frame = f /\ \A g \in Holders : g # h => ptr'[g] = ptr[g]
  BY <1>0, <1>1, <1>2 DEF PoolTypes, Pointer
<1>7. PoolTypes(meta', page_table', free_list', lru', ptr')
  BY <1>0, <1>2, <1>3, <1>5, <1>6 DEF PoolTypes
<1>8. TableSound(meta', page_table', Live')
  BY <1>0, <1>1, <1>2, <1>3 DEF TableSound, PoolTypes
<1>9. ListsSound(meta', free_list', lru')
  <2>1. ~In(f, free_list)
    BY <1>0, <1>1, <1>4 DEF ListsSound, Unoccupied
  <2> QED BY <1>0, <1>2, <1>3, <1>5, <2>1 DEF ListsSound
<1>10. PinsExact(meta', page_table', ptr')
  <2>1. /\ Cardinality(Holding(ptr', p)) = Cardinality(Holding(ptr, p)) + 1
        /\ \A x \in Pages : x # p => Holding(ptr', x) = Holding(ptr, x)
    <3>1. ptr[h] = Null /\ ptr'[h].page = p /\ \A g \in Holders : g # h => ptr'[g] = ptr[g]
      BY <1>2, <1>6
    <3> QED BY <3>1, HoldingTaken
  <2>2. Cardinality(Holding(ptr, p)) = meta[f].pin_count
    BY <1>0, <1>1 DEF PinsExact, f
  <2>3. \A x \in Pages : x # p /\ page_table[x] # INVALID_FRAME_ID =>
           page_table[x] \in Frames /\ page_table[x] # f
    BY <1>0, <1>1 DEF TableSound, PoolTypes
  <2>4. page_table[p] = f
    BY DEF f
  <2> SUFFICES ASSUME NEW x \in Pages
               PROVE  Cardinality(Holding(ptr', x)) =
                        IF page_table[x] # INVALID_FRAME_ID
                        THEN meta'[page_table[x]].pin_count ELSE 0
    BY <1>2 DEF PinsExact
  <2>5. CASE x = p
    BY <1>1, <1>3, <2>1, <2>2, <2>4, <2>5
  <2>6. CASE x # p
    <3>1. Cardinality(Holding(ptr', x)) =
            IF page_table[x] # INVALID_FRAME_ID THEN meta[page_table[x]].pin_count ELSE 0
      BY <1>0, <2>1, <2>6 DEF PinsExact
    <3> QED BY <1>3, <2>3, <2>6, <3>1
  <2> QED BY <2>5, <2>6
<1>11. PointersSound(page_table', ptr', Live')
  <2>1. page_table[p] = f
    BY DEF f
  <2> QED BY <1>0, <1>1, <1>2, <1>6, <2>1 DEF PointersSound
<1> QED BY <1>2, <1>7, <1>8, <1>9, <1>10, <1>11, PrimedIInv DEF PoolSound

\* So does writing out a victim, which is a frame.
LEMMA VictimsWritten ==
  ASSUME IInv
  PROVE  WritePages(DirtyVictims) \subseteq [Pages -> Content]
<1>1. lru \in Seq(Frames) /\ NoDuplicates(lru) /\ FileTypes
  BY DEF IInv, PoolSound, PoolTypes, ListsSound
<1>2. lru # <<>> => Last(lru) \in Frames
  BY <1>1, FrontProperties
<1>3. DirtyVictims \in SUBSET Frames
  BY <1>2 DEF DirtyVictims, Victims
<1> QED BY <1>1, <1>3, WritePagesType

\* A miss reads the page into the frame that FindFreeFrame took.
LEMMA FetchMissIInv ==
  ASSUME IInv, NEW h \in Holders, NEW p \in Pages, FetchMiss(h, p)
  PROVE  IInv'
<1> DEFINE F == FindFreeFrame
<1>1. /\ PoolSound(MetaAfter, TableAfter, FreeListAfter, LruAfter, ptr, Live)
      /\ F \in Frames /\ MetaAfter[F] = Unoccupied /\ ~In(F, FreeListAfter)
  BY FrameFound DEF FetchMiss
<1>2. TableAfter[p] = INVALID_FRAME_ID
  BY DEF FetchMiss, TableAfter, InPool
<1>3. p \in Live /\ Live \subseteq Pages /\ Live' = Live /\ ptr[h] = Null
  BY LivePages DEF FetchMiss, IInv, Live, Idle
<1>4. PoolSound(meta', page_table', free_list', lru', ptr', Live')
  <2>1. /\ meta' = [MetaAfter EXCEPT ![F] = [page_id |-> p, pin_count |-> 1, is_dirty |-> FALSE]]
        /\ page_table' = [TableAfter EXCEPT ![p] = F]
        /\ free_list' = FreeListAfter /\ lru' = LruAfter
        /\ ptr' = [ptr EXCEPT ![h] = [page |-> p, frame |-> F, wrote |-> FALSE]]
    BY DEF FetchMiss
  <2> HIDE DEF F
  <2>2. PoolSound([MetaAfter EXCEPT ![F] = [page_id |-> p, pin_count |-> 1, is_dirty |-> FALSE]],
                  [TableAfter EXCEPT ![p] = F], FreeListAfter, LruAfter,
                  [ptr EXCEPT ![h] = [page |-> p, frame |-> F, wrote |-> FALSE]], Live)
    BY <1>1, <1>2, <1>3, FrameOccupied
  <2> QED BY <1>3, <2>1, <2>2
<1>5. FileTypes'
  <2>1. disk' \in [Pages -> Content]
    BY VictimsWritten DEF FetchMiss
  <2>2. pages' \in [Frames -> Content]
    BY <2>1 DEF FetchMiss, IInv, FileTypes
  <2> QED BY <2>1, <2>2 DEF FetchMiss, IInv, FileTypes
<1> QED BY <1>4, <1>5, PrimedIInv

\* A page that cannot be read leaves the frame on the free list.
LEMMA FetchFailsIInv ==
  ASSUME IInv, NEW p \in Pages, FetchFails(p)
  PROVE  IInv'
<1> DEFINE F == FindFreeFrame
<1>1. /\ PoolSound(MetaAfter, TableAfter, FreeListAfter, LruAfter, ptr, Live)
      /\ F \in Frames /\ MetaAfter[F] = Unoccupied /\ ~In(F, FreeListAfter)
  BY FrameFound DEF FetchFails
<1>2. /\ meta' = MetaAfter /\ page_table' = TableAfter /\ free_list' = Append(FreeListAfter, F)
      /\ lru' = LruAfter /\ ptr' = ptr /\ Live' = Live
  BY DEF FetchFails, FrameReturned, Live
<1> HIDE DEF F
<1>3. FreeListAfter \in Seq(Frames) /\ NoDuplicates(FreeListAfter)
  BY <1>1 DEF PoolSound, PoolTypes, ListsSound
<1>4. /\ Append(FreeListAfter, F) \in Seq(Frames) /\ NoDuplicates(Append(FreeListAfter, F))
      /\ \A g : In(g, Append(FreeListAfter, F)) <=> In(g, FreeListAfter) \/ g = F
  BY <1>1, <1>3, AppendNew
<1>5. PoolSound(meta', page_table', free_list', lru', ptr', Live')
  BY <1>1, <1>2, <1>4 DEF PoolSound, PoolTypes, ListsSound
<1>6. FileTypes'
  BY VictimsWritten DEF FetchFails, IInv, FileTypes
<1> QED BY <1>5, <1>6, PrimedIInv

\* AllocatePage hands out a page that is not live, so it is not resident.
LEMMA NewPageIInv ==
  ASSUME IInv, "alloc_read" \notin Faults, NEW h \in Holders, NEW p \in Pages, NewPage(h, p)
  PROVE  IInv'
<1> DEFINE F == FindFreeFrame
<1>1. /\ PoolSound(MetaAfter, TableAfter, FreeListAfter, LruAfter, ptr, Live)
      /\ F \in Frames /\ MetaAfter[F] = Unoccupied /\ ~In(F, FreeListAfter)
  BY FrameFound DEF NewPage
<1>2. free_pages' = free_pages \ {p}
  BY DEF NewPage, FreePagesAfter
<1>3. /\ page_count \in 1 .. MaxPages + 1 /\ free_pages \in SUBSET (1 .. page_count - 1)
      /\ p \in 1 .. MaxPages
  BY DEF IInv, FileTypes, Pages
<1>4. p \notin Live /\ Live \subseteq Live' /\ p \in Live' /\ Live \subseteq Pages
  <2>1. CASE p \in free_pages
    BY <1>2, <1>3, <2>1, LivePages, MaxPagesAssumption DEF NewPage, Live, IInv
  <2>2. CASE free_pages = {} /\ p = page_count
    BY <1>2, <1>3, <2>2, LivePages, MaxPagesAssumption DEF NewPage, Live, IInv
  <2> QED BY <2>1, <2>2 DEF NewPage, Allocatable
<1>5. TableAfter[p] = INVALID_FRAME_ID /\ ptr[h] = Null
  BY <1>1, <1>4 DEF PoolSound, TableSound, NewPage, Idle
<1>6. PoolSound(meta', page_table', free_list', lru', ptr', Live')
  <2>1. /\ meta' = [MetaAfter EXCEPT ![F] = [page_id |-> p, pin_count |-> 1, is_dirty |-> TRUE]]
        /\ page_table' = [TableAfter EXCEPT ![p] = F]
        /\ free_list' = FreeListAfter /\ lru' = LruAfter
        /\ ptr' = [ptr EXCEPT ![h] = [page |-> p, frame |-> F, wrote |-> FALSE]]
    BY DEF NewPage, NewPageMeta
  <2> HIDE DEF F
  <2>2. PoolSound([MetaAfter EXCEPT ![F] = [page_id |-> p, pin_count |-> 1, is_dirty |-> TRUE]],
                  [TableAfter EXCEPT ![p] = F], FreeListAfter, LruAfter,
                  [ptr EXCEPT ![h] = [page |-> p, frame |-> F, wrote |-> FALSE]], Live')
    BY <1>1, <1>4, <1>5, FrameOccupied
  <2> QED BY <2>1, <2>2
<1>7. FileTypes'
  <2>1. disk' \in [Pages -> Content]
    <3>1. PICK d \in WritePages(DirtyVictims) : disk' = [d EXCEPT ![p] = Zero]
      BY DEF NewPage
    <3>2. d \in [Pages -> Content]
      BY VictimsWritten
    <3> QED BY <3>1, <3>2 DEF Content
  <2>2. pages' \in [Frames -> Content]
    BY DEF NewPage, IInv, FileTypes, Content
  <2>3. page_count' \in 1 .. MaxPages + 1 /\ free_pages' \in SUBSET (1 .. page_count' - 1)
    BY <1>2, <1>3, MaxPagesAssumption DEF NewPage
  <2> QED BY <2>1, <2>2, <2>3 DEF FileTypes
<1> QED BY <1>6, <1>7, PrimedIInv

\* An allocation that throws leaves a sound pool, if one frame smaller.
LEMMA NewPageThrowsIInv ==
  ASSUME IInv, NewPageThrows
  PROVE  IInv'
<1>1. PoolSound(MetaAfter, TableAfter, FreeListAfter, LruAfter, ptr, Live)
  BY FrameFound DEF NewPageThrows
<1>2. PoolSound(meta', page_table', free_list', lru', ptr', Live')
  BY <1>1 DEF NewPageThrows, Live
<1>3. FileTypes'
  BY VictimsWritten DEF NewPageThrows, IInv, FileTypes
<1> QED BY <1>2, <1>3, PrimedIInv

\* A client writes into the frame its pointer names.
LEMMA WriteThroughIInv ==
  ASSUME IInv, NEW h \in Holders, NEW v \in Values, WriteThrough(h, v)
  PROVE  IInv'
<1>0. /\ ptr \in [Holders -> Pointer] /\ ptr[h] # Null
      /\ PinsExact(meta, page_table, ptr) /\ PointersSound(page_table, ptr, Live)
  BY DEF IInv, PoolSound, PoolTypes, WriteThrough, Idle
<1>1. /\ ptr' \in [Holders -> Pointer] /\ ptr'[h].page = ptr[h].page
      /\ ptr'[h].frame = ptr[h].frame /\ \A g \in Holders : g # h => ptr'[g] = ptr[g]
  BY <1>0 DEF WriteThrough, Pointer
<1>2. /\ meta' = meta /\ page_table' = page_table /\ free_list' = free_list /\ lru' = lru
      /\ Live' = Live
  BY DEF WriteThrough, diskVars, Live
<1>3. \A p : Holding(ptr', p) = Holding(ptr, p)
  BY <1>1 DEF Holding
<1>4. PinsExact(meta', page_table', ptr')
  BY <1>0, <1>2, <1>3 DEF PinsExact
<1>5. PointersSound(page_table', ptr', Live')
  BY <1>0, <1>1, <1>2 DEF PointersSound
<1>6. FileTypes'
  BY DEF WriteThrough, diskVars, FileTypes, IInv, Content
<1> QED BY <1>1, <1>2, <1>4, <1>5, <1>6, PrimedIInv DEF IInv, PoolSound, PoolTypes

\* UnpinPage drops one pin; the frame goes back to the replacer with the last.
LEMMA UnpinPageIInv ==
  ASSUME IInv, NEW h \in Holders, NEW is_dirty \in BOOLEAN, UnpinPage(h, is_dirty)
  PROVE  IInv'
<1> DEFINE p == ptr[h].page
           f == page_table[p]
<1>0. /\ PoolTypes(meta, page_table, free_list, lru, ptr)
      /\ TableSound(meta, page_table, Live) /\ ListsSound(meta, free_list, lru)
      /\ PinsExact(meta, page_table, ptr) /\ PointersSound(page_table, ptr, Live) /\ FileTypes
  BY DEF IInv, PoolSound
<1>1. p \in Live /\ p \in Pages /\ f \in Frames /\ f # INVALID_FRAME_ID /\ meta[f].page_id = p
  BY <1>0, LivePages, InvalidAssumption DEF UnpinPage, Idle, PointersSound, TableSound
<1>2. /\ meta' = [meta EXCEPT ![f] = [page_id   |-> meta[f].page_id,
                                      pin_count |-> meta[f].pin_count - 1,
                                      is_dirty  |-> meta[f].is_dirty \/ is_dirty]]
      /\ meta[f].pin_count # 0
      /\ lru' = IF meta'[f].pin_count = 0 THEN RecordAccess(lru, f) ELSE lru
      /\ ptr' = [ptr EXCEPT ![h] = Null]
      /\ page_table' = page_table /\ free_list' = free_list /\ Live' = Live /\ FileTypes'
  BY <1>0 DEF UnpinPage, diskVars, Live, FileTypes, Sticky
<1> HIDE DEF f
<1>3. /\ meta' \in [Frames -> FrameMetadata]
      /\ meta'[f].page_id = p /\ meta'[f].pin_count = meta[f].pin_count - 1
      /\ meta[f].pin_count \in Nat /\ meta[f].pin_count > 0
      /\ \A g \in Frames : g # f => meta'[g] = meta[g]
  <2> DEFINE b == meta[f].is_dirty \/ is_dirty
             n == meta[f].pin_count - 1
             e == [page_id |-> meta[f].page_id, pin_count |-> n, is_dirty |-> b]
  <2>1. meta \in [Frames -> FrameMetadata] /\ meta[f] \in FrameMetadata
    BY <1>0, <1>1 DEF PoolTypes
  <2>2. meta[f].pin_count \in Nat /\ meta[f].pin_count > 0
    BY <1>2, <2>1 DEF FrameMetadata
  <2>3. e \in FrameMetadata /\ e.page_id = p /\ e.pin_count = meta[f].pin_count - 1
    <3>1. b \in BOOLEAN
      OBVIOUS
    <3> HIDE DEF b
    <3>2. n \in Nat
      BY <2>2
    <3> HIDE DEF n, b
    <3>3. meta[f].page_id \in Pages \cup {INVALID_PAGE_ID}
      BY <2>1 DEF FrameMetadata
    <3>4. e \in FrameMetadata
      BY <3>1, <3>2, <3>3 DEF FrameMetadata
    <3> QED BY <1>1, <3>4 DEF n
  <2>4. meta' = [meta EXCEPT ![f] = e]
    BY <1>2, <2>1
  <2> HIDE DEF e
  <2> QED BY <1>1, <2>1, <2>2, <2>3, <2>4
<1>4. p # INVALID_PAGE_ID
  BY <1>1, InvalidAssumption
<1>5. /\ lru' \in Seq(Frames) /\ NoDuplicates(lru')
      /\ \A g : In(g, lru') <=> In(g, lru) \/ (g = f /\ meta'[f].pin_count = 0)
  <2>1. lru \in Seq(Frames) /\ NoDuplicates(lru)
    BY <1>0 DEF PoolTypes, ListsSound
  <2>2. CASE meta'[f].pin_count = 0
    <3>1. ~In(f, lru)
      BY <1>0, <1>1, <1>3 DEF ListsSound
    <3>2. lru' = <<f>> \o lru
      BY <1>2, <2>2, <3>1 DEF RecordAccess, LruRemove
    <3> QED BY <1>1, <2>1, <2>2, <3>1, <3>2, ConsNew
  <2>3. CASE meta'[f].pin_count # 0
    BY <1>2, <2>1, <2>3
  <2> QED BY <2>2, <2>3
<1>6. /\ ptr' \in [Holders -> Pointer] /\ ptr'[h] = Null
      /\ \A g \in Holders : g # h => ptr'[g] = ptr[g]
  BY <1>0, <1>2 DEF PoolTypes, Pointer, Null
<1>7. PoolTypes(meta', page_table', free_list', lru', ptr')
  BY <1>0, <1>2, <1>3, <1>5, <1>6 DEF PoolTypes
<1>8. TableSound(meta', page_table', Live')
  BY <1>0, <1>1, <1>2, <1>3 DEF TableSound, PoolTypes
<1>9. ListsSound(meta', free_list', lru')
  <2>1. ~In(f, free_list)
    BY <1>0, <1>1, <1>4 DEF ListsSound, Unoccupied
  <2>2. ~In(f, lru)
    BY <1>0, <1>1, <1>3 DEF ListsSound
  <2> QED BY <1>0, <1>1, <1>2, <1>3, <1>4, <1>5, <2>1, <2>2 DEF ListsSound
<1>12. page_table[p] = f
  BY DEF f
<1> HIDE DEF p
<1>10. PinsExact(meta', page_table', ptr')
  <2>1. /\ Cardinality(Holding(ptr', p)) = Cardinality(Holding(ptr, p)) - 1
        /\ \A x \in Pages : x # p => Holding(ptr', x) = Holding(ptr, x)
    BY <1>1, <1>6, HoldingReleased DEF p
  <2>2. Cardinality(Holding(ptr, p)) = meta[f].pin_count
    BY <1>0, <1>1, <1>12 DEF PinsExact
  <2>3. \A x \in Pages : x # p /\ page_table[x] # INVALID_FRAME_ID =>
           page_table[x] \in Frames /\ page_table[x] # f
    BY <1>0, <1>1 DEF TableSound, PoolTypes
  <2>4. ASSUME NEW x \in Pages
        PROVE  Cardinality(Holding(ptr', x)) =
                 IF page_table[x] # INVALID_FRAME_ID THEN meta'[page_table[x]].pin_count ELSE 0
    <3>1. CASE x = p
      BY <1>1, <1>3, <1>12, <2>1, <2>2, <3>1
    <3>2. CASE x # p
      BY <1>0, <1>3, <2>1, <2>3, <3>2 DEF PinsExact
    <3> QED BY <3>1, <3>2
  <2> QED BY <1>2, <2>4 DEF PinsExact
<1>11. PointersSound(page_table', ptr', Live')
  BY <1>0, <1>2, <1>6 DEF PointersSound
<1> QED BY <1>2, <1>7, <1>8, <1>9, <1>10, <1>11, PrimedIInv DEF PoolSound

\* DeallocatePage frees one page or, if its write fails, none.
LEMMA DeallocatePageTypes ==
  ASSUME FileTypes, NEW p \in Live, DeallocatePage(p), pages' = pages
  PROVE  FileTypes' /\ (Live' = Live \/ Live' = Live \ {p})
<1>1. PICK freed \in Deallocated(p) :
        /\ free_pages' = free_pages \cup freed
        /\ disk' = [q \in Pages |-> IF q \in freed THEN Zero ELSE disk[q]]
        /\ page_count' = page_count
  BY DEF DeallocatePage
<1>2. freed = {} \/ freed = {p}
  BY DEF Deallocated
<1>3. p \in 1 .. page_count - 1
  BY DEF Live
<1>4. disk' \in [Pages -> Content]
  BY <1>1 DEF FileTypes, Content
<1> QED BY <1>1, <1>2, <1>3, <1>4 DEF FileTypes, Live

\* Deleting a page that is not resident.
LEMMA DeleteOnDiskIInv ==
  ASSUME IInv, NEW p \in Pages, DeleteOnDisk(p)
  PROVE  IInv'
<1>1. FileTypes' /\ (Live' = Live \/ Live' = Live \ {p})
  BY DeallocatePageTypes DEF IInv, DeleteOnDisk, poolVars
<1>2. PoolSound(meta, page_table, free_list, lru, ptr, Live \ {p})
  BY RemovedSound DEF IInv, DeleteOnDisk, InPool
<1>3. /\ meta' = meta /\ page_table' = page_table /\ free_list' = free_list /\ lru' = lru
      /\ ptr' = ptr
  BY DEF DeleteOnDisk, poolVars
<1> QED BY <1>1, <1>2, <1>3, PrimedIInv DEF IInv

\* DeletePage frees the frame of an unpinned page, then the page.
LEMMA DeletePageIInv ==
  ASSUME IInv, NEW p \in Pages, DeletePage(p)
  PROVE  IInv'
<1> DEFINE f == page_table[p]
<1>0. /\ PoolTypes(meta, page_table, free_list, lru, ptr)
      /\ TableSound(meta, page_table, Live) /\ ListsSound(meta, free_list, lru)
      /\ PinsExact(meta, page_table, ptr) /\ PointersSound(page_table, ptr, Live) /\ FileTypes
  BY DEF IInv, PoolSound
<1>1. /\ f \in Frames /\ f # INVALID_FRAME_ID /\ meta[f].page_id = p /\ meta[f].pin_count = 0
      /\ p # INVALID_PAGE_ID
  BY <1>0, InvalidAssumption DEF DeletePage, InPool, Deletable, PoolTypes, TableSound
<1>2. /\ lru' = LruRemove(lru, f) /\ free_list' = Append(free_list, f) /\ ptr' = ptr
      /\ page_table' = [page_table EXCEPT ![p] = INVALID_FRAME_ID]
      /\ meta' = [meta EXCEPT ![f] = Unoccupied]
  BY DEF DeletePage
<1>12. page_table[p] = f
  OBVIOUS
<1> HIDE DEF f
<1>3. Unoccupied \in FrameMetadata /\ Unoccupied.page_id = INVALID_PAGE_ID
  BY DEF Unoccupied, FrameMetadata
<1>4. /\ meta' \in [Frames -> FrameMetadata] /\ meta'[f] = Unoccupied
      /\ \A g \in Frames : g # f => meta'[g] = meta[g]
      /\ page_table' \in [Pages -> Frames \cup {INVALID_FRAME_ID}]
      /\ page_table'[p] = INVALID_FRAME_ID
      /\ \A x \in Pages : x # p => page_table'[x] = page_table[x]
  BY <1>0, <1>1, <1>2, <1>3 DEF PoolTypes
<1>5. /\ lru' \in Seq(Frames) /\ NoDuplicates(lru')
      /\ \A g : In(g, lru') <=> In(g, lru) /\ g # f
  BY <1>0, <1>2, LruRemoveProperties DEF PoolTypes, ListsSound
<1>6. /\ free_list' \in Seq(Frames) /\ NoDuplicates(free_list')
      /\ \A g : In(g, free_list') <=> In(g, free_list) \/ g = f
  <2>1. ~In(f, free_list)
    BY <1>0, <1>1, <1>3 DEF ListsSound
  <2> QED BY <1>0, <1>1, <1>2, <2>1, AppendNew DEF PoolTypes, ListsSound
<1>7. PoolSound(meta', page_table', free_list', lru', ptr', Live)
  <2>0. \A x \in Pages : x # p /\ page_table[x] # INVALID_FRAME_ID =>
          page_table[x] \in Frames /\ page_table[x] # f
    BY <1>0, <1>1 DEF TableSound, PoolTypes
  <2>1. PoolTypes(meta', page_table', free_list', lru', ptr')
    BY <1>0, <1>2, <1>4, <1>5, <1>6 DEF PoolTypes
  <2>2. TableSound(meta', page_table', Live)
    <3>1. ASSUME NEW x \in Pages, page_table'[x] # INVALID_FRAME_ID
          PROVE  x \in Live /\ meta'[page_table'[x]].page_id = x
      BY <1>0, <1>4, <2>0, <3>1 DEF TableSound
    <3>2. ASSUME NEW g \in Frames, meta'[g].page_id # INVALID_PAGE_ID
          PROVE  page_table'[meta'[g].page_id] = g
      <4>1. g # f /\ meta'[g] = meta[g]
        BY <1>3, <1>4, <3>2
      <4>2. meta[g].page_id \in Pages /\ page_table[meta[g].page_id] = g
        BY <1>0, <3>2, <4>1 DEF TableSound, PoolTypes, FrameMetadata
      <4> QED BY <1>4, <1>12, <4>1, <4>2
    <3> QED BY <3>1, <3>2 DEF TableSound
  <2>3. ListsSound(meta', free_list', lru')
    BY <1>0, <1>3, <1>4, <1>5, <1>6 DEF ListsSound
  <2>4. PinsExact(meta', page_table', ptr')
    <3>1. ASSUME NEW x \in Pages
          PROVE  Cardinality(Holding(ptr, x)) =
                   IF page_table'[x] # INVALID_FRAME_ID THEN meta'[page_table'[x]].pin_count ELSE 0
      <4>1. CASE x = p
        BY <1>0, <1>1, <1>4, <1>12, <4>1 DEF PinsExact
      <4>2. CASE x # p
        BY <1>0, <1>4, <2>0, <4>2 DEF PinsExact
      <4> QED BY <4>1, <4>2
    <3> QED BY <1>2, <3>1 DEF PinsExact
  <2>5. PointersSound(page_table', ptr', Live)
    <3>1. Holding(ptr, p) = {}
      BY <1>0, <1>1, <1>12, HoldingFinite DEF PinsExact
    <3>2. \A h \in Holders : ptr[h].page # p
      BY <3>1 DEF Holding
    <3> QED BY <1>0, <1>2, <1>4, <3>2, LivePages DEF PointersSound
  <2> QED BY <2>1, <2>2, <2>3, <2>4, <2>5 DEF PoolSound
<1>8. PoolSound(meta', page_table', free_list', lru', ptr', Live \ {p})
  BY <1>4, <1>7, RemovedSound
<1>9. FileTypes' /\ (Live' = Live \/ Live' = Live \ {p})
  BY <1>0, DeallocatePageTypes DEF DeletePage
<1> QED BY <1>7, <1>8, <1>9, PrimedIInv

\* FlushPage writes one frame and clears its dirty bit.
LEMMA FlushPageIInv ==
  ASSUME IInv, NEW p \in Pages, FlushPage(p)
  PROVE  IInv'
<1> DEFINE f == page_table[p]
<1>0. meta \in [Frames -> FrameMetadata] /\ f \in Frames /\ FileTypes
      /\ PoolSound(meta, page_table, free_list, lru, ptr, Live)
  BY DEF IInv, PoolSound, PoolTypes, FlushPage, InPool
<1>1. /\ meta' = [meta EXCEPT ![f] = [meta[f] EXCEPT !.is_dirty = FALSE]]
      /\ page_table' = page_table /\ free_list' = free_list /\ lru' = lru /\ ptr' = ptr
      /\ Live' = Live /\ disk' \in WritePages({f})
  BY DEF FlushPage, Live
<1> HIDE DEF f
<1>2. meta' \in [Frames -> FrameMetadata]
  BY <1>0, <1>1 DEF FrameMetadata
<1>3. /\ \A g \in Frames : meta'[g].page_id = meta[g].page_id /\ meta'[g].pin_count = meta[g].pin_count
      /\ \A g \in Frames : meta[g] = Unoccupied => meta'[g] = Unoccupied
  <2> SUFFICES ASSUME NEW g \in Frames
               PROVE  /\ meta'[g].page_id = meta[g].page_id /\ meta'[g].pin_count = meta[g].pin_count
                      /\ meta[g] = Unoccupied => meta'[g] = Unoccupied
    OBVIOUS
  <2>1. meta[g] \in FrameMetadata
    BY <1>0
  <2>2. meta'[g] = meta[g] \/ meta'[g] = [meta[g] EXCEPT !.is_dirty = FALSE]
    BY <1>0, <1>1
  <2> QED BY <2>1, <2>2, CleanedMetadata
<1>4. PoolSound(meta', page_table, free_list, lru, ptr, Live)
  BY <1>0, <1>2, <1>3, CleanedSound
<1>5. FileTypes'
  BY <1>0, <1>1, WritePagesType DEF FlushPage, FileTypes
<1> QED BY <1>1, <1>4, <1>5, PrimedIInv

\* FlushAllPages does so for every dirty frame.
LEMMA FlushAllPagesIInv ==
  ASSUME IInv, FlushAllPages
  PROVE  IInv'
<1>0. meta \in [Frames -> FrameMetadata] /\ FileTypes /\ DirtyFrames \in SUBSET Frames
      /\ PoolSound(meta, page_table, free_list, lru, ptr, Live)
  BY DEF IInv, PoolSound, PoolTypes, DirtyFrames
<1>1. /\ meta' = [f \in Frames |-> IF f \in DirtyFrames THEN [meta[f] EXCEPT !.is_dirty = FALSE]
                                                        ELSE meta[f]]
      /\ page_table' = page_table /\ free_list' = free_list /\ lru' = lru /\ ptr' = ptr
      /\ Live' = Live /\ disk' \in WritePages(DirtyFrames)
  BY DEF FlushAllPages, Live
<1>2. meta' \in [Frames -> FrameMetadata]
  BY <1>0, <1>1 DEF FrameMetadata
<1>3. /\ \A g \in Frames : meta'[g].page_id = meta[g].page_id /\ meta'[g].pin_count = meta[g].pin_count
      /\ \A g \in Frames : meta[g] = Unoccupied => meta'[g] = Unoccupied
  <2> SUFFICES ASSUME NEW g \in Frames
               PROVE  /\ meta'[g].page_id = meta[g].page_id /\ meta'[g].pin_count = meta[g].pin_count
                      /\ meta[g] = Unoccupied => meta'[g] = Unoccupied
    OBVIOUS
  <2>1. meta[g] \in FrameMetadata
    BY <1>0
  <2>2. meta'[g] = meta[g] \/ meta'[g] = [meta[g] EXCEPT !.is_dirty = FALSE]
    BY <1>0, <1>1
  <2> QED BY <2>1, <2>2, CleanedMetadata
<1>4. PoolSound(meta', page_table, free_list, lru, ptr, Live)
  BY <1>0, <1>2, <1>3, CleanedSound
<1>5. FileTypes'
  BY <1>0, <1>1, WritePagesType DEF FlushAllPages, FileTypes
<1> QED BY <1>1, <1>4, <1>5, PrimedIInv

\* A new process starts with a fresh pool.
LEMMA RestartIInv ==
  ASSUME IInv, CloseAndReopen \/ Crash
  PROVE  IInv'
<1>1. PoolSound(meta', page_table', free_list', lru', ptr', Live')
  BY FreshPoolSound DEF CloseAndReopen, Crash, FreshPool
<1>2. pages' \in [Frames -> Content] /\ page_count' = page_count /\ free_pages' = free_pages
  BY DEF CloseAndReopen, Crash, FreshPool, Content, diskVars
<1>3. disk' \in [Pages -> Content]
  <2>1. CASE CloseAndReopen
    BY <2>1, WritePagesType DEF CloseAndReopen, IInv, DirtyFrames
  <2>2. CASE Crash
    BY <2>2 DEF Crash, diskVars, IInv, FileTypes
  <2> QED BY <2>1, <2>2
<1>4. FileTypes'
  BY <1>2, <1>3 DEF IInv, FileTypes
<1> QED BY <1>1, <1>4, PrimedIInv

-----------------------------------------------------------------------------
(* The theorems. *)

\* The first process starts from the invariant.
LEMMA InitIInv == Init => IInv
<1> SUFFICES ASSUME Init PROVE IInv
  OBVIOUS
<1>1. PoolSound(meta, page_table, free_list, lru, ptr, Live)
  BY FreshPoolSound DEF Init
<1>2. FileTypes
  BY MaxPagesAssumption DEF Init, FileTypes, Content
<1> QED BY <1>1, <1>2 DEF IInv

\* Every step of the pool and its clients keeps it, as long as AllocatePage can
\* read the free page it takes.
LEMMA NextIInv ==
  ASSUME "alloc_read" \notin Faults
  PROVE  IInv /\ [Next]_vars => IInv'
<1> SUFFICES ASSUME IInv, [Next]_vars PROVE IInv'
  OBVIOUS
<1>1. CASE UNCHANGED vars
  <2>1. FileTypes' /\ PoolSound(meta', page_table', free_list', lru', ptr', Live')
    BY <1>1 DEF vars, IInv, FileTypes, Live
  <2> QED BY <2>1, PrimedIInv
<1>2. ASSUME NEW h \in Holders, NEW p \in Pages, FetchHit(h, p) PROVE IInv'
  BY <1>2, FetchHitIInv
<1>3. ASSUME NEW h \in Holders, NEW p \in Pages, FetchMiss(h, p) PROVE IInv'
  BY <1>3, FetchMissIInv
<1>4. ASSUME NEW h \in Holders, NEW p \in Pages, NewPage(h, p) PROVE IInv'
  BY <1>4, NewPageIInv
<1>5. ASSUME NEW h \in Holders, NEW v \in Values, WriteThrough(h, v) PROVE IInv'
  BY <1>5, WriteThroughIInv
<1>6. ASSUME NEW h \in Holders, NEW is_dirty \in BOOLEAN, UnpinPage(h, is_dirty) PROVE IInv'
  BY <1>6, UnpinPageIInv
<1>7. ASSUME NEW p \in Pages, FetchFails(p) PROVE IInv'
  BY <1>7, FetchFailsIInv
<1>8. ASSUME NEW p \in Pages, DeleteOnDisk(p) PROVE IInv'
  BY <1>8, DeleteOnDiskIInv
<1>9. ASSUME NEW p \in Pages, DeletePage(p) PROVE IInv'
  BY <1>9, DeletePageIInv
<1>10. ASSUME NEW p \in Pages, FlushPage(p) PROVE IInv'
  BY <1>10, FlushPageIInv
<1>11. CASE NewPageThrows
  BY <1>11, NewPageThrowsIInv
<1>12. CASE FlushAllPages
  BY <1>12, FlushAllPagesIInv
<1>13. CASE CloseAndReopen \/ Crash
  BY <1>13, RestartIInv
<1> QED BY <1>1, <1>2, <1>3, <1>4, <1>5, <1>6, <1>7, <1>8, <1>9, <1>10, <1>11, <1>12, <1>13 DEF Next

\* For every number of frames, pages and clients, and whichever reads, writes and
\* extensions fail, the buffer pool's variables keep their types.
THEOREM TypeCorrect ==
  ASSUME "alloc_read" \notin Faults
  PROVE  Spec => []TypeOK
<1>1. Spec => []IInv
  BY InitIInv, NextIInv, PTL DEF Spec
<1> QED BY <1>1, IInvImplies, PTL

\* buffer_pool_manager.h:29: page_table_ and the frames' metadata stay inverse to
\* each other, so a page is in at most one frame.
THEOREM PageInOneFrame ==
  ASSUME "alloc_read" \notin Faults
  PROVE  Spec => []OnePageOneFrame
<1>1. Spec => []IInv
  BY InitIInv, NextIInv, PTL DEF Spec
<1> QED BY <1>1, IInvImplies, PTL

\* A frame is on at most one of free_list_ and the replacer, once, and the
\* replacer holds exactly the frames of unpinned resident pages.
THEOREM ListsDisjoint ==
  ASSUME "alloc_read" \notin Faults
  PROVE  Spec => []FrameLists
<1>1. Spec => []IInv
  BY InitIInv, NextIInv, PTL DEF Spec
<1> QED BY <1>1, IInvImplies, PTL

\* buffer_pool_manager.h:30: pin_count_ counts the pointers clients hold, and the
\* frame a client holds a pointer into is never given to another page.
THEOREM PinnedNeverEvicted ==
  ASSUME "alloc_read" \notin Faults
  PROVE  Spec => [](PinCountExact /\ PointersValid)
<1>1. Spec => []IInv
  BY InitIInv, NextIInv, PTL DEF Spec
<1> QED BY <1>1, IInvImplies, PTL

-----------------------------------------------------------------------------
(* What the invariant is good for: frames. *)

\* FindFreeFrame takes its frame and leaves all others as they are, where they are.
LEMMA FrameTaken ==
  ASSUME IInv, FrameAvailable, NEW f \in Frames, f # FindFreeFrame
  PROVE  /\ MetaAfter[f] = meta[f]
         /\ In(f, free_list) => In(f, FreeListAfter)
<1>1. free_list \in Seq(Frames) /\ NoDuplicates(free_list)
  BY DEF IInv, PoolSound, PoolTypes, ListsSound
<1>2. CASE free_list # <<>>
  <2>1. Victims = {} /\ FindFreeFrame = Head(free_list) /\ FreeListAfter = Tail(free_list)
    BY <1>2 DEF Victims, FindFreeFrame, FreeListAfter
  <2> QED BY <1>1, <1>2, <2>1, TailProperties DEF MetaAfter
<1>3. CASE free_list = <<>>
  <2>1. lru # <<>> /\ Victims = {FindFreeFrame} /\ FreeListAfter = free_list
    BY <1>3 DEF FrameAvailable, Victims, FindFreeFrame, FreeListAfter
  <2> QED BY <2>1 DEF MetaAfter
<1> QED BY <1>2, <1>3

\* Where a page has been put into the frame that was taken, no frame is lost.
LEMMA TakenNotLost ==
  ASSUME IInv, FrameAvailable, NEW p \in Pages, NEW e, e.page_id = p,
         meta' = [MetaAfter EXCEPT ![FindFreeFrame] = e], free_list' = FreeListAfter
  PROVE  LostFrames' \subseteq LostFrames
<1> SUFFICES ASSUME NEW f \in Frames, meta'[f].page_id = INVALID_PAGE_ID, ~In(f, free_list')
             PROVE  meta[f].page_id = INVALID_PAGE_ID /\ ~In(f, free_list)
  BY DEF LostFrames
<1>1. f # FindFreeFrame
  <2>1. DOMAIN MetaAfter = Frames
    BY DEF MetaAfter
  <2> QED BY <2>1, InvalidAssumption
<1>2. meta'[f] = MetaAfter[f]
  BY <1>1 DEF MetaAfter
<1> QED BY <1>1, <1>2, FrameTaken

\* No step but a NewPage that throws loses a frame.
LEMMA NextKeepsFrames ==
  IInv /\ [Next]_vars => NewPageThrows \/ LostFrames' \subseteq LostFrames
<1> SUFFICES ASSUME IInv, [Next]_vars, ~NewPageThrows PROVE LostFrames' \subseteq LostFrames
  OBVIOUS
<1>0. /\ meta \in [Frames -> FrameMetadata]
      /\ page_table \in [Pages -> Frames \cup {INVALID_FRAME_ID}]
      /\ free_list \in Seq(Frames) /\ NoDuplicates(free_list)
  BY DEF IInv, PoolSound, PoolTypes, ListsSound
<1>1. ASSUME free_list' = free_list, \A f \in Frames : meta'[f].page_id = meta[f].page_id
      PROVE  LostFrames' \subseteq LostFrames
  BY <1>1 DEF LostFrames, In
<1>2. CASE UNCHANGED vars
  BY <1>1, <1>2 DEF vars
<1>3. ASSUME NEW h \in Holders, NEW p \in Pages, FetchHit(h, p) PROVE LostFrames' \subseteq LostFrames
  <2>1. \A f \in Frames : meta'[f].page_id = meta[f].page_id
    BY <1>0, <1>3 DEF FetchHit, FrameMetadata
  <2> QED BY <1>1, <1>3, <2>1 DEF FetchHit
<1>4. ASSUME NEW h \in Holders, NEW p \in Pages, FetchMiss(h, p) PROVE LostFrames' \subseteq LostFrames
  BY <1>4, TakenNotLost DEF FetchMiss
<1>5. ASSUME NEW h \in Holders, NEW p \in Pages, NewPage(h, p) PROVE LostFrames' \subseteq LostFrames
  BY <1>5, TakenNotLost DEF NewPage, NewPageMeta
<1>6. ASSUME NEW p \in Pages, FetchFails(p) PROVE LostFrames' \subseteq LostFrames
  <2>1. /\ FindFreeFrame \in Frames /\ FreeListAfter \in Seq(Frames) /\ NoDuplicates(FreeListAfter)
        /\ ~In(FindFreeFrame, FreeListAfter)
    BY <1>6, FrameFound DEF FetchFails, PoolSound, PoolTypes, ListsSound
  <2>2. \A g : In(g, free_list') <=> In(g, FreeListAfter) \/ g = FindFreeFrame
    BY <1>6, <2>1, AppendNew DEF FetchFails, FrameReturned
  <2>3. ASSUME NEW f \in Frames, f # FindFreeFrame
        PROVE  meta'[f] = meta[f] /\ (In(f, free_list) => In(f, FreeListAfter))
    BY <1>6, <2>3, FrameTaken DEF FetchFails
  <2> QED BY <2>2, <2>3 DEF LostFrames
<1>7. ASSUME NEW h \in Holders, NEW v \in Values, WriteThrough(h, v) PROVE LostFrames' \subseteq LostFrames
  BY <1>1, <1>7 DEF WriteThrough
<1>8. ASSUME NEW h \in Holders, NEW is_dirty \in BOOLEAN, UnpinPage(h, is_dirty)
      PROVE  LostFrames' \subseteq LostFrames
  <2>1. \A f \in Frames : meta'[f].page_id = meta[f].page_id
    BY <1>0, <1>8 DEF UnpinPage, InPool
  <2> QED BY <1>1, <1>8, <2>1 DEF UnpinPage
<1>9. ASSUME NEW p \in Pages, DeleteOnDisk(p) PROVE LostFrames' \subseteq LostFrames
  BY <1>1, <1>9 DEF DeleteOnDisk, poolVars
<1>10. ASSUME NEW p \in Pages, DeletePage(p) PROVE LostFrames' \subseteq LostFrames
  <2>1. /\ page_table[p] \in Frames /\ ~In(page_table[p], free_list)
    <3>1. page_table[p] \in Frames /\ page_table[p] # INVALID_FRAME_ID
      BY <1>0, <1>10 DEF DeletePage, InPool
    <3>2. meta[page_table[p]].page_id = p /\ p # INVALID_PAGE_ID
      BY <3>1, InvalidAssumption DEF IInv, PoolSound, TableSound
    <3> QED BY <3>1, <3>2 DEF IInv, PoolSound, ListsSound, Unoccupied
  <2>2. \A g : In(g, free_list') <=> In(g, free_list) \/ g = page_table[p]
    BY <1>0, <1>10, <2>1, AppendNew DEF DeletePage
  <2>3. \A f \in Frames : f # page_table[p] => meta'[f] = meta[f]
    BY <1>0, <1>10 DEF DeletePage
  <2> QED BY <2>2, <2>3 DEF LostFrames
<1>11. ASSUME NEW p \in Pages, FlushPage(p) PROVE LostFrames' \subseteq LostFrames
  <2>1. \A f \in Frames : meta'[f].page_id = meta[f].page_id
    BY <1>0, <1>11 DEF FlushPage, InPool, FrameMetadata
  <2> QED BY <1>1, <1>11, <2>1 DEF FlushPage
<1>12. CASE FlushAllPages
  <2>1. \A f \in Frames : meta'[f].page_id = meta[f].page_id
    BY <1>0, <1>12 DEF FlushAllPages, FrameMetadata
  <2> QED BY <1>1, <1>12, <2>1 DEF FlushAllPages
<1>13. CASE CloseAndReopen \/ Crash
  <2>1. free_list' = [i \in 1 .. PoolSize |-> i - 1]
    BY <1>13 DEF CloseAndReopen, Crash, FreshPool
  <2>2. ASSUME NEW f \in Frames PROVE In(f, free_list')
    <3>1. f + 1 \in 1 .. PoolSize /\ (f + 1) - 1 = f
      BY PoolSizeAssumption DEF Frames
    <3> QED BY <2>1, <3>1 DEF In
  <2> QED BY <2>2 DEF LostFrames
<1> QED BY <1>2, <1>3, <1>4, <1>5, <1>6, <1>7, <1>8, <1>9, <1>10, <1>11, <1>12, <1>13 DEF Next

\* Reads and writes may fail, evictions and deletes come in any order: whoever takes a
\* frame from the free list or the replacer puts a page in it or gives it back, except
\* a NewPage whose AllocatePage throws.
THEOREM FramesReturned ==
  ASSUME "alloc_read" \notin Faults
  PROVE  Spec => NoFrameLost
<1>1. Spec => []IInv
  BY InitIInv, NextIInv, PTL DEF Spec
<1>2. IInv /\ [Next]_vars => [NewPageThrows \/ LostFrames' \subseteq LostFrames]_vars
  BY NextKeepsFrames
<1> QED BY <1>1, <1>2, PTL DEF Spec, NoFrameLost

\* With no frame lost, a pool with nothing on either list has a pin on every frame.
LEMMA NothingLostIInv ==
  ASSUME "extend" \notin Faults
  PROVE  /\ Init => LostFrames = {}
         /\ IInv /\ LostFrames = {} /\ [Next]_vars => LostFrames' = {}
         /\ IInv /\ LostFrames = {} => NullOnlyWhenAllPinned
<1>1. ASSUME Init PROVE LostFrames = {}
  <2>1. ASSUME NEW f \in Frames PROVE In(f, free_list)
    <3>1. f + 1 \in 1 .. PoolSize /\ (f + 1) - 1 = f
      BY PoolSizeAssumption DEF Frames
    <3> QED BY <1>1, <3>1 DEF Init, In
  <2> QED BY <2>1 DEF LostFrames
<1>2. ASSUME IInv, LostFrames = {}, [Next]_vars PROVE LostFrames' = {}
  BY <1>2, NextKeepsFrames DEF NewPageThrows
<1>3. ASSUME IInv, LostFrames = {} PROVE NullOnlyWhenAllPinned
  <2> SUFFICES ASSUME free_list = <<>>, lru = <<>>, NEW f \in Frames PROVE meta[f].pin_count > 0
    BY DEF NullOnlyWhenAllPinned, FrameAvailable
  <2>1. ~In(f, free_list) /\ ~In(f, lru)
    BY EmptySeq, LenProperties DEF In
  <2>2. meta[f].page_id # INVALID_PAGE_ID /\ meta[f].pin_count # 0
    BY <1>3, <2>1 DEF LostFrames, IInv, PoolSound, ListsSound
  <2>3. meta[f].pin_count \in Nat
    BY <1>3 DEF IInv, PoolSound, PoolTypes, FrameMetadata
  <2> QED BY <2>2, <2>3
<1> QED BY <1>1, <1>2, <1>3

\* buffer_pool_manager.h:163 and :185: a pool whose file can grow answers nullptr only
\* when clients hold every frame.
THEOREM RefusedOnlyWhenAllPinned ==
  ASSUME "alloc_read" \notin Faults, "extend" \notin Faults
  PROVE  Spec => []NullOnlyWhenAllPinned
<1>1. Init => IInv /\ LostFrames = {}
  BY InitIInv, NothingLostIInv
<1>2. IInv /\ LostFrames = {} /\ [Next]_vars => (IInv /\ LostFrames = {})'
  BY NextIInv, NothingLostIInv
<1>3. IInv /\ LostFrames = {} => NullOnlyWhenAllPinned
  BY NothingLostIInv
<1> QED BY <1>1, <1>2, <1>3, PTL DEF Spec

-----------------------------------------------------------------------------
(* Changes.  A file that takes every write: "write" \notin Faults. *)

\* Such a file holds, for each page whose frame was written, what is in the frame.
LEMMA WrittenContent ==
  ASSUME IInv, "write" \notin Faults, NEW fs \in SUBSET Frames
  PROVE  /\ WritePages(fs) = {Written(fs)}
         /\ \A p \in Pages : Written(fs)[p] = IF InPool(p) /\ page_table[p] \in fs
                                              THEN pages[page_table[p]] ELSE disk[p]
<1>1. ASSUME NEW p \in Pages, NEW f \in Frames, meta[f].page_id = p
      PROVE  page_table[p] = f /\ InPool(p)
  BY <1>1, InvalidAssumption DEF IInv, PoolSound, TableSound, InPool
<1>2. ASSUME NEW p \in Pages, InPool(p) PROVE meta[page_table[p]].page_id = p
  BY <1>2 DEF IInv, PoolSound, TableSound, InPool
<1>3. ASSUME NEW p \in Pages
      PROVE  Written(fs)[p] = IF InPool(p) /\ page_table[p] \in fs
                              THEN pages[page_table[p]] ELSE disk[p]
  <2>1. CASE \E f \in fs : meta[f].page_id = p
    <3> DEFINE c == CHOOSE f \in fs : meta[f].page_id = p
    <3>1. c \in fs /\ meta[c].page_id = p
      BY <2>1
    <3>2. Written(fs)[p] = pages[c]
      BY <2>1 DEF Written
    <3> HIDE DEF c
    <3> QED BY <1>1, <3>1, <3>2
  <2>2. CASE ~\E f \in fs : meta[f].page_id = p
    <3>1. Written(fs)[p] = disk[p]
      BY <2>2 DEF Written
    <3> QED BY <1>2, <2>2, <3>1
  <2> QED BY <2>1, <2>2
<1>4. WritePages(fs) = {Written(fs)}
  BY DEF WritePages
<1> QED BY <1>3, <1>4

\* A page that is still resident after FindFreeFrame is where it was, in another frame
\* than the one taken, and its copy on disk is as it was.
LEMMA SparedPage ==
  ASSUME IInv, FrameAvailable, NEW x \in Pages, TableAfter[x] # INVALID_FRAME_ID
  PROVE  /\ TableAfter[x] = page_table[x] /\ InPool(x)
         /\ page_table[x] \in Frames /\ page_table[x] # FindFreeFrame
         /\ MetaAfter[page_table[x]] = meta[page_table[x]]
         /\ Written(DirtyVictims)[x] = disk[x]
<1>1. TableAfter[x] = page_table[x] /\ ~\E f \in Victims : meta[f].page_id = x
  BY DEF TableAfter
<1>2. page_table[x] \in Frames
  BY <1>1 DEF IInv, PoolSound, PoolTypes
<1>3. MetaAfter[page_table[x]].page_id = x /\ MetaAfter[FindFreeFrame] = Unoccupied
  BY <1>1, FrameFound DEF PoolSound, TableSound
<1>4. page_table[x] # FindFreeFrame
  BY <1>3, InvalidAssumption DEF Unoccupied
<1>5. MetaAfter[page_table[x]] = meta[page_table[x]]
  BY <1>2, <1>4, FrameTaken
<1>6. Written(DirtyVictims)[x] = disk[x]
  BY <1>1 DEF Written, DirtyVictims
<1> QED BY <1>1, <1>2, <1>4, <1>5, <1>6 DEF InPool

\* Victims are frames, whose pages nobody holds a pointer to.
LEMMA VictimFrames ==
  ASSUME IInv
  PROVE  /\ DirtyVictims \in SUBSET Frames /\ Victims \in SUBSET Frames
         /\ \A f \in Victims : In(f, lru)
<1>1. lru \in Seq(Frames) /\ NoDuplicates(lru)
  BY DEF IInv, PoolSound, PoolTypes, ListsSound
<1>2. lru # <<>> => Last(lru) \in Frames /\ In(Last(lru), lru)
  BY <1>1, FrontProperties
<1> QED BY <1>2 DEF Victims, DirtyVictims

\* Nor is a change of an unpinned page anywhere but in its frame and its dirty bit.
LEMMA UnpinnedClean ==
  ASSUME IInv, NoLostUpdate, NEW p \in Pages, InPool(p), meta[page_table[p]].pin_count = 0,
         ~meta[page_table[p]].is_dirty
  PROVE  pages[page_table[p]] = disk[p]
<1>1. Cardinality(Holding(ptr, p)) = 0
  BY DEF IInv, PoolSound, PinsExact, InPool
<1>2. HeldBy(p) = {}
  BY <1>1, HoldingFinite DEF Holding, HeldBy
<1> QED BY <1>2 DEF NoLostUpdate

\* The page FindFreeFrame evicts, whether it had to be written or not, is in the file.
LEMMA VictimPersists ==
  ASSUME IInv, NoLostUpdate, "write" \notin Faults, NEW p \in Pages, InPool(p),
         TableAfter[p] = INVALID_FRAME_ID
  PROVE  Written(DirtyVictims)[p] = pages[page_table[p]]
<1>1. PICK f \in Victims : meta[f].page_id = p
  BY DEF TableAfter, InPool
<1>2. f \in Frames /\ In(f, lru)
  BY <1>1, VictimFrames
<1>3. page_table[p] = f /\ meta[f].pin_count = 0
  BY <1>1, <1>2, InvalidAssumption DEF IInv, PoolSound, TableSound, ListsSound
<1>4. Written(DirtyVictims)[p] = IF f \in DirtyVictims THEN pages[f] ELSE disk[p]
  BY <1>3, VictimFrames, WrittenContent
<1>5. CASE meta[f].is_dirty
  BY <1>1, <1>3, <1>4, <1>5 DEF DirtyVictims
<1>6. CASE ~meta[f].is_dirty
  BY <1>3, <1>4, <1>6, UnpinnedClean DEF DirtyVictims
<1> QED BY <1>5, <1>6

\* A page that stays where it is, in a step that changes neither its frame nor its copy
\* in the file nor what the clients that hold it know, stays marked.
LEMMA StaysMarked ==
  ASSUME IInv, NoLostUpdate, NEW x \in Pages, InPool(x),
         page_table'[x] = page_table[x],
         pages'[page_table[x]] = pages[page_table[x]], disk'[x] = disk[x],
         meta[page_table[x]].is_dirty => meta'[page_table[x]].is_dirty,
         \A g \in Holders : ptr[g].page = x =>
           \/ ptr'[g].page = x /\ (ptr[g].wrote => ptr'[g].wrote)
           \/ ptr[g].wrote => meta'[page_table[x]].is_dirty,
         pages'[page_table'[x]] # disk'[x]
  PROVE  meta'[page_table'[x]].is_dirty \/ \E g \in HeldBy(x)' : ptr'[g].wrote
<1>1. meta[page_table[x]].is_dirty \/ \E g \in HeldBy(x) : ptr[g].wrote
  BY DEF NoLostUpdate
<1> QED BY <1>1 DEF HeldBy

\* The same after FindFreeFrame, for the pages that were not evicted.
LEMMA SparedStaysMarked ==
  ASSUME IInv, NoLostUpdate, FrameAvailable, NEW x \in Pages,
         TableAfter[x] # INVALID_FRAME_ID, page_table'[x] = TableAfter[x],
         \A f \in Frames : f # FindFreeFrame => pages'[f] = pages[f] /\ meta'[f] = MetaAfter[f],
         disk'[x] = Written(DirtyVictims)[x],
         \A g \in Holders : ptr[g] # Null => ptr'[g] = ptr[g],
         pages'[page_table'[x]] # disk'[x]
  PROVE  meta'[page_table'[x]].is_dirty \/ \E g \in HeldBy(x)' : ptr'[g].wrote
<1>1. /\ TableAfter[x] = page_table[x] /\ InPool(x)
      /\ page_table[x] \in Frames /\ page_table[x] # FindFreeFrame
      /\ MetaAfter[page_table[x]] = meta[page_table[x]]
      /\ disk'[x] = disk[x]
  BY SparedPage
<1>2. ASSUME NEW g \in Holders, ptr[g].page = x PROVE ptr'[g] = ptr[g]
  BY <1>2, InvalidAssumption DEF Null
<1> QED BY <1>1, <1>2, StaysMarked

\* No step loses track of a change that is not in the file yet.
LEMMA NextKeepsUpdates ==
  ASSUME "write" \notin Faults
  PROVE  IInv /\ NoLostUpdate /\ [Next]_vars => NoLostUpdate'
<1> SUFFICES ASSUME IInv, NoLostUpdate, [Next]_vars, NEW x \in Pages,
                    page_table'[x] # INVALID_FRAME_ID, pages'[page_table'[x]] # disk'[x]
             PROVE  meta'[page_table'[x]].is_dirty \/ \E g \in HeldBy(x)' : ptr'[g].wrote
  BY DEF NoLostUpdate, InPool
<1> DEFINE Goal == meta'[page_table'[x]].is_dirty \/ \E g \in HeldBy(x)' : ptr'[g].wrote
<1>0. /\ PoolTypes(meta, page_table, free_list, lru, ptr) /\ FileTypes
      /\ TableSound(meta, page_table, Live)
      /\ PointersSound(page_table, ptr, Live)
      /\ \A fs \in SUBSET Frames : WritePages(fs) = {Written(fs)}
  BY WrittenContent DEF IInv, PoolSound
<1>1. CASE UNCHANGED vars
  BY <1>1, StaysMarked DEF vars, InPool
<1>2. ASSUME NEW h \in Holders, NEW p \in Pages, FetchHit(h, p) PROVE Goal
  <2>1. /\ page_table' = page_table /\ pages' = pages /\ disk' = disk /\ InPool(x)
        /\ ptr[h] = Null /\ \A g \in Holders : g # h => ptr'[g] = ptr[g]
    BY <1>2 DEF FetchHit, diskVars, InPool, Idle
  <2>2. page_table[x] \in Frames /\ meta[page_table[x]] \in FrameMetadata
    BY <1>0, <2>1 DEF PoolTypes, InPool
  <2>3. meta'[page_table[x]].is_dirty = meta[page_table[x]].is_dirty
    <3>1. page_table[p] \in Frames
      BY <1>0, <1>2 DEF FetchHit, InPool, PoolTypes
    <3> QED BY <1>0, <1>2, <2>2, <3>1 DEF FetchHit, PoolTypes, FrameMetadata
  <2>4. \A g \in Holders : ptr[g].page = x => ptr'[g] = ptr[g]
    BY <2>1, InvalidAssumption DEF Null
  <2> QED BY <2>1, <2>3, <2>4, StaysMarked
<1>3. ASSUME NEW h \in Holders, NEW p \in Pages, FetchMiss(h, p) PROVE Goal
  <2>1. FindFreeFrame \in Frames /\ FrameAvailable /\ ptr[h] = Null
    BY <1>3, FrameFound DEF FetchMiss, Idle
  <2>2. disk' = Written(DirtyVictims)
    BY <1>0, <1>3, VictimFrames DEF FetchMiss
  <2>3. CASE x = p
    BY <1>0, <1>3, <2>1, <2>3 DEF FetchMiss, FileTypes, TableAfter
  <2>4. CASE x # p
    <3>1. page_table'[x] = TableAfter[x] /\ TableAfter[x] # INVALID_FRAME_ID
      BY <1>3, <2>4 DEF FetchMiss, TableAfter
    <3>2. \A f \in Frames : f # FindFreeFrame => pages'[f] = pages[f] /\ meta'[f] = MetaAfter[f]
      BY <1>0, <1>3 DEF FetchMiss, FileTypes, MetaAfter
    <3>3. \A g \in Holders : ptr[g] # Null => ptr'[g] = ptr[g]
      BY <1>0, <1>3, <2>1 DEF FetchMiss, PoolTypes
    <3> QED BY <2>1, <2>2, <3>1, <3>2, <3>3, SparedStaysMarked
  <2> QED BY <2>3, <2>4
<1>4. ASSUME NEW h \in Holders, NEW p \in Pages, NewPage(h, p) PROVE Goal
  <2>1. FindFreeFrame \in Frames /\ FrameAvailable /\ ptr[h] = Null
    BY <1>4, FrameFound DEF NewPage, Idle
  <2>2. disk' = [Written(DirtyVictims) EXCEPT ![p] = Zero]
    BY <1>0, <1>4, VictimFrames DEF NewPage
  <2>3. CASE x = p
    <3>1. page_table'[x] = FindFreeFrame
      BY <1>4, <2>3 DEF NewPage, TableAfter
    <3>2. meta'[FindFreeFrame].is_dirty
      BY <1>4, <2>1 DEF NewPage, MetaAfter, NewPageMeta
    <3> QED BY <3>1, <3>2
  <2>4. CASE x # p
    <3>1. page_table'[x] = TableAfter[x] /\ TableAfter[x] # INVALID_FRAME_ID
      BY <1>4, <2>4 DEF NewPage, TableAfter
    <3>2. \A f \in Frames : f # FindFreeFrame => pages'[f] = pages[f] /\ meta'[f] = MetaAfter[f]
      BY <1>0, <1>4 DEF NewPage, FileTypes, MetaAfter
    <3>3. \A g \in Holders : ptr[g] # Null => ptr'[g] = ptr[g]
      BY <1>0, <1>4, <2>1 DEF NewPage, PoolTypes
    <3>4. disk'[x] = Written(DirtyVictims)[x]
      BY <2>2, <2>4 DEF Written
    <3> QED BY <2>1, <3>1, <3>2, <3>3, <3>4, SparedStaysMarked
  <2> QED BY <2>3, <2>4
<1>5. ASSUME NEW p \in Pages, FetchFails(p) PROVE Goal
  BY <1>0, <1>5, VictimFrames, SparedStaysMarked DEF FetchFails
<1>6. CASE NewPageThrows
  BY <1>0, <1>6, VictimFrames, SparedStaysMarked DEF NewPageThrows
<1>7. ASSUME NEW h \in Holders, NEW v \in Values, WriteThrough(h, v) PROVE Goal
  <2>1. /\ page_table' = page_table /\ meta' = meta /\ disk' = disk /\ InPool(x)
        /\ pages' = [pages EXCEPT ![ptr[h].frame] = v]
        /\ ptr' = [ptr EXCEPT ![h].wrote = TRUE] /\ ptr[h] # Null
    BY <1>7 DEF WriteThrough, diskVars, InPool, Idle
  <2>2. ptr'[h].page = ptr[h].page /\ ptr'[h].wrote /\ \A g \in Holders : g # h => ptr'[g] = ptr[g]
    BY <1>0, <2>1 DEF PoolTypes, Pointer
  <2>3. CASE ptr[h].page = x
    BY <2>2, <2>3 DEF HeldBy
  <2>4. CASE ptr[h].page # x
    <3>1. page_table[x] \in Frames /\ page_table[x] # ptr[h].frame
      <4>1. ptr[h].page \in Live /\ ptr[h].frame \in Frames /\ page_table[ptr[h].page] = ptr[h].frame
        BY <1>0, <2>1 DEF PointersSound
      <4>2. ptr[h].page \in Pages /\ ptr[h].frame # INVALID_FRAME_ID
        BY <1>0, <4>1, LivePages, InvalidAssumption
      <4>3. meta[ptr[h].frame].page_id = ptr[h].page /\ meta[page_table[x]].page_id = x
        BY <1>0, <2>1, <4>1, <4>2 DEF TableSound, InPool
      <4> QED BY <1>0, <2>1, <2>4, <4>3 DEF PoolTypes, InPool
    <3>2. pages'[page_table[x]] = pages[page_table[x]]
      BY <1>0, <2>1, <3>1 DEF FileTypes
    <3> QED BY <2>1, <2>2, <2>4, <3>2, StaysMarked
  <2> QED BY <2>3, <2>4
<1>8. ASSUME NEW h \in Holders, NEW is_dirty \in BOOLEAN, UnpinPage(h, is_dirty) PROVE Goal
  <2> DEFINE f == page_table[ptr[h].page]
  <2>1. /\ page_table' = page_table /\ pages' = pages /\ disk' = disk /\ InPool(x)
        /\ \A g \in Holders : g # h => ptr'[g] = ptr[g]
        /\ ptr[h].wrote => is_dirty
    BY <1>0, <1>8 DEF UnpinPage, diskVars, InPool, PoolTypes
  <2>2. page_table[x] \in Frames /\ ptr[h].page \in Pages
    <3>1. ptr[h].page \in Live
      BY <1>0, <1>8 DEF UnpinPage, Idle, PointersSound
    <3> QED BY <1>0, <2>1, <3>1, LivePages DEF PoolTypes, InPool
  <2>3. f \in Frames
    BY <1>0, <1>8, <2>2 DEF UnpinPage, InPool, PoolTypes
  <2>4. /\ \A g \in Frames : g # f => meta'[g] = meta[g]
        /\ meta'[f].is_dirty = Sticky(meta[f].is_dirty, is_dirty)
    BY <1>0, <1>8, <2>3 DEF UnpinPage, PoolTypes
  <2>5. ptr[h].page = x => f = page_table[x]
    OBVIOUS
  <2> HIDE DEF f
  <2>6. meta[page_table[x]].is_dirty => meta'[page_table[x]].is_dirty
    BY <2>2, <2>4 DEF Sticky
  <2>7. ASSUME NEW g \in Holders, ptr[g].page = x
        PROVE  \/ ptr'[g].page = x /\ (ptr[g].wrote => ptr'[g].wrote)
               \/ ptr[g].wrote => meta'[page_table[x]].is_dirty
    <3>1. CASE g = h
      BY <2>1, <2>4, <2>5, <2>7, <3>1 DEF Sticky
    <3>2. CASE g # h
      BY <2>1, <2>7, <3>2
    <3> QED BY <3>1, <3>2
  <2> QED BY <2>1, <2>6, <2>7, StaysMarked
<1>9. ASSUME NEW p \in Pages, DeleteOnDisk(p) PROVE Goal
  <2>1. /\ page_table' = page_table /\ pages' = pages /\ meta' = meta /\ ptr' = ptr /\ InPool(x)
        /\ x # p
    BY <1>9 DEF DeleteOnDisk, poolVars, InPool
  <2>2. disk'[x] = disk[x]
    BY <1>9, <2>1 DEF DeleteOnDisk, DeallocatePage, Deallocated
  <2> QED BY <2>1, <2>2, StaysMarked
<1>10. ASSUME NEW p \in Pages, DeletePage(p) PROVE Goal
  <2>1. x # p /\ page_table'[x] = page_table[x] /\ InPool(x) /\ pages' = pages /\ ptr' = ptr
    BY <1>0, <1>10 DEF DeletePage, PoolTypes, InPool
  <2>2. disk'[x] = disk[x]
    BY <1>10, <2>1 DEF DeletePage, DeallocatePage, Deallocated
  <2>3. meta'[page_table[x]] = meta[page_table[x]]
    <3>2. InPool(p) /\ p # x
      BY <1>10, <2>1 DEF DeletePage
    <3>3. meta[page_table[p]].page_id = p /\ meta[page_table[x]].page_id = x
      BY <1>0, <2>1, <3>2 DEF InPool, TableSound
    <3>1. page_table[x] \in Frames /\ page_table[x] # page_table[p]
      BY <1>0, <2>1, <3>2, <3>3 DEF InPool, PoolTypes
    <3> QED BY <1>0, <1>10, <3>1 DEF DeletePage, PoolTypes
  <2> QED BY <2>1, <2>2, <2>3, StaysMarked
<1>11. ASSUME NEW p \in Pages, FlushPage(p) PROVE Goal
  <2>1. page_table' = page_table /\ pages' = pages /\ ptr' = ptr /\ InPool(x)
    BY <1>11 DEF FlushPage, InPool
  <2>2. page_table[p] \in Frames /\ page_table[x] \in Frames
    BY <1>0, <1>11, <2>1 DEF FlushPage, InPool, PoolTypes
  <2>3. disk' = Written({page_table[p]})
    BY <1>0, <1>11, <2>2 DEF FlushPage
  <2>4. disk'[x] = IF page_table[x] = page_table[p] THEN pages[page_table[x]] ELSE disk[x]
    BY <2>1, <2>2, <2>3, WrittenContent
  <2>5. page_table[x] # page_table[p] /\ disk'[x] = disk[x]
    BY <2>1, <2>4
  <2>6. meta'[page_table[x]] = meta[page_table[x]]
    BY <1>0, <1>11, <2>2, <2>5 DEF FlushPage, PoolTypes
  <2> QED BY <2>1, <2>5, <2>6, StaysMarked
<1>12. CASE FlushAllPages
  <2>1. page_table' = page_table /\ pages' = pages /\ ptr' = ptr /\ InPool(x)
    BY <1>12 DEF FlushAllPages, InPool
  <2>2. page_table[x] \in Frames /\ DirtyFrames \in SUBSET Frames
    BY <1>0, <2>1 DEF InPool, PoolTypes, DirtyFrames
  <2>3. disk' = Written(DirtyFrames)
    BY <1>0, <1>12, <2>2 DEF FlushAllPages
  <2>4. disk'[x] = IF page_table[x] \in DirtyFrames THEN pages[page_table[x]] ELSE disk[x]
    BY <2>1, <2>2, <2>3, WrittenContent
  <2>5. page_table[x] \notin DirtyFrames /\ disk'[x] = disk[x]
    BY <2>1, <2>4
  <2>6. meta'[page_table[x]] = meta[page_table[x]]
    BY <1>12, <2>2, <2>5 DEF FlushAllPages
  <2> QED BY <2>1, <2>5, <2>6, StaysMarked
<1>13. CASE CloseAndReopen \/ Crash
  BY <1>13 DEF CloseAndReopen, Crash, FreshPool
<1> QED BY <1>1, <1>2, <1>3, <1>4, <1>5, <1>6, <1>7, <1>8, <1>9, <1>10, <1>11, <1>12, <1>13 DEF Next

\* A change made through a Page* is never forgotten before it is in the file: the frame
\* is marked dirty, or the client that made it is still to say so.
THEOREM UpdatesKept ==
  ASSUME "alloc_read" \notin Faults, "write" \notin Faults
  PROVE  Spec => []NoLostUpdate
<1>1. Init => IInv /\ NoLostUpdate
  BY InitIInv DEF Init, NoLostUpdate, InPool
<1>2. IInv /\ NoLostUpdate /\ [Next]_vars => (IInv /\ NoLostUpdate)'
  BY NextIInv, NextKeepsUpdates
<1> QED BY <1>1, <1>2, PTL DEF Spec

\* A page that a step drops from the pool and that goes on to exist has left its content
\* in the file.
LEMMA NextPersists ==
  ASSUME "write" \notin Faults, IInv, NoLostUpdate, [Next]_vars, ~Crash, NEW x \in Pages,
         InPool(x), page_table'[x] = INVALID_FRAME_ID, x \in Live'
  PROVE  disk'[x] = pages[page_table[x]]
<1> DEFINE Goal == disk'[x] = pages[page_table[x]]
<1>0. /\ PoolTypes(meta, page_table, free_list, lru, ptr) /\ FileTypes
      /\ TableSound(meta, page_table, Live)
      /\ \A fs \in SUBSET Frames : WritePages(fs) = {Written(fs)}
      /\ page_table[x] \in Frames /\ x \in Live /\ meta[page_table[x]].page_id = x
  BY WrittenContent DEF IInv, PoolSound, PoolTypes, TableSound, InPool
<1>1. ASSUME page_table'[x] = TableAfter[x], disk'[x] = Written(DirtyVictims)[x] PROVE Goal
  BY <1>1, VictimPersists
<1>2. ASSUME page_table' = page_table PROVE FALSE
  BY <1>2 DEF InPool
<1>3. ASSUME NEW h \in Holders, NEW p \in Pages, FetchMiss(h, p) PROVE Goal
  <2>1. x # p /\ disk' = Written(DirtyVictims)
    BY <1>0, <1>3, VictimFrames DEF FetchMiss, InPool
  <2> QED BY <1>1, <1>3, <2>1 DEF FetchMiss, TableAfter
<1>4. ASSUME NEW p \in Pages, FetchFails(p) PROVE Goal
  BY <1>0, <1>1, <1>4, VictimFrames DEF FetchFails
<1>5. CASE NewPageThrows
  BY <1>0, <1>1, <1>5, VictimFrames DEF NewPageThrows
<1>6. ASSUME NEW h \in Holders, NEW p \in Pages, NewPage(h, p) PROVE Goal
  <2>1. disk' = [Written(DirtyVictims) EXCEPT ![p] = Zero]
    BY <1>0, <1>6, VictimFrames DEF NewPage
  <2>2. x # p
    BY <1>0, <1>6, MaxPagesAssumption DEF NewPage, Allocatable, Live, FileTypes
  <2> QED BY <1>1, <1>6, <2>1, <2>2 DEF NewPage, TableAfter, Written
<1>7. ASSUME NEW p \in Pages, DeletePage(p) PROVE Goal
  <2>1. x = p
    BY <1>0, <1>7 DEF DeletePage, PoolTypes, InPool
  <2>2. free_pages' = free_pages \cup {p}
    BY <1>7 DEF DeletePage, DeallocatePage, Deallocated
  <2> QED BY <2>1, <2>2 DEF Live
<1>8. CASE CloseAndReopen
  <2>1. DirtyFrames \in SUBSET Frames
    BY DEF DirtyFrames
  <2>2. disk'[x] = IF page_table[x] \in DirtyFrames THEN pages[page_table[x]] ELSE disk[x]
    BY <1>0, <1>8, <2>1, WrittenContent DEF CloseAndReopen
  <2>3. HeldBy(x) = {}
    BY <1>8, InvalidAssumption DEF CloseAndReopen, Idle, HeldBy, Null
  <2>4. meta[page_table[x]].is_dirty => page_table[x] \in DirtyFrames
    BY <1>0, InvalidAssumption DEF DirtyFrames
  <2> QED BY <2>2, <2>3, <2>4 DEF NoLostUpdate
<1>9. ASSUME NEW h \in Holders, NEW p \in Pages, FetchHit(h, p) PROVE Goal
  BY <1>2, <1>9 DEF FetchHit
<1>10. ASSUME NEW h \in Holders, NEW v \in Values, WriteThrough(h, v) PROVE Goal
  BY <1>2, <1>10 DEF WriteThrough
<1>11. ASSUME NEW h \in Holders, NEW is_dirty \in BOOLEAN, UnpinPage(h, is_dirty) PROVE Goal
  BY <1>2, <1>11 DEF UnpinPage
<1>12. ASSUME NEW p \in Pages, DeleteOnDisk(p) \/ FlushPage(p) PROVE Goal
  BY <1>2, <1>12 DEF DeleteOnDisk, FlushPage, poolVars
<1>13. CASE FlushAllPages \/ UNCHANGED vars
  BY <1>2, <1>13 DEF FlushAllPages, vars
<1> QED BY <1>3, <1>4, <1>5, <1>6, <1>7, <1>8, <1>9, <1>10, <1>11, <1>12, <1>13 DEF Next

\* buffer_pool_manager.h:31, for every pool over a file that takes its writes: a page
\* leaves its frame by eviction or at the end of the process with its content written.
THEOREM EvictedPagesWritten ==
  ASSUME "alloc_read" \notin Faults, "write" \notin Faults
  PROVE  Spec => EvictionPersists
<1>1. Spec => []IInv
  BY InitIInv, NextIInv, PTL DEF Spec
<1>2. Spec => []NoLostUpdate
  BY UpdatesKept
<1>3. IInv /\ NoLostUpdate /\ [Next]_vars =>
        [Crash \/ \A p \in Pages : InPool(p) /\ page_table'[p] = INVALID_FRAME_ID /\ p \in Live'
                                     => disk'[p] = pages[page_table[p]]]_vars
  BY NextPersists
<1> QED BY <1>1, <1>2, <1>3, PTL DEF Spec, EvictionPersists

-----------------------------------------------------------------------------
(* The pool implements PageStore. *)

\* A page as clients see it.
Current(x) == IF InPool(x) THEN pages[page_table[x]] ELSE disk[x]

\* What PageStore calls writing back: the file may have caught up with the pool.
CaughtUp(x) == disk'[x] \in {disk[x], Current(x)}

-----------------------------------------------------------------------------
\* FindFreeFrame changes no page as clients see it: one that stays is in another frame
\* than the one taken, one that goes is in the file.
LEMMA FrameTakenUnseen ==
  ASSUME IInv, NoLostUpdate, "write" \notin Faults, FrameAvailable, NEW x \in Pages
  PROVE  /\ TableAfter[x] # INVALID_FRAME_ID =>
              /\ TableAfter[x] \in Frames /\ TableAfter[x] # FindFreeFrame
              /\ pages[TableAfter[x]] = Current(x)
         /\ TableAfter[x] = INVALID_FRAME_ID => Written(DirtyVictims)[x] = Current(x)
         /\ Written(DirtyVictims)[x] \in {disk[x], Current(x)}
<1>1. CASE TableAfter[x] # INVALID_FRAME_ID
  BY <1>1, SparedPage DEF Current
<1>2. CASE TableAfter[x] = INVALID_FRAME_ID /\ InPool(x)
  BY <1>2, VictimPersists DEF Current
<1>3. CASE ~InPool(x)
  <2>1. TableAfter[x] = INVALID_FRAME_ID
    BY <1>3, SparedPage
  <2>2. Written(DirtyVictims)[x] = disk[x]
    BY <1>3, VictimFrames, WrittenContent
  <2> QED BY <1>3, <2>1, <2>2 DEF Current
<1> QED BY <1>1, <1>2, <1>3

\* Nor does writing out any frames.
LEMMA WrittenUnseen ==
  ASSUME IInv, "write" \notin Faults, NEW fs \in SUBSET Frames, NEW x \in Pages
  PROVE  Written(fs)[x] \in {disk[x], Current(x)}
BY WrittenContent DEF Current

\* A client's pointer is to a live page, in the frame the table has for it.
LEMMA OpenPages ==
  ASSUME IInv, NEW h \in Holders
  PROVE  /\ Idle(h) <=> ptr[h].page = INVALID_PAGE_ID
         /\ ~Idle(h) => /\ ptr[h].page \in Pages /\ InPool(ptr[h].page)
                        /\ page_table[ptr[h].page] = ptr[h].frame /\ ptr[h].frame \in Frames
<1>1. PointersSound(page_table, ptr, Live) /\ FileTypes
  BY DEF IInv, PoolSound
<1>2. CASE ~Idle(h)
  BY <1>1, <1>2, LivePages, InvalidAssumption DEF PointersSound, Idle, InPool
<1>3. CASE Idle(h)
  BY <1>3 DEF Idle, Null
<1> QED BY <1>2, <1>3, InvalidAssumption

\* A step that shows clients the same pages, some of them written back.
LEMMA WriteBackStep ==
  ASSUME FileTypes', Live' = Live, ptr' = ptr,
         \A x \in Pages : Current(x)' = Current(x) /\ CaughtUp(x)
  PROVE  Store!WriteBack
BY DEF FileTypes, Content, Current, CaughtUp, Store!WriteBack, Store!WrittenBack, Store!Content

\* The same when a client opens a page.
LEMMA OpenStep ==
  ASSUME FileTypes', Live' = Live, ptr \in [Holders -> Pointer],
         \A x \in Pages : Current(x)' = Current(x) /\ CaughtUp(x),
         NEW h \in Holders, NEW p \in Pages, Idle(h), p \in Live, NEW f, NEW w,
         ptr' = [ptr EXCEPT ![h] = [page |-> p, frame |-> f, wrote |-> w]]
  PROVE  Store!Open(h, p)
<1>1. ptr[h].page = INVALID_PAGE_ID
  BY DEF Idle, Null
<1>2. \A g \in Holders : ptr'[g].page = IF g = h THEN p ELSE ptr[g].page
  OBVIOUS
<1> QED BY <1>1, <1>2
    DEF FileTypes, Content, Current, CaughtUp, Store!Open, Store!WrittenBack, Store!Content

-----------------------------------------------------------------------------
\* Every step of the pool is one of the page store.
LEMMA NextRefines ==
  ASSUME "write" \notin Faults, "alloc_read" \notin Faults, IInv, IInv', NoLostUpdate, [Next]_vars
  PROVE  [Store!Next]_Store!vars
<1> DEFINE Goal == [Store!Next]_Store!vars
<1>0. /\ PoolTypes(meta, page_table, free_list, lru, ptr) /\ FileTypes /\ FileTypes'
      /\ TableSound(meta, page_table, Live)
      /\ \A fs \in SUBSET Frames : WritePages(fs) = {Written(fs)}
  BY WrittenContent DEF IInv, PoolSound
<1>1. CASE UNCHANGED vars
  BY <1>1 DEF vars, Live, InPool, Store!vars
<1>2. ASSUME NEW h \in Holders, NEW p \in Pages, FetchHit(h, p) PROVE Goal
  <2>1. \A x \in Pages : Current(x)' = Current(x) /\ CaughtUp(x)
    BY <1>2 DEF FetchHit, diskVars, Current, CaughtUp, InPool
  <2>2. p \in Live /\ Live' = Live
    BY <1>0, <1>2 DEF FetchHit, diskVars, InPool, TableSound, Live
  <2>3. Store!Open(h, p)
    BY <1>0, <1>2, <2>1, <2>2, OpenStep DEF FetchHit, PoolTypes
  <2> QED BY <2>3 DEF Store!Next
<1>3. ASSUME NEW h \in Holders, NEW p \in Pages, FetchMiss(h, p) PROVE Goal
  <2>1. disk' = Written(DirtyVictims) /\ FrameAvailable /\ FindFreeFrame \in Frames
    BY <1>0, <1>3, VictimFrames, FrameFound DEF FetchMiss
  <2>2. ASSUME NEW x \in Pages PROVE Current(x)' = Current(x) /\ CaughtUp(x)
    <3>1. CASE x = p
      <4>1. disk'[p] = disk[p] /\ Current(p) = disk[p]
        BY <1>3, <2>1, VictimFrames, WrittenContent DEF FetchMiss, Current
      <4>2. page_table'[p] = FindFreeFrame /\ pages'[FindFreeFrame] = disk'[p]
        BY <1>0, <1>3, <2>1 DEF FetchMiss, FileTypes, TableAfter
      <4> QED BY <2>1, <3>1, <4>1, <4>2, InvalidAssumption DEF Current, CaughtUp, InPool
    <3>2. CASE x # p
      <4>1. page_table'[x] = TableAfter[x]
        BY <1>3, <3>2 DEF FetchMiss, TableAfter
      <4>2. \A f \in Frames : f # FindFreeFrame => pages'[f] = pages[f]
        BY <1>0, <1>3 DEF FetchMiss, FileTypes
      <4> QED BY <2>1, <4>1, <4>2, FrameTakenUnseen DEF Current, CaughtUp, InPool
    <3> QED BY <3>1, <3>2
  <2>3. Live' = Live
    BY <1>3 DEF FetchMiss, Live
  <2>4. Store!Open(h, p)
    BY <1>0, <1>3, <2>2, <2>3, OpenStep DEF FetchMiss, PoolTypes
  <2> QED BY <2>4 DEF Store!Next
<1>4. ASSUME disk' = Written(DirtyVictims), page_table' = TableAfter, FrameAvailable,
             pages' = pages, ptr' = ptr, Live' = Live
      PROVE  Goal
  <2>1. \A x \in Pages : Current(x)' = Current(x) /\ CaughtUp(x)
    BY <1>4, FrameTakenUnseen DEF Current, CaughtUp, InPool
  <2> QED BY <1>0, <1>4, <2>1, WriteBackStep DEF Store!Next
<1>5. ASSUME NEW p \in Pages, FetchFails(p) PROVE Goal
  BY <1>0, <1>4, <1>5, VictimFrames DEF FetchFails, Live
<1>6. CASE NewPageThrows
  BY <1>0, <1>4, <1>6, VictimFrames DEF NewPageThrows, Live
<1>7. ASSUME NEW h \in Holders, NEW p \in Pages, NewPage(h, p) PROVE Goal
  <2>1. /\ disk' = [Written(DirtyVictims) EXCEPT ![p] = Zero]
        /\ FrameAvailable /\ FindFreeFrame \in Frames /\ ptr[h] = Null
    BY <1>0, <1>7, VictimFrames, FrameFound DEF NewPage, Idle
  <2>2. p \notin Live /\ Live' = Live \cup {p}
    <3>1. free_pages' = free_pages \ {p}
      BY <1>7 DEF NewPage, FreePagesAfter
    <3>2. page_count \in Nat /\ free_pages \subseteq 1 .. page_count - 1
      BY <1>0, MaxPagesAssumption DEF FileTypes
    <3>3. CASE p \in free_pages
      BY <1>7, <3>1, <3>2, <3>3 DEF NewPage, Live
    <3>4. CASE free_pages = {} /\ p = page_count
      BY <1>7, <3>1, <3>2, <3>4 DEF NewPage, Live, Pages
    <3> QED BY <1>7, <3>3, <3>4 DEF NewPage, Allocatable
  <2>3. disk'[p] = Zero /\ Current(p)' = Empty
    BY <1>0, <1>7, <2>1, InvalidAssumption
       DEF NewPage, TableAfter, FileTypes, Written, Current, InPool
  <2>4. ASSUME NEW x \in Pages, x # p PROVE Current(x)' = Current(x) /\ CaughtUp(x)
    <3>1. page_table'[x] = TableAfter[x] /\ disk'[x] = Written(DirtyVictims)[x]
      BY <1>7, <2>1, <2>4 DEF NewPage, TableAfter, Written
    <3>2. \A f \in Frames : f # FindFreeFrame => pages'[f] = pages[f]
      BY <1>0, <1>7 DEF NewPage, FileTypes
    <3> QED BY <2>1, <3>1, <3>2, FrameTakenUnseen DEF Current, CaughtUp, InPool
  <2>5. \A g \in Holders : ptr'[g].page = IF g = h THEN p ELSE ptr[g].page
    BY <1>0, <1>7 DEF NewPage, PoolTypes
  <2>6. ptr[h].page = INVALID_PAGE_ID
    BY <2>1 DEF Null
  <2>7. Store!Create(h, p)
    BY <1>0, <2>2, <2>3, <2>4, <2>5, <2>6
       DEF FileTypes, Content, Current, CaughtUp, Store!Create, Store!WrittenBack, Store!Content
  <2> QED BY <2>7 DEF Store!Next
<1>8. ASSUME NEW h \in Holders, NEW v \in Values, WriteThrough(h, v) PROVE Goal
  <2>1. /\ page_table' = page_table /\ disk' = disk /\ Live' = Live /\ ~Idle(h)
        /\ pages' = [pages EXCEPT ![ptr[h].frame] = v]
        /\ \A g \in Holders : ptr'[g].page = ptr[g].page
    BY <1>0, <1>8 DEF WriteThrough, diskVars, Live, PoolTypes, Pointer
  <2>2. PICK p \in Pages : /\ p = ptr[h].page /\ p # INVALID_PAGE_ID /\ InPool(p)
                          /\ page_table[p] = ptr[h].frame /\ ptr[h].frame \in Frames
    BY <2>1, OpenPages
  <2>3. Current(p)' = v
    BY <1>0, <2>1, <2>2 DEF Current, InPool, FileTypes
  <2>4. ASSUME NEW x \in Pages, x # p PROVE Current(x)' = Current(x)
    <3>1. InPool(x) => page_table[x] \in Frames /\ page_table[x] # ptr[h].frame
      BY <1>0, <2>2, <2>4 DEF TableSound, InPool, PoolTypes
    <3> QED BY <1>0, <2>1, <3>1 DEF Current, InPool, FileTypes
  <2>5. \A x \in Pages : Current(x)' = IF x = p THEN v ELSE Current(x)
    BY <2>3, <2>4
  <2>6. [x \in Pages |-> Current(x)]' = [[x \in Pages |-> Current(x)] EXCEPT ![p] = v]
    <3>1. [x \in Pages |-> Current(x)]' = [x \in Pages |-> IF x = p THEN v ELSE Current(x)]
      BY <2>5
    <3> QED BY <3>1
  <2>7. Store!Write(h, v)
    BY <2>1, <2>2, <2>6 DEF Current, Store!Write
  <2> QED BY <2>7 DEF Store!Next
<1>9. ASSUME NEW h \in Holders, NEW is_dirty \in BOOLEAN, UnpinPage(h, is_dirty) PROVE Goal
  <2>1. /\ page_table' = page_table /\ pages' = pages /\ disk' = disk /\ Live' = Live
        /\ ~Idle(h) /\ ptr' = [ptr EXCEPT ![h] = Null]
    BY <1>9 DEF UnpinPage, diskVars, Live
  <2>2. \A g \in Holders : ptr'[g].page = IF g = h THEN INVALID_PAGE_ID ELSE ptr[g].page
    BY <1>0, <2>1 DEF PoolTypes, Null
  <2>3. ptr[h].page # INVALID_PAGE_ID
    BY <2>1, OpenPages
  <2>4. [g \in Holders |-> ptr[g].page]' =
          [[g \in Holders |-> ptr[g].page] EXCEPT ![h] = INVALID_PAGE_ID]
    <3>1. [g \in Holders |-> ptr[g].page]' =
            [g \in Holders |-> IF g = h THEN INVALID_PAGE_ID ELSE ptr[g].page]
      BY <2>2
    <3> QED BY <3>1
  <2>5. Store!Close(h)
    BY <2>1, <2>3, <2>4 DEF InPool, Store!Close
  <2> QED BY <2>5 DEF Store!Next
<1>10. ASSUME NEW p \in Pages, p \in Live, DeallocatePage(p), pages' = pages, ptr' = ptr,
              page_table' = [page_table EXCEPT ![p] = INVALID_FRAME_ID],
              \A h \in Holders : ptr[h].page # p
       PROVE  Goal
  <2>1. /\ free_pages' = free_pages \cup {p} /\ page_count' = page_count
        /\ disk' = [q \in Pages |-> IF q = p THEN Zero ELSE disk[q]]
    BY <1>10 DEF DeallocatePage, Deallocated
  <2>2. Live' = Live \ {p}
    BY <2>1 DEF Live
  <2>3. Current(p)' = Zero
    BY <1>0, <1>10, <2>1 DEF Current, InPool, PoolTypes
  <2>4. ASSUME NEW x \in Pages, x # p PROVE Current(x)' = Current(x) /\ disk'[x] = disk[x]
    BY <1>0, <1>10, <2>1, <2>4 DEF Current, InPool, PoolTypes
  <2>5. disk' = [disk EXCEPT ![p] = Zero]
    BY <1>0, <2>1 DEF FileTypes
  <2>6. \A x \in Pages : Current(x)' = IF x = p THEN Zero ELSE Current(x)
    BY <2>3, <2>4
  <2>7. Store!Remove(p)
    BY <1>10, <2>2, <2>5, <2>6 DEF Current, Store!Remove
  <2> QED BY <2>7 DEF Store!Next
<1>11. ASSUME NEW p \in Pages, Cardinality(Holding(ptr, p)) = 0
       PROVE  \A h \in Holders : ptr[h].page # p
  <2>1. Holding(ptr, p) = {}
    BY <1>11, HoldingFinite
  <2> QED BY <2>1 DEF Holding
<1>12. ASSUME NEW p \in Pages, DeleteOnDisk(p) PROVE Goal
  <2>1. page_table' = [page_table EXCEPT ![p] = INVALID_FRAME_ID]
    BY <1>0, <1>12 DEF DeleteOnDisk, poolVars, InPool, PoolTypes
  <2>2. Cardinality(Holding(ptr, p)) = 0
    BY <1>12 DEF DeleteOnDisk, InPool, IInv, PoolSound, PinsExact
  <2> QED BY <1>10, <1>11, <1>12, <2>1, <2>2 DEF DeleteOnDisk, poolVars
<1>13. ASSUME NEW p \in Pages, DeletePage(p) PROVE Goal
  <2>1. Cardinality(Holding(ptr, p)) = 0
    BY <1>13 DEF DeletePage, Deletable, InPool, IInv, PoolSound, PinsExact
  <2> QED BY <1>10, <1>11, <1>13, <2>1 DEF DeletePage
<1>14. ASSUME NEW fs \in SUBSET Frames, disk' \in WritePages(fs), pages' = pages,
              page_table' = page_table, ptr' = ptr, Live' = Live
       PROVE  Goal
  <2>1. disk' = Written(fs)
    BY <1>0, <1>14
  <2>2. ASSUME NEW x \in Pages PROVE Current(x)' = Current(x) /\ CaughtUp(x)
    <3>1. Written(fs)[x] = IF InPool(x) /\ page_table[x] \in fs
                           THEN pages[page_table[x]] ELSE disk[x]
      BY WrittenContent
    <3>2. InPool(x)' = InPool(x) /\ pages'[page_table'[x]] = pages[page_table[x]]
      BY <1>14 DEF InPool
    <3> QED BY <2>1, <3>1, <3>2 DEF Current, CaughtUp
  <2> QED BY <1>0, <1>14, <2>2, WriteBackStep DEF Store!Next
<1>15. ASSUME NEW p \in Pages, FlushPage(p) PROVE Goal
  <2>1. {page_table[p]} \in SUBSET Frames
    BY <1>0, <1>15 DEF FlushPage, InPool, PoolTypes
  <2> QED BY <1>14, <1>15, <2>1 DEF FlushPage, Live
<1>16. CASE FlushAllPages
  <2>1. DirtyFrames \in SUBSET Frames
    BY DEF DirtyFrames
  <2> QED BY <1>14, <1>16, <2>1 DEF FlushAllPages, Live
<1>17. CASE CloseAndReopen
  <2>1. DirtyFrames \in SUBSET Frames
    BY DEF DirtyFrames
  <2>2. disk' = Written(DirtyFrames)
    BY <1>0, <1>17, <2>1 DEF CloseAndReopen
  <2>3. ASSUME NEW x \in Pages PROVE Current(x)' = Current(x) /\ CaughtUp(x)
    <3>1. ~InPool(x)' /\ Current(x)' = disk'[x]
      BY <1>17 DEF CloseAndReopen, FreshPool, InPool, Current
    <3>2. disk'[x] = IF InPool(x) /\ page_table[x] \in DirtyFrames
                     THEN pages[page_table[x]] ELSE disk[x]
      BY <2>1, <2>2, WrittenContent
    <3>3. CASE InPool(x)
      <4>1. HeldBy(x) = {}
        BY <1>17, InvalidAssumption DEF CloseAndReopen, Idle, HeldBy, Null
      <4>2. meta[page_table[x]].is_dirty => page_table[x] \in DirtyFrames
        BY <1>0, <3>3, InvalidAssumption DEF DirtyFrames, TableSound, InPool, PoolTypes
      <4> QED BY <3>1, <3>2, <3>3, <4>1, <4>2 DEF NoLostUpdate, Current, CaughtUp
    <3>4. CASE ~InPool(x)
      BY <3>1, <3>2, <3>4 DEF Current, CaughtUp
    <3> QED BY <3>3, <3>4
  <2>4. ptr' = ptr
    BY <1>0, <1>17 DEF CloseAndReopen, FreshPool, Idle, PoolTypes
  <2>5. Live' = Live
    BY <1>17 DEF CloseAndReopen, Live
  <2> QED BY <1>0, <2>3, <2>4, <2>5, WriteBackStep DEF Store!Next
<1>18. CASE Crash
  <2>1. \A x \in Pages : Current(x)' = disk[x]
    BY <1>18 DEF Crash, FreshPool, diskVars, Current, InPool
  <2>2. \A h \in Holders : ptr'[h].page = INVALID_PAGE_ID
    BY <1>18 DEF Crash, FreshPool, Null
  <2>3. disk' = disk /\ Live' = Live
    BY <1>18 DEF Crash, diskVars, Live
  <2>4. Store!Crash
    BY <1>0, <2>1, <2>2, <2>3 DEF FileTypes, Current, Store!Crash
  <2> QED BY <2>4 DEF Store!Next
<1> QED BY <1>1, <1>2, <1>3, <1>5, <1>6, <1>7, <1>8, <1>9, <1>12, <1>13, <1>15, <1>16, <1>17, <1>18
    DEF Next

\* Whatever is cached, evicted, read again, flushed or reopened in between, clients that
\* fetch a page find it as the last of them left it, and after a crash as it was last
\* written: the pool is a PageStore.
THEOREM PoolIsPageStore ==
  ASSUME "alloc_read" \notin Faults, "write" \notin Faults
  PROVE  Spec => StoreSpec
<1>1. Init => Store!Init
  BY DEF Init, Store!Init, Live, InPool, Null
<1>2. Spec => []IInv
  BY InitIInv, NextIInv, PTL DEF Spec
<1>3. Spec => []NoLostUpdate
  BY UpdatesKept
<1>4. IInv /\ IInv' /\ NoLostUpdate /\ [Next]_vars => [Store!Next]_Store!vars
  BY NextRefines
<1> QED BY <1>1, <1>2, <1>3, <1>4, PTL DEF Spec, StoreSpec, Store!Spec
==============================================================================
