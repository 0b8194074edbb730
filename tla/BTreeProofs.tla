----------------------------- MODULE BTreeProofs ------------------------------
(***************************************************************************)
(* Proofs about the tree in every state it can be in, in the middle of a   *)
(* split and after one that was refused a page: its nodes keep their form  *)
(* and their heights (Shape), its leaves are on one chain (Linked), which  *)
(* holds no entry twice (Kept); so its contents are an ordered index's.    *)
(*                                                                         *)
(* For keys, record ids, nodes and trees of every size.                    *)
(***************************************************************************)
EXTENDS BTree, SequenceTheorems, FiniteSetTheorems, WellFoundedInduction, TLAPS

-----------------------------------------------------------------------------
(* Least elements. *)

LEMMA NatOrder == \E R : IsWellFoundedOn(R, Nat) /\ R = {ss \in Nat \X Nat : ss[1] < ss[2]}
<1>1. OpToRel(<, Nat) = {ss \in Nat \X Nat : ss[1] < ss[2]}
  BY DEF OpToRel
<1> QED BY <1>1, NatLessThanWellFounded, Zenon

LEMMA LeastNatural ==
  ASSUME NEW U, U \subseteq Nat, U # {}
  PROVE  \E m \in U : \A k \in U : m <= k
<1>1. PICK R : IsWellFoundedOn(R, Nat) /\ R = {ss \in Nat \X Nat : ss[1] < ss[2]}
  BY NatOrder
<1>2. PICK m \in U : \A k \in U : <<k, m>> \notin R
  BY <1>1, WFMin
<1>3. ASSUME NEW k \in U PROVE m <= k
  <2>1. k \in Nat /\ m \in Nat /\ <<k, m>> \in Nat \X Nat
    OBVIOUS
  <2> QED BY <1>1, <1>2, <2>1
<1> QED BY <1>3

LEMMA MinIsLeast ==
  ASSUME NEW S, S \subseteq Nat, S # {}
  PROVE  Min(S) \in S /\ \A k \in S : Min(S) <= k
BY LeastNatural DEF Min

\* A loop of L passes that keeps its state in S has a state after each of them.
Passes(L, S, step) == step \in [1 .. L -> [S -> S]]
RunOf(L, S, base, step, f) ==
  /\ f \in [0 .. L -> S]
  /\ f[0] = base /\ \A n \in 1 .. L : f[n] = step[n][f[n - 1]]

LEMMA LoopRuns ==
  ASSUME NEW L \in Nat, NEW S, NEW base \in S, NEW step, Passes(L, S, step)
  PROVE  \E f : RunOf(L, S, base, step, f)
<1> USE DEF Passes, RunOf
<1> DEFINE Runs(k) == \E f \in [0 .. k -> S] :
                        f[0] = base /\ \A n \in 1 .. k : f[n] = step[n][f[n - 1]]
           U == {k \in 0 .. L : ~Runs(k)}
<1>1. Runs(0)
  <2>1. [n \in 0 .. 0 |-> base] \in [0 .. 0 -> S]
    OBVIOUS
  <2>2. [n \in 0 .. 0 |-> base][0] = base /\ 1 .. 0 = {}
    OBVIOUS
  <2> QED BY <2>1, <2>2
<1>2. ASSUME NEW k \in 0 .. L - 1, Runs(k) PROVE Runs(k + 1)
  <2>1. PICK f \in [0 .. k -> S] : f[0] = base /\ \A n \in 1 .. k : f[n] = step[n][f[n - 1]]
    BY <1>2
  <2> DEFINE g == [n \in 0 .. k + 1 |-> IF n <= k THEN f[n] ELSE step[k + 1][f[k]]]
  <2>2. f[k] \in S /\ step[k + 1] \in [S -> S]
    OBVIOUS
  <2>3. step[k + 1][f[k]] \in S
    BY <2>2
  <2>4. g \in [0 .. k + 1 -> S]
    BY <2>3
  <2>5. g[0] = base
    BY <2>1
  <2>6. ASSUME NEW n \in 1 .. k + 1 PROVE g[n] = step[n][g[n - 1]]
    <3>1. CASE n = k + 1
      BY <3>1
    <3>2. CASE n # k + 1
      BY <2>1, <3>2
    <3> QED BY <3>1, <3>2
  <2> QED BY <2>4, <2>5, <2>6
<1>3. U = {}
  <2> HIDE DEF Runs
  <2> SUFFICES ASSUME U # {} PROVE FALSE
    OBVIOUS
  <2>1. U \subseteq Nat
    OBVIOUS
  <2>2. PICK m \in U : \A k \in U : m <= k
    <3> HIDE DEF U
    <3> QED BY <2>1, LeastNatural
  <2>3. m \in 0 .. L /\ m # 0 /\ ~Runs(m)
    BY <1>1, <2>2
  <2>4. m - 1 \in 0 .. L - 1 /\ ~(m <= m - 1) /\ (m - 1) + 1 = m
    BY <2>3
  <2>5. Runs(m - 1)
    BY <2>2, <2>4
  <2> QED BY <1>2, <2>3, <2>4, <2>5
<1>4. Runs(L)
  <2> HIDE DEF Runs
  <2> QED BY <1>3
<1> QED BY <1>4

LEMMA SequenceOf ==
  ASSUME NEW L \in Nat, NEW S, NEW f \in [1 .. L -> S]
  PROVE  f \in Seq(S) /\ Len(f) = L
<1>1. f \in Seq(S)
  BY SeqDef
<1>2. Len(f) \in Nat /\ 1 .. Len(f) = 1 .. L
  BY <1>1, LenProperties
<1>3. ASSUME NEW m \in Nat, NEW n \in Nat, 1 .. m = 1 .. n PROVE m <= n
  <2>1. CASE m = 0
    BY <2>1
  <2>2. CASE m # 0
    <3>1. m \in 1 .. m
      BY <2>2
    <3>2. m \in 1 .. n
      BY <1>3, <3>1
    <3> QED BY <3>2
  <2> QED BY <2>1, <2>2
<1>4. Len(f) <= L /\ L <= Len(f)
  BY <1>2, <1>3
<1> QED BY <1>1, <1>2, <1>4

-----------------------------------------------------------------------------
(* Sequences. *)

LEMMA Piece ==
  ASSUME NEW S, NEW s \in Seq(S), NEW m \in 1 .. Len(s) + 1, NEW n \in m - 1 .. Len(s)
  PROVE  /\ SubSeq(s, m, n) \in Seq(S) /\ Len(SubSeq(s, m, n)) = n - m + 1
         /\ \A i \in 1 .. n - m + 1 : SubSeq(s, m, n)[i] = s[m + i - 1]
<1>1. Len(s) \in Nat /\ m \in Int /\ n \in Int /\ m <= n + 1
  BY LenProperties
<1>2. \A i \in m .. n : i \in 1 .. Len(s)
  BY <1>1
<1>3. \A i \in m .. n : s[i] \in S
  BY <1>2, ElementOfSeq
<1>4. /\ SubSeq(s, m, n) \in Seq(S) /\ Len(SubSeq(s, m, n)) = (IF m <= n THEN n - m + 1 ELSE 0)
      /\ \A i \in 1 .. n - m + 1 : SubSeq(s, m, n)[i] = s[m + i - 1]
  BY <1>1, <1>3, SubSeqProperties
<1> QED BY <1>1, <1>4

LEMMA Inserted ==
  ASSUME NEW S, NEW s \in Seq(S), NEW k \in 1 .. Len(s) + 1, NEW e \in S
  PROVE  /\ InsertAt(s, k, e) \in Seq(S) /\ Len(InsertAt(s, k, e)) = Len(s) + 1
         /\ \A i \in 1 .. Len(s) + 1 :
              InsertAt(s, k, e)[i] = IF i < k THEN s[i] ELSE IF i = k THEN e ELSE s[i - 1]
<1> DEFINE a == SubSeq(s, 1, k - 1)
           b == SubSeq(s, k, Len(s))
           c == a \o <<e>>
<1>1. Len(s) \in Nat
  BY LenProperties
<1>2. a \in Seq(S) /\ Len(a) = k - 1 /\ \A i \in 1 .. k - 1 : a[i] = s[i]
  <2>1. 1 \in 1 .. Len(s) + 1 /\ k - 1 \in 1 - 1 .. Len(s)
    BY <1>1
  <2>2. /\ a \in Seq(S) /\ Len(a) = (k - 1) - 1 + 1
        /\ \A i \in 1 .. (k - 1) - 1 + 1 : a[i] = s[1 + i - 1]
    BY <2>1, Piece
  <2> HIDE DEF a
  <2> QED BY <1>1, <2>2
<1>3. b \in Seq(S) /\ Len(b) = Len(s) - k + 1 /\ \A i \in 1 .. Len(s) - k + 1 : b[i] = s[k + i - 1]
  <2>1. Len(s) \in k - 1 .. Len(s)
    BY <1>1
  <2> QED BY <2>1, Piece
<1>4. <<e>> \in Seq(S) /\ Len(<<e>>) = 1 /\ <<e>>[1] = e
  OBVIOUS
<1>5. InsertAt(s, k, e) = c \o b
  BY DEF InsertAt
<1> HIDE DEF a, b
<1>6. /\ c \in Seq(S) /\ Len(c) = k
      /\ \A i \in 1 .. k : c[i] = IF i < k THEN s[i] ELSE e
  <2>1. /\ c \in Seq(S) /\ Len(c) = Len(a) + Len(<<e>>)
        /\ \A i \in 1 .. Len(a) + Len(<<e>>) : c[i] = IF i <= Len(a) THEN a[i] ELSE <<e>>[i - Len(a)]
    BY <1>2, <1>4, ConcatProperties
  <2> HIDE DEF c
  <2>2. Len(a) + Len(<<e>>) = k
    BY <1>1, <1>2, <1>4
  <2>3. ASSUME NEW i \in 1 .. k PROVE c[i] = IF i < k THEN s[i] ELSE e
    <3>1. CASE i < k
      <4>1. i \in 1 .. k - 1 /\ i <= Len(a)
        BY <1>1, <1>2, <3>1
      <4> QED BY <1>2, <2>1, <2>2, <3>1, <4>1
    <3>2. CASE i = k
      <4>1. ~(i <= Len(a)) /\ i - Len(a) = 1
        BY <1>1, <1>2, <3>2
      <4> QED BY <1>4, <2>1, <2>2, <3>2, <4>1
    <3> QED BY <3>1, <3>2
  <2> QED BY <2>1, <2>2, <2>3
<1> HIDE DEF c
<1>7. /\ c \o b \in Seq(S) /\ Len(c \o b) = Len(c) + Len(b)
      /\ \A i \in 1 .. Len(c) + Len(b) : (c \o b)[i] = IF i <= Len(c) THEN c[i] ELSE b[i - Len(c)]
  BY <1>3, <1>6, ConcatProperties
<1>8. Len(c) + Len(b) = Len(s) + 1
  BY <1>1, <1>3, <1>6
<1>9. ASSUME NEW i \in 1 .. Len(s) + 1
      PROVE  (c \o b)[i] = IF i < k THEN s[i] ELSE IF i = k THEN e ELSE s[i - 1]
  <2>1. CASE i <= k
    BY <1>6, <1>7, <1>8, <2>1
  <2>2. CASE i > k
    <3>1. ~(i <= Len(c)) /\ i - Len(c) \in 1 .. Len(s) - k + 1 /\ k + (i - Len(c)) - 1 = i - 1
      BY <1>1, <1>6, <2>2
    <3>2. b[i - Len(c)] = s[k + (i - Len(c)) - 1]
      BY <1>3, <3>1
    <3>3. (c \o b)[i] = b[i - Len(c)]
      BY <1>7, <1>8, <3>1
    <3> QED BY <2>2, <3>1, <3>2, <3>3
  <2>3. i <= k \/ i > k
    BY <1>1
  <2> QED BY <2>1, <2>2, <2>3, Zenon
<1> DEFINE d == c \o b
<1>10. /\ d \in Seq(S) /\ Len(d) = Len(s) + 1
       /\ \A i \in 1 .. Len(s) + 1 : d[i] = IF i < k THEN s[i] ELSE IF i = k THEN e ELSE s[i - 1]
  BY <1>7, <1>8, <1>9
<1>11. InsertAt(s, k, e) = d
  BY <1>5
<1> HIDE DEF d
<1> QED BY <1>10, <1>11

LEMMA Removed ==
  ASSUME NEW S, NEW s \in Seq(S), NEW k \in 1 .. Len(s)
  PROVE  /\ RemoveAt(s, k) \in Seq(S) /\ Len(RemoveAt(s, k)) = Len(s) - 1
         /\ \A i \in 1 .. Len(s) - 1 : RemoveAt(s, k)[i] = IF i < k THEN s[i] ELSE s[i + 1]
<1> DEFINE a == SubSeq(s, 1, k - 1)
           b == SubSeq(s, k + 1, Len(s))
<1>1. Len(s) \in Nat
  BY LenProperties
<1>2. a \in Seq(S) /\ Len(a) = k - 1 /\ \A i \in 1 .. k - 1 : a[i] = s[i]
  <2>1. 1 \in 1 .. Len(s) + 1 /\ k - 1 \in 1 - 1 .. Len(s)
    BY <1>1
  <2>2. /\ a \in Seq(S) /\ Len(a) = (k - 1) - 1 + 1
        /\ \A i \in 1 .. (k - 1) - 1 + 1 : a[i] = s[1 + i - 1]
    BY <2>1, Piece
  <2> HIDE DEF a
  <2>3. (k - 1) - 1 + 1 = k - 1 /\ \A i \in 1 .. k - 1 : 1 + i - 1 = i
    BY <1>1
  <2> QED BY <2>2, <2>3
<1>3. b \in Seq(S) /\ Len(b) = Len(s) - k /\ \A i \in 1 .. Len(s) - k : b[i] = s[k + i]
  <2>1. k + 1 \in 1 .. Len(s) + 1 /\ Len(s) \in (k + 1) - 1 .. Len(s)
    BY <1>1
  <2>2. /\ b \in Seq(S) /\ Len(b) = Len(s) - (k + 1) + 1
        /\ \A i \in 1 .. Len(s) - (k + 1) + 1 : b[i] = s[(k + 1) + i - 1]
    BY <2>1, Piece
  <2> HIDE DEF b
  <2>3. Len(s) - (k + 1) + 1 = Len(s) - k /\ \A i \in 1 .. Len(s) - k : (k + 1) + i - 1 = k + i
    BY <1>1
  <2> QED BY <2>2, <2>3
<1>4. RemoveAt(s, k) = a \o b
  BY DEF RemoveAt
<1> HIDE DEF a, b
<1>5. /\ a \o b \in Seq(S) /\ Len(a \o b) = Len(a) + Len(b)
      /\ \A i \in 1 .. Len(a) + Len(b) : (a \o b)[i] = IF i <= Len(a) THEN a[i] ELSE b[i - Len(a)]
  BY <1>2, <1>3, ConcatProperties
<1>6. Len(a) + Len(b) = Len(s) - 1
  BY <1>1, <1>2, <1>3
<1>7. ASSUME NEW i \in 1 .. Len(s) - 1 PROVE (a \o b)[i] = IF i < k THEN s[i] ELSE s[i + 1]
  <2>1. CASE i < k
    <3>1. i \in 1 .. k - 1 /\ i <= Len(a)
      BY <1>1, <1>2, <2>1
    <3> QED BY <1>2, <1>5, <1>6, <2>1, <3>1
  <2>2. CASE i >= k
    <3>1. ~(i <= Len(a)) /\ i - Len(a) \in 1 .. Len(s) - k /\ k + (i - Len(a)) = i + 1 /\ ~(i < k)
      BY <1>1, <1>2, <2>2
    <3>2. b[i - Len(a)] = s[k + (i - Len(a))]
      BY <1>3, <3>1
    <3>3. (a \o b)[i] = b[i - Len(a)]
      BY <1>5, <1>6, <3>1
    <3> QED BY <3>1, <3>2, <3>3
  <2>3. i < k \/ i >= k
    BY <1>1
  <2> QED BY <2>1, <2>2, <2>3, Zenon
<1> DEFINE d == a \o b
<1>8. /\ d \in Seq(S) /\ Len(d) = Len(s) - 1
      /\ \A i \in 1 .. Len(s) - 1 : d[i] = IF i < k THEN s[i] ELSE s[i + 1]
  BY <1>5, <1>6, <1>7
<1>9. RemoveAt(s, k) = d
  BY <1>4
<1> HIDE DEF d
<1> QED BY <1>8, <1>9

LEMMA AppendedSeq ==
  ASSUME NEW S, NEW s \in Seq(S), NEW e \in S
  PROVE  /\ Append(s, e) \in Seq(S) /\ Len(Append(s, e)) = Len(s) + 1
         /\ \A i \in 1 .. Len(s) + 1 : Append(s, e)[i] = IF i <= Len(s) THEN s[i] ELSE e
<1>1. Len(s) \in Nat
  BY LenProperties
<1> QED BY <1>1, AppendProperties

-----------------------------------------------------------------------------
(* Binary search. *)

\* What a binary search finds in a sorted node: a front of its positions.
LEMMA DownwardClosed ==
  ASSUME NEW L \in Nat, NEW C, C \subseteq 1 .. L,
         \A i \in C, j \in 1 .. L : j < i => j \in C
  PROVE  Cardinality(C) \in 0 .. L /\ C = 1 .. Cardinality(C)
<1> DEFINE U == 1 .. L + 1 \ C
<1>1. L + 1 \in U /\ U \subseteq Nat
  OBVIOUS
<1>2. PICK m \in U : \A k \in U : m <= k
  <2>1. U # {}
    BY <1>1
  <2> HIDE DEF U
  <2> QED BY <1>1, <2>1, LeastNatural
<1>3. m \in 1 .. L + 1 /\ m \notin C
  BY <1>2
<1>4. ASSUME NEW i \in 1 .. L PROVE i \in C <=> i < m
  <2>1. CASE i < m
    <3>1. i \notin U
      <4> HIDE DEF U
      <4> QED BY <1>2, <1>3, <2>1
    <3> QED BY <2>1, <3>1
  <2>2. CASE ~(i < m)
    <3>1. ASSUME i \in C PROVE FALSE
      <4>1. m \in 1 .. L /\ m <= i
        BY <1>3, <2>2
      <4>2. m < i
        BY <1>3, <3>1, <4>1
      <4> QED BY <1>3, <3>1, <4>1, <4>2
    <3> QED BY <2>2, <3>1
  <2> QED BY <2>1, <2>2
<1> HIDE DEF U
<1>5. m - 1 \in 0 .. L /\ \A i \in 1 .. m - 1 : i \in 1 .. L /\ i < m
  BY <1>3
<1>6. C = 1 .. m - 1
  <2>1. \A i \in C : i \in 1 .. L /\ i < m
    BY <1>4
  <2>2. \A i \in C : i \in 1 .. m - 1
    BY <1>3, <2>1
  <2>3. \A i \in 1 .. m - 1 : i \in C
    BY <1>4, <1>5
  <2> QED BY <2>2, <2>3
<1>7. Cardinality(1 .. m - 1) = m - 1
  <2>1. 1 \in Int /\ m - 1 \in Int
    BY <1>3
  <2>2. Cardinality(1 .. m - 1) = IF 1 > m - 1 THEN 0 ELSE m - 1 - 1 + 1
    BY <2>1, FS_Interval
  <2> QED BY <1>3, <2>2
<1>8. Cardinality(C) = m - 1
  BY <1>6, <1>7
<1>9. C = 1 .. Cardinality(C)
  BY <1>6, <1>8, Zenon
<1> QED BY <1>5, <1>8, <1>9

LEMMA FindChildIs ==
  ASSUME NEW n, n.keys \in Seq(Nat), Ascending(n.keys), NEW k \in Int
  PROVE  /\ FindChild(n, k) \in 0 .. Len(n.keys)
         /\ \A i \in 1 .. Len(n.keys) : n.keys[i] <= k <=> i <= FindChild(n, k)
<1> DEFINE s == n.keys
           C == {i \in DOMAIN s : s[i] <= k}
<1>1. Len(s) \in Nat /\ DOMAIN s = 1 .. Len(s) /\ \A i \in 1 .. Len(s) : s[i] \in Nat
  BY LenProperties, ElementOfSeq
<1>2. \A i \in C, j \in 1 .. Len(s) : j < i => j \in C
  <2>1. ASSUME NEW i \in C, NEW j \in 1 .. Len(s), j < i PROVE s[j] <= k
    <3>1. i \in 1 .. Len(s) /\ s[i] <= k
      BY <1>1
    <3>2. s[j] <= s[i]
      BY <1>1, <2>1, <3>1 DEF Ascending
    <3> QED BY <1>1, <3>1, <3>2
  <2> QED BY <1>1, <2>1
<1>3. Cardinality(C) \in 0 .. Len(s) /\ C = 1 .. Cardinality(C)
  <2>1. PICK D : D = C
    OBVIOUS
  <2>2. D \subseteq 1 .. Len(s) /\ \A i \in D, j \in 1 .. Len(s) : j < i => j \in D
    BY <1>1, <1>2, <2>1
  <2>3. Cardinality(D) \in 0 .. Len(s) /\ D = 1 .. Cardinality(D)
    <3>1. PICK L \in Nat : L = Len(s)
      BY <1>1
    <3> QED BY <2>2, <3>1, DownwardClosed
  <2> HIDE DEF C
  <2> QED BY <2>1, <2>3
<1>4. FindChild(n, k) = Cardinality(C)
  BY DEF FindChild
<1>5. \A i \in 1 .. Len(s) : s[i] <= k <=> i \in C
  BY <1>1
<1> HIDE DEF C
<1>6. \A i \in 1 .. Len(s) : i \in 1 .. Cardinality(C) <=> i <= Cardinality(C)
  BY <1>1, <1>3
<1> QED BY <1>3, <1>4, <1>5, <1>6

LEMMA FindKeyPositionIs ==
  ASSUME NEW n, n.keys \in Seq(Nat), Ascending(n.keys), NEW k \in Int
  PROVE  /\ FindKeyPosition(n, k) \in 0 .. Len(n.keys)
         /\ \A i \in 1 .. Len(n.keys) : n.keys[i] < k <=> i <= FindKeyPosition(n, k)
<1> DEFINE s == n.keys
           C == {i \in DOMAIN s : s[i] < k}
<1>1. Len(s) \in Nat /\ DOMAIN s = 1 .. Len(s) /\ \A i \in 1 .. Len(s) : s[i] \in Nat
  BY LenProperties, ElementOfSeq
<1>2. \A i \in C, j \in 1 .. Len(s) : j < i => j \in C
  <2>1. ASSUME NEW i \in C, NEW j \in 1 .. Len(s), j < i PROVE s[j] < k
    <3>1. i \in 1 .. Len(s) /\ s[i] < k
      BY <1>1
    <3>2. s[j] <= s[i]
      BY <1>1, <2>1, <3>1 DEF Ascending
    <3> QED BY <1>1, <3>1, <3>2
  <2> QED BY <1>1, <2>1
<1>3. Cardinality(C) \in 0 .. Len(s) /\ C = 1 .. Cardinality(C)
  <2>1. PICK D : D = C
    OBVIOUS
  <2>2. D \subseteq 1 .. Len(s) /\ \A i \in D, j \in 1 .. Len(s) : j < i => j \in D
    BY <1>1, <1>2, <2>1
  <2>3. Cardinality(D) \in 0 .. Len(s) /\ D = 1 .. Cardinality(D)
    <3>1. PICK L \in Nat : L = Len(s)
      BY <1>1
    <3> QED BY <2>2, <3>1, DownwardClosed
  <2> HIDE DEF C
  <2> QED BY <2>1, <2>3
<1>4. FindKeyPosition(n, k) = Cardinality(C)
  BY DEF FindKeyPosition
<1>5. \A i \in 1 .. Len(s) : s[i] < k <=> i \in C
  BY <1>1
<1> HIDE DEF C
<1>6. \A i \in 1 .. Len(s) : i \in 1 .. Cardinality(C) <=> i <= Cardinality(C)
  BY <1>1, <1>3
<1> QED BY <1>3, <1>4, <1>5, <1>6

\* A key put where a binary search says keeps a node sorted.
LEMMA InsertSorted ==
  ASSUME NEW s \in Seq(Nat), Ascending(s), NEW k \in Nat, NEW m \in 0 .. Len(s),
         \A i \in 1 .. Len(s) : (i <= m => s[i] <= k) /\ (i > m => k <= s[i])
  PROVE  Ascending(InsertAt(s, m + 1, k))
<1>1. Len(s) \in Nat /\ DOMAIN s = 1 .. Len(s) /\ \A i \in 1 .. Len(s) : s[i] \in Nat
  BY LenProperties, ElementOfSeq
<1>2. m + 1 \in 1 .. Len(s) + 1
  BY <1>1
<1> DEFINE t == InsertAt(s, m + 1, k)
<1>3. /\ t \in Seq(Nat) /\ Len(t) = Len(s) + 1
      /\ \A i \in 1 .. Len(s) + 1 : t[i] = IF i < m + 1 THEN s[i] ELSE IF i = m + 1 THEN k ELSE s[i - 1]
  <2>1. PICK p \in 1 .. Len(s) + 1 : p = m + 1
    BY <1>2
  <2>2. /\ InsertAt(s, p, k) \in Seq(Nat) /\ Len(InsertAt(s, p, k)) = Len(s) + 1
        /\ \A i \in 1 .. Len(s) + 1 :
             InsertAt(s, p, k)[i] = IF i < p THEN s[i] ELSE IF i = p THEN k ELSE s[i - 1]
    BY Inserted
  <2> QED BY <2>1, <2>2
<1>4. DOMAIN t = 1 .. Len(s) + 1
  BY <1>3, LenProperties
<1> HIDE DEF t
<1>5. ASSUME NEW i \in 1 .. Len(s) + 1, NEW j \in 1 .. Len(s) + 1, i < j PROVE t[i] <= t[j]
  <2>a. \A x, y \in 1 .. Len(s) : x < y => s[x] <= s[y]
    BY <1>1 DEF Ascending
  <2>1. CASE j < m + 1
    <3>1. i \in 1 .. Len(s) /\ j \in 1 .. Len(s) /\ t[i] = s[i] /\ t[j] = s[j]
      BY <1>1, <1>3, <1>5, <2>1
    <3> QED BY <1>5, <2>a, <3>1
  <2>2. CASE j = m + 1
    <3>1. i \in 1 .. Len(s) /\ i <= m /\ t[i] = s[i] /\ t[j] = k
      BY <1>1, <1>3, <1>5, <2>2
    <3> QED BY <3>1
  <2>3. CASE j > m + 1
    <3>1. j - 1 \in 1 .. Len(s) /\ j - 1 > m /\ t[j] = s[j - 1]
      BY <1>1, <1>3, <2>3
    <3>2. CASE i < m + 1
      <4>1. i \in 1 .. Len(s) /\ i < j - 1 /\ t[i] = s[i]
        BY <1>1, <1>3, <2>3, <3>2
      <4> QED BY <2>a, <3>1, <4>1
    <3>3. CASE i = m + 1
      <4>1. t[i] = k
        BY <1>3, <3>3
      <4> QED BY <3>1, <4>1
    <3>4. CASE i > m + 1
      <4>1. i - 1 \in 1 .. Len(s) /\ i - 1 < j - 1 /\ t[i] = s[i - 1]
        BY <1>1, <1>3, <1>5, <3>4
      <4> QED BY <2>a, <3>1, <4>1
    <3> QED BY <1>1, <3>2, <3>3, <3>4
  <2> QED BY <1>1, <2>1, <2>2, <2>3
<1> QED BY <1>4, <1>5 DEF Ascending, t

LEMMA PieceSorted ==
  ASSUME NEW s \in Seq(Nat), Ascending(s), NEW m \in 1 .. Len(s) + 1, NEW n \in m - 1 .. Len(s)
  PROVE  Ascending(SubSeq(s, m, n))
<1>1. Len(s) \in Nat /\ DOMAIN s = 1 .. Len(s)
  BY LenProperties
<1> DEFINE t == SubSeq(s, m, n)
<1>2. /\ t \in Seq(Nat) /\ Len(t) = n - m + 1
      /\ \A i \in 1 .. n - m + 1 : t[i] = s[m + i - 1]
  BY Piece
<1>3. DOMAIN t = 1 .. n - m + 1
  BY <1>2, LenProperties
<1> HIDE DEF t
<1>4. ASSUME NEW i \in 1 .. n - m + 1, NEW j \in 1 .. n - m + 1, i < j PROVE t[i] <= t[j]
  <2>1. m + i - 1 \in 1 .. Len(s) /\ m + j - 1 \in 1 .. Len(s) /\ m + i - 1 < m + j - 1
    BY <1>1, <1>4
  <2>2. s[m + i - 1] <= s[m + j - 1]
    BY <1>1, <2>1 DEF Ascending
  <2> QED BY <1>2, <2>2
<1> QED BY <1>3, <1>4 DEF Ascending, t

LEMMA RemoveSorted ==
  ASSUME NEW s \in Seq(Nat), Ascending(s), NEW k \in 1 .. Len(s)
  PROVE  Ascending(RemoveAt(s, k))
<1>1. Len(s) \in Nat /\ DOMAIN s = 1 .. Len(s)
  BY LenProperties
<1> DEFINE t == RemoveAt(s, k)
<1>2. /\ t \in Seq(Nat) /\ Len(t) = Len(s) - 1
      /\ \A i \in 1 .. Len(s) - 1 : t[i] = IF i < k THEN s[i] ELSE s[i + 1]
  BY Removed
<1>3. DOMAIN t = 1 .. Len(s) - 1
  BY <1>2, LenProperties
<1> HIDE DEF t
<1>4. ASSUME NEW i \in 1 .. Len(s) - 1, NEW j \in 1 .. Len(s) - 1, i < j PROVE t[i] <= t[j]
  <2>1. i \in 1 .. Len(s) /\ j \in 1 .. Len(s) /\ i + 1 \in 1 .. Len(s) /\ j + 1 \in 1 .. Len(s)
    BY <1>1
  <2>2. \A x, y \in 1 .. Len(s) : x < y => s[x] <= s[y]
    BY <1>1 DEF Ascending
  <2>3. CASE i < k /\ j < k
    <3>1. t[i] = s[i] /\ t[j] = s[j]
      BY <1>2, <2>3
    <3> QED BY <1>4, <2>1, <2>2, <3>1
  <2>4. CASE i < k /\ ~(j < k)
    <3>1. t[i] = s[i] /\ t[j] = s[j + 1] /\ i < j + 1
      BY <1>2, <1>4, <2>4
    <3> QED BY <2>1, <2>2, <3>1
  <2>5. CASE ~(i < k)
    <3>1. ~(j < k) /\ i + 1 < j + 1
      BY <1>1, <1>4, <2>5
    <3>2. t[i] = s[i + 1] /\ t[j] = s[j + 1]
      BY <1>2, <2>5, <3>1
    <3> QED BY <2>1, <2>2, <3>1, <3>2
  <2> QED BY <2>3, <2>4, <2>5
<1> QED BY <1>3, <1>4 DEF Ascending, t

-----------------------------------------------------------------------------
(* Recursive functions. *)

\* The parts of a sequence of sequences, joined up to the i-th.
Joins(S, L, s, f) ==
  /\ f \in [1 .. L -> Seq(S)] /\ f[1] = s[1]
  /\ \A i \in 1 .. L : i > 1 => f[i] = f[i - 1] \o s[i]

LEMMA JoinExists ==
  ASSUME NEW S, NEW L \in Nat, L >= 1, NEW s \in [1 .. L -> Seq(S)]
  PROVE  \E f : Joins(S, L, s, f)
<1> DEFINE T == Seq(S)
           step == [n \in 1 .. L - 1 |-> [x \in T |-> x \o s[n + 1]]]
<1>1. Passes(L - 1, T, step)
  <2>1. ASSUME NEW n \in 1 .. L - 1, NEW x \in T PROVE x \o s[n + 1] \in T
    <3>1. s[n + 1] \in Seq(S)
      OBVIOUS
    <3> QED BY <3>1, ConcatProperties
  <2> QED BY <2>1 DEF Passes
<1>2. s[1] \in T /\ L - 1 \in Nat
  OBVIOUS
<1>3. PICK g : RunOf(L - 1, T, s[1], step, g)
  <2> HIDE DEF step, T
  <2>1. PICK K \in Nat : K = L - 1
    BY <1>2
  <2> QED BY <1>1, <1>2, <2>1, LoopRuns
<1> DEFINE f == [i \in 1 .. L |-> g[i - 1]]
<1>4. /\ g \in [0 .. L - 1 -> T] /\ g[0] = s[1]
      /\ \A n \in 1 .. L - 1 : g[n] = step[n][g[n - 1]]
  BY <1>3 DEF RunOf
<1>5. f \in [1 .. L -> T]
  <2>1. \A i \in 1 .. L : i - 1 \in 0 .. L - 1
    OBVIOUS
  <2> HIDE DEF T
  <2> QED BY <1>4, <2>1
<1>6. f[1] = s[1]
  BY <1>4
<1>7. ASSUME NEW i \in 1 .. L, i > 1 PROVE f[i] = f[i - 1] \o s[i]
  <2>1. i - 1 \in 1 .. L - 1 /\ (i - 1) - 1 \in 0 .. L - 1 /\ (i - 1) + 1 = i /\ i - 1 \in 1 .. L
    BY <1>7
  <2>2. PICK n \in 1 .. L - 1 : n = i - 1
    BY <2>1
  <2>3. g[n] = step[n][g[n - 1]] /\ g[n - 1] \in T
    BY <1>4, <2>1, <2>2
  <2>4. step[n][g[n - 1]] = g[n - 1] \o s[n + 1]
    BY <2>3
  <2>5. f[i] = g[n] /\ f[i - 1] = g[n - 1] /\ s[n + 1] = s[i]
    BY <2>1, <2>2
  <2> QED BY <2>3, <2>4, <2>5
<1> HIDE DEF f
<1> QED BY <1>5, <1>6, <1>7 DEF Joins

LEMMA Flattened ==
  ASSUME NEW S, NEW L \in Nat, L >= 1, NEW s \in [1 .. L -> Seq(S)]
  PROVE  \E f : Joins(S, L, s, f) /\ FlattenSeq(s) = f[L]
<1> DEFINE F(f) == [i \in 1 .. L |-> IF i = 1 THEN s[i] ELSE f[i - 1] \o s[i]]
           c == CHOOSE f : f = F(f)
<1>1. Len(s) = L
  BY SequenceOf
<1>2. FlattenSeq(s) = c[L]
  BY <1>1 DEF FlattenSeq
<1>3. PICK e : Joins(S, L, s, e)
  BY JoinExists
<1>4. e = F(e)
  <2>1. \A i \in 1 .. L : e[i] = IF i = 1 THEN s[i] ELSE e[i - 1] \o s[i]
    BY <1>3, SMTT(30) DEF Joins
  <2>2. e = [i \in 1 .. L |-> e[i]]
    BY <1>3 DEF Joins
  <2> QED BY <2>1, <2>2
<1>5. c = F(c)
  <2> HIDE DEF F
  <2> QED BY <1>4
<1>6. /\ c = [i \in 1 .. L |-> c[i]]
      /\ \A i \in 1 .. L : c[i] = IF i = 1 THEN s[i] ELSE c[i - 1] \o s[i]
  <2> HIDE DEF c
  <2> QED BY <1>5
<1> HIDE DEF c, F
<1> DEFINE U == {i \in 1 .. L : c[i] \notin Seq(S)}
<1>7. U = {}
  <2> SUFFICES ASSUME U # {} PROVE FALSE
    OBVIOUS
  <2>1. U \subseteq Nat
    OBVIOUS
  <2>2. PICK m \in U : \A k \in U : m <= k
    <3> HIDE DEF U
    <3> QED BY <2>1, LeastNatural
  <2>3. m \in 1 .. L /\ c[m] \notin Seq(S)
    BY <2>2
  <2>4. s[m] \in Seq(S)
    BY <2>3
  <2>5. m # 1
    BY <1>6, <2>3, <2>4
  <2>6. m - 1 \in 1 .. L /\ ~(m <= m - 1)
    BY <2>3, <2>5
  <2>7. c[m - 1] \in Seq(S)
    BY <2>2, <2>6
  <2>8. c[m] = c[m - 1] \o s[m]
    BY <1>6, <2>3, <2>5
  <2>9. c[m] \in Seq(S)
    BY <2>4, <2>7, <2>8, ConcatProperties
  <2> QED BY <2>3, <2>9
<1>8. c \in [1 .. L -> Seq(S)]
  BY <1>6, <1>7
<1>9. Joins(S, L, s, c)
  BY <1>6, <1>8, SMTT(30) DEF Joins
<1> QED BY <1>2, <1>9

-----------------------------------------------------------------------------
(* Nodes. *)

Pointers == Nat \cup {INVALID_PAGE_ID}

Nodes == [leaf : BOOLEAN, parent : Pointers, next : Pointers, keys : Seq(Keys),
          vals : Seq(RIDs) \cup Seq(Nat)]

\* A node at height h, where ht gives the height of every page: a leaf is at 0, the
\* children of a node are one below it and its parent is one above.
NodeFits(n, h, ht) ==
  /\ n \in Nodes /\ Ascending(n.keys)
  /\ n.parent # INVALID_PAGE_ID => n.parent \in 1 .. Len(ht) /\ ht[n.parent] = h + 1
  /\ n.next # INVALID_PAGE_ID => n.next \in 1 .. Len(ht)
  /\ n.leaf => /\ h = 0 /\ n.vals \in Seq(RIDs)
               /\ Len(n.vals) = Len(n.keys) /\ Len(n.keys) <= LeafMax
  /\ ~n.leaf => /\ h > 0 /\ n.vals \in Seq(Nat) /\ n.next = INVALID_PAGE_ID
                /\ Len(n.vals) = Len(n.keys) + 1 /\ Len(n.keys) \in 1 .. InternalMax
                /\ \A i \in 1 .. Len(n.vals) :
                     n.vals[i] \in 1 .. Len(ht) /\ ht[n.vals[i]] = h - 1

SplitFits(s, ht) ==
  s # NoSplit => /\ s \in [left : 1 .. Len(ht), key : Keys, right : 1 .. Len(ht)]
                 /\ ht[s.left] = ht[s.right]

RootFits(r, ht) == IF Len(ht) = 0 THEN r = INVALID_PAGE_ID ELSE r \in 1 .. Len(ht)

Shape(nodes, r, s, ht) ==
  /\ ht \in Seq(Nat) /\ nodes \in Seq(Nodes) /\ Len(nodes) = Len(ht)
  /\ \A p \in 1 .. Len(ht) : ht[p] < Len(ht) /\ NodeFits(nodes[p], ht[p], ht)
  /\ RootFits(r, ht) /\ SplitFits(s, ht)

LEMMA KeysAreNumbers ==
  ASSUME NEW s \in Seq(Keys)
  PROVE  s \in Seq(Nat) /\ \A i \in 1 .. Len(s) : s[i] \in Nat
<1>1. \A i \in 1 .. Len(s) : s[i] \in Nat
  BY ElementOfSeq, KeyAssumption
<1>2. Len(s) \in Nat /\ s = [i \in 1 .. Len(s) |-> s[i]]
  BY LenProperties
<1>3. s \in [1 .. Len(s) -> Nat]
  BY <1>1, <1>2
<1> QED BY <1>1, <1>2, <1>3, SequenceOf

\* More pages change nothing for a node.
LEMMA FitsInMore ==
  ASSUME NEW ht \in Seq(Nat), NEW n, NEW h \in Nat, NodeFits(n, h, ht), NEW g \in Nat
  PROVE  NodeFits(n, h, Append(ht, g))
<1> DEFINE ht2 == Append(ht, g)
<1>1. Len(ht) \in Nat /\ Len(ht2) = Len(ht) + 1 /\ \A p \in 1 .. Len(ht) : p \in 1 .. Len(ht2) /\ ht2[p] = ht[p]
  <2>1. Len(ht) \in Nat
    BY LenProperties
  <2> QED BY <2>1, AppendedSeq
<1>2. n.parent # INVALID_PAGE_ID => n.parent \in 1 .. Len(ht2) /\ ht2[n.parent] = h + 1
  BY <1>1 DEF NodeFits
<1>3. n.next # INVALID_PAGE_ID => n.next \in 1 .. Len(ht2)
  BY <1>1 DEF NodeFits
<1>4. ASSUME ~n.leaf, NEW i \in 1 .. Len(n.vals)
      PROVE  n.vals[i] \in 1 .. Len(ht2) /\ ht2[n.vals[i]] = h - 1
  BY <1>1, <1>4 DEF NodeFits
<1> HIDE DEF ht2
<1> QED BY <1>2, <1>3, <1>4 DEF NodeFits

LEMMA ShapeGrows ==
  ASSUME NEW nodes, NEW r, NEW s, NEW ht, Shape(nodes, r, s, ht),
         NEW h \in 0 .. Len(ht),
         NEW nodes2 \in Seq(Nodes), Len(nodes2) = Len(ht) + 1,
         \A p \in 1 .. Len(ht) : NodeFits(nodes2[p], ht[p], Append(ht, h)),
         NodeFits(nodes2[Len(ht) + 1], h, Append(ht, h)),
         NEW r2 \in 1 .. Len(ht) + 1,
         NEW s2, SplitFits(s2, Append(ht, h))
  PROVE  Shape(nodes2, r2, s2, Append(ht, h))
<1> DEFINE ht2 == Append(ht, h)
           L == Len(ht)
<1>1. ht \in Seq(Nat) /\ L \in Nat /\ h \in Nat
  BY LenProperties DEF Shape
<1>2. /\ ht2 \in Seq(Nat) /\ Len(ht2) = L + 1
      /\ \A p \in 1 .. L + 1 : ht2[p] = IF p <= L THEN ht[p] ELSE h
  BY <1>1, AppendedSeq
<1>3. \A p \in 1 .. L : ht[p] < L
  BY DEF Shape
<1> HIDE DEF ht2, L
<1>4. ASSUME NEW p \in 1 .. L + 1
      PROVE  ht2[p] < L + 1 /\ NodeFits(nodes2[p], ht2[p], ht2)
  <2>1. CASE p \in 1 .. L
    <3>1. ht2[p] = ht[p] /\ ht[p] < L /\ ht[p] \in Nat
      <4>1. ht[p] \in Nat
        BY <1>1, <2>1, ElementOfSeq DEF L
      <4> QED BY <1>1, <1>2, <1>3, <2>1, <4>1
    <3>2. NodeFits(nodes2[p], ht[p], ht2)
      BY <2>1 DEF ht2, L
    <3> QED BY <3>1, <3>2, <1>1
  <2>2. CASE p = L + 1
    <3>1. ht2[p] = h /\ h < L + 1
      BY <1>1, <1>2, <2>2 DEF L
    <3>2. NodeFits(nodes2[p], h, ht2)
      BY <2>2 DEF ht2, L
    <3> QED BY <3>1, <3>2
  <2> QED BY <1>1, <2>1, <2>2
<1>5. RootFits(r2, ht2)
  BY <1>1, <1>2 DEF RootFits, L
<1>6. SplitFits(s2, ht2) /\ nodes2 \in Seq(Nodes) /\ Len(nodes2) = Len(ht2)
  BY <1>2 DEF ht2, L
<1> QED BY <1>2, <1>4, <1>5, <1>6 DEF Shape, ht2

-----------------------------------------------------------------------------
(* Parts of nodes. *)

LEMMA EntryAddedIs ==
  ASSUME NEW n \in Nodes, n.leaf, n.vals \in Seq(RIDs), Len(n.vals) = Len(n.keys),
         Ascending(n.keys), NEW key \in Keys, NEW rid \in RIDs
  PROVE  LET e == EntryAdded(n, key, rid)
             pos == FindKeyPosition(n, key)
         IN  /\ e \in Nodes /\ e.leaf /\ e.parent = n.parent /\ e.next = n.next
             /\ pos \in 0 .. Len(n.keys)
             /\ e.keys = InsertAt(n.keys, pos + 1, key) /\ e.vals = InsertAt(n.vals, pos + 1, rid)
             /\ e.keys \in Seq(Keys) /\ e.vals \in Seq(RIDs)
             /\ Len(e.keys) = Len(n.keys) + 1 /\ Len(e.vals) = Len(n.keys) + 1
             /\ Ascending(e.keys)
<1> DEFINE e == EntryAdded(n, key, rid)
           pos == FindKeyPosition(n, key)
           ks == InsertAt(n.keys, pos + 1, key)
           vs == InsertAt(n.vals, pos + 1, rid)
<1>1. n.keys \in Seq(Keys) /\ n.keys \in Seq(Nat) /\ Len(n.keys) \in Nat /\ key \in Nat
  <2>1. n.keys \in Seq(Keys)
    BY DEF Nodes
  <2> QED BY <2>1, KeysAreNumbers, LenProperties, KeyAssumption
<1>2. /\ pos \in 0 .. Len(n.keys)
      /\ \A i \in 1 .. Len(n.keys) : n.keys[i] < key <=> i <= pos
  BY <1>1, FindKeyPositionIs
<1>3. pos + 1 \in 1 .. Len(n.keys) + 1
  BY <1>1, <1>2
<1>4. ks \in Seq(Keys) /\ Len(ks) = Len(n.keys) + 1
  BY <1>1, <1>3, Inserted
<1>5. vs \in Seq(RIDs) /\ Len(vs) = Len(n.keys) + 1
  BY <1>3, Inserted
<1>6. Ascending(ks)
  <2>1. \A i \in 1 .. Len(n.keys) : n.keys[i] \in Nat
    BY <1>1, KeysAreNumbers
  <2>2. \A i \in 1 .. Len(n.keys) : (i <= pos => n.keys[i] <= key) /\ (i > pos => key <= n.keys[i])
    BY <1>1, <1>2, <2>1
  <2> HIDE DEF pos
  <2> QED BY <1>1, <1>2, <2>2, InsertSorted
<1>7. e = [n EXCEPT !.keys = ks, !.vals = vs]
  BY DEF EntryAdded
<1> HIDE DEF ks, vs, pos
<1>8. e \in Nodes /\ e.leaf /\ e.parent = n.parent /\ e.next = n.next /\ e.keys = ks /\ e.vals = vs
  BY <1>4, <1>5, <1>7 DEF Nodes
<1> QED BY <1>2, <1>4, <1>5, <1>6, <1>8 DEF ks, vs, pos

LEMMA LeftHalfIs ==
  ASSUME NEW n \in Nodes, n.vals \in Seq(RIDs), Len(n.vals) = Len(n.keys), Ascending(n.keys),
         NEW pos \in 0 .. Len(n.keys), NEW q \in Nat
  PROVE  LET e == [LeftHalf(n, pos) EXCEPT !.next = q]
         IN  /\ e \in Nodes /\ e.leaf = n.leaf /\ e.parent = n.parent /\ e.next = q
             /\ e.keys = SubSeq(n.keys, 1, pos) /\ e.vals = SubSeq(n.vals, 1, pos)
             /\ e.vals \in Seq(RIDs) /\ Len(e.keys) = pos /\ Len(e.vals) = pos
             /\ Ascending(e.keys)
<1> DEFINE e == [LeftHalf(n, pos) EXCEPT !.next = q]
           ks == SubSeq(n.keys, 1, pos)
           vs == SubSeq(n.vals, 1, pos)
<1>1. n.keys \in Seq(Keys) /\ n.keys \in Seq(Nat) /\ Len(n.keys) \in Nat
  <2>1. n.keys \in Seq(Keys)
    BY DEF Nodes
  <2> QED BY <2>1, KeysAreNumbers, LenProperties
<1>2. 1 \in 1 .. Len(n.keys) + 1 /\ pos \in 1 - 1 .. Len(n.keys) /\ pos - 1 + 1 = pos
  BY <1>1
<1>3. ks \in Seq(Keys) /\ Len(ks) = pos
  BY <1>1, <1>2, Piece
<1>4. vs \in Seq(RIDs) /\ Len(vs) = pos
  BY <1>2, Piece
<1>5. Ascending(ks)
  BY <1>1, <1>2, PieceSorted
<1>6. e = [n EXCEPT !.keys = ks, !.vals = vs, !.next = q]
  <2>1. LeftHalf(n, pos) = [n EXCEPT !.keys = ks, !.vals = vs]
    BY DEF LeftHalf
  <2> HIDE DEF ks, vs
  <2> QED BY <2>1 DEF Nodes
<1> HIDE DEF ks, vs
<1>7. e \in Nodes /\ e.leaf = n.leaf /\ e.parent = n.parent /\ e.next = q /\ e.keys = ks /\ e.vals = vs
  BY <1>3, <1>4, <1>6 DEF Nodes, Pointers
<1> QED BY <1>3, <1>4, <1>5, <1>7 DEF ks, vs

-----------------------------------------------------------------------------
(* FindLeafPage. *)

\* The node under p where the search for a key goes on.
Towards(p, k) == IF node[p].leaf THEN p ELSE node[p].vals[FindChild(node[p], k) + 1]

\* The nodes on the way from the root.
Path(k, f) ==
  /\ f \in [0 .. Len(node) -> PageIds] /\ f[0] = root_page_id
  /\ \A d \in 1 .. Len(node) : f[d] = Towards(f[d - 1], k)

LEMMA NodeFacts ==
  ASSUME NEW ht, Shape(node, root_page_id, split, ht), NEW p \in PageIds
  PROVE  /\ PageIds = 1 .. Len(ht) /\ Len(ht) \in Nat /\ p \in 1 .. Len(ht)
         /\ ht[p] \in Nat /\ ht[p] < Len(ht)
         /\ node[p] \in Nodes /\ NodeFits(node[p], ht[p], ht)
         /\ node[p].keys \in Seq(Keys) /\ node[p].keys \in Seq(Nat) /\ Len(node[p].keys) \in Nat
         /\ \A i \in 1 .. Len(node[p].keys) : node[p].keys[i] \in Nat
         /\ Ascending(node[p].keys)
<1>1. PageIds = 1 .. Len(ht) /\ Len(ht) \in Nat
  <2>1. node \in Seq(Nodes) /\ Len(node) = Len(ht)
    BY DEF Shape
  <2> QED BY <2>1, LenProperties DEF PageIds
<1>2. p \in 1 .. Len(ht)
  BY <1>1
<1>3. ht[p] \in Nat
  BY <1>2, ElementOfSeq DEF Shape
<1>4. ht[p] < Len(ht) /\ NodeFits(node[p], ht[p], ht)
  BY <1>2 DEF Shape
<1>5. node[p] \in Nodes /\ Ascending(node[p].keys)
  BY <1>4 DEF NodeFits
<1>6. node[p].keys \in Seq(Keys)
  BY <1>5 DEF Nodes
<1>7. node[p].keys \in Seq(Nat) /\ Len(node[p].keys) \in Nat
  BY <1>6, KeysAreNumbers, LenProperties
<1>8. \A i \in 1 .. Len(node[p].keys) : node[p].keys[i] \in Nat
  BY <1>6, KeysAreNumbers
<1> QED BY <1>1, <1>2, <1>3, <1>4, <1>5, <1>6, <1>7, <1>8

LEMMA TowardsIs ==
  ASSUME NEW ht, Shape(node, root_page_id, split, ht), NEW p \in PageIds, NEW k \in Int
  PROVE  /\ Towards(p, k) \in PageIds
         /\ ht[Towards(p, k)] = IF node[p].leaf THEN 0 ELSE ht[p] - 1
         /\ ~node[p].leaf => FindChild(node[p], k) + 1 \in 1 .. Len(node[p].vals)
<1>1. CASE node[p].leaf
  BY <1>1, NodeFacts DEF Towards, NodeFits
<1>2. CASE ~node[p].leaf
  <2> DEFINE i == FindChild(node[p], k) + 1
  <2>1. PICK m \in 0 .. Len(node[p].keys) : m = FindChild(node[p], k)
    <3>1. node[p].keys \in Seq(Nat) /\ Ascending(node[p].keys)
      BY NodeFacts
    <3> QED BY <3>1, FindChildIs
  <2>2. Len(node[p].vals) = Len(node[p].keys) + 1
        /\ \A j \in 1 .. Len(node[p].vals) :
             node[p].vals[j] \in 1 .. Len(ht) /\ ht[node[p].vals[j]] = ht[p] - 1
    BY <1>2, NodeFacts DEF NodeFits
  <2>3. i \in 1 .. Len(node[p].vals)
    <3>1. Len(node[p].keys) \in Nat
      BY NodeFacts
    <3> QED BY <2>1, <2>2, <3>1
  <2>4. Towards(p, k) = node[p].vals[i]
    BY <1>2 DEF Towards
  <2>5. PageIds = 1 .. Len(ht)
    BY NodeFacts
  <2> HIDE DEF i
  <2>6. Towards(p, k) \in PageIds /\ ht[Towards(p, k)] = ht[p] - 1
    BY <2>2, <2>3, <2>4, <2>5
  <2> QED BY <1>2, <2>3, <2>6 DEF i
<1> QED BY <1>1, <1>2

LEMMA PathIs ==
  ASSUME NEW ht, Shape(node, root_page_id, split, ht), root_page_id # INVALID_PAGE_ID, NEW k \in Int
  PROVE  /\ root_page_id \in PageIds /\ Len(node) = Len(ht) /\ Len(ht) \in Nat
         /\ \E f : Path(k, f) /\ FindLeafPage(k) = f[Len(node)]
<1> DEFINE L == Len(node)
           G(f) == [d \in 0 .. L |-> IF d = 0 THEN root_page_id ELSE Towards(f[d - 1], k)]
           c == CHOOSE f : f = G(f)
           step == [n \in 1 .. L |-> [p \in PageIds |-> Towards(p, k)]]
<1>1. node \in Seq(Nodes) /\ L \in Nat /\ L = Len(ht) /\ PageIds = 1 .. L
  <2>1. node \in Seq(Nodes)
    BY DEF Shape
  <2> QED BY <2>1, LenProperties DEF Shape, PageIds
<1>2. root_page_id \in PageIds
  BY <1>1 DEF Shape, RootFits
<1>3. FindLeafPage(k) = c[L]
  BY DEF FindLeafPage, Towards
<1>4. \A p \in PageIds : Towards(p, k) \in PageIds
  BY TowardsIs
<1>5. Passes(L, PageIds, step)
  <2>1. [p \in PageIds |-> Towards(p, k)] \in [PageIds -> PageIds]
    BY <1>4
  <2> QED BY <2>1 DEF Passes
<1>6. PICK e : RunOf(L, PageIds, root_page_id, step, e)
  <2> HIDE DEF step, L
  <2> QED BY <1>1, <1>2, <1>5, LoopRuns
<1>7. \A n \in 0 .. L : n # 0 => n \in 1 .. L /\ n - 1 \in 0 .. L
  BY <1>1
<1>8. e = G(e)
  <2>1. e \in [0 .. L -> PageIds] /\ e[0] = root_page_id
    BY <1>6 DEF RunOf
  <2>2. ASSUME NEW n \in 1 .. L PROVE e[n] = Towards(e[n - 1], k)
    <3>1. e[n] = step[n][e[n - 1]]
      BY <1>6 DEF RunOf
    <3>2. e[n - 1] \in PageIds
      BY <1>1, <2>1
    <3> QED BY <3>1, <3>2
  <2>3. \A n \in 0 .. L : e[n] = IF n = 0 THEN root_page_id ELSE Towards(e[n - 1], k)
    BY <1>7, <2>1, <2>2
  <2>4. e = [n \in 0 .. L |-> e[n]]
    BY <2>1
  <2> QED BY <2>3, <2>4
<1>9. c = G(c)
  <2> HIDE DEF G
  <2> QED BY <1>8
<1>10. /\ c = [n \in 0 .. L |-> c[n]]
       /\ \A n \in 0 .. L : c[n] = IF n = 0 THEN root_page_id ELSE Towards(c[n - 1], k)
  <2> HIDE DEF c
  <2> QED BY <1>9
<1> HIDE DEF c, G
<1> DEFINE U == {n \in 0 .. L : c[n] \notin PageIds}
<1>11. U = {}
  <2> SUFFICES ASSUME U # {} PROVE FALSE
    OBVIOUS
  <2>1. U \subseteq Nat
    OBVIOUS
  <2>2. PICK m \in U : \A j \in U : m <= j
    <3> HIDE DEF U
    <3> QED BY <2>1, LeastNatural
  <2>3. m \in 0 .. L /\ c[m] \notin PageIds
    BY <2>2
  <2>4. m # 0
    BY <1>2, <1>10, <2>3
  <2>5. m - 1 \in 0 .. L /\ ~(m <= m - 1)
    BY <2>3, <2>4, <1>1
  <2>6. c[m - 1] \in PageIds
    BY <2>2, <2>5
  <2>7. c[m] = Towards(c[m - 1], k)
    BY <1>10, <2>3, <2>4
  <2> QED BY <1>4, <2>3, <2>6, <2>7
<1>12. c \in [0 .. L -> PageIds]
  BY <1>10, <1>11
<1>13. c[0] = root_page_id /\ \A d \in 1 .. L : c[d] = Towards(c[d - 1], k)
  BY <1>1, <1>10
<1>14. Path(k, c)
  BY <1>12, <1>13 DEF Path
<1> QED BY <1>1, <1>2, <1>3, <1>14

LEMMA FoundLeaf ==
  ASSUME NEW ht, Shape(node, root_page_id, split, ht), root_page_id # INVALID_PAGE_ID, NEW k \in Int
  PROVE  FindLeafPage(k) \in PageIds /\ node[FindLeafPage(k)].leaf
<1> DEFINE L == Len(node)
<1>1. PICK f : Path(k, f) /\ FindLeafPage(k) = f[L]
  BY PathIs
<1>2. L = Len(ht) /\ L \in Nat /\ root_page_id \in PageIds
  BY PathIs
<1>3. f \in [0 .. L -> PageIds] /\ f[0] = root_page_id /\ \A d \in 1 .. L : f[d] = Towards(f[d - 1], k)
  BY <1>1 DEF Path
<1>4. ht[root_page_id] \in Nat /\ ht[root_page_id] < L
  BY <1>2, NodeFacts
<1> DEFINE h == ht[root_page_id]
           U == {d \in 0 .. L : ~(ht[f[d]] + d <= h \/ ht[f[d]] = 0)}
<1>5. U = {}
  <2> SUFFICES ASSUME U # {} PROVE FALSE
    OBVIOUS
  <2>1. U \subseteq Nat
    OBVIOUS
  <2>2. PICK m \in U : \A j \in U : m <= j
    <3> HIDE DEF U
    <3> QED BY <2>1, LeastNatural
  <2>3. m \in 0 .. L /\ ~(ht[f[m]] + m <= h \/ ht[f[m]] = 0)
    BY <2>2
  <2>4. m # 0
    BY <1>3, <1>4, <2>3
  <2>5. m - 1 \in 0 .. L /\ ~(m <= m - 1) /\ m \in 1 .. L
    BY <1>2, <2>3, <2>4
  <2>6. ht[f[m - 1]] + (m - 1) <= h \/ ht[f[m - 1]] = 0
    BY <2>2, <2>5
  <2> DEFINE p == f[m - 1]
  <2>7. p \in PageIds /\ f[m] = Towards(p, k)
    BY <1>3, <2>5
  <2>8. ht[f[m]] = IF node[p].leaf THEN 0 ELSE ht[p] - 1
    <3> HIDE DEF p
    <3> QED BY <2>7, TowardsIs
  <2>9. ht[p] \in Nat /\ (~node[p].leaf => ht[p] > 0)
    <3> HIDE DEF p
    <3>1. NodeFits(node[p], ht[p], ht) /\ ht[p] \in Nat
      BY <2>7, NodeFacts
    <3> QED BY <3>1 DEF NodeFits
  <2> HIDE DEF p
  <2>10. ht[p] + (m - 1) <= h \/ ht[p] = 0
    BY <2>6 DEF p
  <2> QED BY <2>3, <2>5, <2>8, <2>9, <2>10, <1>2, <1>4
<1>6. L \in 0 .. L /\ f[L] \in PageIds
  BY <1>2, <1>3
<1>7. ht[f[L]] \in Nat /\ NodeFits(node[f[L]], ht[f[L]], ht)
  BY <1>6, NodeFacts
<1>8. ht[f[L]] + L <= h \/ ht[f[L]] = 0
  BY <1>5, <1>6
<1>9. ht[f[L]] = 0
  BY <1>2, <1>4, <1>7, <1>8
<1>10. node[f[L]].leaf
  <2>1. node[f[L]].leaf \in BOOLEAN
    BY <1>7 DEF NodeFits, Nodes
  <2> QED BY <1>7, <1>9 DEF NodeFits
<1> QED BY <1>1, <1>6, <1>10

-----------------------------------------------------------------------------
(* What the steps do, page by page. *)

LEMMA Updated ==
  ASSUME NEW S, NEW s \in Seq(S), NEW k \in 1 .. Len(s), NEW e \in S
  PROVE  /\ [s EXCEPT ![k] = e] \in Seq(S) /\ Len([s EXCEPT ![k] = e]) = Len(s)
         /\ \A i \in 1 .. Len(s) : [s EXCEPT ![k] = e][i] = IF i = k THEN e ELSE s[i]
<1>1. Len(s) \in Nat /\ s \in [1 .. Len(s) -> S]
  BY LenProperties
<1>2. [s EXCEPT ![k] = e] \in [1 .. Len(s) -> S]
  BY <1>1
<1>3. \A i \in 1 .. Len(s) : [s EXCEPT ![k] = e][i] = IF i = k THEN e ELSE s[i]
  BY <1>1
<1> QED BY <1>1, <1>2, <1>3, SequenceOf

LEMMA ParentsSetIs ==
  ASSUME NEW nodes \in Seq(Nodes), NEW C, NEW p \in Nat
  PROVE  /\ ParentsSet(nodes, C, p) \in Seq(Nodes) /\ Len(ParentsSet(nodes, C, p)) = Len(nodes)
         /\ \A i \in 1 .. Len(nodes) :
              ParentsSet(nodes, C, p)[i] =
                IF i \in C THEN [nodes[i] EXCEPT !.parent = p] ELSE nodes[i]
<1> DEFINE t == ParentsSet(nodes, C, p)
<1>1. Len(nodes) \in Nat /\ DOMAIN nodes = 1 .. Len(nodes) /\ \A i \in 1 .. Len(nodes) : nodes[i] \in Nodes
  BY LenProperties, ElementOfSeq
<1>2. t = [i \in 1 .. Len(nodes) |-> IF i \in C THEN [nodes[i] EXCEPT !.parent = p] ELSE nodes[i]]
  BY <1>1 DEF ParentsSet
<1>3. \A n \in Nodes : [n EXCEPT !.parent = p] \in Nodes
  BY DEF Nodes, Pointers
<1>4. t \in [1 .. Len(nodes) -> Nodes]
  BY <1>1, <1>2, <1>3
<1> HIDE DEF t
<1> QED BY <1>1, <1>2, <1>4, SequenceOf DEF t

LEMMA PagesAre ==
  ASSUME NEW ht, Shape(node, root_page_id, split, ht)
  PROVE  /\ node \in Seq(Nodes) /\ Len(node) \in Nat /\ PageIds = 1 .. Len(node)
         /\ Len(ht) = Len(node) /\ ht \in Seq(Nat)
         /\ INVALID_PAGE_ID \notin PageIds /\ INVALID_PAGE_ID # Len(node) + 1
<1>1. node \in Seq(Nodes) /\ Len(ht) = Len(node) /\ ht \in Seq(Nat)
  BY DEF Shape
<1>2. Len(node) \in Nat /\ PageIds = 1 .. Len(node)
  BY <1>1, LenProperties DEF PageIds
<1> QED BY <1>1, <1>2, InvalidAssumption

\* What a leaf has that takes one more entry.
LEMMA EntryAddedTo ==
  ASSUME NEW ht, Shape(node, root_page_id, split, ht), NEW p \in PageIds, node[p].leaf,
         NEW key \in Keys, NEW rid \in RIDs
  PROVE  LET n == node[p]
             e == EntryAdded(n, key, rid)
             pos == FindKeyPosition(n, key)
         IN  /\ e \in Nodes /\ e.leaf /\ e.parent = n.parent /\ e.next = n.next
             /\ pos \in 0 .. Len(n.keys) /\ Len(n.keys) \in Nat /\ Len(n.keys) <= LeafMax
             /\ e.keys = InsertAt(n.keys, pos + 1, key) /\ e.vals = InsertAt(n.vals, pos + 1, rid)
             /\ e.keys \in Seq(Keys) /\ e.vals \in Seq(RIDs)
             /\ Len(e.keys) = Len(n.keys) + 1 /\ Len(e.vals) = Len(n.keys) + 1
             /\ Ascending(e.keys)
<1>1. node[p] \in Nodes /\ NodeFits(node[p], ht[p], ht) /\ Ascending(node[p].keys)
      /\ Len(node[p].keys) \in Nat
  BY NodeFacts
<1>2. node[p].vals \in Seq(RIDs) /\ Len(node[p].vals) = Len(node[p].keys) /\ Len(node[p].keys) <= LeafMax
  BY <1>1 DEF NodeFits
<1> QED BY <1>1, <1>2, EntryAddedIs

LEMMA InsertFirstDoes ==
  ASSUME NEW ht, Shape(node, root_page_id, split, ht), NEW key \in Keys, NEW rid \in RIDs,
         InsertFirst(key, rid)
  PROVE  /\ Len(node) = 0 /\ PageIds = {} /\ node = <<>>
         /\ node' \in Seq(Nodes) /\ Len(node') = 1 /\ root_page_id' = 1
         /\ node'[1] = Leaf(INVALID_PAGE_ID, INVALID_PAGE_ID, <<key>>, <<rid>>)
<1> DEFINE n == Leaf(INVALID_PAGE_ID, INVALID_PAGE_ID, <<key>>, <<rid>>)
<1>1. node \in Seq(Nodes) /\ Len(node) \in Nat /\ PageIds = 1 .. Len(node) /\ Len(ht) = Len(node)
  BY PagesAre
<1>2. root_page_id = INVALID_PAGE_ID /\ node' = Append(node, n) /\ root_page_id' = Len(node')
  BY DEF InsertFirst
<1>3. Len(node) = 0
  <2>1. RootFits(root_page_id, ht)
    BY DEF Shape
  <2> QED BY <1>1, <1>2, <2>1, InvalidAssumption DEF RootFits
<1>4. n \in Nodes
  BY DEF Nodes, Leaf, Pointers
<1>5. /\ Append(node, n) \in Seq(Nodes) /\ Len(Append(node, n)) = Len(node) + 1
      /\ \A i \in 1 .. Len(node) + 1 : Append(node, n)[i] = IF i <= Len(node) THEN node[i] ELSE n
  <2> HIDE DEF n
  <2> QED BY <1>1, <1>4, AppendedSeq
<1>6. node = <<>>
  BY <1>1, <1>3, EmptySeq
<1> HIDE DEF n
<1>7. node'[1] = n
  <2>1. 1 \in 1 .. Len(node) + 1 /\ ~(1 <= Len(node))
    BY <1>3
  <2> QED BY <1>2, <1>5, <2>1
<1> QED BY <1>1, <1>2, <1>3, <1>5, <1>6, <1>7 DEF n

LEMMA InsertInLeafDoes ==
  ASSUME NEW ht, Shape(node, root_page_id, split, ht), NEW key \in Keys, NEW rid \in RIDs,
         InsertInLeaf(key, rid)
  PROVE  LET p == FindLeafPage(key)
             e == EntryAdded(node[p], key, rid)
         IN  /\ p \in PageIds /\ node[p].leaf /\ Len(e.keys) <= LeafMax
             /\ node' = [node EXCEPT ![p] = e]
             /\ node' \in Seq(Nodes) /\ Len(node') = Len(node)
             /\ \A r \in 1 .. Len(node) : node'[r] = IF r = p THEN e ELSE node[r]
<1> DEFINE p == FindLeafPage(key)
           e == EntryAdded(node[p], key, rid)
<1>1. root_page_id # INVALID_PAGE_ID /\ ~IsFull(node[p], LeafMax) /\ node' = [node EXCEPT ![p] = e]
  BY DEF InsertInLeaf
<1>2. p \in PageIds /\ node[p].leaf
  <2>1. key \in Int
    BY KeyAssumption
  <2> QED BY <1>1, <2>1, FoundLeaf
<1>3. e \in Nodes /\ Len(node[p].keys) \in Nat /\ Len(e.keys) = Len(node[p].keys) + 1
  <2> HIDE DEF p
  <2> QED BY <1>2, EntryAddedTo
<1>4. Len(e.keys) <= LeafMax
  <2>1. Len(node[p].keys) < LeafMax
    BY <1>1, <1>3, SizeAssumption DEF IsFull
  <2> QED BY <1>3, <2>1, SizeAssumption
<1>5. node \in Seq(Nodes) /\ p \in 1 .. Len(node)
  BY <1>2, PagesAre
<1> HIDE DEF e, p
<1>6. /\ [node EXCEPT ![p] = e] \in Seq(Nodes) /\ Len([node EXCEPT ![p] = e]) = Len(node)
      /\ \A i \in 1 .. Len(node) : [node EXCEPT ![p] = e][i] = IF i = p THEN e ELSE node[i]
  BY <1>3, <1>5, Updated
<1> QED BY <1>1, <1>2, <1>4, <1>6 DEF e, p

LEMMA SplitLeafDoes ==
  ASSUME NEW ht, Shape(node, root_page_id, split, ht), NEW key \in Keys, NEW rid \in RIDs,
         SplitLeaf(key, rid)
  PROVE  LET p == FindLeafPage(key)
             e == EntryAdded(node[p], key, rid)
             pos == Len(e.keys) \div 2
             q == Len(node) + 1
             m == Len(e.keys)
         IN  /\ p \in PageIds /\ node[p].leaf /\ m = LeafMax + 1 /\ pos \in 1 .. LeafMax
             /\ node' \in Seq(Nodes) /\ Len(node') = q
             /\ \A r \in 1 .. Len(node) : r # p => node'[r] = node[r]
             /\ node'[p] = [LeftHalf(e, pos) EXCEPT !.next = q]
             /\ node'[q] = Leaf(node[p].parent, node[p].next,
                                SubSeq(e.keys, pos + 1, m), SubSeq(e.vals, pos + 1, m))
             /\ split' = [left |-> p, key |-> e.keys[pos + 1], right |-> q]
<1> DEFINE p == FindLeafPage(key)
           e == EntryAdded(node[p], key, rid)
           pos == Len(e.keys) \div 2
           q == Len(node) + 1
           m == Len(e.keys)
           ks == SubSeq(e.keys, pos + 1, m)
           vs == SubSeq(e.vals, pos + 1, m)
           left == [LeftHalf(e, pos) EXCEPT !.next = q]
           right == Leaf(node[p].parent, node[p].next, ks, vs)
<1>1. root_page_id # INVALID_PAGE_ID /\ IsFull(node[p], LeafMax)
  BY DEF SplitLeaf
<1>2. p \in PageIds /\ node[p].leaf
  <2>1. key \in Int
    BY KeyAssumption
  <2> QED BY <1>1, <2>1, FoundLeaf
<1>3. /\ e \in Nodes /\ e.parent = node[p].parent /\ e.next = node[p].next
      /\ Len(node[p].keys) \in Nat /\ Len(node[p].keys) <= LeafMax
      /\ e.keys \in Seq(Keys) /\ e.vals \in Seq(RIDs)
      /\ Len(e.keys) = Len(node[p].keys) + 1 /\ Len(e.vals) = Len(e.keys) /\ Ascending(e.keys)
  <2> HIDE DEF p
  <2> QED BY <1>2, EntryAddedTo
<1>4. m = LeafMax + 1
  BY <1>1, <1>3, SizeAssumption DEF IsFull
<1>5. pos \in 1 .. LeafMax
  <2> HIDE DEF e
  <2> QED BY <1>4, SizeAssumption
<1>6. /\ node' = Append([node EXCEPT ![p] = left], right)
      /\ split' = [left |-> p, key |-> Head(ks), right |-> q]
  <2> DEFINE right0 == Leaf(e.parent, NextOfRight(e), ks, SubSeq(e.vals, pos + 1, Len(e.vals)))
  <2>1. /\ node' = Append([node EXCEPT ![p] = left], right0)
        /\ split' = [left |-> p, key |-> Head(right0.keys), right |-> q]
    BY DEF SplitLeaf
  <2> HIDE DEF e, ks, left, p, pos
  <2>2. right0 = right
    BY <1>3 DEF NextOfRight
  <2>3. right.keys = ks
    BY DEF Leaf
  <2> HIDE DEF right0, right
  <2> QED BY <2>1, <2>2, <2>3
<1>7. /\ ks \in Seq(Keys) /\ Len(ks) = m - pos /\ ks[1] = e.keys[pos + 1]
      /\ vs \in Seq(RIDs) /\ Len(vs) = m - pos
  <2> HIDE DEF e, pos
  <2>1. pos + 1 \in 1 .. m + 1 /\ m \in pos + 1 - 1 .. m /\ m - (pos + 1) + 1 = m - pos
        /\ 1 \in 1 .. m - (pos + 1) + 1 /\ pos + 1 + 1 - 1 = pos + 1
    BY <1>4, <1>5, SizeAssumption
  <2>2. ks \in Seq(Keys) /\ Len(ks) = m - pos
    BY <1>3, <2>1, Piece, SMTT(30)
  <2>3. PICK a \in 1 .. m + 1 : a = pos + 1
    BY <2>1
  <2>4. ks[1] = e.keys[pos + 1]
    <3>1. \A i \in 1 .. m - a + 1 : SubSeq(e.keys, a, m)[i] = e.keys[a + i - 1]
      <4>1. a \in 1 .. m + 1 /\ m \in a - 1 .. m
        BY <2>1, <2>3
      <4> HIDE DEF m
      <4>2. m = Len(e.keys)
        BY DEF m
      <4> QED BY <1>3, <4>1, <4>2, Piece
    <3>2. 1 \in 1 .. m - a + 1 /\ a + 1 - 1 = a /\ SubSeq(e.keys, a, m) = ks
      BY <2>1, <2>3
    <3>3. SubSeq(e.keys, a, m)[1] = e.keys[a + 1 - 1]
      BY <3>1, <3>2
    <3> QED BY <2>3, <3>2, <3>3
  <2>5. vs \in Seq(RIDs) /\ Len(vs) = m - pos
    BY <1>3, <2>1, Piece, SMTT(30)
  <2> QED BY <2>2, <2>4, <2>5
<1>8. split' = [left |-> p, key |-> e.keys[pos + 1], right |-> q]
  <2> HIDE DEF e, ks, pos
  <2>1. ks # <<>>
    <3>1. Len(ks) > 0
      <4> HIDE DEF m
      <4> QED BY <1>4, <1>5, <1>7, SizeAssumption
    <3> QED BY <3>1, <1>7, EmptySeq
  <2>2. Head(ks) = ks[1]
    BY <1>7, <2>1, HeadTailProperties
  <2> QED BY <1>6, <1>7, <2>2
<1>9. left \in Nodes
  <2>1. pos \in 0 .. Len(e.keys) /\ q \in Nat
    <3>1. q \in Nat
      BY PagesAre
    <3> HIDE DEF e, pos, q
    <3> QED BY <1>4, <1>5, <3>1, SizeAssumption
  <2> HIDE DEF e, pos, q
  <2> QED BY <1>3, <2>1, LeftHalfIs
<1>10. right \in Nodes
  <2>1. node[p].parent \in Pointers /\ node[p].next \in Pointers
    <3> HIDE DEF p
    <3>1. node[p] \in Nodes
      BY <1>2, NodeFacts
    <3> QED BY <3>1 DEF Nodes
  <2> HIDE DEF ks, vs, p
  <2> QED BY <1>7, <2>1 DEF Leaf, Nodes
<1>11. node \in Seq(Nodes) /\ p \in 1 .. Len(node) /\ Len(node) \in Nat
  BY <1>2, PagesAre
<1> HIDE DEF left, right, p, e, pos, ks, vs
<1> DEFINE t == [node EXCEPT ![p] = left]
<1>12. /\ t \in Seq(Nodes) /\ Len(t) = Len(node)
       /\ \A i \in 1 .. Len(node) : t[i] = IF i = p THEN left ELSE node[i]
  BY <1>9, <1>11, Updated
<1> HIDE DEF t
<1>13. /\ Append(t, right) \in Seq(Nodes) /\ Len(Append(t, right)) = Len(node) + 1
       /\ \A i \in 1 .. Len(node) + 1 : Append(t, right)[i] = IF i <= Len(node) THEN t[i] ELSE right
  BY <1>10, <1>12, AppendedSeq
<1>14. node' = Append(t, right)
  BY <1>6 DEF t
<1>15. \A r \in 1 .. Len(node) : r <= Len(node) /\ r \in 1 .. Len(node) + 1
  BY <1>11
<1>16. node'[p] = left /\ \A r \in 1 .. Len(node) : r # p => node'[r] = node[r]
  BY <1>11, <1>12, <1>13, <1>14, <1>15
<1>17. node'[q] = right
  <2>1. q \in 1 .. Len(node) + 1 /\ ~(q <= Len(node))
    BY <1>11
  <2> QED BY <1>13, <1>14, <2>1
<1>18. node' \in Seq(Nodes) /\ Len(node') = q
  BY <1>13, <1>14
<1> QED BY <1>2, <1>4, <1>5, <1>8, <1>16, <1>17, <1>18 DEF left, right, p, e, pos, ks, vs

\* What an internal node has that takes the split's key and right child.
LEMMA ChildEnteredTo ==
  ASSUME NEW ht, Shape(node, root_page_id, split, ht), split # NoSplit, NEW p \in PageIds,
         p = SplitParent
  PROVE  LET n == node[p]
             e == ChildEntered(n)
             pos == FindChild(n, split.key)
         IN  /\ ~n.leaf /\ n.vals \in Seq(Nat) /\ Len(n.vals) = Len(n.keys) + 1
             /\ e \in Nodes /\ ~e.leaf /\ e.parent = n.parent /\ e.next = INVALID_PAGE_ID
             /\ pos \in 0 .. Len(n.keys) /\ Len(n.keys) \in 1 .. InternalMax
             /\ e.keys = InsertAt(n.keys, pos + 1, split.key)
             /\ e.vals = InsertAt(n.vals, pos + 2, split.right)
             /\ e.keys \in Seq(Keys) /\ e.keys \in Seq(Nat) /\ e.vals \in Seq(Nat)
             /\ Len(e.keys) = Len(n.keys) + 1 /\ Len(e.vals) = Len(n.keys) + 2
             /\ Ascending(e.keys)
             /\ \A i \in 1 .. Len(e.vals) : e.vals[i] \in PageIds /\ ht[e.vals[i]] = ht[p] - 1
             /\ split.left \in PageIds /\ split.right \in PageIds
             /\ split.key \in Keys /\ split.key \in Nat
             /\ ht[split.left] = ht[p] - 1 /\ ht[split.right] = ht[p] - 1
<1> DEFINE n == node[p]
           e == ChildEntered(n)
           pos == FindChild(n, split.key)
           ks == InsertAt(n.keys, pos + 1, split.key)
           vs == InsertAt(n.vals, pos + 2, split.right)
<1>1. /\ split.left \in PageIds /\ split.right \in PageIds /\ split.key \in Keys /\ split.key \in Nat
      /\ ht[split.left] = ht[split.right]
  <2>1. SplitFits(split, ht) /\ PageIds = 1 .. Len(ht)
    BY PagesAre DEF Shape
  <2> QED BY <2>1, KeyAssumption DEF SplitFits
<1>2. p # INVALID_PAGE_ID
  BY PagesAre
<1>3. /\ ht[p] = ht[split.left] + 1 /\ ht[split.left] \in Nat
  <2>1. NodeFits(node[split.left], ht[split.left], ht) /\ ht[split.left] \in Nat
    BY <1>1, NodeFacts
  <2> QED BY <1>2, <2>1 DEF NodeFits, SplitParent
<1>4. /\ n \in Nodes /\ NodeFits(n, ht[p], ht) /\ n.keys \in Seq(Keys) /\ n.keys \in Seq(Nat)
      /\ Len(n.keys) \in Nat /\ Ascending(n.keys)
      /\ \A i \in 1 .. Len(n.keys) : n.keys[i] \in Nat
  BY NodeFacts
<1> HIDE DEF n
<1>5. /\ ~n.leaf /\ n.vals \in Seq(Nat) /\ Len(n.vals) = Len(n.keys) + 1
      /\ n.next = INVALID_PAGE_ID /\ Len(n.keys) \in 1 .. InternalMax
      /\ \A i \in 1 .. Len(n.vals) : n.vals[i] \in 1 .. Len(ht) /\ ht[n.vals[i]] = ht[p] - 1
  <2>1. ht[p] # 0
    BY <1>3
  <2> QED BY <1>4, <2>1 DEF NodeFits
<1>6. /\ pos \in 0 .. Len(n.keys)
      /\ \A i \in 1 .. Len(n.keys) : n.keys[i] <= split.key <=> i <= pos
  <2>1. PICK x \in Int : x = split.key
    BY <1>1
  <2>2. /\ FindChild(n, x) \in 0 .. Len(n.keys)
        /\ \A i \in 1 .. Len(n.keys) : n.keys[i] <= x <=> i <= FindChild(n, x)
    BY <1>4, FindChildIs
  <2> QED BY <2>1, <2>2
<1> HIDE DEF pos
<1>7. pos + 1 \in 1 .. Len(n.keys) + 1 /\ pos + 2 \in 1 .. Len(n.vals) + 1
  BY <1>4, <1>5, <1>6
<1>8. ks \in Seq(Keys) /\ Len(ks) = Len(n.keys) + 1
  BY <1>1, <1>4, <1>7, Inserted
<1>9. /\ vs \in Seq(Nat) /\ Len(vs) = Len(n.keys) + 2
      /\ \A i \in 1 .. Len(n.vals) + 1 :
           vs[i] = IF i < pos + 2 THEN n.vals[i] ELSE IF i = pos + 2 THEN split.right ELSE n.vals[i - 1]
  <2>1. split.right \in Nat
    BY <1>1, PagesAre
  <2>2. PICK x \in 1 .. Len(n.vals) + 1 : x = pos + 2
    BY <1>7
  <2> DEFINE us == InsertAt(n.vals, x, split.right)
  <2>3. /\ us \in Seq(Nat) /\ Len(us) = Len(n.vals) + 1
        /\ \A i \in 1 .. Len(n.vals) + 1 :
             us[i] = IF i < x THEN n.vals[i] ELSE IF i = x THEN split.right ELSE n.vals[i - 1]
    <3>1. PICK y : y = split.right
      OBVIOUS
    <3>2. PICK w : w = n.vals
      OBVIOUS
    <3>3. y \in Nat /\ w \in Seq(Nat) /\ x \in 1 .. Len(w) + 1
      BY <1>5, <2>1, <3>1, <3>2
    <3> HIDE DEF us
    <3>4. /\ InsertAt(w, x, y) \in Seq(Nat) /\ Len(InsertAt(w, x, y)) = Len(w) + 1
          /\ \A i \in 1 .. Len(w) + 1 :
               InsertAt(w, x, y)[i] = IF i < x THEN w[i] ELSE IF i = x THEN y ELSE w[i - 1]
      <4>1. PICK N : N = Nat
        OBVIOUS
      <4>2. y \in N /\ w \in Seq(N)
        BY <3>3, <4>1
      <4> QED BY <3>3, <4>1, <4>2, Inserted
    <3> QED BY <3>1, <3>2, <3>4 DEF us
  <2>4. us = vs
    BY <2>2
  <2>5. Len(n.vals) + 1 = Len(n.keys) + 2
    BY <1>4, <1>5
  <2> HIDE DEF us, vs
  <2> QED BY <2>2, <2>3, <2>4, <2>5
<1>10. Ascending(ks) /\ ks \in Seq(Nat)
  <2>1. \A i \in 1 .. Len(n.keys) : (i <= pos => n.keys[i] <= split.key) /\ (i > pos => split.key <= n.keys[i])
    BY <1>1, <1>4, <1>6
  <2> QED BY <1>1, <1>4, <1>6, <1>8, <2>1, InsertSorted, KeysAreNumbers
<1>11. e = [n EXCEPT !.keys = ks, !.vals = vs]
  BY DEF ChildEntered, pos
<1> HIDE DEF ks, vs, e
<1>12. /\ e \in Nodes /\ ~e.leaf /\ e.parent = n.parent /\ e.next = INVALID_PAGE_ID
       /\ e.keys = ks /\ e.vals = vs
  BY <1>4, <1>5, <1>8, <1>9, <1>11 DEF Nodes
<1>13. ASSUME NEW i \in 1 .. Len(vs) PROVE vs[i] \in PageIds /\ ht[vs[i]] = ht[p] - 1
  <2>1. i \in 1 .. Len(n.vals) + 1 /\ PageIds = 1 .. Len(ht)
    BY <1>4, <1>5, <1>9, PagesAre
  <2>2. CASE i < pos + 2
    <3>1. i \in 1 .. Len(n.vals) /\ vs[i] = n.vals[i]
      BY <1>4, <1>5, <1>6, <1>9, <2>1, <2>2
    <3> QED BY <1>5, <2>1, <3>1
  <2>3. CASE i = pos + 2
    <3>1. vs[i] = split.right
      BY <1>6, <1>9, <2>1, <2>3
    <3> QED BY <1>1, <1>3, <3>1
  <2>4. CASE i > pos + 2
    <3>1. i - 1 \in 1 .. Len(n.vals) /\ vs[i] = n.vals[i - 1]
      BY <1>4, <1>5, <1>6, <1>9, <2>1, <2>4
    <3> QED BY <1>5, <2>1, <3>1
  <2> QED BY <1>6, <2>1, <2>2, <2>3, <2>4
<1>14. ht[split.left] = ht[p] - 1 /\ ht[split.right] = ht[p] - 1
  BY <1>1, <1>3
<1> QED BY <1>1, <1>5, <1>6, <1>8, <1>9, <1>10, <1>12, <1>13, <1>14 DEF ks, vs, e, n, pos

LEMMA SplitParentIs ==
  ASSUME NEW ht, Shape(node, root_page_id, split, ht), split # NoSplit,
         SplitParent # INVALID_PAGE_ID
  PROVE  SplitParent \in PageIds
<1>1. split.left \in PageIds
  <2>1. SplitFits(split, ht) /\ PageIds = 1 .. Len(ht)
    BY PagesAre DEF Shape
  <2> QED BY <2>1 DEF SplitFits
<1>2. NodeFits(node[split.left], ht[split.left], ht) /\ PageIds = 1 .. Len(ht)
  BY <1>1, NodeFacts
<1> QED BY <1>2 DEF NodeFits, SplitParent

LEMMA InsertInParentDoes ==
  ASSUME NEW ht, Shape(node, root_page_id, split, ht), InsertInParent
  PROVE  LET p == SplitParent
             e == ChildEntered(node[p])
         IN  /\ split # NoSplit /\ p \in PageIds /\ Len(e.keys) <= InternalMax
             /\ node' \in Seq(Nodes) /\ Len(node') = Len(node)
             /\ \A r \in 1 .. Len(node) : node'[r] = IF r = p THEN e ELSE node[r]
             /\ split' = NoSplit
<1> DEFINE p == SplitParent
           e == ChildEntered(node[p])
<1>1. /\ split # NoSplit /\ p # INVALID_PAGE_ID /\ ~IsFull(node[p], InternalMax)
      /\ node' = [node EXCEPT ![p] = e] /\ split' = NoSplit
  BY DEF InsertInParent
<1>2. p \in PageIds
  BY <1>1, SplitParentIs
<1>3. e \in Nodes /\ Len(node[p].keys) \in 1 .. InternalMax /\ Len(e.keys) = Len(node[p].keys) + 1
  BY <1>1, <1>2, ChildEnteredTo
<1>4. Len(e.keys) <= InternalMax
  <2>1. Len(node[p].keys) < InternalMax
    BY <1>1, <1>3, SizeAssumption DEF IsFull
  <2> QED BY <1>3, <2>1, SizeAssumption
<1>5. node \in Seq(Nodes) /\ p \in 1 .. Len(node)
  BY <1>2, PagesAre
<1> HIDE DEF e, p
<1>6. /\ [node EXCEPT ![p] = e] \in Seq(Nodes) /\ Len([node EXCEPT ![p] = e]) = Len(node)
      /\ \A i \in 1 .. Len(node) : [node EXCEPT ![p] = e][i] = IF i = p THEN e ELSE node[i]
  BY <1>3, <1>5, Updated
<1> QED BY <1>1, <1>2, <1>4, <1>6 DEF e, p

LEMMA CreateNewRootDoes ==
  ASSUME NEW ht, Shape(node, root_page_id, split, ht), CreateNewRoot
  PROVE  LET r == Len(node) + 1
         IN  /\ split # NoSplit /\ split.left \in PageIds /\ split.right \in PageIds
             /\ split.key \in Keys /\ ht[split.left] = ht[split.right]
             /\ node[split.left].parent = INVALID_PAGE_ID
             /\ node' \in Seq(Nodes) /\ Len(node') = r
             /\ \A i \in 1 .. Len(node) :
                  node'[i] = IF i \in {split.left, split.right}
                               THEN [node[i] EXCEPT !.parent = r] ELSE node[i]
             /\ node'[r] = InternalNode(INVALID_PAGE_ID, <<split.key>>, <<split.left, split.right>>)
             /\ split' = NoSplit /\ root_page_id' = r
<1> DEFINE r == Len(node) + 1
           root == InternalNode(INVALID_PAGE_ID, <<split.key>>, <<split.left, split.right>>)
           t == ParentsSet(node, {split.left, split.right}, r)
<1>1. /\ split # NoSplit /\ SplitParent = INVALID_PAGE_ID
      /\ node' = Append(t, root) /\ root_page_id' = r /\ split' = NoSplit
  BY DEF CreateNewRoot
<1>2. /\ split.left \in PageIds /\ split.right \in PageIds /\ split.key \in Keys
      /\ ht[split.left] = ht[split.right]
  <2>1. SplitFits(split, ht) /\ PageIds = 1 .. Len(ht)
    BY PagesAre DEF Shape
  <2> QED BY <1>1, <2>1 DEF SplitFits
<1>3. node \in Seq(Nodes) /\ Len(node) \in Nat /\ PageIds = 1 .. Len(node)
  BY PagesAre
<1>4. root \in Nodes
  <2>1. split.left \in Nat /\ split.right \in Nat
    BY <1>2, <1>3
  <2> QED BY <1>2, <2>1 DEF InternalNode, Nodes, Pointers
<1>5. /\ t \in Seq(Nodes) /\ Len(t) = Len(node)
      /\ \A i \in 1 .. Len(node) :
           t[i] = IF i \in {split.left, split.right} THEN [node[i] EXCEPT !.parent = r] ELSE node[i]
  <2>1. r \in Nat
    BY <1>3
  <2> DEFINE C == {split.left, split.right}
  <2> HIDE DEF r, C
  <2>2. /\ ParentsSet(node, C, r) \in Seq(Nodes) /\ Len(ParentsSet(node, C, r)) = Len(node)
        /\ \A i \in 1 .. Len(node) :
             ParentsSet(node, C, r)[i] = IF i \in C THEN [node[i] EXCEPT !.parent = r] ELSE node[i]
    BY <1>3, <2>1, ParentsSetIs
  <2> QED BY <2>2 DEF C
<1> HIDE DEF t, root
<1>6. /\ Append(t, root) \in Seq(Nodes) /\ Len(Append(t, root)) = Len(node) + 1
      /\ \A i \in 1 .. Len(node) + 1 : Append(t, root)[i] = IF i <= Len(node) THEN t[i] ELSE root
  BY <1>4, <1>5, AppendedSeq
<1>7. \A i \in 1 .. Len(node) : i <= Len(node) /\ i \in 1 .. Len(node) + 1
  BY <1>3
<1>8. \A i \in 1 .. Len(node) : node'[i] = t[i]
  BY <1>1, <1>6, <1>7
<1>9. node'[r] = root
  <2>1. r \in 1 .. Len(node) + 1 /\ ~(r <= Len(node))
    BY <1>3
  <2> QED BY <1>1, <1>6, <2>1
<1> QED BY <1>1, <1>2, <1>5, <1>6, <1>8, <1>9 DEF root, SplitParent

LEMMA SplitFullParentDoes ==
  ASSUME NEW ht, Shape(node, root_page_id, split, ht), SplitFullParent
  PROVE  LET p == SplitParent
             e == ChildEntered(node[p])
             k == Len(e.keys)
             mid == k \div 2
             q == Len(node) + 1
             left == InternalNode(e.parent, SubSeq(e.keys, 1, mid), SubSeq(e.vals, 1, mid + 1))
             right == InternalNode(e.parent, SubSeq(e.keys, mid + 2, k), SubSeq(e.vals, mid + 2, k + 1))
             moved == ToSet(SubSeq(e.vals, mid + 2, k + 1))
         IN  /\ split # NoSplit /\ p \in PageIds /\ k = InternalMax + 1
             /\ mid \in 1 .. InternalMax - 1
             /\ node' \in Seq(Nodes) /\ Len(node') = q
             /\ \E lost \in SUBSET (moved \ {split.left, split.right}) :
                  /\ \A r \in 1 .. Len(node) :
                       node'[r] = IF r \in moved \ lost
                                    THEN [(IF r = p THEN left ELSE node[r]) EXCEPT !.parent = q]
                                    ELSE IF r = p THEN left ELSE node[r]
                  /\ refused' = (refused \/ lost # {})
             /\ node'[q] = right
             /\ split' = [left |-> p, key |-> e.keys[mid + 1], right |-> q]
<1> DEFINE p == SplitParent
           e == ChildEntered(node[p])
           k == Len(e.keys)
           mid == k \div 2
           q == Len(node) + 1
           left == InternalNode(e.parent, SubSeq(e.keys, 1, mid), SubSeq(e.vals, 1, mid + 1))
           vs == SubSeq(e.vals, mid + 2, k + 1)
           right == InternalNode(e.parent, SubSeq(e.keys, mid + 2, k), vs)
           moved == ToSet(vs)
<1>1. split # NoSplit /\ p # INVALID_PAGE_ID /\ IsFull(node[p], InternalMax)
  BY DEF SplitFullParent
<1>2. p \in PageIds
  BY <1>1, SplitParentIs
<1>3. /\ e \in Nodes /\ e.keys \in Seq(Keys) /\ e.vals \in Seq(Nat)
      /\ Len(node[p].keys) \in 1 .. InternalMax
      /\ Len(e.keys) = Len(node[p].keys) + 1 /\ Len(e.vals) = Len(node[p].keys) + 2
  BY <1>1, <1>2, ChildEnteredTo
<1> HIDE DEF e, p
<1>4. k = InternalMax + 1 /\ Len(e.vals) = k + 1
  BY <1>1, <1>3, SizeAssumption DEF IsFull
<1>5. mid \in 1 .. InternalMax - 1
  <2> HIDE DEF k
  <2> QED BY <1>4, SizeAssumption
<1>6. /\ \E lost \in SUBSET (moved \ {split.left, split.right}) :
           /\ node' = Append(ParentsSet([node EXCEPT ![p] = left], moved \ lost, q), right)
           /\ refused' = (refused \/ lost # {})
      /\ split' = [left |-> p, key |-> e.keys[mid + 1], right |-> q]
  <2> DEFINE right0 == InternalNode(e.parent, SubSeq(e.keys, mid + 2, Len(e.keys)),
                                    SubSeq(e.vals, mid + 2, Len(e.vals)))
             moved0 == ToSet(right0.vals)
  <2>1. \E lost \in IF FramesRunOut THEN SUBSET (moved0 \ {split.left, split.right}) ELSE {{}} :
          /\ node' = Append(ParentsSet([node EXCEPT ![p] = left], moved0 \ lost, q), right0)
          /\ split' = [left |-> p, key |-> e.keys[mid + 1], right |-> q]
          /\ refused' = (refused \/ lost # {})
    BY DEF SplitFullParent, e, p
  <2> HIDE DEF mid, k, left, q
  <2>2. right0 = right
    BY <1>4 DEF k
  <2>3. right.vals = vs
    BY DEF InternalNode
  <2>4. moved0 = moved
    BY <2>2, <2>3
  <2> HIDE DEF moved0, right0, moved, right, vs
  <2> QED BY <2>1, <2>2, <2>4
<1>7. left \in Nodes /\ right \in Nodes
  <2> HIDE DEF k, mid
  <2>1. 1 \in 1 .. k + 1 /\ mid \in 1 - 1 .. k /\ 1 \in 1 .. (k + 1) + 1 /\ mid + 1 \in 1 - 1 .. k + 1
    BY <1>4, <1>5, SizeAssumption
  <2>2. mid + 2 \in 1 .. k + 1 /\ mid + 2 \in 1 .. (k + 1) + 1 /\ k \in (mid + 2) - 1 .. k
        /\ k + 1 \in (mid + 2) - 1 .. k + 1
    BY <1>4, <1>5, SizeAssumption
  <2>3. k = Len(e.keys)
    BY DEF k
  <2>4. SubSeq(e.keys, 1, mid) \in Seq(Keys) /\ SubSeq(e.vals, 1, mid + 1) \in Seq(Nat)
    BY <1>3, <1>4, <2>1, <2>3, Piece
  <2>5. SubSeq(e.keys, mid + 2, k) \in Seq(Keys) /\ vs \in Seq(Nat)
    BY <1>3, <1>4, <2>2, <2>3, Piece
  <2>6. e.parent \in Pointers
    BY <1>3 DEF Nodes
  <2> HIDE DEF vs
  <2> QED BY <2>4, <2>5, <2>6 DEF InternalNode, Nodes, Pointers
<1> HIDE DEF k, mid, left, right, moved
<1>8. node \in Seq(Nodes) /\ p \in 1 .. Len(node) /\ Len(node) \in Nat /\ q \in Nat
  BY <1>2, PagesAre
<1> DEFINE t == [node EXCEPT ![p] = left]
<1>9. /\ t \in Seq(Nodes) /\ Len(t) = Len(node)
      /\ \A i \in 1 .. Len(node) : t[i] = IF i = p THEN left ELSE node[i]
  BY <1>7, <1>8, Updated
<1> HIDE DEF t, q
<1>10. PICK lost \in SUBSET (moved \ {split.left, split.right}) :
         /\ node' = Append(ParentsSet(t, moved \ lost, q), right)
         /\ refused' = (refused \/ lost # {})
  BY <1>6 DEF t
<1> DEFINE u == ParentsSet(t, moved \ lost, q)
<1>11. /\ u \in Seq(Nodes) /\ Len(u) = Len(node)
       /\ \A i \in 1 .. Len(node) :
            u[i] = IF i \in moved \ lost THEN [t[i] EXCEPT !.parent = q] ELSE t[i]
  <2> DEFINE C == moved \ lost
  <2> HIDE DEF C
  <2>1. /\ ParentsSet(t, C, q) \in Seq(Nodes) /\ Len(ParentsSet(t, C, q)) = Len(t)
        /\ \A i \in 1 .. Len(t) :
             ParentsSet(t, C, q)[i] = IF i \in C THEN [t[i] EXCEPT !.parent = q] ELSE t[i]
    BY <1>8, <1>9, ParentsSetIs
  <2> QED BY <1>9, <2>1 DEF C
<1> HIDE DEF u
<1>12. /\ Append(u, right) \in Seq(Nodes) /\ Len(Append(u, right)) = Len(node) + 1
       /\ \A i \in 1 .. Len(node) + 1 : Append(u, right)[i] = IF i <= Len(node) THEN u[i] ELSE right
  BY <1>7, <1>11, AppendedSeq
<1>13. \A i \in 1 .. Len(node) : i <= Len(node) /\ i \in 1 .. Len(node) + 1
  BY <1>8
<1>14. node' = Append(u, right)
  BY <1>10 DEF u
<1>15. \A r \in 1 .. Len(node) :
         node'[r] = IF r \in moved \ lost
                      THEN [(IF r = p THEN left ELSE node[r]) EXCEPT !.parent = q]
                      ELSE IF r = p THEN left ELSE node[r]
  BY <1>9, <1>11, <1>12, <1>13, <1>14
<1>16. node'[q] = right
  <2>1. q \in 1 .. Len(node) + 1 /\ ~(q <= Len(node))
    BY <1>8 DEF q
  <2> QED BY <1>12, <1>14, <2>1
<1>17. node' \in Seq(Nodes) /\ Len(node') = q
  BY <1>12, <1>14 DEF q
<1>18. \E l \in SUBSET (moved \ {split.left, split.right}) :
         /\ \A r \in 1 .. Len(node) :
              node'[r] = IF r \in moved \ l
                           THEN [(IF r = p THEN left ELSE node[r]) EXCEPT !.parent = q]
                           ELSE IF r = p THEN left ELSE node[r]
         /\ refused' = (refused \/ l # {})
  BY <1>10, <1>15
<1> QED BY <1>1, <1>2, <1>4, <1>5, <1>6, <1>16, <1>17, <1>18 DEF k, mid, left, right, moved, q, vs, e, p

LEMMA DeleteDoes ==
  ASSUME NEW ht, Shape(node, root_page_id, split, ht), NEW key \in Keys, NEW rid \in RIDs,
         Delete(key, rid)
  PROVE  LET p == FindLeafPage(key)
         IN  /\ p \in PageIds /\ node[p].leaf
             /\ node' \in Seq(Nodes) /\ Len(node') = Len(node)
             /\ \A r \in 1 .. Len(node) : r # p => node'[r] = node[r]
             /\ \E i \in 1 .. Len(node[p].keys) :
                  /\ node[p].keys[i] = key /\ node[p].vals[i] = rid
                  /\ node'[p] = [node[p] EXCEPT !.keys = RemoveAt(node[p].keys, i),
                                                !.vals = RemoveAt(node[p].vals, i)]
                  /\ RemoveAt(node[p].keys, i) \in Seq(Keys)
                  /\ RemoveAt(node[p].vals, i) \in Seq(RIDs)
                  /\ Ascending(RemoveAt(node[p].keys, i))
                  /\ Len(RemoveAt(node[p].keys, i)) = Len(node[p].keys) - 1
                  /\ Len(RemoveAt(node[p].vals, i)) = Len(node[p].keys) - 1
<1> DEFINE p == FindLeafPage(key)
           at == {i \in DOMAIN node[p].keys : Entries(node[p])[i] = <<key, rid>>}
           i == Min(at)
<1>1. root_page_id # INVALID_PAGE_ID /\ at # {}
      /\ node' = [node EXCEPT ![p].keys = RemoveAt(@, i), ![p].vals = RemoveAt(@, i)]
  BY DEF Delete
<1>2. p \in PageIds /\ node[p].leaf
  <2>1. key \in Int
    BY KeyAssumption
  <2> QED BY <1>1, <2>1, FoundLeaf
<1> HIDE DEF p
<1>3. /\ node[p] \in Nodes /\ NodeFits(node[p], ht[p], ht) /\ Ascending(node[p].keys)
      /\ node[p].keys \in Seq(Keys) /\ node[p].keys \in Seq(Nat) /\ Len(node[p].keys) \in Nat
  BY <1>2, NodeFacts
<1>4. node[p].vals \in Seq(RIDs) /\ Len(node[p].vals) = Len(node[p].keys)
  BY <1>2, <1>3 DEF NodeFits
<1>5. i \in at
  <2>1. at \subseteq Nat
    BY <1>3, LenProperties
  <2> HIDE DEF at
  <2> QED BY <1>1, <2>1, MinIsLeast
<1>6. i \in 1 .. Len(node[p].keys) /\ node[p].keys[i] = key /\ node[p].vals[i] = rid
  <2>1. DOMAIN node[p].keys = 1 .. Len(node[p].keys)
    BY <1>3, LenProperties
  <2>2. i \in DOMAIN node[p].keys /\ Entries(node[p])[i] = <<key, rid>>
    <3> HIDE DEF i
    <3> QED BY <1>5
  <2> HIDE DEF i
  <2>3. Entries(node[p])[i] = <<node[p].keys[i], node[p].vals[i]>>
    BY <2>2 DEF Entries
  <2> QED BY <2>1, <2>2, <2>3
<1> HIDE DEF i
<1> DEFINE ks == RemoveAt(node[p].keys, i)
           vs == RemoveAt(node[p].vals, i)
           n2 == [node[p] EXCEPT !.keys = ks, !.vals = vs]
<1>7. ks \in Seq(Keys) /\ Len(ks) = Len(node[p].keys) - 1
  BY <1>3, <1>6, Removed
<1>8. vs \in Seq(RIDs) /\ Len(vs) = Len(node[p].keys) - 1
  BY <1>4, <1>6, Removed
<1>9. Ascending(ks)
  BY <1>3, <1>6, RemoveSorted
<1>10. node \in Seq(Nodes) /\ p \in 1 .. Len(node)
  BY <1>2, PagesAre
<1> HIDE DEF ks, vs
<1>11. n2 \in Nodes
  BY <1>3, <1>7, <1>8 DEF Nodes
<1>12. node' = [node EXCEPT ![p] = n2]
  <2>1. node' = [node EXCEPT ![p].keys = ks, ![p].vals = vs]
    BY <1>1 DEF ks, vs
  <2> QED BY <1>3, <1>10, <2>1 DEF Nodes
<1> HIDE DEF n2
<1>13. /\ [node EXCEPT ![p] = n2] \in Seq(Nodes) /\ Len([node EXCEPT ![p] = n2]) = Len(node)
       /\ \A r \in 1 .. Len(node) : [node EXCEPT ![p] = n2][r] = IF r = p THEN n2 ELSE node[r]
  BY <1>10, <1>11, Updated
<1>14. /\ node' \in Seq(Nodes) /\ Len(node') = Len(node) /\ node'[p] = n2
       /\ \A r \in 1 .. Len(node) : r # p => node'[r] = node[r]
  BY <1>10, <1>12, <1>13
<1>15. \E j \in 1 .. Len(node[p].keys) :
         /\ node[p].keys[j] = key /\ node[p].vals[j] = rid
         /\ node'[p] = [node[p] EXCEPT !.keys = RemoveAt(node[p].keys, j),
                                       !.vals = RemoveAt(node[p].vals, j)]
         /\ RemoveAt(node[p].keys, j) \in Seq(Keys)
         /\ RemoveAt(node[p].vals, j) \in Seq(RIDs)
         /\ Ascending(RemoveAt(node[p].keys, j))
         /\ Len(RemoveAt(node[p].keys, j)) = Len(node[p].keys) - 1
         /\ Len(RemoveAt(node[p].vals, j)) = Len(node[p].keys) - 1
  BY <1>6, <1>7, <1>8, <1>9, <1>14 DEF n2, ks, vs
<1> QED BY <1>2, <1>14, <1>15 DEF p

-----------------------------------------------------------------------------
(* The shape of the tree is kept. *)

LEMMA ShapeUpdated ==
  ASSUME NEW nodes, NEW r, NEW s, NEW ht, Shape(nodes, r, s, ht), NEW p \in 1 .. Len(ht),
         NEW nodes2 \in Seq(Nodes), Len(nodes2) = Len(ht),
         \A i \in 1 .. Len(ht) : i # p => nodes2[i] = nodes[i],
         NodeFits(nodes2[p], ht[p], ht), NEW s2, SplitFits(s2, ht)
  PROVE  Shape(nodes2, r, s2, ht)
<1>1. ASSUME NEW i \in 1 .. Len(ht) PROVE ht[i] < Len(ht) /\ NodeFits(nodes2[i], ht[i], ht)
  BY DEF Shape
<1> QED BY <1>1 DEF Shape

LEMMA SplitFitsInMore ==
  ASSUME NEW ht \in Seq(Nat), NEW s, SplitFits(s, ht), NEW g \in Nat
  PROVE  SplitFits(s, Append(ht, g))
<1> DEFINE ht2 == Append(ht, g)
<1>1. Len(ht) \in Nat /\ Len(ht2) = Len(ht) + 1 /\ \A p \in 1 .. Len(ht) : p \in 1 .. Len(ht2) /\ ht2[p] = ht[p]
  <2>1. Len(ht) \in Nat
    BY LenProperties
  <2> QED BY <2>1, AppendedSeq
<1> HIDE DEF ht2
<1>2. SplitFits(s, ht2)
  BY <1>1 DEF SplitFits
<1> QED BY <1>2 DEF ht2

\* The heights of the pages when there is one more.
LEMMA OneMore ==
  ASSUME NEW ht \in Seq(Nat), NEW g \in Nat
  PROVE  /\ Append(ht, g) \in Seq(Nat) /\ Len(ht) \in Nat /\ Len(Append(ht, g)) = Len(ht) + 1
         /\ \A p \in 1 .. Len(ht) : p \in 1 .. Len(ht) + 1 /\ Append(ht, g)[p] = ht[p]
         /\ Append(ht, g)[Len(ht) + 1] = g
<1>1. Len(ht) \in Nat
  BY LenProperties
<1> QED BY <1>1, AppendedSeq

LEMMA ShapeInsertFirst ==
  ASSUME NEW ht, Shape(node, root_page_id, split, ht), NEW key \in Keys, NEW rid \in RIDs,
         InsertFirst(key, rid)
  PROVE  Shape(node', root_page_id', split', Append(ht, 0))
<1>1. /\ Len(node) = 0 /\ node' \in Seq(Nodes) /\ Len(node') = 1 /\ root_page_id' = 1
      /\ node'[1] = Leaf(INVALID_PAGE_ID, INVALID_PAGE_ID, <<key>>, <<rid>>)
  BY InsertFirstDoes
<1>2. ht \in Seq(Nat) /\ Len(ht) = 0
  BY <1>1, PagesAre
<1> DEFINE ks == <<key>>
           vs == <<rid>>
<1>3. ks \in Seq(Keys) /\ vs \in Seq(RIDs) /\ Len(ks) = 1 /\ Len(vs) = 1 /\ Ascending(ks)
  BY DEF Ascending
<1> HIDE DEF ks, vs
<1>4. NodeFits(node'[1], 0, Append(ht, 0))
  <2>1. LeafMax >= 1
    BY SizeAssumption
  <2> QED BY <1>1, <1>3, <2>1 DEF NodeFits, Leaf, Nodes, Pointers, ks, vs
<1>5. SplitFits(split', Append(ht, 0))
  <2>1. split' = split
    BY DEF InsertFirst
  <2>2. SplitFits(split, ht)
    BY DEF Shape
  <2>3. SplitFits(split, Append(ht, 0))
    <3>1. PICK g \in Nat : g = 0
      OBVIOUS
    <3> QED BY <1>2, <2>2, <3>1, SplitFitsInMore
  <2> QED BY <2>1, <2>3
<1>6. 0 \in 0 .. Len(ht) /\ Len(node') = Len(ht) + 1 /\ root_page_id' \in 1 .. Len(ht) + 1
      /\ NodeFits(node'[Len(ht) + 1], 0, Append(ht, 0)) /\ \A p \in 1 .. Len(ht) : FALSE
  BY <1>1, <1>2, <1>4
<1> QED BY <1>1, <1>5, <1>6, ShapeGrows

LEMMA ShapeInsertInLeaf ==
  ASSUME NEW ht, Shape(node, root_page_id, split, ht), NEW key \in Keys, NEW rid \in RIDs,
         InsertInLeaf(key, rid)
  PROVE  Shape(node', root_page_id', split', ht)
<1> DEFINE p == FindLeafPage(key)
           e == EntryAdded(node[p], key, rid)
<1>1. /\ p \in PageIds /\ node[p].leaf /\ Len(e.keys) <= LeafMax
      /\ node' \in Seq(Nodes) /\ Len(node') = Len(node)
      /\ \A r \in 1 .. Len(node) : node'[r] = IF r = p THEN e ELSE node[r]
  BY InsertInLeafDoes
<1> HIDE DEF p
<1>2. /\ e \in Nodes /\ e.leaf /\ e.parent = node[p].parent /\ e.next = node[p].next
      /\ e.keys \in Seq(Keys) /\ e.vals \in Seq(RIDs) /\ Len(e.vals) = Len(e.keys) /\ Ascending(e.keys)
  BY <1>1, EntryAddedTo
<1>3. Len(ht) = Len(node) /\ PageIds = 1 .. Len(node)
  BY PagesAre
<1>4. NodeFits(node[p], ht[p], ht)
  BY <1>1, NodeFacts
<1> HIDE DEF e
<1>5. NodeFits(e, ht[p], ht)
  BY <1>1, <1>2, <1>4 DEF NodeFits
<1>6. split' = split /\ root_page_id' = root_page_id
  BY DEF InsertInLeaf
<1>7. SplitFits(split', ht)
  BY <1>6 DEF Shape
<1>8. NodeFits(node'[p], ht[p], ht)
  BY <1>1, <1>3, <1>5
<1> QED BY <1>1, <1>3, <1>6, <1>7, <1>8, ShapeUpdated

LEMMA ShapeDelete ==
  ASSUME NEW ht, Shape(node, root_page_id, split, ht), NEW key \in Keys, NEW rid \in RIDs,
         Delete(key, rid)
  PROVE  Shape(node', root_page_id', split', ht)
<1> DEFINE p == FindLeafPage(key)
<1>1. /\ p \in PageIds /\ node[p].leaf
      /\ node' \in Seq(Nodes) /\ Len(node') = Len(node)
      /\ \A r \in 1 .. Len(node) : r # p => node'[r] = node[r]
  BY DeleteDoes
<1>2. PICK i \in 1 .. Len(node[p].keys) :
             /\ node'[p] = [node[p] EXCEPT !.keys = RemoveAt(node[p].keys, i),
                                           !.vals = RemoveAt(node[p].vals, i)]
             /\ RemoveAt(node[p].keys, i) \in Seq(Keys)
             /\ RemoveAt(node[p].vals, i) \in Seq(RIDs)
             /\ Ascending(RemoveAt(node[p].keys, i))
             /\ Len(RemoveAt(node[p].keys, i)) = Len(node[p].keys) - 1
             /\ Len(RemoveAt(node[p].vals, i)) = Len(node[p].keys) - 1
  BY DeleteDoes
<1> HIDE DEF p
<1> DEFINE ks == RemoveAt(node[p].keys, i)
           vs == RemoveAt(node[p].vals, i)
<1> HIDE DEF ks, vs
<1>3. /\ node[p] \in Nodes /\ NodeFits(node[p], ht[p], ht) /\ Len(node[p].keys) \in Nat
  BY <1>1, NodeFacts
<1>4. Len(ht) = Len(node) /\ PageIds = 1 .. Len(node)
  BY PagesAre
<1>5. /\ node'[p] \in Nodes /\ node'[p].leaf /\ node'[p].parent = node[p].parent
      /\ node'[p].next = node[p].next /\ node'[p].keys = ks /\ node'[p].vals = vs
      /\ vs \in Seq(RIDs) /\ Ascending(ks) /\ Len(ks) = Len(node[p].keys) - 1
      /\ Len(vs) = Len(node[p].keys) - 1
  BY <1>1, <1>2, <1>3 DEF Nodes, ks, vs
<1>6. NodeFits(node'[p], ht[p], ht)
  <2>1. ht[p] = 0 /\ Len(node[p].keys) <= LeafMax
    BY <1>1, <1>3 DEF NodeFits
  <2>2. Len(ks) = Len(vs) /\ Len(ks) <= LeafMax
    BY <1>3, <1>5, <2>1, SizeAssumption
  <2> QED BY <1>3, <1>5, <2>1, <2>2 DEF NodeFits
<1>7. split' = split /\ root_page_id' = root_page_id
  BY DEF Delete
<1>8. SplitFits(split', ht)
  BY <1>7 DEF Shape
<1> QED BY <1>1, <1>4, <1>6, <1>7, <1>8, ShapeUpdated

LEMMA ShapeInsertInParent ==
  ASSUME NEW ht, Shape(node, root_page_id, split, ht), InsertInParent
  PROVE  Shape(node', root_page_id', split', ht)
<1> DEFINE p == SplitParent
           e == ChildEntered(node[p])
<1>1. /\ split # NoSplit /\ p \in PageIds /\ Len(e.keys) <= InternalMax
      /\ node' \in Seq(Nodes) /\ Len(node') = Len(node)
      /\ \A r \in 1 .. Len(node) : node'[r] = IF r = p THEN e ELSE node[r]
      /\ split' = NoSplit
  BY InsertInParentDoes
<1>2. /\ ~node[p].leaf /\ e \in Nodes /\ ~e.leaf /\ e.parent = node[p].parent /\ e.next = INVALID_PAGE_ID
      /\ Len(node[p].keys) \in 1 .. InternalMax
      /\ e.vals \in Seq(Nat) /\ Len(e.keys) = Len(node[p].keys) + 1
      /\ Len(e.vals) = Len(node[p].keys) + 2 /\ Ascending(e.keys)
      /\ \A i \in 1 .. Len(e.vals) : e.vals[i] \in PageIds /\ ht[e.vals[i]] = ht[p] - 1
  BY <1>1, ChildEnteredTo
<1>3. Len(ht) = Len(node) /\ PageIds = 1 .. Len(node)
  BY PagesAre
<1>4. NodeFits(node[p], ht[p], ht)
  BY <1>1, NodeFacts
<1> HIDE DEF e, p
<1>5. NodeFits(e, ht[p], ht)
  <2>1. Len(e.keys) \in 1 .. InternalMax /\ Len(e.vals) = Len(e.keys) + 1
    BY <1>1, <1>2, SizeAssumption
  <2>2. \A i \in 1 .. Len(e.vals) : e.vals[i] \in 1 .. Len(ht) /\ ht[e.vals[i]] = ht[p] - 1
    BY <1>2, <1>3
  <2> QED BY <1>2, <1>4, <2>1, <2>2 DEF NodeFits
<1>6. root_page_id' = root_page_id
  BY DEF InsertInParent
<1>7. SplitFits(split', ht)
  BY <1>1 DEF SplitFits
<1>8. NodeFits(node'[p], ht[p], ht)
  BY <1>1, <1>3, <1>5
<1> QED BY <1>1, <1>3, <1>6, <1>7, <1>8, ShapeUpdated

LEMMA ShapeSplitLeaf ==
  ASSUME NEW ht, Shape(node, root_page_id, split, ht), NEW key \in Keys, NEW rid \in RIDs,
         SplitLeaf(key, rid)
  PROVE  Shape(node', root_page_id', split', Append(ht, 0))
<1> DEFINE p == FindLeafPage(key)
           e == EntryAdded(node[p], key, rid)
           pos == Len(e.keys) \div 2
           q == Len(node) + 1
           m == Len(e.keys)
           ks == SubSeq(e.keys, pos + 1, m)
           vs == SubSeq(e.vals, pos + 1, m)
           ht2 == Append(ht, 0)
<1>1. /\ p \in PageIds /\ node[p].leaf /\ m = LeafMax + 1 /\ pos \in 1 .. LeafMax
      /\ node' \in Seq(Nodes) /\ Len(node') = q
      /\ \A r \in 1 .. Len(node) : r # p => node'[r] = node[r]
      /\ node'[p] = [LeftHalf(e, pos) EXCEPT !.next = q]
      /\ node'[q] = Leaf(node[p].parent, node[p].next, ks, vs)
      /\ split' = [left |-> p, key |-> e.keys[pos + 1], right |-> q]
  BY SplitLeafDoes
<1> HIDE DEF p
<1>2. /\ e \in Nodes /\ e.leaf /\ e.parent = node[p].parent /\ e.next = node[p].next
      /\ e.keys \in Seq(Keys) /\ e.vals \in Seq(RIDs) /\ Len(e.vals) = m /\ Ascending(e.keys)
  BY <1>1, EntryAddedTo
<1>3. /\ Len(ht) = Len(node) /\ PageIds = 1 .. Len(node) /\ Len(node) \in Nat /\ ht \in Seq(Nat)
      /\ INVALID_PAGE_ID # q
  BY PagesAre
<1>4. NodeFits(node[p], ht[p], ht) /\ ht[p] = 0
  <2>1. NodeFits(node[p], ht[p], ht)
    BY <1>1, NodeFacts
  <2> QED BY <1>1, <2>1 DEF NodeFits
<1> HIDE DEF e, pos, m
<1>5. /\ Len(ht2) = Len(ht) + 1 /\ ht2[Len(ht) + 1] = 0
      /\ \A r \in 1 .. Len(ht) : r \in 1 .. Len(ht) + 1 /\ ht2[r] = ht[r]
  <2>1. 0 \in Nat
    OBVIOUS
  <2> QED BY <1>3, <2>1, OneMore
<1>6. NodeFits(node[p], 0, ht2)
  <2>1. 0 \in Nat
    OBVIOUS
  <2> QED BY <1>3, <1>4, <2>1, FitsInMore
<1> HIDE DEF ht2
<1>7. /\ node'[p] \in Nodes /\ node'[p].leaf /\ node'[p].parent = node[p].parent /\ node'[p].next = q
      /\ node'[p].vals \in Seq(RIDs) /\ Len(node'[p].keys) = pos /\ Len(node'[p].vals) = pos
      /\ Ascending(node'[p].keys)
  <2>1. pos \in 0 .. Len(e.keys) /\ q \in Nat
    BY <1>1, <1>3, SizeAssumption DEF m
  <2> HIDE DEF q
  <2> QED BY <1>1, <1>2, <2>1, LeftHalfIs DEF m
<1>8. NodeFits(node'[p], 0, ht2)
  <2>1. q \in 1 .. Len(ht2) /\ Len(node'[p].keys) <= LeafMax
    BY <1>1, <1>3, <1>5, <1>7, SizeAssumption
  <2> QED BY <1>6, <1>7, <2>1 DEF NodeFits
<1>9. /\ ks \in Seq(Keys) /\ vs \in Seq(RIDs) /\ Len(ks) = m - pos /\ Len(vs) = m - pos /\ Ascending(ks)
  <2>1. pos + 1 \in 1 .. m + 1 /\ m \in pos + 1 - 1 .. m /\ m - (pos + 1) + 1 = m - pos
    BY <1>1, SizeAssumption
  <2>2. PICK a \in 1 .. m + 1 : a = pos + 1
    BY <2>1
  <2>3. m \in a - 1 .. m /\ m - a + 1 = m - pos
    BY <2>1, <2>2
  <2>4. e.keys \in Seq(Nat) /\ m = Len(e.keys)
    BY <1>2, KeysAreNumbers DEF m
  <2>5. ks = SubSeq(e.keys, a, m) /\ vs = SubSeq(e.vals, a, m)
    BY <2>2
  <2>6. SubSeq(e.keys, a, m) \in Seq(Keys) /\ Len(SubSeq(e.keys, a, m)) = m - a + 1
    BY <1>2, <2>2, <2>3, <2>4, Piece
  <2>7. SubSeq(e.vals, a, m) \in Seq(RIDs) /\ Len(SubSeq(e.vals, a, m)) = m - a + 1
    <3>1. a \in 1 .. Len(e.vals) + 1 /\ m \in a - 1 .. Len(e.vals)
      BY <1>2, <2>2, <2>3
    <3> QED BY <1>2, <3>1, Piece
  <2>8. Ascending(SubSeq(e.keys, a, m))
    BY <1>2, <2>2, <2>3, <2>4, PieceSorted
  <2> QED BY <2>3, <2>5, <2>6, <2>7, <2>8
<1> HIDE DEF ks, vs
<1>10. NodeFits(node'[q], 0, ht2)
  <2>1. m - pos <= LeafMax
    BY <1>1, SizeAssumption
  <2>2. node'[q] \in Nodes
    <3>1. node[p].parent \in Pointers /\ node[p].next \in Pointers
      BY <1>4 DEF NodeFits, Nodes
    <3> QED BY <1>1, <1>9, <3>1 DEF Leaf, Nodes
  <2>3. /\ node'[q].leaf /\ node'[q].parent = node[p].parent /\ node'[q].next = node[p].next
        /\ node'[q].keys = ks /\ node'[q].vals = vs
    BY <1>1 DEF Leaf
  <2> QED BY <1>6, <1>9, <2>1, <2>2, <2>3 DEF NodeFits
<1>11. ASSUME NEW r \in 1 .. Len(ht) PROVE NodeFits(node'[r], ht[r], ht2)
  <2>1. CASE r = p
    BY <1>4, <1>8, <2>1
  <2>2. CASE r # p
    <3>1. r \in PageIds /\ node'[r] = node[r]
      BY <1>1, <1>3, <2>2
    <3>2. ht[r] \in Nat /\ NodeFits(node[r], ht[r], ht) /\ 0 \in Nat
      BY <3>1, NodeFacts
    <3>3. NodeFits(node[r], ht[r], ht2)
      BY <1>3, <3>2, FitsInMore DEF ht2
    <3> QED BY <3>1, <3>3
  <2> QED BY <2>1, <2>2
<1>12. SplitFits(split', ht2)
  <2>1. p \in 1 .. Len(ht2) /\ q \in 1 .. Len(ht2) /\ ht2[p] = 0 /\ ht2[q] = 0
    BY <1>1, <1>3, <1>4, <1>5
  <2>2. e.keys[pos + 1] \in Keys
    <3>1. pos + 1 \in 1 .. Len(e.keys)
      BY <1>1, SizeAssumption DEF m
    <3> QED BY <1>2, <3>1, ElementOfSeq
  <2> HIDE DEF q
  <2>3. split' = [left |-> p, key |-> e.keys[pos + 1], right |-> q]
    BY <1>1
  <2> QED BY <2>1, <2>2, <2>3 DEF SplitFits
<1>13. root_page_id' \in 1 .. Len(ht) + 1
  <2>1. root_page_id' = root_page_id /\ root_page_id # INVALID_PAGE_ID
    BY DEF SplitLeaf
  <2>2. root_page_id \in PageIds
    BY <2>1, <1>3 DEF Shape, RootFits
  <2> QED BY <1>3, <2>1, <2>2
<1>14. 0 \in 0 .. Len(ht) /\ Len(node') = Len(ht) + 1 /\ NodeFits(node'[Len(ht) + 1], 0, ht2)
  BY <1>1, <1>3, <1>10
<1> QED BY <1>1, <1>11, <1>12, <1>13, <1>14, ShapeGrows DEF ht2

LEMMA ShapeCreateNewRoot ==
  ASSUME NEW ht, Shape(node, root_page_id, split, ht), CreateNewRoot
  PROVE  Shape(node', root_page_id', split', Append(ht, ht[split.left] + 1))
<1> DEFINE r == Len(node) + 1
           g == ht[split.left] + 1
           ht2 == Append(ht, g)
<1>1. /\ split # NoSplit /\ split.left \in PageIds /\ split.right \in PageIds
      /\ split.key \in Keys /\ ht[split.left] = ht[split.right]
      /\ node' \in Seq(Nodes) /\ Len(node') = r
      /\ \A i \in 1 .. Len(node) :
           node'[i] = IF i \in {split.left, split.right}
                        THEN [node[i] EXCEPT !.parent = r] ELSE node[i]
      /\ node'[r] = InternalNode(INVALID_PAGE_ID, <<split.key>>, <<split.left, split.right>>)
      /\ split' = NoSplit /\ root_page_id' = r
  BY CreateNewRootDoes
<1>2. /\ Len(ht) = Len(node) /\ PageIds = 1 .. Len(node) /\ Len(node) \in Nat /\ ht \in Seq(Nat)
      /\ INVALID_PAGE_ID # r
  BY PagesAre
<1>3. ht[split.left] \in Nat /\ ht[split.left] < Len(ht)
  BY <1>1, NodeFacts
<1>4. g \in Nat /\ g \in 0 .. Len(ht)
  BY <1>2, <1>3
<1> HIDE DEF g
<1>5. /\ Len(ht2) = Len(ht) + 1 /\ ht2[Len(ht) + 1] = g
      /\ \A i \in 1 .. Len(ht) : i \in 1 .. Len(ht) + 1 /\ ht2[i] = ht[i]
  BY <1>2, <1>4, OneMore
<1> HIDE DEF ht2
<1>6. ASSUME NEW i \in 1 .. Len(ht) PROVE NodeFits(node'[i], ht[i], ht2)
  <2>1. i \in PageIds
    BY <1>2
  <2>2. ht[i] \in Nat /\ NodeFits(node[i], ht[i], ht)
    BY <2>1, NodeFacts
  <2>3. NodeFits(node[i], ht[i], ht2)
    BY <1>2, <1>4, <2>2, FitsInMore DEF ht2
  <2>4. CASE i \in {split.left, split.right}
    <3>1. node'[i] = [node[i] EXCEPT !.parent = r]
      BY <1>1, <1>2, <2>4
    <3>2. r \in 1 .. Len(ht2) /\ ht2[r] = ht[i] + 1 /\ r \in Nat
      BY <1>1, <1>2, <1>5, <2>4 DEF g
    <3>3. /\ node'[i] \in Nodes /\ node'[i].parent = r /\ node'[i].leaf = node[i].leaf
          /\ node'[i].next = node[i].next /\ node'[i].keys = node[i].keys /\ node'[i].vals = node[i].vals
      BY <2>2, <3>1, <3>2 DEF NodeFits, Nodes, Pointers
    <3> QED BY <2>3, <3>2, <3>3 DEF NodeFits
  <2>5. CASE i \notin {split.left, split.right}
    BY <1>1, <1>2, <2>3, <2>5
  <2> QED BY <2>4, <2>5
<1> DEFINE ks == <<split.key>>
           vs == <<split.left, split.right>>
<1>7. /\ ks \in Seq(Keys) /\ Len(ks) = 1 /\ Ascending(ks)
      /\ vs \in Seq(Nat) /\ Len(vs) = 2 /\ vs[1] = split.left /\ vs[2] = split.right
  <2>1. split.left \in Nat /\ split.right \in Nat
    BY <1>1, <1>2
  <2> QED BY <1>1, <2>1 DEF Ascending
<1> HIDE DEF ks, vs
<1>8. NodeFits(node'[r], g, ht2)
  <2>1. /\ node'[r] \in Nodes /\ ~node'[r].leaf /\ node'[r].parent = INVALID_PAGE_ID
        /\ node'[r].next = INVALID_PAGE_ID /\ node'[r].keys = ks /\ node'[r].vals = vs
    BY <1>1, <1>7 DEF InternalNode, Nodes, Pointers, ks, vs
  <2>2. g > 0 /\ Len(ks) \in 1 .. InternalMax /\ Len(vs) = Len(ks) + 1
    BY <1>3, <1>7, SizeAssumption DEF g
  <2>3. ASSUME NEW i \in 1 .. Len(vs) PROVE vs[i] \in 1 .. Len(ht2) /\ ht2[vs[i]] = g - 1
    <3>1. vs[i] \in {split.left, split.right}
      <4>1. i = 1 \/ i = 2
        BY <1>7
      <4> QED BY <1>7, <4>1
    <3>2. vs[i] \in 1 .. Len(ht) /\ ht[vs[i]] = ht[split.left]
      BY <1>1, <1>2, <3>1
    <3>3. g - 1 = ht[split.left]
      BY <1>3 DEF g
    <3> QED BY <1>2, <1>5, <3>2, <3>3
  <2> QED BY <1>7, <2>1, <2>2, <2>3 DEF NodeFits
<1>9. SplitFits(split', ht2)
  BY <1>1 DEF SplitFits
<1>10. /\ Len(node') = Len(ht) + 1 /\ NodeFits(node'[Len(ht) + 1], g, ht2)
       /\ root_page_id' \in 1 .. Len(ht) + 1
  BY <1>1, <1>2, <1>8
<1>11. Shape(node', root_page_id', split', ht2)
  BY <1>1, <1>4, <1>6, <1>9, <1>10, ShapeGrows DEF ht2
<1> QED BY <1>11 DEF ht2, g

\* The halves of a node that is split in two.
LEMMA InternalHalf ==
  ASSUME NEW ht, NEW e \in Nodes, e.keys \in Seq(Keys), e.vals \in Seq(Nat), NEW k, k = Len(e.keys),
         Len(e.vals) = k + 1, Ascending(e.keys), NEW h \in Nat, h > 0,
         \A i \in 1 .. Len(e.vals) : e.vals[i] \in 1 .. Len(ht) /\ ht[e.vals[i]] = h - 1,
         e.parent # INVALID_PAGE_ID => e.parent \in 1 .. Len(ht) /\ ht[e.parent] = h + 1,
         NEW a \in 1 .. k, NEW b \in a .. k, b - a < InternalMax
  PROVE  LET n == InternalNode(e.parent, SubSeq(e.keys, a, b), SubSeq(e.vals, a, b + 1))
         IN  /\ NodeFits(n, h, ht) /\ Len(SubSeq(e.keys, a, b)) = b - a + 1
             /\ Len(SubSeq(e.vals, a, b + 1)) = b - a + 2
             /\ \A i \in 1 .. b - a + 1 : SubSeq(e.keys, a, b)[i] = e.keys[a + i - 1]
             /\ \A i \in 1 .. b - a + 2 : SubSeq(e.vals, a, b + 1)[i] = e.vals[a + i - 1]
<1> DEFINE ks == SubSeq(e.keys, a, b)
           vs == SubSeq(e.vals, a, b + 1)
           n == InternalNode(e.parent, ks, vs)
<1>1. k \in Nat /\ e.keys \in Seq(Nat)
  BY LenProperties, KeysAreNumbers
<1>2. a \in 1 .. k + 1 /\ b \in a - 1 .. k
  BY <1>1
<1>3. a \in 1 .. Len(e.vals) + 1 /\ b + 1 \in a - 1 .. Len(e.vals) /\ (b + 1) - a + 1 = b - a + 2
  BY <1>1
<1>4. /\ ks \in Seq(Keys) /\ Len(ks) = b - a + 1
      /\ \A i \in 1 .. b - a + 1 : ks[i] = e.keys[a + i - 1]
  BY <1>2, Piece, SMTT(30)
<1>5. PICK c \in a - 1 .. Len(e.vals) : c = b + 1
  BY <1>3
<1>6. /\ vs \in Seq(Nat) /\ Len(vs) = b - a + 2
      /\ \A i \in 1 .. b - a + 2 : vs[i] = e.vals[a + i - 1]
  <2>1. PICK N : N = Nat
    OBVIOUS
  <2> DEFINE us == SubSeq(e.vals, a, c)
  <2>2. /\ us \in Seq(N) /\ Len(us) = c - a + 1
        /\ \A i \in 1 .. c - a + 1 : us[i] = e.vals[a + i - 1]
    <3>1. PICK w : w = e.vals
      OBVIOUS
    <3>2. w \in Seq(N) /\ a \in 1 .. Len(w) + 1 /\ c \in a - 1 .. Len(w)
      BY <1>3, <1>5, <2>1, <3>1
    <3> HIDE DEF us
    <3>3. /\ SubSeq(w, a, c) \in Seq(N) /\ Len(SubSeq(w, a, c)) = c - a + 1
          /\ \A i \in 1 .. c - a + 1 : SubSeq(w, a, c)[i] = w[a + i - 1]
      BY <3>2, Piece
    <3> QED BY <3>1, <3>3 DEF us
  <2>3. us = vs
    BY <1>5
  <2>4. c - a + 1 = b - a + 2
    BY <1>1, <1>5
  <2> HIDE DEF us, vs
  <2> QED BY <2>1, <2>2, <2>3, <2>4
<1>7. Ascending(ks)
  BY <1>1, <1>2, PieceSorted
<1> HIDE DEF ks, vs
<1>8. /\ n \in Nodes /\ ~n.leaf /\ n.parent = e.parent /\ n.next = INVALID_PAGE_ID
      /\ n.keys = ks /\ n.vals = vs
  <2>1. e.parent \in Pointers
    BY DEF Nodes
  <2> QED BY <1>4, <1>6, <2>1 DEF InternalNode, Nodes, Pointers
<1>9. ASSUME NEW i \in 1 .. Len(vs) PROVE vs[i] \in 1 .. Len(ht) /\ ht[vs[i]] = h - 1
  <2>1. i \in 1 .. b - a + 2
    BY <1>6
  <2>2. a + i - 1 \in 1 .. Len(e.vals) /\ vs[i] = e.vals[a + i - 1]
    <3>1. a + i - 1 \in 1 .. Len(e.vals)
      <4>1. a \in Int /\ b \in Int /\ i \in Int /\ k \in Int /\ Len(e.vals) \in Int
        BY <1>1, <2>1, LenProperties
      <4>2. 1 <= a /\ 1 <= i /\ i <= b - a + 2 /\ b <= k /\ Len(e.vals) = k + 1
        BY <1>1, <2>1
      <4> QED BY <4>1, <4>2
    <3>2. vs[i] = e.vals[a + i - 1]
      BY <1>6, <2>1
    <3> QED BY <3>1, <3>2
  <2> QED BY <2>2
<1>10. Len(ks) \in 1 .. InternalMax /\ Len(vs) = Len(ks) + 1
  BY <1>1, <1>4, <1>6, SizeAssumption
<1> HIDE DEF n
<1>11. NodeFits(n, h, ht)
  BY <1>6, <1>7, <1>8, <1>9, <1>10 DEF NodeFits
<1> QED BY <1>4, <1>6, <1>11 DEF n, ks, vs

LEMMA ShapeSplitFullParent ==
  ASSUME NEW ht, Shape(node, root_page_id, split, ht), SplitFullParent
  PROVE  Shape(node', root_page_id', split', Append(ht, ht[SplitParent]))
<1> DEFINE p == SplitParent
           e == ChildEntered(node[p])
           k == Len(e.keys)
           mid == k \div 2
           q == Len(node) + 1
           left == InternalNode(e.parent, SubSeq(e.keys, 1, mid), SubSeq(e.vals, 1, mid + 1))
           vs == SubSeq(e.vals, mid + 2, k + 1)
           right == InternalNode(e.parent, SubSeq(e.keys, mid + 2, k), vs)
           moved == ToSet(vs)
           h == ht[p]
           ht2 == Append(ht, h)
<1>1. /\ split # NoSplit /\ p \in PageIds /\ k = InternalMax + 1
      /\ mid \in 1 .. InternalMax - 1
      /\ node' \in Seq(Nodes) /\ Len(node') = q
      /\ node'[q] = right
      /\ split' = [left |-> p, key |-> e.keys[mid + 1], right |-> q]
  BY SplitFullParentDoes
<1>2. PICK lost \in SUBSET (moved \ {split.left, split.right}) :
        \A r \in 1 .. Len(node) :
          node'[r] = IF r \in moved \ lost
                       THEN [(IF r = p THEN left ELSE node[r]) EXCEPT !.parent = q]
                       ELSE IF r = p THEN left ELSE node[r]
  BY SplitFullParentDoes
<1> HIDE DEF p
<1>3. /\ ~node[p].leaf /\ e \in Nodes /\ e.parent = node[p].parent
      /\ e.keys \in Seq(Keys) /\ e.vals \in Seq(Nat) /\ Len(e.vals) = Len(node[p].keys) + 2
      /\ Len(e.keys) = Len(node[p].keys) + 1 /\ Ascending(e.keys) /\ Len(node[p].keys) \in 1 .. InternalMax
      /\ \A i \in 1 .. Len(e.vals) : e.vals[i] \in PageIds /\ ht[e.vals[i]] = h - 1
  BY <1>1, ChildEnteredTo DEF p
<1>4. /\ Len(ht) = Len(node) /\ PageIds = 1 .. Len(node) /\ Len(node) \in Nat /\ ht \in Seq(Nat)
      /\ INVALID_PAGE_ID # q
  BY PagesAre
<1>5. NodeFits(node[p], h, ht) /\ h \in Nat /\ h > 0 /\ h < Len(ht)
  <2>1. NodeFits(node[p], h, ht) /\ h \in Nat /\ h < Len(ht)
    BY <1>1, NodeFacts
  <2> QED BY <1>3, <2>1 DEF NodeFits
<1> HIDE DEF e, h
<1>6. /\ Len(ht2) = Len(ht) + 1 /\ ht2[Len(ht) + 1] = h
      /\ \A i \in 1 .. Len(ht) : i \in 1 .. Len(ht) + 1 /\ ht2[i] = ht[i]
  BY <1>4, <1>5, OneMore
<1>7. NodeFits(node[p], h, ht2)
  BY <1>4, <1>5, FitsInMore
<1> HIDE DEF ht2
<1>8. /\ \A i \in 1 .. Len(e.vals) : e.vals[i] \in 1 .. Len(ht2) /\ ht2[e.vals[i]] = h - 1
      /\ e.parent # INVALID_PAGE_ID => e.parent \in 1 .. Len(ht2) /\ ht2[e.parent] = h + 1
  <2>1. \A i \in 1 .. Len(e.vals) : e.vals[i] \in 1 .. Len(ht2) /\ ht2[e.vals[i]] = h - 1
    BY <1>3, <1>4, <1>6
  <2> QED BY <1>3, <1>7, <2>1 DEF NodeFits
<1>9. Len(e.vals) = k + 1
  BY <1>3, SizeAssumption
<1>10. k = Len(e.keys)
  OBVIOUS
<1> HIDE DEF k
<1>11. NodeFits(left, h, ht2)
  <2>1. 1 \in 1 .. k /\ mid \in 1 .. k /\ mid - 1 < InternalMax
    BY <1>1, SizeAssumption
  <2> HIDE DEF mid
  <2> QED BY <1>3, <1>5, <1>8, <1>9, <1>10, <2>1, InternalHalf
<1>12. /\ NodeFits(right, h, ht2) /\ Len(vs) = k - (mid + 2) + 2
       /\ \A i \in 1 .. k - (mid + 2) + 2 : vs[i] = e.vals[(mid + 2) + i - 1]
  <2>1. mid + 2 \in 1 .. k /\ k \in mid + 2 .. k /\ k - (mid + 2) < InternalMax
    BY <1>1, SizeAssumption
  <2> HIDE DEF mid
  <2>2. PICK a \in 1 .. k : a = mid + 2
    BY <2>1
  <2>3. k \in a .. k /\ k - a < InternalMax
    BY <2>1, <2>2
  <2> DEFINE n == InternalNode(e.parent, SubSeq(e.keys, a, k), SubSeq(e.vals, a, k + 1))
  <2>4. /\ NodeFits(n, h, ht2) /\ Len(SubSeq(e.vals, a, k + 1)) = k - a + 2
        /\ \A i \in 1 .. k - a + 2 : SubSeq(e.vals, a, k + 1)[i] = e.vals[a + i - 1]
    <3>1. PICK b \in a .. k : b = k
      BY <2>3
    <3>2. b - a < InternalMax
      BY <2>3, <3>1
    <3> DEFINE m == InternalNode(e.parent, SubSeq(e.keys, a, b), SubSeq(e.vals, a, b + 1))
    <3>3. /\ NodeFits(m, h, ht2) /\ Len(SubSeq(e.vals, a, b + 1)) = b - a + 2
          /\ \A i \in 1 .. b - a + 2 : SubSeq(e.vals, a, b + 1)[i] = e.vals[a + i - 1]
      <4>1. NodeFits(m, h, ht2)
        BY <1>3, <1>5, <1>8, <1>9, <1>10, <3>2, InternalHalf
      <4>2. Len(SubSeq(e.vals, a, b + 1)) = b - a + 2
        BY <1>3, <1>5, <1>8, <1>9, <1>10, <3>2, InternalHalf
      <4>3. \A i \in 1 .. b - a + 2 : SubSeq(e.vals, a, b + 1)[i] = e.vals[a + i - 1]
        BY <1>3, <1>5, <1>8, <1>9, <1>10, <3>2, InternalHalf
      <4> QED BY <4>1, <4>2, <4>3
    <3> QED BY <3>1, <3>3
  <2> QED BY <2>2, <2>4
<1>13. \A r \in moved : r \in PageIds /\ ht[r] = h - 1
  <2>1. vs \in Seq(Nat)
    BY <1>12 DEF NodeFits, InternalNode
  <2>2. ASSUME NEW i \in 1 .. Len(vs) PROVE vs[i] \in PageIds /\ ht[vs[i]] = h - 1
    <3>1. (mid + 2) + i - 1 \in 1 .. Len(e.vals) /\ i \in 1 .. k - (mid + 2) + 2
      BY <1>1, <1>9, <1>12, SizeAssumption
    <3>2. vs[i] = e.vals[(mid + 2) + i - 1]
      <4> HIDE DEF vs, mid
      <4> QED BY <1>12, <3>1
    <3> HIDE DEF vs, mid
    <3> QED BY <1>3, <3>1, <3>2
  <2> HIDE DEF vs
  <2> QED BY <2>1, <2>2, LenProperties DEF ToSet
<1>14. right.vals = vs /\ ~left.leaf
  BY DEF InternalNode
<1> HIDE DEF left, right, moved, vs, mid
<1>15. ASSUME NEW r \in 1 .. Len(ht) PROVE NodeFits(node'[r], ht[r], ht2)
  <2> DEFINE base == IF r = p THEN left ELSE node[r]
  <2>1. NodeFits(base, ht[r], ht2)
    <3>1. CASE r = p
      BY <1>11, <3>1 DEF h
    <3>2. CASE r # p
      <4>1. r \in PageIds
        BY <1>4
      <4>2. ht[r] \in Nat /\ NodeFits(node[r], ht[r], ht)
        BY <4>1, NodeFacts
      <4>3. NodeFits(node[r], ht[r], ht2)
        BY <1>4, <1>5, <4>2, FitsInMore DEF ht2
      <4> QED BY <3>2, <4>3
    <3> QED BY <3>1, <3>2
  <2>2. node'[r] = IF r \in moved \ lost THEN [base EXCEPT !.parent = q] ELSE base
    BY <1>2, <1>4
  <2> HIDE DEF base
  <2>3. CASE r \in moved \ lost
    <3>1. node'[r] = [base EXCEPT !.parent = q]
      BY <2>2, <2>3
    <3>2. q \in 1 .. Len(ht2) /\ ht2[q] = ht[r] + 1 /\ q \in Nat
      BY <1>4, <1>5, <1>6, <1>13, <2>3
    <3>3. /\ node'[r] \in Nodes /\ node'[r].parent = q /\ node'[r].leaf = base.leaf
          /\ node'[r].next = base.next /\ node'[r].keys = base.keys /\ node'[r].vals = base.vals
      BY <2>1, <3>1, <3>2 DEF NodeFits, Nodes, Pointers
    <3> HIDE DEF q
    <3> QED BY <2>1, <3>2, <3>3 DEF NodeFits
  <2>4. CASE r \notin moved \ lost
    BY <2>1, <2>2, <2>4
  <2> QED BY <2>3, <2>4
<1>16. SplitFits(split', ht2)
  <2>1. p \in 1 .. Len(ht2) /\ q \in 1 .. Len(ht2) /\ ht2[p] = h /\ ht2[q] = h
    BY <1>1, <1>4, <1>6 DEF h
  <2>2. e.keys[mid + 1] \in Keys
    <3>1. mid + 1 \in 1 .. Len(e.keys)
      BY <1>1, <1>10, SizeAssumption
    <3> QED BY <1>3, <3>1, ElementOfSeq
  <2> HIDE DEF q
  <2>3. split' = [left |-> p, key |-> e.keys[mid + 1], right |-> q]
    BY <1>1
  <2> QED BY <2>1, <2>2, <2>3 DEF SplitFits
<1>17. root_page_id' \in 1 .. Len(ht) + 1
  <2>1. root_page_id' = root_page_id
    BY DEF SplitFullParent
  <2>2. root_page_id \in PageIds
    BY <1>1, <1>4 DEF Shape, RootFits
  <2> QED BY <1>4, <2>1, <2>2
<1>18. h \in 0 .. Len(ht) /\ Len(node') = Len(ht) + 1 /\ NodeFits(node'[Len(ht) + 1], h, ht2)
  BY <1>1, <1>4, <1>5, <1>12, SMTT(30)
<1>19. Shape(node', root_page_id', split', ht2)
  BY <1>1, <1>15, <1>16, <1>17, <1>18, ShapeGrows DEF ht2
<1> QED BY <1>19 DEF ht2, h, p

-----------------------------------------------------------------------------
(* Types. *)

Shaped == (\E ht : Shape(node, root_page_id, split, ht)) /\ refused \in BOOLEAN

LEMMA ShapedInit == Init => Shaped
<1> SUFFICES ASSUME Init PROVE Shaped
  OBVIOUS
<1> DEFINE ht == <<>>
<1>1. ht \in Seq(Nat) /\ Len(ht) = 0 /\ node = <<>> /\ <<>> \in Seq(Nodes)
  BY DEF Init
<1>2. Shape(node, root_page_id, split, ht)
  BY <1>1 DEF Init, Shape, RootFits, SplitFits
<1> QED BY <1>2 DEF Shaped, Init

LEMMA ShapedStep == Shaped /\ [Next]_vars => Shaped'
<1> SUFFICES ASSUME Shaped, [Next]_vars PROVE Shaped'
  OBVIOUS
<1>1. PICK ht : Shape(node, root_page_id, split, ht)
  BY DEF Shaped
<1>2. ASSUME UNCHANGED vars PROVE Shaped'
  BY <1>1, <1>2 DEF Shaped, vars
<1>3. ASSUME NEW ht2, Shape(node', root_page_id', split', ht2), refused' \in BOOLEAN
      PROVE  Shaped'
  BY <1>3 DEF Shaped
<1>4. ASSUME NEW key \in Keys, NEW rid \in RIDs, Insert(key, rid) PROVE Shaped'
  <2>1. CASE InsertFirst(key, rid)
    <3>1. refused' \in BOOLEAN
      BY <2>1 DEF InsertFirst, Shaped
    <3> QED BY <1>1, <1>3, <2>1, <3>1, ShapeInsertFirst
  <2>2. CASE InsertInLeaf(key, rid)
    <3>1. refused' \in BOOLEAN
      BY <2>2 DEF InsertInLeaf, Shaped
    <3> QED BY <1>1, <1>3, <2>2, <3>1, ShapeInsertInLeaf
  <2>3. CASE SplitLeaf(key, rid)
    <3>1. refused' \in BOOLEAN
      BY <2>3 DEF SplitLeaf, Shaped
    <3> QED BY <1>1, <1>3, <2>3, <3>1, ShapeSplitLeaf
  <2> QED BY <1>4, <2>1, <2>2, <2>3 DEF Insert
<1>5. ASSUME NEW key \in Keys, NEW rid \in RIDs, Delete(key, rid) PROVE Shaped'
  <2>1. refused' \in BOOLEAN
    BY <1>5 DEF Delete, Shaped
  <2> QED BY <1>1, <1>3, <1>5, <2>1, ShapeDelete
<1>6. ASSUME InsertInParent PROVE Shaped'
  <2>1. refused' \in BOOLEAN
    BY <1>6 DEF InsertInParent, Shaped
  <2> QED BY <1>1, <1>3, <1>6, <2>1, ShapeInsertInParent
<1>7. ASSUME SplitFullParent PROVE Shaped'
  <2>1. refused' \in BOOLEAN
    BY <1>1, <1>7, SplitFullParentDoes DEF Shaped
  <2> QED BY <1>1, <1>3, <1>7, <2>1, ShapeSplitFullParent
<1>8. ASSUME CreateNewRoot PROVE Shaped'
  <2>1. refused' \in BOOLEAN
    BY <1>8 DEF CreateNewRoot, Shaped
  <2> QED BY <1>1, <1>3, <1>8, <2>1, ShapeCreateNewRoot
<1>9. ASSUME SplitRefused PROVE Shaped'
  <2>1. /\ refused' \in BOOLEAN /\ split' = NoSplit
        /\ node' = node /\ root_page_id' = root_page_id
    BY <1>9 DEF SplitRefused
  <2>2. Shape(node', root_page_id', split', ht)
    BY <1>1, <2>1 DEF Shape, SplitFits
  <2> QED BY <1>3, <2>1, <2>2
<1> QED BY <1>2, <1>4, <1>5, <1>6, <1>7, <1>8, <1>9 DEF Next

LEMMA ShapedIsTyped == Shaped => TypeOK
<1> SUFFICES ASSUME Shaped PROVE TypeOK
  OBVIOUS
<1>1. PICK ht : Shape(node, root_page_id, split, ht)
  BY DEF Shaped
<1>2. /\ Len(ht) = Len(node) /\ PageIds = 1 .. Len(node) /\ Len(node) \in Nat
  BY <1>1, PagesAre
<1>3. ASSUME NEW p \in PageIds
      PROVE  LET n == node[p]
             IN  /\ n.parent \in PageIds \cup {INVALID_PAGE_ID}
                 /\ n.next \in PageIds \cup {INVALID_PAGE_ID}
                 /\ n.keys \in Seq(Keys)
                 /\ IF n.leaf THEN /\ Len(n.keys) <= LeafMax /\ Len(n.vals) = Len(n.keys)
                                   /\ n.vals \in Seq(RIDs)
                    ELSE /\ Len(n.keys) \in 1 .. InternalMax /\ Len(n.vals) = Len(n.keys) + 1
                         /\ n.vals \in Seq(PageIds)
  <2>1. NodeFits(node[p], ht[p], ht) /\ node[p].keys \in Seq(Keys)
    BY <1>1, NodeFacts
  <2>2. ASSUME ~node[p].leaf PROVE node[p].vals \in Seq(PageIds)
    <3>1. /\ node[p].vals \in Seq(Nat)
          /\ \A i \in 1 .. Len(node[p].vals) : node[p].vals[i] \in PageIds
      BY <1>2, <2>1, <2>2 DEF NodeFits
    <3> DEFINE s == node[p].vals
    <3>2. Len(s) \in Nat /\ s = [i \in 1 .. Len(s) |-> s[i]]
      BY <3>1, LenProperties
    <3> HIDE DEF s
    <3>3. s \in [1 .. Len(s) -> PageIds]
      BY <3>1, <3>2 DEF s
    <3>4. s \in Seq(PageIds)
      BY <3>2, <3>3, SequenceOf
    <3> QED BY <3>4 DEF s
  <2> QED BY <1>2, <2>1, <2>2 DEF NodeFits
<1>4. root_page_id \in PageIds \cup {INVALID_PAGE_ID}
  BY <1>1, <1>2 DEF Shape, RootFits
<1>5. split = NoSplit \/ split \in [left : PageIds, key : Keys, right : PageIds]
  BY <1>1, <1>2 DEF Shape, SplitFits
<1> QED BY <1>3, <1>4, <1>5 DEF TypeOK, Shaped

LEMMA AlwaysShaped == Spec => []Shaped
BY ShapedInit, ShapedStep, PTL DEF Spec

\* btree.h, the node layouts: keys and values stay within the capacity of a page, an
\* internal node keeps one child more than keys, and what names a page names one there is.
THEOREM TypeCorrect == Spec => []TypeOK
BY AlwaysShaped, ShapedIsTyped, PTL

-----------------------------------------------------------------------------
(* Entries. *)

\* The entries of a leaf, and that none is there twice.
Held(n) == ToSet(Entries(n))
Single(n) == \A i, j \in 1 .. Len(n.keys) :
               n.keys[i] = n.keys[j] /\ n.vals[i] = n.vals[j] => i = j

LEMMA HeldIs ==
  ASSUME NEW n, n.keys \in Seq(Keys)
  PROVE  /\ Len(n.keys) \in Nat
         /\ \A i \in 1 .. Len(n.keys) : <<n.keys[i], n.vals[i]>> \in Held(n)
         /\ \A x \in Held(n) : \E i \in 1 .. Len(n.keys) : x = <<n.keys[i], n.vals[i]>>
<1>1. DOMAIN n.keys = 1 .. Len(n.keys) /\ Len(n.keys) \in Nat
  BY LenProperties
<1>2. Held(n) = {<<n.keys[i], n.vals[i]>> : i \in 1 .. Len(n.keys)}
  <2>1. DOMAIN Entries(n) = 1 .. Len(n.keys)
    BY <1>1 DEF Entries
  <2>2. \A i \in 1 .. Len(n.keys) : Entries(n)[i] = <<n.keys[i], n.vals[i]>>
    BY <1>1 DEF Entries
  <2> QED BY <2>1, <2>2 DEF Held, ToSet
<1> QED BY <1>1, <1>2

LEMMA EntryAddedHeld ==
  ASSUME NEW n, NEW e, n.keys \in Seq(Keys), n.vals \in Seq(RIDs), Len(n.vals) = Len(n.keys),
         NEW key \in Keys, NEW rid \in RIDs, NEW pos \in 0 .. Len(n.keys),
         e.keys = InsertAt(n.keys, pos + 1, key), e.vals = InsertAt(n.vals, pos + 1, rid)
  PROVE  /\ Held(e) = Held(n) \cup {<<key, rid>>}
         /\ Single(n) /\ <<key, rid>> \notin Held(n) => Single(e)
<1> DEFINE L == Len(n.keys)
<1>1. L \in Nat
  BY LenProperties
<1>2. PICK k \in 1 .. L + 1 : k = pos + 1
  BY <1>1
<1>3. /\ e.keys \in Seq(Keys) /\ Len(e.keys) = L + 1
      /\ \A i \in 1 .. L + 1 :
           e.keys[i] = IF i < k THEN n.keys[i] ELSE IF i = k THEN key ELSE n.keys[i - 1]
  <2> DEFINE t == InsertAt(n.keys, k, key)
  <2>1. /\ t \in Seq(Keys) /\ Len(t) = L + 1
        /\ \A i \in 1 .. L + 1 : t[i] = IF i < k THEN n.keys[i] ELSE IF i = k THEN key ELSE n.keys[i - 1]
    <3>1. PICK w : w = n.keys
      OBVIOUS
    <3>2. w \in Seq(Keys) /\ k \in 1 .. Len(w) + 1 /\ L = Len(w)
      BY <3>1
    <3> HIDE DEF t, L
    <3>3. /\ InsertAt(w, k, key) \in Seq(Keys) /\ Len(InsertAt(w, k, key)) = Len(w) + 1
          /\ \A i \in 1 .. Len(w) + 1 :
               InsertAt(w, k, key)[i] = IF i < k THEN w[i] ELSE IF i = k THEN key ELSE w[i - 1]
      <4>1. InsertAt(w, k, key) \in Seq(Keys) /\ Len(InsertAt(w, k, key)) = Len(w) + 1
        BY <3>2, Inserted
      <4>2. \A i \in 1 .. Len(w) + 1 :
              InsertAt(w, k, key)[i] = IF i < k THEN w[i] ELSE IF i = k THEN key ELSE w[i - 1]
        BY <3>2, Inserted, SMTT(30)
      <4> QED BY <4>1, <4>2
    <3> QED BY <3>1, <3>2, <3>3 DEF t
  <2>2. e.keys = t
    BY <1>2
  <2> HIDE DEF t
  <2> QED BY <2>1, <2>2
<1>4. \A i \in 1 .. L + 1 :
        e.vals[i] = IF i < k THEN n.vals[i] ELSE IF i = k THEN rid ELSE n.vals[i - 1]
  <2> DEFINE t == InsertAt(n.vals, k, rid)
  <2>1. k \in 1 .. Len(n.vals) + 1
    BY <1>1
  <2>2. \A i \in 1 .. Len(n.vals) + 1 :
          t[i] = IF i < k THEN n.vals[i] ELSE IF i = k THEN rid ELSE n.vals[i - 1]
    <3>1. PICK w : w = n.vals
      OBVIOUS
    <3>2. w \in Seq(RIDs) /\ k \in 1 .. Len(w) + 1
      BY <2>1, <3>1
    <3> HIDE DEF t, L
    <3>3. \A i \in 1 .. Len(w) + 1 :
            InsertAt(w, k, rid)[i] = IF i < k THEN w[i] ELSE IF i = k THEN rid ELSE w[i - 1]
      BY <3>2, Inserted
    <3> QED BY <3>1, <3>3 DEF t
  <2>3. e.vals = t
    BY <1>2
  <2> HIDE DEF t
  <2> QED BY <2>2, <2>3
<1>5. ASSUME NEW x \in Held(e) PROVE x \in Held(n) \cup {<<key, rid>>}
  <2>1. PICK i \in 1 .. L + 1 : x = <<e.keys[i], e.vals[i]>>
    BY <1>3, HeldIs, ZenonT(30)
  <2>2. CASE i < k
    <3>1. i \in 1 .. L /\ x = <<n.keys[i], n.vals[i]>>
      BY <1>1, <1>3, <1>4, <2>1, <2>2
    <3> QED BY <3>1, HeldIs
  <2>3. CASE i = k
    BY <1>3, <1>4, <2>1, <2>3
  <2>4. CASE i > k
    <3>1. i - 1 \in 1 .. L /\ x = <<n.keys[i - 1], n.vals[i - 1]>>
      BY <1>1, <1>3, <1>4, <2>1, <2>4
    <3> QED BY <3>1, HeldIs
  <2> QED BY <1>1, <2>2, <2>3, <2>4
<1>6. ASSUME NEW x \in Held(n) PROVE x \in Held(e)
  <2>1. PICK i \in 1 .. L : x = <<n.keys[i], n.vals[i]>>
    BY HeldIs
  <2>2. CASE i < k
    <3>1. i \in 1 .. L + 1 /\ x = <<e.keys[i], e.vals[i]>>
      BY <1>1, <1>3, <1>4, <2>1, <2>2
    <3> QED BY <1>3, <3>1, HeldIs
  <2>3. CASE i >= k
    <3>1. i + 1 \in 1 .. L + 1 /\ ~(i + 1 < k) /\ i + 1 # k /\ (i + 1) - 1 = i
      BY <1>1, <2>3
    <3>2. x = <<e.keys[i + 1], e.vals[i + 1]>>
      BY <1>3, <1>4, <2>1, <3>1
    <3> QED BY <1>3, <3>1, <3>2, HeldIs
  <2> QED BY <1>1, <2>2, <2>3
<1>7. <<key, rid>> \in Held(e)
  <2>1. e.keys[k] = key /\ e.vals[k] = rid
    <3>1. k \in 1 .. L + 1 /\ ~(k < k)
      BY <1>1
    <3> QED BY <1>3, <1>4, <3>1
  <2>2. <<e.keys[k], e.vals[k]>> \in Held(e)
    BY <1>3, HeldIs
  <2> QED BY <2>1, <2>2
<1>8. ASSUME Single(n), <<key, rid>> \notin Held(n) PROVE Single(e)
  <2>1. SUFFICES ASSUME NEW i \in 1 .. L + 1, NEW j \in 1 .. L + 1, i < j,
                        e.keys[i] = e.keys[j], e.vals[i] = e.vals[j]
                 PROVE  FALSE
    <3>1. SUFFICES ASSUME NEW i \in 1 .. L + 1, NEW j \in 1 .. L + 1,
                          e.keys[i] = e.keys[j], e.vals[i] = e.vals[j]
                   PROVE  i = j
      BY <1>3 DEF Single
    <3>2. ~(i < j) /\ ~(j < i)
      BY <2>1, <3>1
    <3> QED BY <1>1, <3>2
  <2>2. \A m \in 1 .. L : ~(n.keys[m] = key /\ n.vals[m] = rid)
    BY <1>8, HeldIs
  <2>3. CASE j < k
    <3>1. /\ i \in 1 .. L /\ j \in 1 .. L /\ n.keys[i] = n.keys[j] /\ n.vals[i] = n.vals[j]
      BY <1>1, <1>3, <1>4, <2>1, <2>3
    <3> QED BY <1>8, <2>1, <3>1 DEF Single
  <2>4. CASE j = k
    <3>1. i \in 1 .. L /\ n.keys[i] = key /\ n.vals[i] = rid
      BY <1>1, <1>3, <1>4, <2>1, <2>4
    <3> QED BY <2>2, <3>1
  <2>5. CASE j > k /\ i < k
    <3>1. /\ i \in 1 .. L /\ j - 1 \in 1 .. L /\ i # j - 1
          /\ n.keys[i] = n.keys[j - 1] /\ n.vals[i] = n.vals[j - 1]
      BY <1>1, <1>3, <1>4, <2>1, <2>5
    <3> QED BY <1>8, <3>1 DEF Single
  <2>6. CASE j > k /\ i = k
    <3>1. j - 1 \in 1 .. L /\ n.keys[j - 1] = key /\ n.vals[j - 1] = rid
      BY <1>1, <1>3, <1>4, <2>1, <2>6, SMTT(30)
    <3> QED BY <2>2, <3>1
  <2>7. CASE j > k /\ i > k
    <3>1. /\ i - 1 \in 1 .. L /\ j - 1 \in 1 .. L /\ i - 1 # j - 1
          /\ n.keys[i - 1] = n.keys[j - 1] /\ n.vals[i - 1] = n.vals[j - 1]
      BY <1>1, <1>3, <1>4, <2>1, <2>7
    <3> QED BY <1>8, <3>1 DEF Single
  <2> QED BY <1>1, <2>3, <2>4, <2>5, <2>6, <2>7
<1> QED BY <1>5, <1>6, <1>7, <1>8

\* A part of a sequence, as a name that the provers leave alone.
Cut(s, m, n) == SubSeq(s, m, n)

LEMMA HalvesHeld ==
  ASSUME NEW n, NEW a, NEW b, n.keys \in Seq(Keys), n.vals \in Seq(RIDs), NEW m,
         m = Len(n.keys), Len(n.vals) = m, NEW pos \in 0 .. m,
         a.keys = Cut(n.keys, 1, pos), a.vals = Cut(n.vals, 1, pos),
         b.keys = Cut(n.keys, pos + 1, m), b.vals = Cut(n.vals, pos + 1, m)
  PROVE  /\ Held(n) = Held(a) \cup Held(b)
         /\ Single(n) => Single(a) /\ Single(b) /\ Held(a) \cap Held(b) = {}
         /\ a.keys \in Seq(Keys) /\ b.keys \in Seq(Keys) /\ Len(a.keys) = pos /\ Len(b.keys) = m - pos
         /\ \A i \in 1 .. pos : a.keys[i] = n.keys[i] /\ a.vals[i] = n.vals[i]
         /\ \A i \in 1 .. m - pos : b.keys[i] = n.keys[pos + i] /\ b.vals[i] = n.vals[pos + i]
<1>1. m \in Nat
  BY LenProperties
<1>2. /\ a.keys \in Seq(Keys) /\ Len(a.keys) = pos
      /\ \A i \in 1 .. pos : a.keys[i] = n.keys[i] /\ a.vals[i] = n.vals[i]
  <2>1. 1 \in 1 .. m + 1 /\ pos \in 1 - 1 .. m
    BY <1>1
  <2>2. /\ SubSeq(n.keys, 1, pos) \in Seq(Keys) /\ Len(SubSeq(n.keys, 1, pos)) = pos - 1 + 1
        /\ \A i \in 1 .. pos - 1 + 1 : SubSeq(n.keys, 1, pos)[i] = n.keys[1 + i - 1]
    BY <2>1, Piece
  <2>3. \A i \in 1 .. pos - 1 + 1 : SubSeq(n.vals, 1, pos)[i] = n.vals[1 + i - 1]
    BY <2>1, Piece
  <2>4. pos - 1 + 1 = pos /\ \A i \in 1 .. pos : 1 + i - 1 = i
    OBVIOUS
  <2> QED BY <2>2, <2>3, <2>4 DEF Cut
<1>3. /\ b.keys \in Seq(Keys) /\ Len(b.keys) = m - pos
      /\ \A i \in 1 .. m - pos : b.keys[i] = n.keys[pos + i] /\ b.vals[i] = n.vals[pos + i]
  <2>1. PICK c \in 1 .. m + 1 : c = pos + 1
    BY <1>1
  <2>2. m \in c - 1 .. m
    BY <1>1, <2>1
  <2>3. /\ SubSeq(n.keys, c, m) \in Seq(Keys) /\ Len(SubSeq(n.keys, c, m)) = m - c + 1
        /\ \A i \in 1 .. m - c + 1 : SubSeq(n.keys, c, m)[i] = n.keys[c + i - 1]
    BY <2>2, Piece
  <2>4. \A i \in 1 .. m - c + 1 : SubSeq(n.vals, c, m)[i] = n.vals[c + i - 1]
    <3>1. c \in 1 .. Len(n.vals) + 1 /\ m \in c - 1 .. Len(n.vals)
      BY <2>1, <2>2
    <3> QED BY <3>1, Piece
  <2>5. m - c + 1 = m - pos /\ \A i \in 1 .. m - pos : c + i - 1 = pos + i
    BY <1>1, <2>1
  <2> QED BY <2>1, <2>3, <2>4, <2>5, SMTT(30) DEF Cut
<1>4. ASSUME NEW x \in Held(n) PROVE x \in Held(a) \cup Held(b)
  <2>1. PICK i \in 1 .. m : x = <<n.keys[i], n.vals[i]>>
    BY HeldIs
  <2>2. CASE i <= pos
    <3>1. i \in 1 .. pos /\ x = <<a.keys[i], a.vals[i]>>
      BY <1>2, <2>1, <2>2
    <3> QED BY <1>2, <3>1, HeldIs
  <2>3. CASE i > pos
    <3>1. i - pos \in 1 .. m - pos /\ pos + (i - pos) = i
      BY <1>1, <2>3
    <3>2. x = <<b.keys[i - pos], b.vals[i - pos]>>
      BY <1>3, <2>1, <3>1
    <3> QED BY <1>3, <3>1, <3>2, HeldIs
  <2> QED BY <2>2, <2>3
<1>5. ASSUME NEW x \in Held(a) PROVE x \in Held(n)
  <2>1. PICK i \in 1 .. pos : x = <<a.keys[i], a.vals[i]>>
    BY <1>2, HeldIs
  <2>2. i \in 1 .. m /\ x = <<n.keys[i], n.vals[i]>>
    BY <1>1, <1>2, <2>1
  <2> QED BY <2>2, HeldIs
<1>6. ASSUME NEW x \in Held(b) PROVE x \in Held(n)
  <2>1. PICK i \in 1 .. m - pos : x = <<b.keys[i], b.vals[i]>>
    <3>1. b.keys \in Seq(Keys) /\ Len(b.keys) = m - pos
      BY <1>3
    <3>2. PICK i \in 1 .. Len(b.keys) : x = <<b.keys[i], b.vals[i]>>
      BY <3>1, HeldIs
    <3> QED BY <3>1, <3>2
  <2>2. pos + i \in 1 .. m /\ x = <<n.keys[pos + i], n.vals[pos + i]>>
    BY <1>1, <1>3, <2>1
  <2> QED BY <2>2, HeldIs
<1>7. ASSUME Single(n) PROVE Single(a) /\ Single(b) /\ Held(a) \cap Held(b) = {}
  <2>1. Single(a)
    <3>1. \A i \in 1 .. pos : i \in 1 .. m
      BY <1>1
    <3> QED BY <1>2, <1>7, <3>1 DEF Single
  <2>2. Single(b)
    <3> SUFFICES ASSUME NEW i \in 1 .. m - pos, NEW j \in 1 .. m - pos,
                        b.keys[i] = b.keys[j], b.vals[i] = b.vals[j]
                 PROVE  i = j
      BY <1>3 DEF Single
    <3>1. pos + i \in 1 .. m /\ pos + j \in 1 .. m
      BY <1>1
    <3>2. pos + i = pos + j
      BY <1>3, <1>7, <3>1 DEF Single
    <3> QED BY <3>2
  <2>3. ASSUME NEW x \in Held(a), x \in Held(b) PROVE FALSE
    <3>1. PICK i \in 1 .. pos : x = <<a.keys[i], a.vals[i]>>
      BY <1>2, HeldIs
    <3>2. PICK j \in 1 .. m - pos : x = <<b.keys[j], b.vals[j]>>
      <4>1. b.keys \in Seq(Keys) /\ Len(b.keys) = m - pos
        BY <1>3
      <4>2. PICK j \in 1 .. Len(b.keys) : x = <<b.keys[j], b.vals[j]>>
        BY <2>3, <4>1, HeldIs
      <4> QED BY <4>1, <4>2
    <3>3. /\ i \in 1 .. m /\ pos + j \in 1 .. m /\ i # pos + j
      BY <1>1
    <3>4. n.keys[i] = n.keys[pos + j] /\ n.vals[i] = n.vals[pos + j]
      BY <1>2, <1>3, <3>1, <3>2
    <3> QED BY <1>7, <3>3, <3>4 DEF Single
  <2> QED BY <2>1, <2>2, <2>3
<1> QED BY <1>2, <1>3, <1>4, <1>5, <1>6, <1>7

LEMMA RemovedHeld ==
  ASSUME NEW n, NEW e, n.keys \in Seq(Keys), n.vals \in Seq(RIDs), Len(n.vals) = Len(n.keys),
         NEW k \in 1 .. Len(n.keys), Single(n),
         e.keys = RemoveAt(n.keys, k), e.vals = RemoveAt(n.vals, k)
  PROVE  Held(e) = Held(n) \ {<<n.keys[k], n.vals[k]>>} /\ Single(e)
<1> DEFINE L == Len(n.keys)
<1>1. L \in Nat
  BY LenProperties
<1>2. /\ e.keys \in Seq(Keys) /\ Len(e.keys) = L - 1
      /\ \A i \in 1 .. L - 1 : e.keys[i] = IF i < k THEN n.keys[i] ELSE n.keys[i + 1]
  BY Removed
<1>3. \A i \in 1 .. L - 1 : e.vals[i] = IF i < k THEN n.vals[i] ELSE n.vals[i + 1]
  <2>1. k \in 1 .. Len(n.vals)
    OBVIOUS
  <2>2. \A i \in 1 .. Len(n.vals) - 1 :
          RemoveAt(n.vals, k)[i] = IF i < k THEN n.vals[i] ELSE n.vals[i + 1]
    BY <2>1, Removed
  <2> QED BY <2>2
<1>4. ASSUME NEW i \in 1 .. L - 1
      PROVE  LET j == IF i < k THEN i ELSE i + 1
             IN  j \in 1 .. L /\ j # k /\ e.keys[i] = n.keys[j] /\ e.vals[i] = n.vals[j]
  <2>1. CASE i < k
    <3>1. i \in 1 .. L /\ i # k
      BY <1>1, <2>1
    <3> QED BY <1>2, <1>3, <2>1, <3>1
  <2>2. CASE ~(i < k)
    <3>1. i + 1 \in 1 .. L /\ i + 1 # k
      BY <1>1, <2>2
    <3> QED BY <1>2, <1>3, <2>2, <3>1
  <2> QED BY <2>1, <2>2
<1>5. ASSUME NEW x \in Held(e) PROVE x \in Held(n) /\ x # <<n.keys[k], n.vals[k]>>
  <2>1. PICK i \in 1 .. L - 1 : x = <<e.keys[i], e.vals[i]>>
    <3>1. e.keys \in Seq(Keys) /\ Len(e.keys) = L - 1
      BY <1>2
    <3>2. PICK i \in 1 .. Len(e.keys) : x = <<e.keys[i], e.vals[i]>>
      BY <3>1, HeldIs
    <3> QED BY <3>1, <3>2
  <2>2. PICK j \in 1 .. L : j # k /\ x = <<n.keys[j], n.vals[j]>>
    BY <1>4, <2>1
  <2> QED BY <2>2, HeldIs DEF Single
<1>6. ASSUME NEW x \in Held(n), x # <<n.keys[k], n.vals[k]>> PROVE x \in Held(e)
  <2>1. PICK i \in 1 .. L : x = <<n.keys[i], n.vals[i]>>
    BY HeldIs
  <2>2. i # k
    BY <1>6, <2>1
  <2>3. CASE i < k
    <3>1. i \in 1 .. L - 1 /\ x = <<e.keys[i], e.vals[i]>>
      BY <1>1, <1>2, <1>3, <2>1, <2>3
    <3> QED BY <1>2, <3>1, HeldIs
  <2>4. CASE i > k
    <3>1. i - 1 \in 1 .. L - 1 /\ ~(i - 1 < k) /\ (i - 1) + 1 = i
      BY <1>1, <2>4
    <3>2. x = <<e.keys[i - 1], e.vals[i - 1]>>
      BY <1>2, <1>3, <2>1, <3>1
    <3> QED BY <1>2, <3>1, <3>2, HeldIs
  <2> QED BY <2>2, <2>3, <2>4
<1>7. Single(e)
  <2> SUFFICES ASSUME NEW i \in 1 .. L - 1, NEW j \in 1 .. L - 1,
                      e.keys[i] = e.keys[j], e.vals[i] = e.vals[j]
               PROVE  i = j
    BY <1>2 DEF Single
  <2> DEFINE f(x) == IF x < k THEN x ELSE x + 1
  <2>1. /\ f(i) \in 1 .. L /\ e.keys[i] = n.keys[f(i)] /\ e.vals[i] = n.vals[f(i)]
        /\ f(j) \in 1 .. L /\ e.keys[j] = n.keys[f(j)] /\ e.vals[j] = n.vals[f(j)]
    BY <1>4
  <2>2. f(i) = f(j)
    <3> HIDE DEF f
    <3> QED BY <2>1 DEF Single
  <2> QED BY <2>2
<1> QED BY <1>5, <1>6, <1>7

-----------------------------------------------------------------------------
(* The leaves: the chain that links them and what they hold. *)

LeafPages(nodes) == {p \in 1 .. Len(nodes) : nodes[p].leaf}

\* ch is the chain.
Linked(nodes, ch) ==
  /\ ch \in Seq(Nat)
  /\ \A p \in LeafPages(nodes) : \E i \in 1 .. Len(ch) : ch[i] = p
  /\ \A i, j \in 1 .. Len(ch) : ch[i] = ch[j] => i = j
  /\ \A i \in 1 .. Len(ch) :
       /\ ch[i] \in LeafPages(nodes)
       /\ nodes[ch[i]].next = IF i = Len(ch) THEN INVALID_PAGE_ID ELSE ch[i + 1]
  /\ Len(nodes) > 0 => Len(ch) > 0 /\ ch[1] = 1

\* No entry is in two places.
Kept(nodes) ==
  /\ \A p \in LeafPages(nodes) : Single(nodes[p])
  /\ \A p, q \in LeafPages(nodes) : p # q => Held(nodes[p]) \cap Held(nodes[q]) = {}

All(nodes) == UNION {Held(nodes[p]) : p \in LeafPages(nodes)}

LEMMA ContentsIs ==
  ASSUME NEW ht, Shape(node, root_page_id, split, ht)
  PROVE  Contents = All(node) /\ LeafPages(node) = {p \in PageIds : node[p].leaf}
<1>1. PageIds = 1 .. Len(node)
  BY PagesAre
<1> QED BY <1>1 DEF Contents, All, LeafPages, Held

LEMMA HeldSame ==
  ASSUME NEW n, NEW n2, n2.keys = n.keys, n2.vals = n.vals
  PROVE  Held(n2) = Held(n) /\ Single(n2) = Single(n)
BY DEF Held, Single, Entries

LEMMA LinkedSame ==
  ASSUME NEW nodes, NEW nodes2, NEW ch, Linked(nodes, ch), Len(nodes) > 0,
         LeafPages(nodes2) = LeafPages(nodes),
         \A p \in LeafPages(nodes) : nodes2[p].next = nodes[p].next
  PROVE  Linked(nodes2, ch)
BY DEF Linked

\* Steps among the internal nodes.
LeavesSame(nodes, nodes2) ==
  /\ LeafPages(nodes2) = LeafPages(nodes)
  /\ \A p \in LeafPages(nodes) : /\ nodes2[p].next = nodes[p].next
                                 /\ nodes2[p].keys = nodes[p].keys /\ nodes2[p].vals = nodes[p].vals

LEMMA LeavesSameKeeps ==
  ASSUME NEW nodes, NEW nodes2, NEW ch, LeavesSame(nodes, nodes2), Linked(nodes, ch), Kept(nodes),
         Len(nodes) > 0
  PROVE  Linked(nodes2, ch) /\ Kept(nodes2) /\ All(nodes2) = All(nodes)
<1>1. Linked(nodes2, ch)
  BY LinkedSame DEF LeavesSame
<1>2. \A p \in LeafPages(nodes) : Held(nodes2[p]) = Held(nodes[p]) /\ Single(nodes2[p]) = Single(nodes[p])
  BY HeldSame DEF LeavesSame
<1>3. Kept(nodes2)
  BY <1>2 DEF Kept, LeavesSame
<1>4. All(nodes2) = All(nodes)
  BY <1>2 DEF All, LeavesSame
<1> QED BY <1>1, <1>3, <1>4

LEMMA SameInsertInParent ==
  ASSUME NEW ht, Shape(node, root_page_id, split, ht), InsertInParent
  PROVE  LeavesSame(node, node')
<1> DEFINE p == SplitParent
           e == ChildEntered(node[p])
<1>1. /\ split # NoSplit /\ p \in PageIds /\ Len(node') = Len(node)
      /\ \A r \in 1 .. Len(node) : node'[r] = IF r = p THEN e ELSE node[r]
  BY InsertInParentDoes
<1>2. ~node[p].leaf /\ ~e.leaf
  BY <1>1, ChildEnteredTo
<1> HIDE DEF p, e
<1>3. LeafPages(node') = LeafPages(node)
  BY <1>1, <1>2 DEF LeafPages
<1>4. \A r \in LeafPages(node) : node'[r] = node[r]
  BY <1>1, <1>2 DEF LeafPages
<1> QED BY <1>3, <1>4 DEF LeavesSame

LEMMA SameCreateNewRoot ==
  ASSUME NEW ht, Shape(node, root_page_id, split, ht), CreateNewRoot
  PROVE  LeavesSame(node, node')
<1> DEFINE r == Len(node) + 1
<1>1. /\ Len(node') = r
      /\ \A i \in 1 .. Len(node) :
           node'[i] = IF i \in {split.left, split.right}
                        THEN [node[i] EXCEPT !.parent = r] ELSE node[i]
      /\ node'[r] = InternalNode(INVALID_PAGE_ID, <<split.key>>, <<split.left, split.right>>)
  BY CreateNewRootDoes
<1>2. Len(node) \in Nat /\ \A i \in 1 .. Len(node) : node[i] \in Nodes
  BY PagesAre, ElementOfSeq
<1>3. \A i \in 1 .. Len(node) : /\ node'[i].leaf = node[i].leaf /\ node'[i].next = node[i].next
                                /\ node'[i].keys = node[i].keys /\ node'[i].vals = node[i].vals
  BY <1>1, <1>2 DEF Nodes
<1>4. ~node'[r].leaf
  BY <1>1 DEF InternalNode
<1>5. \A i : i \in 1 .. r <=> i \in 1 .. Len(node) \/ i = r
  BY <1>2
<1> HIDE DEF r
<1>6. LeafPages(node') = LeafPages(node)
  BY <1>1, <1>3, <1>4, <1>5 DEF LeafPages
<1> QED BY <1>3, <1>6 DEF LeavesSame, LeafPages

LEMMA SameSplitFullParent ==
  ASSUME NEW ht, Shape(node, root_page_id, split, ht), SplitFullParent
  PROVE  LeavesSame(node, node')
<1> DEFINE p == SplitParent
           e == ChildEntered(node[p])
           k == Len(e.keys)
           mid == k \div 2
           q == Len(node) + 1
           left == InternalNode(e.parent, SubSeq(e.keys, 1, mid), SubSeq(e.vals, 1, mid + 1))
           right == InternalNode(e.parent, SubSeq(e.keys, mid + 2, k), SubSeq(e.vals, mid + 2, k + 1))
           moved == ToSet(SubSeq(e.vals, mid + 2, k + 1))
<1>1. /\ split # NoSplit /\ p \in PageIds /\ Len(node') = q /\ node'[q] = right
      /\ \E lost \in SUBSET (moved \ {split.left, split.right}) :
           \A r \in 1 .. Len(node) :
             node'[r] = IF r \in moved \ lost
                          THEN [(IF r = p THEN left ELSE node[r]) EXCEPT !.parent = q]
                          ELSE IF r = p THEN left ELSE node[r]
  BY SplitFullParentDoes
<1>2. ~node[p].leaf
  BY <1>1, ChildEnteredTo
<1>3. ~left.leaf /\ ~right.leaf
  BY DEF InternalNode
<1>4. Len(node) \in Nat /\ \A i \in 1 .. Len(node) : node[i] \in Nodes
  BY PagesAre, ElementOfSeq
<1>5. /\ ~[left EXCEPT !.parent = q].leaf
  BY DEF InternalNode
<1> HIDE DEF left, right, moved, e, p
<1>6. PICK lost \in SUBSET (moved \ {split.left, split.right}) :
           \A r \in 1 .. Len(node) :
             node'[r] = IF r \in moved \ lost
                          THEN [(IF r = p THEN left ELSE node[r]) EXCEPT !.parent = q]
                          ELSE IF r = p THEN left ELSE node[r]
  BY <1>1
<1>7. ASSUME NEW r \in 1 .. Len(node), r # p
      PROVE  /\ node'[r].leaf = node[r].leaf /\ node'[r].next = node[r].next
             /\ node'[r].keys = node[r].keys /\ node'[r].vals = node[r].vals
  BY <1>4, <1>6, <1>7 DEF Nodes
<1>8. ~node'[p].leaf
  <2>1. p \in 1 .. Len(node)
    BY <1>1, PagesAre
  <2> QED BY <1>3, <1>5, <1>6, <2>1
<1>9. \A i : i \in 1 .. q <=> i \in 1 .. Len(node) \/ i = q
  BY <1>4
<1> HIDE DEF q
<1>10. LeafPages(node') = LeafPages(node)
  BY <1>1, <1>2, <1>3, <1>7, <1>8, <1>9 DEF LeafPages
<1> QED BY <1>2, <1>7, <1>10 DEF LeavesSame, LeafPages

-----------------------------------------------------------------------------
(* Steps that change a leaf. *)

LEMMA OneLeafChanges ==
  ASSUME NEW nodes, NEW nodes2, NEW ch, Linked(nodes, ch), Kept(nodes), NEW p \in LeafPages(nodes),
         Len(nodes2) = Len(nodes), Len(nodes) > 0,
         \A r \in 1 .. Len(nodes) : r # p => nodes2[r] = nodes[r],
         nodes2[p].leaf, nodes2[p].next = nodes[p].next, Single(nodes2[p]),
         \A r \in LeafPages(nodes) : r # p => Held(nodes2[p]) \cap Held(nodes[r]) = {}
  PROVE  Linked(nodes2, ch) /\ Kept(nodes2) /\ LeafPages(nodes2) = LeafPages(nodes)
<1>1. LeafPages(nodes2) = LeafPages(nodes)
  BY DEF LeafPages
<1>2. \A r \in LeafPages(nodes) : r # p => nodes2[r] = nodes[r]
  BY DEF LeafPages
<1>3. Linked(nodes2, ch)
  BY <1>1, <1>2, LinkedSame
<1>4. Kept(nodes2)
  BY <1>1, <1>2 DEF Kept
<1> QED BY <1>1, <1>3, <1>4

LEMMA LeavesInsertInLeaf ==
  ASSUME NEW ht, Shape(node, root_page_id, split, ht), NEW ch, Linked(node, ch), Kept(node),
         NEW key \in Keys, NEW rid \in RIDs, <<key, rid>> \notin All(node), InsertInLeaf(key, rid)
  PROVE  Linked(node', ch) /\ Kept(node') /\ All(node') = All(node) \cup {<<key, rid>>}
<1> DEFINE p == FindLeafPage(key)
           e == EntryAdded(node[p], key, rid)
           pos == FindKeyPosition(node[p], key)
<1>1. /\ p \in PageIds /\ node[p].leaf /\ Len(node') = Len(node)
      /\ \A r \in 1 .. Len(node) : node'[r] = IF r = p THEN e ELSE node[r]
  BY InsertInLeafDoes
<1> HIDE DEF p
<1>2. /\ e.leaf /\ e.next = node[p].next /\ pos \in 0 .. Len(node[p].keys)
      /\ e.keys = InsertAt(node[p].keys, pos + 1, key) /\ e.vals = InsertAt(node[p].vals, pos + 1, rid)
  BY <1>1, EntryAddedTo
<1>3. NodeFits(node[p], ht[p], ht) /\ node[p].keys \in Seq(Keys) /\ PageIds = 1 .. Len(node)
  BY <1>1, NodeFacts, PagesAre
<1>4. node[p].vals \in Seq(RIDs) /\ Len(node[p].vals) = Len(node[p].keys)
  BY <1>1, <1>3 DEF NodeFits
<1>5. p \in LeafPages(node)
  BY <1>1, <1>3 DEF LeafPages
<1> HIDE DEF e, pos
<1>6. Held(e) = Held(node[p]) \cup {<<key, rid>>} /\ Single(e)
  <2>1. <<key, rid>> \notin Held(node[p]) /\ Single(node[p])
    BY <1>5 DEF All, Kept
  <2> QED BY <1>2, <1>3, <1>4, <2>1, EntryAddedHeld
<1>7. node'[p] = e /\ \A r \in 1 .. Len(node) : r # p => node'[r] = node[r]
  BY <1>1, <1>3
<1>8. \A r \in LeafPages(node) : r # p => Held(node'[p]) \cap Held(node[r]) = {}
  BY <1>5, <1>6, <1>7 DEF Kept, All
<1>9. Len(node) > 0
  BY <1>1, PagesAre
<1>10. Linked(node', ch) /\ Kept(node') /\ LeafPages(node') = LeafPages(node)
  BY <1>1, <1>2, <1>5, <1>6, <1>7, <1>8, <1>9, OneLeafChanges
<1>11. All(node') = All(node) \cup {<<key, rid>>}
  <2>1. \A r \in LeafPages(node) : r # p => node'[r] = node[r]
    BY <1>7 DEF LeafPages
  <2> QED BY <1>5, <1>6, <1>7, <1>10, <2>1 DEF All
<1> QED BY <1>10, <1>11

LEMMA LeavesDelete ==
  ASSUME NEW ht, Shape(node, root_page_id, split, ht), NEW ch, Linked(node, ch), Kept(node),
         NEW key \in Keys, NEW rid \in RIDs, Delete(key, rid)
  PROVE  Linked(node', ch) /\ Kept(node') /\ All(node') = All(node) \ {<<key, rid>>}
<1> DEFINE p == FindLeafPage(key)
<1>1. /\ p \in PageIds /\ node[p].leaf /\ Len(node') = Len(node)
      /\ \A r \in 1 .. Len(node) : r # p => node'[r] = node[r]
  BY DeleteDoes
<1>2. PICK i \in 1 .. Len(node[p].keys) :
             /\ node[p].keys[i] = key /\ node[p].vals[i] = rid
             /\ node'[p] = [node[p] EXCEPT !.keys = RemoveAt(node[p].keys, i),
                                           !.vals = RemoveAt(node[p].vals, i)]
             /\ RemoveAt(node[p].keys, i) \in Seq(Keys)
             /\ RemoveAt(node[p].vals, i) \in Seq(RIDs)
             /\ Ascending(RemoveAt(node[p].keys, i))
             /\ Len(RemoveAt(node[p].keys, i)) = Len(node[p].keys) - 1
             /\ Len(RemoveAt(node[p].vals, i)) = Len(node[p].keys) - 1
  BY DeleteDoes
<1> HIDE DEF p
<1>3. /\ node[p] \in Nodes /\ NodeFits(node[p], ht[p], ht) /\ node[p].keys \in Seq(Keys)
      /\ PageIds = 1 .. Len(node) /\ Len(node) \in Nat
  BY <1>1, NodeFacts, PagesAre
<1>4. node[p].vals \in Seq(RIDs) /\ Len(node[p].vals) = Len(node[p].keys)
  BY <1>1, <1>3 DEF NodeFits
<1>5. p \in LeafPages(node)
  BY <1>1, <1>3 DEF LeafPages
<1>6. /\ node'[p].leaf /\ node'[p].next = node[p].next
      /\ node'[p].keys = RemoveAt(node[p].keys, i) /\ node'[p].vals = RemoveAt(node[p].vals, i)
  BY <1>1, <1>2, <1>3 DEF Nodes
<1>7. Held(node'[p]) = Held(node[p]) \ {<<key, rid>>} /\ Single(node'[p])
  <2>1. Single(node[p])
    BY <1>5 DEF Kept
  <2>2. Held(node'[p]) = Held(node[p]) \ {<<node[p].keys[i], node[p].vals[i]>>} /\ Single(node'[p])
    BY <1>3, <1>4, <1>6, <2>1, RemovedHeld
  <2> QED BY <1>2, <2>2
<1>8. <<key, rid>> \in Held(node[p])
  BY <1>2, <1>3, HeldIs
<1>9. \A r \in LeafPages(node) : r # p => Held(node'[p]) \cap Held(node[r]) = {}
  BY <1>5, <1>7 DEF Kept
<1>10. Len(node) > 0
  BY <1>1, <1>3
<1>11. Linked(node', ch) /\ Kept(node') /\ LeafPages(node') = LeafPages(node)
  BY <1>1, <1>5, <1>6, <1>7, <1>9, <1>10, OneLeafChanges
<1>12. All(node') = All(node) \ {<<key, rid>>}
  <2>1. \A r \in LeafPages(node) : r # p => node'[r] = node[r] /\ <<key, rid>> \notin Held(node[r])
    BY <1>1, <1>5, <1>8 DEF LeafPages, Kept
  <2> QED BY <1>5, <1>7, <1>11, <2>1 DEF All
<1> QED BY <1>11, <1>12

LEMMA LeavesInsertFirst ==
  ASSUME NEW ht, Shape(node, root_page_id, split, ht), NEW key \in Keys, NEW rid \in RIDs,
         InsertFirst(key, rid)
  PROVE  /\ \E ch : Linked(node', ch)
         /\ Kept(node') /\ All(node) = {} /\ All(node') = {<<key, rid>>}
<1>1. /\ Len(node) = 0 /\ Len(node') = 1
      /\ node'[1] = Leaf(INVALID_PAGE_ID, INVALID_PAGE_ID, <<key>>, <<rid>>)
  BY InsertFirstDoes
<1>2. LeafPages(node) = {} /\ LeafPages(node') = {1}
  <2>1. node'[1].leaf
    BY <1>1 DEF Leaf
  <2> QED BY <1>1, <2>1 DEF LeafPages
<1> DEFINE ch == <<1>>
<1>3. ch \in Seq(Nat) /\ Len(ch) = 1 /\ ch[1] = 1
  OBVIOUS
<1> HIDE DEF ch
<1>4. node'[1].next = INVALID_PAGE_ID
  BY <1>1 DEF Leaf
<1>5. Linked(node', ch)
  BY <1>1, <1>2, <1>3, <1>4 DEF Linked
<1> DEFINE ks == <<key>>
           vs == <<rid>>
<1>6. ks \in Seq(Keys) /\ Len(ks) = 1 /\ ks[1] = key /\ vs[1] = rid
  OBVIOUS
<1>7. node'[1].keys = ks /\ node'[1].vals = vs
  BY <1>1 DEF Leaf
<1> HIDE DEF ks, vs
<1>8. Held(node'[1]) = {<<key, rid>>} /\ Single(node'[1])
  <2>1. node'[1].keys \in Seq(Keys) /\ Len(node'[1].keys) = 1
        /\ node'[1].keys[1] = key /\ node'[1].vals[1] = rid
    BY <1>6, <1>7
  <2>2. \A i \in 1 .. 1 : i = 1
    OBVIOUS
  <2>3. \A x \in Held(node'[1]) : x = <<key, rid>>
    BY <2>1, <2>2, HeldIs
  <2>4. <<key, rid>> \in Held(node'[1])
    <3>1. 1 \in 1 .. Len(node'[1].keys)
      BY <2>1
    <3>2. <<node'[1].keys[1], node'[1].vals[1]>> \in Held(node'[1])
      BY <2>1, <3>1, HeldIs
    <3> QED BY <2>1, <3>2
  <2>5. Single(node'[1])
    BY <2>1, <2>2 DEF Single
  <2> QED BY <2>3, <2>4, <2>5
<1>9. Kept(node') /\ All(node) = {} /\ All(node') = {<<key, rid>>}
  BY <1>2, <1>8 DEF Kept, All
<1> QED BY <1>5, <1>9

LEMMA InsertedAt ==
  ASSUME NEW S, NEW s \in Seq(S), NEW k \in 1 .. Len(s) + 1, NEW e \in S, NEW t, t = InsertAt(s, k, e)
  PROVE  /\ t \in Seq(S) /\ Len(t) = Len(s) + 1 /\ Len(s) \in Nat
         /\ \A i \in 1 .. k - 1 : t[i] = s[i]
         /\ t[k] = e
         /\ \A i \in k .. Len(s) : t[i + 1] = s[i]
         /\ \A i \in 1 .. Len(s) + 1 : i \in 1 .. k - 1 \/ i = k \/ \E j \in k .. Len(s) : i = j + 1
<1>1. Len(s) \in Nat
  BY LenProperties
<1>2. /\ t \in Seq(S) /\ Len(t) = Len(s) + 1
      /\ \A i \in 1 .. Len(s) + 1 : t[i] = IF i < k THEN s[i] ELSE IF i = k THEN e ELSE s[i - 1]
  <2>1. /\ InsertAt(s, k, e) \in Seq(S) /\ Len(InsertAt(s, k, e)) = Len(s) + 1
        /\ \A i \in 1 .. Len(s) + 1 :
             InsertAt(s, k, e)[i] = IF i < k THEN s[i] ELSE IF i = k THEN e ELSE s[i - 1]
    BY Inserted, SMTT(30)
  <2> QED BY <2>1
<1>3. ASSUME NEW i \in 1 .. k - 1 PROVE t[i] = s[i]
  <2>1. i \in 1 .. Len(s) + 1 /\ i < k
    BY <1>1
  <2> QED BY <1>2, <2>1
<1>4. t[k] = e
  <2>1. k \in 1 .. Len(s) + 1 /\ ~(k < k)
    BY <1>1
  <2> QED BY <1>2, <2>1
<1>5. ASSUME NEW i \in k .. Len(s) PROVE t[i + 1] = s[i]
  <2>1. i + 1 \in 1 .. Len(s) + 1 /\ ~(i + 1 < k) /\ i + 1 # k /\ (i + 1) - 1 = i
    BY <1>1
  <2> QED BY <1>2, <2>1
<1>6. ASSUME NEW i \in 1 .. Len(s) + 1
      PROVE  i \in 1 .. k - 1 \/ i = k \/ \E j \in k .. Len(s) : i = j + 1
  <2>1. i < k => i \in 1 .. k - 1
    BY <1>1
  <2>2. i > k => i - 1 \in k .. Len(s) /\ i = (i - 1) + 1
    BY <1>1
  <2>3. i < k \/ i = k \/ i > k
    BY <1>1
  <2> QED BY <2>1, <2>2, <2>3
<1> QED BY <1>1, <1>2, <1>3, <1>4, <1>5, <1>6

LEMMA ChainSplit ==
  ASSUME NEW nodes, NEW nodes2, NEW ch, Linked(nodes, ch), NEW i \in 1 .. Len(ch), NEW q,
         q = Len(nodes) + 1, Len(nodes) \in Nat, Len(nodes2) = q,
         LeafPages(nodes2) = LeafPages(nodes) \cup {q},
         \A r \in LeafPages(nodes) : r # ch[i] => nodes2[r] = nodes[r],
         nodes2[ch[i]].next = q, nodes2[q].next = nodes[ch[i]].next
  PROVE  Linked(nodes2, InsertAt(ch, i + 1, q))
<1> DEFINE ch2 == InsertAt(ch, i + 1, q)
           L == Len(ch)
<1>1. /\ ch \in Seq(Nat) /\ L \in Nat
      /\ \A p \in LeafPages(nodes) : \E j \in 1 .. L : ch[j] = p
      /\ \A j, k \in 1 .. L : ch[j] = ch[k] => j = k
      /\ \A j \in 1 .. L :
           /\ ch[j] \in LeafPages(nodes)
           /\ nodes[ch[j]].next = IF j = L THEN INVALID_PAGE_ID ELSE ch[j + 1]
      /\ Len(nodes) > 0 => L > 0 /\ ch[1] = 1
  BY LenProperties DEF Linked
<1>2. PICK k \in 1 .. L + 1 : k = i + 1
  BY <1>1
<1>3. /\ ch2 \in Seq(Nat) /\ Len(ch2) = L + 1
      /\ \A j \in 1 .. k - 1 : ch2[j] = ch[j]
      /\ ch2[k] = q
      /\ \A j \in k .. L : ch2[j + 1] = ch[j]
      /\ \A j \in 1 .. L + 1 : j \in 1 .. k - 1 \/ j = k \/ \E m \in k .. L : j = m + 1
  <2>1. PICK N : N = Nat
    OBVIOUS
  <2>2. q \in N /\ ch \in Seq(N)
    BY <1>1, <2>1
  <2>3. ch2 = InsertAt(ch, k, q)
    BY <1>2
  <2> HIDE DEF ch2
  <2>4. /\ ch2 \in Seq(N) /\ Len(ch2) = Len(ch) + 1
        /\ \A j \in 1 .. k - 1 : ch2[j] = ch[j]
        /\ ch2[k] = q
        /\ \A j \in k .. Len(ch) : ch2[j + 1] = ch[j]
        /\ \A j \in 1 .. Len(ch) + 1 : j \in 1 .. k - 1 \/ j = k \/ \E m \in k .. Len(ch) : j = m + 1
    BY <2>2, <2>3, InsertedAt, SMTT(30)
  <2> QED BY <2>1, <2>4
<1>4. i \in 1 .. L
  OBVIOUS
<1> HIDE DEF ch2, L
<1>5. \A r \in LeafPages(nodes) : r \in 1 .. Len(nodes) /\ r # q
  BY DEF LeafPages
<1>6. ASSUME NEW m \in 1 .. L
      PROVE  LET j == IF m < k THEN m ELSE m + 1
             IN  j \in 1 .. L + 1 /\ j # k /\ ch2[j] = ch[m]
  <2>1. CASE m < k
    <3>1. m \in 1 .. k - 1 /\ m \in 1 .. L + 1 /\ m # k
      BY <1>1, <1>2, <2>1
    <3> QED BY <1>3, <2>1, <3>1
  <2>2. CASE ~(m < k)
    <3>1. m \in k .. L /\ m + 1 \in 1 .. L + 1 /\ m + 1 # k
      BY <1>1, <1>2, <2>2
    <3> QED BY <1>3, <2>2, <3>1
  <2> QED BY <2>1, <2>2
<1>7. ASSUME NEW j \in 1 .. L + 1, j # k
      PROVE  \E m \in 1 .. L : j = (IF m < k THEN m ELSE m + 1) /\ ch2[j] = ch[m]
  <2>1. CASE j \in 1 .. k - 1
    <3>1. j \in 1 .. L /\ j < k
      BY <1>1, <1>2, <2>1
    <3> QED BY <1>3, <2>1, <3>1
  <2>2. ASSUME NEW m \in k .. L, j = m + 1 PROVE \E n \in 1 .. L : j = (IF n < k THEN n ELSE n + 1) /\ ch2[j] = ch[n]
    <3>1. m \in 1 .. L /\ ~(m < k)
      BY <1>1, <1>2
    <3> QED BY <1>3, <2>2, <3>1
  <2> QED BY <1>3, <1>7, <2>1, <2>2
<1>8. ASSUME NEW p \in LeafPages(nodes2) PROVE \E j \in 1 .. L + 1 : ch2[j] = p
  <2>1. CASE p = q
    BY <1>2, <1>3, <2>1
  <2>2. CASE p # q
    <3>1. PICK m \in 1 .. L : ch[m] = p
      BY <1>1, <2>2
    <3> DEFINE j == IF m < k THEN m ELSE m + 1
    <3>2. j \in 1 .. L + 1 /\ ch2[j] = p
      BY <1>6, <3>1
    <3> HIDE DEF j
    <3> QED BY <3>2
  <2> QED BY <2>1, <2>2
<1>9. ASSUME NEW j \in 1 .. L + 1, NEW n \in 1 .. L + 1, ch2[j] = ch2[n] PROVE j = n
  <2>1. CASE j = k \/ n = k
    <3>1. \A m \in 1 .. L : ch[m] # q
      BY <1>1, <1>5
    <3>2. j = k /\ n = k
      BY <1>3, <1>7, <1>9, <2>1, <3>1, SMTT(30)
    <3> QED BY <3>2
  <2>2. CASE j # k /\ n # k
    <3>1. PICK a \in 1 .. L : j = (IF a < k THEN a ELSE a + 1) /\ ch2[j] = ch[a]
      BY <1>7, <2>2
    <3>2. PICK b \in 1 .. L : n = (IF b < k THEN b ELSE b + 1) /\ ch2[n] = ch[b]
      BY <1>7, <2>2
    <3>3. a = b
      BY <1>1, <1>9, <3>1, <3>2
    <3> QED BY <3>1, <3>2, <3>3
  <2> QED BY <2>1, <2>2
<1>10. ASSUME NEW j \in 1 .. L + 1
       PROVE  /\ ch2[j] \in LeafPages(nodes2)
              /\ nodes2[ch2[j]].next = IF j = L + 1 THEN INVALID_PAGE_ID ELSE ch2[j + 1]
  <2>1. CASE j = k
    <3>1. ch2[j] = q
      BY <1>3, <2>1
    <3>2. nodes2[q].next = IF i = L THEN INVALID_PAGE_ID ELSE ch[k]
      BY <1>1, <1>2, <1>4
    <3>3. i = L <=> j = L + 1
      BY <1>1, <1>2, <1>4, <2>1
    <3>4. ASSUME i # L PROVE ch2[j + 1] = ch[k]
      <4>1. k \in k .. L
        BY <1>1, <1>2, <1>4, <3>4
      <4> QED BY <1>3, <2>1, <4>1
    <3> QED BY <3>1, <3>2, <3>3, <3>4
  <2>2. CASE j # k
    <3>1. PICK m \in 1 .. L : j = (IF m < k THEN m ELSE m + 1) /\ ch2[j] = ch[m]
      BY <1>7, <2>2
    <3>2. ch[m] \in LeafPages(nodes)
          /\ nodes[ch[m]].next = IF m = L THEN INVALID_PAGE_ID ELSE ch[m + 1]
      BY <1>1
    <3>3. CASE m = i
      <4>1. j = i /\ j # L + 1
        BY <1>1, <1>2, <1>4, <3>1, <3>3
      <4>2. j + 1 = k
        BY <1>2, <4>1
      <4> QED BY <1>3, <3>1, <3>2, <3>3, <4>1, <4>2
    <3>4. CASE m # i
      <4>1. ch[m] # ch[i]
        BY <1>1, <1>4, <3>4
      <4>2. nodes2[ch2[j]].next = IF m = L THEN INVALID_PAGE_ID ELSE ch[m + 1]
        BY <3>1, <3>2, <4>1
      <4>3. m = L <=> j = L + 1
        BY <1>1, <1>2, <1>4, <3>1, <3>4
      <4>4. ASSUME m # L PROVE ch2[j + 1] = ch[m + 1]
        <5>1. m + 1 \in 1 .. L /\ (m < k => m + 1 < k)
          BY <1>1, <1>2, <1>4, <3>4, <4>4
        <5>2. PICK n \in 1 .. L : n = m + 1
          BY <5>1
        <5>3. j + 1 = IF n < k THEN n ELSE n + 1
          BY <1>2, <3>1, <5>1, <5>2
        <5> QED BY <1>6, <5>2, <5>3
      <4> QED BY <3>1, <3>2, <4>2, <4>3, <4>4
    <3> QED BY <3>3, <3>4
  <2> QED BY <2>1, <2>2
<1>11. ch2[1] = 1 /\ L + 1 > 0
  <2>1. Len(nodes) > 0
    <3>1. ch[i] \in LeafPages(nodes)
      BY <1>1, <1>4
    <3> QED BY <1>5, <3>1
  <2>2. 1 \in 1 .. k - 1
    BY <1>1, <1>2, <1>4
  <2> QED BY <1>1, <1>3, <2>1, <2>2
<1>12. Linked(nodes2, ch2)
  BY <1>3, <1>8, <1>9, <1>10, <1>11, SMTT(30) DEF Linked
<1> QED BY <1>12 DEF ch2

LeftOf(n, pos, q) == [LeftHalf(n, pos) EXCEPT !.next = q]

LEMMA LeftHalfOf ==
  ASSUME NEW n \in Nodes, n.vals \in Seq(RIDs), Len(n.vals) = Len(n.keys), Ascending(n.keys),
         NEW pos \in 0 .. Len(n.keys), NEW q \in Nat, NEW e, e = LeftOf(n, pos, q)
  PROVE  /\ e \in Nodes /\ e.leaf = n.leaf /\ e.parent = n.parent /\ e.next = q
         /\ e.keys = Cut(n.keys, 1, pos) /\ e.vals = Cut(n.vals, 1, pos)
<1> DEFINE l == [LeftHalf(n, pos) EXCEPT !.next = q]
<1>1. /\ l \in Nodes /\ l.leaf = n.leaf /\ l.parent = n.parent /\ l.next = q
      /\ l.keys = SubSeq(n.keys, 1, pos) /\ l.vals = SubSeq(n.vals, 1, pos)
  BY LeftHalfIs
<1> HIDE DEF l
<1> QED BY <1>1 DEF l, Cut, LeftOf

LEMMA LeavesSplitLeaf ==
  ASSUME NEW ht, Shape(node, root_page_id, split, ht), NEW ch, Linked(node, ch), Kept(node),
         NEW key \in Keys, NEW rid \in RIDs, <<key, rid>> \notin All(node), SplitLeaf(key, rid),
         NEW i \in 1 .. Len(ch), ch[i] = FindLeafPage(key)
  PROVE  /\ Linked(node', InsertAt(ch, i + 1, Len(node) + 1)) /\ Kept(node')
         /\ All(node') = All(node) \cup {<<key, rid>>}
         /\ LeafPages(node') = LeafPages(node) \cup {Len(node) + 1}
<1> DEFINE p == FindLeafPage(key)
           e == EntryAdded(node[p], key, rid)
           at == FindKeyPosition(node[p], key)
           pos == Len(e.keys) \div 2
           q == Len(node) + 1
           m == Len(e.keys)
           ks == Cut(e.keys, pos + 1, m)
           vs == Cut(e.vals, pos + 1, m)
<1>1. /\ p \in PageIds /\ node[p].leaf /\ m = LeafMax + 1 /\ pos \in 1 .. LeafMax
      /\ Len(node') = q
      /\ \A r \in 1 .. Len(node) : r # p => node'[r] = node[r]
      /\ node'[p] = LeftOf(e, pos, q)
      /\ node'[q] = Leaf(node[p].parent, node[p].next, ks, vs)
  BY SplitLeafDoes DEF Cut, LeftOf
<1> HIDE DEF p
<1>2. /\ e \in Nodes /\ e.leaf /\ e.next = node[p].next /\ at \in 0 .. Len(node[p].keys)
      /\ e.keys = InsertAt(node[p].keys, at + 1, key) /\ e.vals = InsertAt(node[p].vals, at + 1, rid)
      /\ e.keys \in Seq(Keys) /\ e.vals \in Seq(RIDs) /\ Len(e.vals) = m /\ Ascending(e.keys)
  BY <1>1, EntryAddedTo
<1>3. /\ NodeFits(node[p], ht[p], ht) /\ node[p].keys \in Seq(Keys)
      /\ PageIds = 1 .. Len(node) /\ Len(node) \in Nat
  BY <1>1, NodeFacts, PagesAre
<1>4. node[p].vals \in Seq(RIDs) /\ Len(node[p].vals) = Len(node[p].keys)
  BY <1>1, <1>3 DEF NodeFits
<1>5. p \in LeafPages(node)
  BY <1>1, <1>3 DEF LeafPages
<1> HIDE DEF e, at, pos, m, ks, vs
<1>6. Held(e) = Held(node[p]) \cup {<<key, rid>>} /\ Single(e)
  <2>1. <<key, rid>> \notin Held(node[p]) /\ Single(node[p])
    BY <1>5 DEF All, Kept
  <2>2. PICK n : n = node[p]
    OBVIOUS
  <2>3. /\ n.keys \in Seq(Keys) /\ n.vals \in Seq(RIDs) /\ Len(n.vals) = Len(n.keys)
        /\ at \in 0 .. Len(n.keys)
        /\ e.keys = InsertAt(n.keys, at + 1, key) /\ e.vals = InsertAt(n.vals, at + 1, rid)
    BY <1>2, <1>3, <1>4, <2>2
  <2>4. /\ Held(e) = Held(n) \cup {<<key, rid>>}
        /\ Single(n) /\ <<key, rid>> \notin Held(n) => Single(e)
    BY <2>3, EntryAddedHeld
  <2> QED BY <2>1, <2>2, <2>4
<1>7. /\ node'[p].leaf /\ node'[p].next = q
      /\ node'[p].keys = Cut(e.keys, 1, pos) /\ node'[p].vals = Cut(e.vals, 1, pos)
  <2>1. pos \in 0 .. Len(e.keys) /\ q \in Nat /\ Len(e.vals) = Len(e.keys)
    BY <1>1, <1>2, <1>3, SizeAssumption DEF m
  <2>2. e.leaf /\ e \in Nodes /\ e.vals \in Seq(RIDs) /\ Ascending(e.keys)
    BY <1>2
  <2> HIDE DEF q
  <2>3. node'[p] = LeftOf(e, pos, q)
    BY <1>1
  <2> QED BY <2>1, <2>2, <2>3, LeftHalfOf
<1>8. node'[q].leaf /\ node'[q].next = node[p].next /\ node'[q].keys = ks /\ node'[q].vals = vs
  BY <1>1 DEF Leaf
<1>9. /\ Held(e) = Held(node'[p]) \cup Held(node'[q])
      /\ Single(node'[p]) /\ Single(node'[q]) /\ Held(node'[p]) \cap Held(node'[q]) = {}
  <2>1. pos \in 0 .. m /\ m = Len(e.keys)
    BY <1>1, SizeAssumption DEF m
  <2> DEFINE a == node'[p]
             b == node'[q]
  <2>2. /\ a.keys = Cut(e.keys, 1, pos) /\ a.vals = Cut(e.vals, 1, pos)
        /\ b.keys = Cut(e.keys, pos + 1, m) /\ b.vals = Cut(e.vals, pos + 1, m)
    BY <1>7, <1>8 DEF ks, vs
  <2> HIDE DEF a, b
  <2>3. /\ Held(e) = Held(a) \cup Held(b)
        /\ Single(e) => Single(a) /\ Single(b) /\ Held(a) \cap Held(b) = {}
    <3>1. e.keys \in Seq(Keys) /\ e.vals \in Seq(RIDs) /\ Len(e.vals) = m
      BY <1>2
    <3> QED BY <2>1, <2>2, <3>1, HalvesHeld, SMTT(30)
  <2> QED BY <1>6, <2>3 DEF a, b
<1>10. \A r : r \in 1 .. q <=> r \in 1 .. Len(node) \/ r = q
  BY <1>3
<1>11. q \notin 1 .. Len(node) /\ p # q
  BY <1>1, <1>3
<1>12. LeafPages(node') = LeafPages(node) \cup {q}
  <2> HIDE DEF q
  <2>1. \A r \in 1 .. Len(node) : node'[r].leaf <=> node[r].leaf
    BY <1>1, <1>7
  <2> QED BY <1>1, <1>8, <1>10, <2>1 DEF LeafPages
<1>13. \A r \in LeafPages(node) : r # p => node'[r] = node[r]
  BY <1>1 DEF LeafPages
<1>14. ch[i] = p
  BY DEF p
<1>15. Linked(node', InsertAt(ch, i + 1, q))
  <2>1. \A r \in LeafPages(node) : r # ch[i] => node'[r] = node[r]
    BY <1>13, <1>14
  <2>2. node'[ch[i]].next = q /\ node'[q].next = node[ch[i]].next
    BY <1>7, <1>8, <1>14
  <2>3. q = Len(node) + 1 /\ Len(node) \in Nat /\ Len(node') = q
    BY <1>1, <1>3
  <2> HIDE DEF q
  <2> QED BY <1>12, <2>1, <2>2, <2>3, ChainSplit
<1> HIDE DEF q
<1>16. \A r \in LeafPages(node) :
         r # p => Held(node'[p]) \cap Held(node[r]) = {} /\ Held(node'[q]) \cap Held(node[r]) = {}
  <2>1. \A r \in LeafPages(node) : r # p => Held(e) \cap Held(node[r]) = {}
    BY <1>5, <1>6, SMTT(30) DEF Kept, All
  <2> QED BY <1>9, <2>1
<1>17. Kept(node')
  <2>1. ASSUME NEW r \in LeafPages(node') PROVE Single(node'[r])
    BY <1>9, <1>12, <1>13 DEF Kept
  <2>2. ASSUME NEW r \in LeafPages(node'), NEW s \in LeafPages(node'), r # s
        PROVE  Held(node'[r]) \cap Held(node'[s]) = {}
    <3>1. CASE r \notin {p, q} /\ s \notin {p, q}
      BY <1>12, <1>13, <2>2, <3>1 DEF Kept
    <3>2. CASE r \in {p, q} /\ s \notin {p, q}
      BY <1>12, <1>13, <1>16, <3>2
    <3>3. CASE r \notin {p, q} /\ s \in {p, q}
      BY <1>12, <1>13, <1>16, <3>3
    <3>4. CASE r \in {p, q} /\ s \in {p, q}
      BY <1>9, <2>2, <3>4
    <3> QED BY <3>1, <3>2, <3>3, <3>4
  <2> QED BY <2>1, <2>2 DEF Kept
<1>18. All(node') = All(node) \cup {<<key, rid>>}
  <2>1. ASSUME NEW x \in All(node') PROVE x \in All(node) \cup {<<key, rid>>}
    <3>1. PICK r \in LeafPages(node') : x \in Held(node'[r])
      BY DEF All
    <3>2. CASE r \in {p, q}
      BY <1>5, <1>6, <1>9, <3>1, <3>2 DEF All
    <3>3. CASE r \notin {p, q}
      BY <1>12, <1>13, <3>1, <3>3 DEF All
    <3> QED BY <3>2, <3>3
  <2>2. ASSUME NEW x \in All(node) \cup {<<key, rid>>} PROVE x \in All(node')
    <3>1. CASE x \in Held(e)
      BY <1>5, <1>9, <1>12, <3>1 DEF All
    <3>2. CASE x \notin Held(e)
      <4>1. PICK r \in LeafPages(node) : x \in Held(node[r])
        BY <1>6, <2>2, <3>2 DEF All
      <4>2. r # p
        BY <1>6, <3>2, <4>1
      <4> QED BY <1>12, <1>13, <4>1, <4>2 DEF All
    <3> QED BY <3>1, <3>2
  <2> QED BY <2>1, <2>2
<1> QED BY <1>12, <1>15, <1>17, <1>18 DEF q

LEMMA UpTo ==
  ASSUME NEW n \in Nat
  PROVE  IsFiniteSet(1 .. n) /\ Cardinality(1 .. n) = n
<1>1. PICK a \in Int : a = 1
  OBVIOUS
<1>2. n \in Int
  OBVIOUS
<1>3. IsFiniteSet(a .. n) /\ Cardinality(a .. n) = IF a > n THEN 0 ELSE n - a + 1
  BY <1>2, FS_Interval
<1>4. (IF a > n THEN 0 ELSE n - a + 1) = n
  BY <1>1
<1> QED BY <1>1, <1>3, <1>4

LEMMA ChainIsShort ==
  ASSUME NEW nodes, NEW ch, Linked(nodes, ch), Len(nodes) \in Nat
  PROVE  Len(ch) <= Len(nodes)
<1> DEFINE M == Len(ch)
           L == Len(nodes)
<1>1. /\ ch \in Seq(Nat) /\ M \in Nat /\ L \in Nat
      /\ \A i, j \in 1 .. M : ch[i] = ch[j] => i = j
      /\ \A i \in 1 .. M : ch[i] \in 1 .. L
  BY LenProperties DEF Linked, LeafPages
<1>2. ch = [i \in 1 .. M |-> ch[i]]
  BY <1>1, LenProperties
<1> HIDE DEF M, L
<1>3. ch \in [1 .. M -> 1 .. L]
  BY <1>1, <1>2
<1>4. IsFiniteSet(1 .. M) /\ IsFiniteSet(1 .. L)
  BY <1>1, UpTo
<1>5. Cardinality(1 .. M) = M /\ Cardinality(1 .. L) = L
  BY <1>1, UpTo
<1>6. ~(L < M)
  <2> SUFFICES ASSUME L < M PROVE FALSE
    OBVIOUS
  <2>1. Cardinality(1 .. L) < Cardinality(1 .. M)
    BY <1>5
  <2>2. \E x, y \in 1 .. M : x # y /\ ch[x] = ch[y]
    BY <1>3, <1>4, <2>1, FS_PigeonHole
  <2> QED BY <1>1, <2>2
<1> QED BY <1>1, <1>6 DEF M, L

LEMMA ChainFromIs ==
  ASSUME NEW ch, Linked(node, ch), Len(node) \in Nat, NEW i \in 1 .. Len(ch)
  PROVE  /\ ChainFrom(ch[i]) \in Seq(Nat) /\ Len(ChainFrom(ch[i])) = Len(ch) - i + 1
         /\ \A n \in 1 .. Len(ch) - i + 1 : ChainFrom(ch[i])[n] = ch[i + n - 1]
<1> DEFINE L == Len(node)
           M == Len(ch)
           p == ch[i]
           F(f) == [n \in 1 .. L |->
                      IF n = 1 THEN p
                      ELSE IF f[n - 1] = INVALID_PAGE_ID THEN INVALID_PAGE_ID
                      ELSE node[f[n - 1]].next]
           c == CHOOSE f : f = F(f)
           ends == {n \in 1 .. L : c[n] = INVALID_PAGE_ID}
           e == [n \in 1 .. L |-> IF i + n - 1 <= M THEN ch[i + n - 1] ELSE INVALID_PAGE_ID]
<1>0. ChainFrom(p) = IF ends = {} THEN c ELSE SubSeq(c, 1, Min(ends) - 1)
  BY DEF ChainFrom
<1>1. /\ L \in Nat /\ M \in Nat /\ M <= L /\ i \in 1 .. M
      /\ \A j \in 1 .. M : ch[j] \in Nat /\ ch[j] # INVALID_PAGE_ID
      /\ \A j \in 1 .. M : node[ch[j]].next = IF j = M THEN INVALID_PAGE_ID ELSE ch[j + 1]
  <2>1. ch \in Seq(Nat) /\ M \in Nat
    BY LenProperties DEF Linked
  <2>2. \A j \in 1 .. M : ch[j] \in 1 .. L
    BY DEF Linked, LeafPages
  <2>3. M <= L
    BY ChainIsShort
  <2> QED BY <2>1, <2>2, <2>3, InvalidAssumption DEF Linked
<1> HIDE DEF L, M, p
<1>2. e = F(e)
  <2>1. ASSUME NEW n \in 1 .. L
        PROVE  e[n] = IF n = 1 THEN p
                      ELSE IF e[n - 1] = INVALID_PAGE_ID THEN INVALID_PAGE_ID
                      ELSE node[e[n - 1]].next
    <3>1. CASE n = 1
      <4>1. i + n - 1 = i /\ i <= M
        BY <1>1, <3>1
      <4> QED BY <3>1, <4>1 DEF p
    <3>2. CASE n # 1 /\ i + n - 2 <= M
      <4>1. n - 1 \in 1 .. L /\ i + (n - 1) - 1 = i + n - 2 /\ i + n - 2 \in 1 .. M
        BY <1>1, <3>2
      <4>2. PICK j \in 1 .. M : j = i + n - 2
        BY <4>1
      <4>3. e[n - 1] = ch[j] /\ e[n - 1] # INVALID_PAGE_ID
        BY <1>1, <3>2, <4>1, <4>2
      <4>4. node[e[n - 1]].next = IF j = M THEN INVALID_PAGE_ID ELSE ch[j + 1]
        BY <1>1, <4>2, <4>3
      <4>5. (j = M <=> ~(i + n - 1 <= M)) /\ j + 1 = i + n - 1
        BY <1>1, <3>2, <4>2
      <4> QED BY <3>2, <4>3, <4>4, <4>5
    <3>3. CASE n # 1 /\ ~(i + n - 2 <= M)
      <4>1. n - 1 \in 1 .. L /\ ~(i + (n - 1) - 1 <= M) /\ ~(i + n - 1 <= M)
        BY <1>1, <3>3
      <4>2. e[n - 1] = INVALID_PAGE_ID
        BY <4>1
      <4> QED BY <3>3, <4>1, <4>2
    <3> QED BY <3>1, <3>2, <3>3
  <2>2. e = [n \in 1 .. L |-> e[n]]
    OBVIOUS
  <2> HIDE DEF e
  <2> QED BY <2>1, <2>2
<1>3. c = F(c)
  <2> HIDE DEF F, e
  <2> QED BY <1>2
<1>4. /\ c = [n \in 1 .. L |-> c[n]]
      /\ \A n \in 1 .. L : c[n] = IF n = 1 THEN p
                                  ELSE IF c[n - 1] = INVALID_PAGE_ID THEN INVALID_PAGE_ID
                                  ELSE node[c[n - 1]].next
  <2> HIDE DEF c
  <2> QED BY <1>3
<1>5. \A n \in 1 .. L : e[n] = IF n = 1 THEN p
                                  ELSE IF e[n - 1] = INVALID_PAGE_ID THEN INVALID_PAGE_ID
                                  ELSE node[e[n - 1]].next
  <2> HIDE DEF e
  <2> QED BY <1>2
<1> HIDE DEF c, F
<1> DEFINE U == {n \in 1 .. L : c[n] # e[n]}
<1>6. U = {}
  <2> HIDE DEF e
  <2> SUFFICES ASSUME U # {} PROVE FALSE
    OBVIOUS
  <2>1. U \subseteq Nat
    OBVIOUS
  <2>2. PICK m \in U : \A k \in U : m <= k
    <3> HIDE DEF U
    <3> QED BY <2>1, LeastNatural
  <2>3. m \in 1 .. L /\ c[m] # e[m]
    BY <2>2
  <2>4. m # 1
    BY <1>4, <1>5, <2>3
  <2>5. m - 1 \in 1 .. L /\ ~(m <= m - 1)
    BY <1>1, <2>3, <2>4
  <2>6. c[m - 1] = e[m - 1]
    BY <2>2, <2>5
  <2>7. c[m] = IF c[m - 1] = INVALID_PAGE_ID THEN INVALID_PAGE_ID ELSE node[c[m - 1]].next
    BY <1>4, <2>3, <2>4
  <2>8. e[m] = IF e[m - 1] = INVALID_PAGE_ID THEN INVALID_PAGE_ID ELSE node[e[m - 1]].next
    BY <1>5, <2>3, <2>4
  <2> QED BY <2>3, <2>6, <2>7, <2>8
<1>7. \A n \in 1 .. L : c[n] = IF i + n - 1 <= M THEN ch[i + n - 1] ELSE INVALID_PAGE_ID
  BY <1>6
<1>8. \A n \in 1 .. L : i + n - 1 <= M => c[n] \in Nat /\ c[n] # INVALID_PAGE_ID
  <2> SUFFICES ASSUME NEW n \in 1 .. L, i + n - 1 <= M PROVE c[n] \in Nat /\ c[n] # INVALID_PAGE_ID
    OBVIOUS
  <2>1. i + n - 1 \in 1 .. M
    BY <1>1
  <2>2. PICK j \in 1 .. M : j = i + n - 1
    BY <2>1
  <2> QED BY <1>1, <1>7, <2>2
<1>9. \A n \in 1 .. L : n \in ends <=> i + n - 1 > M
  <2>1. \A n \in 1 .. L : i + n - 1 > M <=> ~(i + n - 1 <= M)
    BY <1>1
  <2> QED BY <1>7, <1>8, <2>1
<1>10. CASE i = 1 /\ M = L
  <2>1. ends = {}
    BY <1>1, <1>9, <1>10
  <2>2. ChainFrom(p) = c
    BY <1>0, <2>1
  <2>3. \A n \in 1 .. L : i + n - 1 <= M /\ L - i + 1 = L
    BY <1>1, <1>10
  <2>4. \A n \in 1 .. L : c[n] = ch[i + n - 1] /\ c[n] \in Nat
    BY <1>7, <1>8, <2>3
  <2>5. c \in [1 .. L -> Nat]
    BY <1>4, <2>4
  <2>6. c \in Seq(Nat) /\ Len(c) = L
    BY <1>1, <2>5, SequenceOf
  <2>7. M - i + 1 = L
    BY <1>1, <1>10
  <2> QED BY <2>2, <2>4, <2>6, <2>7 DEF M, p
<1>11. CASE ~(i = 1 /\ M = L)
  <2>1. M - i + 2 \in 1 .. L /\ i + (M - i + 2) - 1 > M
    BY <1>1, <1>11, SMTT(30)
  <2>2. ends # {} /\ ends \subseteq Nat /\ M - i + 2 \in ends
    <3>1. PICK k \in 1 .. L : k = M - i + 2 /\ i + k - 1 > M
      BY <2>1
    <3>2. k \in ends
      BY <1>9, <3>1
    <3> QED BY <3>1, <3>2
  <2>3. Min(ends) \in ends /\ \A k \in ends : Min(ends) <= k
    <3> HIDE DEF ends
    <3> QED BY <2>2, MinIsLeast
  <2>4. PICK m : m = Min(ends)
    OBVIOUS
  <2>5. m \in 1 .. L /\ i + m - 1 > M /\ m <= M - i + 2
    BY <1>9, <2>2, <2>3, <2>4
  <2>6. m - 1 = M - i + 1
    BY <1>1, <2>5
  <2>7. PICK k \in Nat : k = M - i + 1 /\ k = m - 1
    BY <1>1, <2>6
  <2>8. ChainFrom(p) = SubSeq(c, 1, k)
    BY <1>0, <2>2, <2>4, <2>7
  <2>9. k >= 1 /\ \A j \in 1 .. k : j \in 1 .. L /\ i + j - 1 <= M
    BY <1>1, <2>5, <2>7
  <2>10. \A j \in 1 .. k : c[j] = ch[i + j - 1] /\ c[j] \in Nat
    BY <1>7, <1>8, <2>9
  <2>11. /\ SubSeq(c, 1, k) \in Seq(Nat)
         /\ Len(SubSeq(c, 1, k)) = (IF 1 <= k THEN k - 1 + 1 ELSE 0)
         /\ \A j \in 1 .. k - 1 + 1 : SubSeq(c, 1, k)[j] = c[1 + j - 1]
    <3>1. 1 \in Int /\ k \in Int
      OBVIOUS
    <3> QED BY <2>10, <3>1, SubSeqProperties
  <2>12. Len(SubSeq(c, 1, k)) = k
    BY <2>9, <2>11
  <2>13. \A j \in 1 .. k : SubSeq(c, 1, k)[j] = ch[i + j - 1]
    <3>1. \A j \in 1 .. k : j \in 1 .. k - 1 + 1 /\ 1 + j - 1 = j
      OBVIOUS
    <3> QED BY <2>10, <2>11, <3>1
  <2> QED BY <2>7, <2>8, <2>11, <2>12, <2>13 DEF M, p
<1> QED BY <1>10, <1>11

-----------------------------------------------------------------------------
(* The invariant of the leaves. *)

Leaved == Shaped /\ (\E ch : Linked(node, ch)) /\ Kept(node)

LEMMA LeavedInit == Init => Leaved
<1> SUFFICES ASSUME Init PROVE Leaved
  OBVIOUS
<1>1. Shaped
  BY ShapedInit
<1>2. node = <<>> /\ Len(node) = 0
  BY DEF Init
<1>3. LeafPages(node) = {}
  BY <1>2 DEF LeafPages
<1> DEFINE ch == <<>>
<1>4. ch \in Seq(Nat) /\ Len(ch) = 0
  OBVIOUS
<1>5. Linked(node, ch)
  <2> HIDE DEF ch
  <2> QED BY <1>2, <1>3, <1>4 DEF Linked
<1>6. Kept(node)
  BY <1>3 DEF Kept
<1> QED BY <1>1, <1>5, <1>6 DEF Leaved

LEMMA LeavedInsert ==
  ASSUME Leaved, NEW key \in Keys, NEW rid \in RIDs, Insert(key, rid)
  PROVE  /\ \E ch : Linked(node', ch)
         /\ Kept(node') /\ All(node') = All(node) \cup {<<key, rid>>}
<1>1. PICK ht : Shape(node, root_page_id, split, ht)
  BY DEF Leaved, Shaped
<1>2. PICK ch : Linked(node, ch)
  BY DEF Leaved
<1>3. Kept(node) /\ <<key, rid>> \notin All(node)
  BY <1>1, ContentsIs DEF Leaved, Insert
<1>4. CASE InsertFirst(key, rid)
  BY <1>1, <1>4, LeavesInsertFirst
<1>5. CASE InsertInLeaf(key, rid)
  BY <1>1, <1>2, <1>3, <1>5, LeavesInsertInLeaf
<1>6. CASE SplitLeaf(key, rid)
  <2>1. FindLeafPage(key) \in PageIds /\ node[FindLeafPage(key)].leaf /\ PageIds = 1 .. Len(node)
    <3>1. root_page_id # INVALID_PAGE_ID /\ key \in Int
      BY <1>6, KeyAssumption DEF SplitLeaf
    <3> QED BY <1>1, <3>1, FoundLeaf, PagesAre
  <2>2. FindLeafPage(key) \in LeafPages(node)
    BY <2>1 DEF LeafPages
  <2>3. PICK i \in 1 .. Len(ch) : ch[i] = FindLeafPage(key)
    BY <1>2, <2>2 DEF Linked
  <2> QED BY <1>1, <1>2, <1>3, <1>6, <2>3, LeavesSplitLeaf
<1> QED BY <1>4, <1>5, <1>6 DEF Insert

LEMMA LeavedInside ==
  ASSUME Leaved, InsertInParent \/ SplitFullParent \/ CreateNewRoot \/ SplitRefused
  PROVE  (\E ch : Linked(node', ch)) /\ Kept(node') /\ All(node') = All(node)
<1>1. PICK ht : Shape(node, root_page_id, split, ht)
  BY DEF Leaved, Shaped
<1>2. PICK ch : Linked(node, ch)
  BY DEF Leaved
<1>3. CASE SplitRefused
  <2>1. node' = node
    BY <1>3 DEF SplitRefused
  <2> QED BY <1>2, <2>1 DEF Leaved
<1>4. CASE InsertInParent \/ SplitFullParent \/ CreateNewRoot
  <2>1. LeavesSame(node, node')
    BY <1>1, <1>4, SameInsertInParent, SameSplitFullParent, SameCreateNewRoot
  <2>2. split # NoSplit
    BY <1>4 DEF InsertInParent, SplitFullParent, CreateNewRoot
  <2>3. Len(node) > 0
    <3>1. split.left \in 1 .. Len(ht) /\ Len(ht) = Len(node) /\ Len(node) \in Nat
      BY <1>1, <2>2, PagesAre DEF Shape, SplitFits
    <3> QED BY <3>1
  <2> QED BY <1>2, <2>1, <2>3, LeavesSameKeeps DEF Leaved
<1> QED BY <1>3, <1>4

LEMMA LeavedDelete ==
  ASSUME Leaved, NEW key \in Keys, NEW rid \in RIDs, Delete(key, rid)
  PROVE  (\E ch : Linked(node', ch)) /\ Kept(node') /\ All(node') = All(node) \ {<<key, rid>>}
<1>1. PICK ht : Shape(node, root_page_id, split, ht)
  BY DEF Leaved, Shaped
<1>2. PICK ch : Linked(node, ch)
  BY DEF Leaved
<1> QED BY <1>1, <1>2, LeavesDelete DEF Leaved

LEMMA LeavedStep == Leaved /\ [Next]_vars => Leaved'
<1> SUFFICES ASSUME Leaved, [Next]_vars PROVE Leaved'
  OBVIOUS
<1>1. Shaped'
  BY ShapedStep DEF Leaved
<1>2. CASE UNCHANGED vars
  BY <1>1, <1>2 DEF Leaved, vars
<1>3. CASE Next
  <2>1. ASSUME NEW key \in Keys, NEW rid \in RIDs, Insert(key, rid)
        PROVE  (\E ch : Linked(node', ch)) /\ Kept(node')
    BY <2>1, LeavedInsert
  <2>2. ASSUME NEW key \in Keys, NEW rid \in RIDs, Delete(key, rid)
        PROVE  (\E ch : Linked(node', ch)) /\ Kept(node')
    BY <2>2, LeavedDelete
  <2>3. ASSUME InsertInParent \/ SplitFullParent \/ CreateNewRoot \/ SplitRefused
        PROVE  (\E ch : Linked(node', ch)) /\ Kept(node')
    BY <2>3, LeavedInside
  <2>4. (\E ch : Linked(node', ch)) /\ Kept(node')
    BY <1>3, <2>1, <2>2, <2>3 DEF Next
  <2> QED BY <1>1, <2>4 DEF Leaved
<1> QED BY <1>2, <1>3

LEMMA AlwaysLeaved == Spec => []Leaved
BY LeavedInit, LeavedStep, PTL DEF Spec

LEMMA LeavedIsChained == Leaved => LeavesChained
<1> SUFFICES ASSUME Leaved PROVE LeavesChained
  OBVIOUS
<1>1. PICK ht : Shape(node, root_page_id, split, ht)
  BY DEF Leaved, Shaped
<1>2. PICK ch : Linked(node, ch)
  BY DEF Leaved
<1>3. PageIds = 1 .. Len(node) /\ Len(node) \in Nat /\ node \in Seq(Nodes)
  BY <1>1, PagesAre DEF Shape
<1> DEFINE c == IF node = <<>> THEN <<>> ELSE ChainFrom(1)
           M == Len(ch)
<1>4. c \in Seq(Nat) /\ Len(c) = M /\ M \in Nat /\ \A n \in 1 .. M : c[n] = ch[n]
  <2>1. ch \in Seq(Nat) /\ M \in Nat
    BY <1>2, LenProperties DEF Linked
  <2>2. CASE node = <<>>
    <3>1. M <= 0
      BY <1>2, <1>3, <2>2, ChainIsShort
    <3> QED BY <2>1, <2>2, <3>1
  <2>3. CASE node # <<>>
    <3>1. Len(node) > 0
      BY <1>3, <2>3, EmptySeq
    <3>2. M > 0 /\ ch[1] = 1
      BY <1>2, <3>1 DEF Linked
    <3>3. PICK i \in 1 .. M : i = 1
      BY <2>1, <3>2
    <3>4. ch[i] = 1 /\ M - i + 1 = M /\ \A n \in 1 .. M : i + n - 1 = n
      BY <2>1, <3>2, <3>3
    <3>5. /\ ChainFrom(ch[i]) \in Seq(Nat) /\ Len(ChainFrom(ch[i])) = M - i + 1
          /\ \A n \in 1 .. M - i + 1 : ChainFrom(ch[i])[n] = ch[i + n - 1]
      BY <1>2, <1>3, ChainFromIs
    <3>6. PICK d : d = ChainFrom(ch[i])
      OBVIOUS
    <3>7. d \in Seq(Nat) /\ Len(d) = M /\ (\A n \in 1 .. M : d[n] = ch[n]) /\ d = ChainFrom(1)
      BY <3>4, <3>5, <3>6
    <3> QED BY <2>1, <2>3, <3>7
  <2> QED BY <2>2, <2>3
<1> HIDE DEF c
<1>5. /\ \A p \in LeafPages(node) : \E i \in 1 .. M : ch[i] = p
      /\ \A i, j \in 1 .. M : ch[i] = ch[j] => i = j
      /\ \A i \in 1 .. M : ch[i] \in LeafPages(node)
  BY <1>2 DEF Linked
<1>6. DOMAIN c = 1 .. M
  BY <1>4, LenProperties
<1>7. ToSet(c) = {p \in PageIds : node[p].leaf}
  <2>1. ToSet(c) = LeafPages(node)
    BY <1>4, <1>5, <1>6 DEF ToSet
  <2> QED BY <1>3, <2>1 DEF LeafPages
<1>8. Len(c) = Cardinality(ToSet(c))
  <2>1. c \in [1 .. M -> ToSet(c)]
    <3>1. c = [n \in 1 .. M |-> c[n]]
      BY <1>4, LenProperties
    <3>2. \A n \in 1 .. M : c[n] \in ToSet(c)
      BY <1>6 DEF ToSet
    <3> QED BY <3>1, <3>2
  <2>2. c \in Bijection(1 .. M, ToSet(c))
    <3>1. \A i, j \in 1 .. M : c[i] = c[j] => i = j
      BY <1>4, <1>5
    <3>2. \A x \in ToSet(c) : \E i \in 1 .. M : c[i] = x
      BY <1>6 DEF ToSet
    <3> QED BY <2>1, <3>1, <3>2 DEF Bijection, Injection, Surjection, IsInjective
  <2>3. IsFiniteSet(1 .. M) /\ Cardinality(1 .. M) = M
    <3> HIDE DEF M
    <3> QED BY <1>4, UpTo
  <2>4. ExistsBijection(1 .. M, ToSet(c))
    BY <2>2 DEF ExistsBijection
  <2>5. Cardinality(ToSet(c)) = Cardinality(1 .. M)
    BY <2>3, <2>4, FS_Bijection
  <2> QED BY <1>4, <2>3, <2>5
<1>9. \A p \in PageIds : Ascending(node[p].keys)
  BY <1>1, NodeFacts DEF NodeFits
<1> QED BY <1>7, <1>8, <1>9 DEF LeavesChained, c

\* btree.h, "Leaf nodes are linked via next_leaf_id" and "Keys within a node are always
\* sorted": whatever SplitLeaf, InsertIntoParent and Delete have done, and however far a
\* split got before the pool refused a page, every leaf is on the chain exactly once.
THEOREM LeavesStayChained == Spec => []LeavesChained
BY AlwaysLeaved, LeavedIsChained, PTL

-----------------------------------------------------------------------------
(* The tree is an index. *)

LEMMA IndexStep == Leaved /\ [Next]_vars => [Index!Next]_Contents
<1> SUFFICES ASSUME Leaved, [Next]_vars PROVE [Index!Next]_Contents
  OBVIOUS
<1>1. Shaped' /\ Shaped
  BY ShapedStep DEF Leaved
<1>2. Contents = All(node)
  BY <1>1, ContentsIs DEF Shaped
<1>3. Contents' = All(node')
  <2>1. PICK ht : Shape(node', root_page_id', split', ht)
    BY <1>1 DEF Shaped
  <2>2. PageIds' = 1 .. Len(node')
    BY <2>1, LenProperties DEF Shape, PageIds
  <2> QED BY <2>2 DEF Contents, All, LeafPages, Held
<1>4. CASE UNCHANGED vars
  BY <1>2, <1>3, <1>4 DEF vars
<1>5. CASE Next
  <2>1. ASSUME NEW key \in Keys, NEW rid \in RIDs, Insert(key, rid)
        PROVE  Index!Next
    <3>1. Contents' = Contents \cup {<<key, rid>>}
      BY <1>2, <1>3, <2>1, LeavedInsert
    <3> QED BY <3>1 DEF Index!Next, Index!Insert
  <2>2. ASSUME NEW key \in Keys, NEW rid \in RIDs, Delete(key, rid)
        PROVE  Index!Next
    <3>1. Contents' = Contents \ {<<key, rid>>}
      BY <1>2, <1>3, <2>2, LeavedDelete
    <3> QED BY <3>1 DEF Index!Next, Index!Delete
  <2>3. ASSUME InsertInParent \/ SplitFullParent \/ CreateNewRoot \/ SplitRefused
        PROVE  Contents' = Contents
    BY <1>2, <1>3, <2>3, LeavedInside
  <2> QED BY <1>5, <2>1, <2>2, <2>3 DEF Next
<1> QED BY <1>4, <1>5

LEMMA IndexStart == Init => Index!Init
<1> SUFFICES ASSUME Init PROVE Contents = {}
  BY DEF Index!Init
<1>1. node = <<>>
  BY DEF Init
<1>2. PageIds = {}
  BY <1>1 DEF PageIds
<1> QED BY <1>2 DEF Contents

\* btree.h, "Insert a (key, RID) pair": every step of the tree, the splitting of a leaf
\* and of the nodes above it included, is an insert, a delete or nothing to the set of its
\* entries, so that the tree implements the index of OrderedIndex.
THEOREM IndexIsOrdered == Spec => IndexSpec
<1>1. Init => Index!Init
  BY IndexStart
<1>2. Leaved /\ [Next]_vars => [Index!Next]_Contents
  BY IndexStep
<1> QED BY <1>1, <1>2, AlwaysLeaved, PTL DEF Spec, IndexSpec, Index!Spec
===============================================================================
