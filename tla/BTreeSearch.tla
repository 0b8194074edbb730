----------------------------- MODULE BTreeSearch ------------------------------
(***************************************************************************)
(* Proofs about a tree that was never refused a page.  Every node has a    *)
(* range of keys, from lo up to hi, that its keys lie in and its children  *)
(* share out (Bounds); hence the levels of the tree end in the chain of its *)
(* leaves, the separators separate, and searches find what they should.    *)
(***************************************************************************)
EXTENDS BTreeProofs

-----------------------------------------------------------------------------
(* The range of keys that is a node's. *)

Bound == Nat \cup {-1}

\* k lies below the bound b; -1 is no bound.
Under(k, b) == b = -1 \/ k < b

\* The range [l, h) lies in [a, b).
Within(l, h, a, b) == a <= l /\ (b = -1 \/ (h # -1 /\ h <= b))

\* k keys and the children around them: the ranges of the children fill [a, b) and meet
\* at the keys.
Tiled(ks, vs, k, lo, up, a, b) ==
  \A j \in 1 .. k + 1 : /\ lo[vs[j]] = IF j = 1 THEN a ELSE ks[j - 1]
                        /\ up[vs[j]] = IF j = k + 1 THEN b ELSE ks[j]

LEMMA TiledInside ==
  ASSUME NEW ks, NEW vs, NEW k \in Nat, \A j \in 1 .. k : ks[j] \in Nat,
         \A i, j \in 1 .. k : i < j => ks[i] <= ks[j],
         NEW a \in Nat, NEW b \in Bound, NEW lo, NEW up, Tiled(ks, vs, k, lo, up, a, b),
         \A j \in 1 .. k + 1 : Under(lo[vs[j]], up[vs[j]])
  PROVE  /\ \A j \in 1 .. k : a < ks[j] /\ Under(ks[j], b)
         /\ \A i, j \in 1 .. k : i < j => ks[i] < ks[j]
         /\ \A j \in 1 .. k + 1 : Within(lo[vs[j]], up[vs[j]], a, b)
         /\ \A i, j \in 1 .. k + 1 : vs[i] = vs[j] => i = j
<1>1. ASSUME NEW j \in 1 .. k PROVE a < ks[j]
  <2>1. 1 \in 1 .. k + 1 /\ 1 \in 1 .. k /\ 1 # k + 1
    BY <1>1
  <2>2. lo[vs[1]] = a /\ up[vs[1]] = ks[1]
    BY <2>1 DEF Tiled
  <2>3. a < ks[1]
    BY <2>1, <2>2 DEF Under
  <2> QED BY <2>1, <2>3
<1>2. ASSUME NEW i \in 1 .. k, NEW j \in 1 .. k, i < j PROVE ks[i] < ks[j]
  <2>1. PICK m \in 1 .. k : m = i + 1
    BY <1>2
  <2>2. m \in 1 .. k + 1 /\ m # 1 /\ m - 1 = i /\ m # k + 1
    BY <2>1
  <2>3. lo[vs[m]] = ks[i] /\ up[vs[m]] = ks[m]
    BY <2>2 DEF Tiled
  <2>4. ks[i] < ks[m]
    BY <2>1, <2>2, <2>3 DEF Under
  <2>5. m = j \/ m < j
    BY <1>2, <2>1
  <2> QED BY <2>1, <2>4, <2>5
<1>3. ASSUME NEW j \in 1 .. k PROVE Under(ks[j], b)
  <2>1. PICK m \in 1 .. k + 1 : m = k + 1
    OBVIOUS
  <2>2. k \in 1 .. k /\ m - 1 = k /\ m # 1
    BY <1>3, <2>1
  <2>3. lo[vs[m]] = ks[k] /\ up[vs[m]] = b
    BY <2>1, <2>2 DEF Tiled
  <2>4. Under(ks[k], b)
    BY <2>1, <2>3
  <2>5. ks[j] <= ks[k]
    <3>1. j = k \/ j < k
      OBVIOUS
    <3> QED BY <2>2, <3>1
  <2> QED BY <2>2, <2>4, <2>5 DEF Under, Bound
<1>4. ASSUME NEW j \in 1 .. k + 1 PROVE Within(lo[vs[j]], up[vs[j]], a, b)
  <2>1. a <= lo[vs[j]]
    <3>1. CASE j = 1
      BY <3>1 DEF Tiled
    <3>2. CASE j # 1
      <4>1. PICK i \in 1 .. k : i = j - 1
        BY <3>2
      <4>2. lo[vs[j]] = ks[i]
        BY <3>2, <4>1 DEF Tiled
      <4> QED BY <1>1, <4>2
    <3> QED BY <3>1, <3>2
  <2>2. b = -1 \/ (up[vs[j]] # -1 /\ up[vs[j]] <= b)
    <3>1. CASE j = k + 1
      BY <3>1 DEF Tiled, Bound
    <3>2. CASE j # k + 1
      <4>1. PICK i \in 1 .. k : i = j
        BY <3>2
      <4>2. up[vs[j]] = ks[i]
        BY <3>2, <4>1 DEF Tiled
      <4>3. Under(ks[i], b)
        BY <1>3
      <4> QED BY <4>2, <4>3 DEF Under, Bound
    <3> QED BY <3>1, <3>2
  <2> QED BY <2>1, <2>2 DEF Within
<1>5. ASSUME NEW i \in 1 .. k + 1, NEW j \in 1 .. k + 1, i < j PROVE vs[i] # vs[j]
  <2>1. PICK m \in 1 .. k : m = j - 1
    BY <1>5
  <2>2. lo[vs[j]] = ks[m]
    BY <1>5, <2>1 DEF Tiled
  <2>3. CASE i = 1
    <3>1. lo[vs[i]] = a
      BY <2>3 DEF Tiled
    <3>2. a < ks[m]
      BY <1>1
    <3> QED BY <2>2, <3>1, <3>2
  <2>4. CASE i # 1
    <3>1. PICK g \in 1 .. k : g = i - 1
      BY <2>4
    <3>2. lo[vs[i]] = ks[g]
      BY <2>4, <3>1 DEF Tiled
    <3>3. g < m
      BY <1>5, <2>1, <3>1
    <3>4. ks[g] < ks[m]
      BY <1>2, <3>3
    <3> QED BY <2>2, <3>2, <3>4
  <2> QED BY <2>3, <2>4
<1>6. \A i, j \in 1 .. k + 1 : i < j \/ i = j \/ j < i
  OBVIOUS
<1> QED BY <1>1, <1>2, <1>3, <1>4, <1>5, <1>6

-----------------------------------------------------------------------------
(* The ranges of all nodes. *)

\* The node that is being split still has its place in its parent, and there the range
\* of the new one as well.
Upper(hi, s) == [p \in DOMAIN hi |-> IF s # NoSplit /\ p = s.left THEN hi[s.right] ELSE hi[p]]

Ranges(L, lo, hi) ==
  lo \in [1 .. L -> Nat] /\ hi \in [1 .. L -> Bound] /\ \A p \in 1 .. L : Under(lo[p], hi[p])

KeysIn(n, a, b) == \A j \in 1 .. Len(n.keys) : a <= n.keys[j] /\ Under(n.keys[j], b)

NextAt(n, lo, b) == b = IF n.next = INVALID_PAGE_ID THEN -1 ELSE lo[n.next]

Fenced(n, lo, up, a, b) ==
  /\ n.leaf => KeysIn(n, a, b) /\ NextAt(n, lo, b)
  /\ ~n.leaf => Tiled(n.keys, n.vals, Len(n.keys), lo, up, a, b)

AllFenced(nodes, lo, hi, up) == \A p \in 1 .. Len(nodes) : Fenced(nodes[p], lo, up, lo[p], hi[p])

IsChild(nodes, p, c) ==
  p \in 1 .. Len(nodes) /\ ~nodes[p].leaf /\ \E j \in 1 .. Len(nodes[p].vals) : nodes[p].vals[j] = c

Parented(nodes, r, s) ==
  /\ \A p \in 1 .. Len(nodes) : ~nodes[p].leaf =>
       \A j \in 1 .. Len(nodes[p].vals) : nodes[nodes[p].vals[j]].parent = p
  /\ \A p \in 1 .. Len(nodes) : p # r /\ p # s.right =>
       nodes[p].parent # INVALID_PAGE_ID /\ IsChild(nodes, nodes[p].parent, p)
  /\ Len(nodes) > 0 => nodes[r].parent = INVALID_PAGE_ID

Rooted(L, r, lo, up) == L > 0 => lo[1] = 0 /\ lo[r] = 0 /\ up[r] = -1

Pending(nodes, s, lo, hi) ==
  s # NoSplit => /\ hi[s.left] = s.key /\ lo[s.right] = s.key
                 /\ nodes[s.left].parent = nodes[s.right].parent

Bounds(nodes, r, s, lo, hi) ==
  /\ Ranges(Len(nodes), lo, hi) /\ AllFenced(nodes, lo, hi, Upper(hi, s))
  /\ Parented(nodes, r, s) /\ Rooted(Len(nodes), r, lo, Upper(hi, s)) /\ Pending(nodes, s, lo, hi)

LEMMA UpperIs ==
  ASSUME NEW L, NEW lo, NEW hi, Ranges(L, lo, hi), NEW s,
         s # NoSplit => s.left \in 1 .. L /\ s.right \in 1 .. L /\ hi[s.left] = s.key
                        /\ lo[s.right] = s.key
  PROVE  /\ Upper(hi, s) \in [1 .. L -> Bound]
         /\ \A p \in 1 .. L : Upper(hi, s)[p] = IF s # NoSplit /\ p = s.left THEN hi[s.right] ELSE hi[p]
         /\ \A p \in 1 .. L : Under(lo[p], Upper(hi, s)[p])
         /\ s = NoSplit => Upper(hi, s) = hi
<1> DEFINE up == Upper(hi, s)
<1>1. DOMAIN hi = 1 .. L /\ hi = [p \in 1 .. L |-> hi[p]] /\ \A p \in 1 .. L : lo[p] \in Nat /\ hi[p] \in Bound
  BY DEF Ranges
<1>2. up = [p \in 1 .. L |-> IF s # NoSplit /\ p = s.left THEN hi[s.right] ELSE hi[p]]
  BY <1>1 DEF Upper
<1> HIDE DEF up
<1>3. up \in [1 .. L -> Bound]
  BY <1>1, <1>2
<1>4. \A p \in 1 .. L : up[p] = IF s # NoSplit /\ p = s.left THEN hi[s.right] ELSE hi[p]
  BY <1>2
<1>5. ASSUME NEW p \in 1 .. L PROVE Under(lo[p], up[p])
  <2>1. CASE s # NoSplit /\ p = s.left
    <3>1. s.right \in 1 .. L /\ up[p] = hi[s.right] /\ lo[s.right] = hi[p]
      BY <1>4, <2>1
    <3>2. Under(lo[p], hi[p]) /\ Under(lo[s.right], hi[s.right])
      BY <3>1 DEF Ranges
    <3>3. lo[p] \in Nat /\ lo[s.right] \in Nat
      BY <1>1, <3>1
    <3>4. hi[s.right] \in Bound
      BY <1>1, <3>1
    <3> QED BY <3>1, <3>2, <3>3, <3>4 DEF Under, Bound
  <2>2. CASE ~(s # NoSplit /\ p = s.left)
    <3>1. up[p] = hi[p]
      BY <1>4, <2>2
    <3> QED BY <3>1 DEF Ranges
  <2> QED BY <2>1, <2>2
<1>6. s = NoSplit => up = hi
  BY <1>1, <1>2
<1> QED BY <1>3, <1>4, <1>5, <1>6 DEF up

\* What the ranges say of a state of the tree.
LEMMA BoundsAre ==
  ASSUME NEW ht, Shape(node, root_page_id, split, ht),
         NEW lo, NEW hi, Bounds(node, root_page_id, split, lo, hi), NEW up, up = Upper(hi, split)
  PROVE  /\ lo \in [PageIds -> Nat] /\ hi \in [PageIds -> Bound] /\ up \in [PageIds -> Bound]
         /\ \A p \in PageIds : Under(lo[p], hi[p]) /\ Under(lo[p], up[p])
         /\ \A p \in PageIds : up[p] = IF split # NoSplit /\ p = split.left THEN hi[split.right] ELSE hi[p]
         /\ split = NoSplit => up = hi
         /\ \A p \in PageIds : Fenced(node[p], lo, up, lo[p], hi[p])
<1>1. PageIds = 1 .. Len(node) /\ Len(ht) = Len(node)
  BY PagesAre
<1>2. Ranges(Len(node), lo, hi) /\ AllFenced(node, lo, hi, up)
  BY DEF Bounds
<1>3. split # NoSplit => /\ split.left \in 1 .. Len(node) /\ split.right \in 1 .. Len(node)
                         /\ hi[split.left] = split.key /\ lo[split.right] = split.key
  BY <1>1 DEF Bounds, Pending, Shape, SplitFits
<1>4. /\ up \in [1 .. Len(node) -> Bound]
      /\ \A p \in 1 .. Len(node) : up[p] = IF split # NoSplit /\ p = split.left THEN hi[split.right] ELSE hi[p]
      /\ \A p \in 1 .. Len(node) : Under(lo[p], up[p])
      /\ split = NoSplit => up = hi
  BY <1>2, <1>3, UpperIs
<1> QED BY <1>1, <1>2, <1>4 DEF Ranges, AllFenced

\* The children of an internal node, and its keys.
LEMMA InnerIs ==
  ASSUME NEW ht, Shape(node, root_page_id, split, ht),
         NEW lo, NEW hi, Bounds(node, root_page_id, split, lo, hi), NEW up, up = Upper(hi, split),
         NEW p \in PageIds, ~node[p].leaf
  PROVE  /\ Len(node[p].keys) \in Nat /\ Len(node[p].vals) = Len(node[p].keys) + 1
         /\ Tiled(node[p].keys, node[p].vals, Len(node[p].keys), lo, up, lo[p], hi[p])
         /\ \A j \in 1 .. Len(node[p].keys) : lo[p] < node[p].keys[j] /\ Under(node[p].keys[j], hi[p])
         /\ \A i, j \in 1 .. Len(node[p].keys) : i < j => node[p].keys[i] < node[p].keys[j]
         /\ \A j \in 1 .. Len(node[p].vals) :
              /\ node[p].vals[j] \in PageIds /\ node[node[p].vals[j]].parent = p
              /\ Within(lo[node[p].vals[j]], up[node[p].vals[j]], lo[p], hi[p])
         /\ \A i, j \in 1 .. Len(node[p].vals) : node[p].vals[i] = node[p].vals[j] => i = j
<1> DEFINE n == node[p]
           k == Len(n.keys)
<1>1. /\ PageIds = 1 .. Len(ht) /\ Len(node) = Len(ht) /\ k \in Nat /\ NodeFits(n, ht[p], ht)
      /\ \A j \in 1 .. k : n.keys[j] \in Nat
      /\ n.keys \in Seq(Nat) /\ Ascending(n.keys)
  BY NodeFacts, PagesAre
<1>2. Len(n.vals) = k + 1 /\ \A j \in 1 .. Len(n.vals) : n.vals[j] \in PageIds
  BY <1>1 DEF NodeFits
<1>3. /\ lo \in [PageIds -> Nat] /\ hi \in [PageIds -> Bound]
      /\ \A q \in PageIds : Under(lo[q], up[q])
      /\ Tiled(n.keys, n.vals, k, lo, up, lo[p], hi[p])
  BY BoundsAre DEF Fenced
<1>4. \A i, j \in 1 .. k : i < j => n.keys[i] <= n.keys[j]
  <2>1. DOMAIN n.keys = 1 .. k
    BY <1>1, LenProperties
  <2> QED BY <1>1, <2>1 DEF Ascending
<1>5. \A j \in 1 .. k + 1 : Under(lo[n.vals[j]], up[n.vals[j]])
  BY <1>2, <1>3
<1>6. lo[p] \in Nat /\ hi[p] \in Bound
  BY <1>3
<1>7. \A j \in 1 .. Len(n.vals) : node[n.vals[j]].parent = p
  BY <1>1 DEF Bounds, Parented
<1> HIDE DEF k
<1>8. /\ \A j \in 1 .. k : lo[p] < n.keys[j] /\ Under(n.keys[j], hi[p])
      /\ \A i, j \in 1 .. k : i < j => n.keys[i] < n.keys[j]
      /\ \A j \in 1 .. k + 1 : Within(lo[n.vals[j]], up[n.vals[j]], lo[p], hi[p])
      /\ \A i, j \in 1 .. k + 1 : n.vals[i] = n.vals[j] => i = j
  <2>1. PICK ks, vs, a, b : ks = n.keys /\ vs = n.vals /\ a = lo[p] /\ b = hi[p]
    OBVIOUS
  <2>2. /\ k \in Nat /\ (\A j \in 1 .. k : ks[j] \in Nat)
        /\ (\A i, j \in 1 .. k : i < j => ks[i] <= ks[j])
        /\ a \in Nat /\ b \in Bound /\ Tiled(ks, vs, k, lo, up, a, b)
        /\ \A j \in 1 .. k + 1 : Under(lo[vs[j]], up[vs[j]])
    BY <1>1, <1>3, <1>4, <1>5, <1>6, <2>1
  <2>3. /\ \A j \in 1 .. k : a < ks[j] /\ Under(ks[j], b)
        /\ \A i, j \in 1 .. k : i < j => ks[i] < ks[j]
        /\ \A j \in 1 .. k + 1 : Within(lo[vs[j]], up[vs[j]], a, b)
        /\ \A i, j \in 1 .. k + 1 : vs[i] = vs[j] => i = j
    BY <2>2, TiledInside
  <2> QED BY <2>1, <2>3
<1> QED BY <1>1, <1>2, <1>3, <1>7, <1>8 DEF k

\* FindLeafPage leads to the leaf whose range the key is in.
In(k, p, lo, hi) == lo[p] <= k /\ Under(k, hi[p])

LEMMA TowardsInside ==
  ASSUME NEW ht, Shape(node, root_page_id, split, ht), split = NoSplit,
         NEW lo, NEW hi, Bounds(node, root_page_id, split, lo, hi), NEW k \in Nat,
         NEW p \in PageIds, In(k, p, lo, hi)
  PROVE  In(k, Towards(p, k), lo, hi)
<1>1. CASE node[p].leaf
  BY <1>1 DEF Towards
<1>2. CASE ~node[p].leaf
  <2> DEFINE n == node[p]
             m == Len(n.keys)
  <2>1. PICK up : up = Upper(hi, split)
    OBVIOUS
  <2>2. up = hi
    BY <2>1, BoundsAre
  <2>3. /\ m \in Nat /\ Tiled(n.keys, n.vals, m, lo, hi, lo[p], hi[p])
    BY <1>2, <2>1, <2>2, InnerIs
  <2>4. FindChild(n, k) \in 0 .. m /\ \A i \in 1 .. m : n.keys[i] <= k <=> i <= FindChild(n, k)
    <3>1. n.keys \in Seq(Nat) /\ Ascending(n.keys) /\ k \in Int
      BY NodeFacts
    <3> HIDE DEF n
    <3> QED BY <3>1, FindChildIs
  <2>5. \A i \in 1 .. m : n.keys[i] \in Nat
    BY NodeFacts
  <2>6. PICK j \in 1 .. m + 1 : j = FindChild(n, k) + 1
    BY <2>3, <2>4
  <2>7. Towards(p, k) = n.vals[j]
    BY <1>2, <2>6 DEF Towards
  <2>8. /\ lo[n.vals[j]] = IF j = 1 THEN lo[p] ELSE n.keys[j - 1]
        /\ hi[n.vals[j]] = IF j = m + 1 THEN hi[p] ELSE n.keys[j]
    BY <2>3 DEF Tiled
  <2> HIDE DEF n, m
  <2>9. lo[n.vals[j]] <= k
    <3>1. CASE j = 1
      BY <2>8, <3>1 DEF In
    <3>2. CASE j # 1
      <4>1. PICK i \in 1 .. m : i = j - 1
        BY <2>3, <3>2
      <4>2. n.keys[i] <= k
        BY <2>4, <2>6, <4>1
      <4> QED BY <2>8, <3>2, <4>1, <4>2
    <3> QED BY <3>1, <3>2
  <2>10. Under(k, hi[n.vals[j]])
    <3>1. CASE j = m + 1
      BY <2>8, <3>1 DEF In
    <3>2. CASE j # m + 1
      <4>1. j \in 1 .. m
        BY <2>3, <3>2
      <4>2. ~(n.keys[j] <= k)
        BY <2>3, <2>4, <2>6, <4>1
      <4>3. k < n.keys[j]
        BY <2>5, <4>1, <4>2
      <4> QED BY <2>8, <3>2, <4>3 DEF Under
    <3> QED BY <3>1, <3>2
  <2> QED BY <2>7, <2>9, <2>10 DEF In
<1> QED BY <1>1, <1>2

LEMMA FoundInside ==
  ASSUME NEW ht, Shape(node, root_page_id, split, ht), split = NoSplit,
         NEW lo, NEW hi, Bounds(node, root_page_id, split, lo, hi), NEW k \in Nat,
         root_page_id # INVALID_PAGE_ID
  PROVE  In(k, FindLeafPage(k), lo, hi)
<1> DEFINE L == Len(node)
<1>1. PICK f : Path(k, f) /\ FindLeafPage(k) = f[L]
  <2>1. k \in Int
    OBVIOUS
  <2> QED BY <2>1, PathIs
<1>2. f \in [0 .. L -> PageIds] /\ f[0] = root_page_id /\ \A d \in 1 .. L : f[d] = Towards(f[d - 1], k)
  BY <1>1 DEF Path
<1>3. L \in Nat /\ root_page_id \in PageIds /\ PageIds = 1 .. L
  <2>1. L \in Nat /\ PageIds = 1 .. L /\ Len(ht) = L
    BY PagesAre
  <2> QED BY <2>1 DEF Shape, RootFits
<1>4. In(k, root_page_id, lo, hi)
  <2>1. L > 0
    BY <1>3
  <2>2. lo[root_page_id] = 0 /\ Upper(hi, split)[root_page_id] = -1
    BY <2>1 DEF Bounds, Rooted
  <2>3. PICK up : up = Upper(hi, split)
    OBVIOUS
  <2>4. up = hi
    BY <2>3, BoundsAre
  <2> QED BY <2>2, <2>3, <2>4 DEF In, Under
<1> DEFINE U == {d \in 0 .. L : ~In(k, f[d], lo, hi)}
<1>5. U = {}
  <2> SUFFICES ASSUME U # {} PROVE FALSE
    OBVIOUS
  <2>1. U \subseteq Nat
    OBVIOUS
  <2>2. PICK m \in U : \A j \in U : m <= j
    <3> HIDE DEF U
    <3> QED BY <2>1, LeastNatural
  <2>3. m \in 0 .. L /\ ~In(k, f[m], lo, hi)
    BY <2>2
  <2>4. m # 0
    BY <1>2, <1>4, <2>3
  <2>5. m - 1 \in 0 .. L /\ ~(m <= m - 1) /\ m \in 1 .. L
    BY <1>3, <2>3, <2>4
  <2>6. In(k, f[m - 1], lo, hi) /\ f[m - 1] \in PageIds /\ f[m] = Towards(f[m - 1], k)
    BY <1>2, <2>2, <2>5
  <2>7. PICK p \in PageIds : p = f[m - 1]
    BY <2>6
  <2>8. In(k, Towards(p, k), lo, hi)
    BY <2>6, <2>7, TowardsInside
  <2> QED BY <2>3, <2>6, <2>7, <2>8
<1>6. L \in 0 .. L
  BY <1>3
<1> QED BY <1>1, <1>5, <1>6

-----------------------------------------------------------------------------
(* The ranges when a leaf changes. *)

LEMMA KeysInHeld ==
  ASSUME NEW n, n.keys \in Seq(Keys), NEW a, NEW b
  PROVE  KeysIn(n, a, b) <=> \A x \in Held(n) : a <= x[1] /\ Under(x[1], b)
<1>1. /\ \A i \in 1 .. Len(n.keys) : <<n.keys[i], n.vals[i]>> \in Held(n)
      /\ \A x \in Held(n) : \E i \in 1 .. Len(n.keys) : x = <<n.keys[i], n.vals[i]>>
  BY HeldIs
<1>2. ASSUME KeysIn(n, a, b), NEW x \in Held(n) PROVE a <= x[1] /\ Under(x[1], b)
  BY <1>1, <1>2 DEF KeysIn
<1>3. ASSUME \A x \in Held(n) : a <= x[1] /\ Under(x[1], b), NEW i \in 1 .. Len(n.keys)
      PROVE  a <= n.keys[i] /\ Under(n.keys[i], b)
  <2>1. PICK x \in Held(n) : x = <<n.keys[i], n.vals[i]>>
    BY <1>1
  <2>2. x[1] = n.keys[i]
    BY <2>1
  <2> QED BY <1>3, <2>2
<1> QED BY <1>2, <1>3 DEF KeysIn

LEMMA LeafChangesBounds ==
  ASSUME NEW nodes, NEW nodes2, NEW r, NEW s, NEW lo, NEW hi, Bounds(nodes, r, s, lo, hi),
         NEW p \in 1 .. Len(nodes), nodes[p].leaf, nodes2[p].leaf, Len(nodes2) = Len(nodes),
         \A i \in 1 .. Len(nodes) : i # p => nodes2[i] = nodes[i],
         nodes2[p].next = nodes[p].next, nodes2[p].parent = nodes[p].parent,
         KeysIn(nodes2[p], lo[p], hi[p]),
         \A i \in 1 .. Len(nodes) : ~nodes[i].leaf =>
           \A j \in 1 .. Len(nodes[i].vals) : nodes[i].vals[j] \in 1 .. Len(nodes),
         r \in 1 .. Len(nodes),
         s # NoSplit => s.left \in 1 .. Len(nodes) /\ s.right \in 1 .. Len(nodes)
  PROVE  Bounds(nodes2, r, s, lo, hi)
<1> DEFINE L == Len(nodes)
           up == Upper(hi, s)
<1>1. \A i \in 1 .. L : nodes2[i].parent = nodes[i].parent
  OBVIOUS
<1>2. Ranges(Len(nodes2), lo, hi) /\ Rooted(Len(nodes2), r, lo, up)
  BY DEF Bounds
<1> HIDE DEF up
<1>3. AllFenced(nodes2, lo, hi, up)
  <2>1. ASSUME NEW i \in 1 .. L PROVE Fenced(nodes2[i], lo, up, lo[i], hi[i])
    <3>1. Fenced(nodes[i], lo, up, lo[i], hi[i])
      BY DEF Bounds, AllFenced, up
    <3>2. CASE i = p
      BY <3>1, <3>2 DEF Fenced, NextAt
    <3> QED BY <3>1, <3>2
  <2> QED BY <2>1 DEF AllFenced
<1>4. Parented(nodes2, r, s)
  <2>1. Parented(nodes, r, s)
    BY DEF Bounds
  <2>2. ASSUME NEW i \in 1 .. L, ~nodes2[i].leaf, NEW j \in 1 .. Len(nodes2[i].vals)
        PROVE  nodes2[nodes2[i].vals[j]].parent = i
    <3>1. nodes2[i] = nodes[i] /\ ~nodes[i].leaf
      BY <2>2
    <3> QED BY <1>1, <2>1, <2>2, <3>1 DEF Parented
  <2>3. ASSUME NEW i \in 1 .. L, i # r, i # s.right
        PROVE  nodes2[i].parent # INVALID_PAGE_ID /\ IsChild(nodes2, nodes2[i].parent, i)
    <3>1. nodes[i].parent # INVALID_PAGE_ID /\ IsChild(nodes, nodes[i].parent, i)
      BY <2>1, <2>3 DEF Parented
    <3>2. nodes[i].parent # p
      BY <3>1 DEF IsChild
    <3> QED BY <1>1, <3>1, <3>2 DEF IsChild
  <2> QED BY <1>1, <2>1, <2>2, <2>3 DEF Parented
<1>5. Pending(nodes2, s, lo, hi)
  BY <1>1 DEF Bounds, Pending
<1> QED BY <1>2, <1>3, <1>4, <1>5 DEF Bounds, up

\* What a changed leaf holds was there before or is the new entry.
LEMMA ChangedLeafHolds ==
  ASSUME NEW nodes, NEW nodes2, NEW new, Kept(nodes2), All(nodes2) \subseteq All(nodes) \cup new,
         NEW p, \A r \in LeafPages(nodes) : r # p => nodes2[r] = nodes[r] /\ r \in LeafPages(nodes2),
         NEW q \in LeafPages(nodes2), q = p \/ q \notin LeafPages(nodes)
  PROVE  Held(nodes2[q]) \subseteq Held(nodes[p]) \cup new
<1> SUFFICES ASSUME NEW x \in Held(nodes2[q]), x \notin new, x \notin Held(nodes[p]) PROVE FALSE
  OBVIOUS
<1>1. x \in All(nodes2)
  BY DEF All
<1>2. PICK r \in LeafPages(nodes) : x \in Held(nodes[r])
  BY <1>1 DEF All
<1>3. r # p /\ r # q
  BY <1>2
<1>4. x \in Held(nodes2[r]) /\ r \in LeafPages(nodes2)
  BY <1>2, <1>3
<1> QED BY <1>3, <1>4 DEF Kept

LEMMA LeafBounds ==
  ASSUME NEW ht, Shape(node, root_page_id, split, ht),
         NEW lo, NEW hi, Bounds(node, root_page_id, split, lo, hi), NEW p \in PageIds, node[p].leaf
  PROVE  /\ lo[p] \in Nat /\ hi[p] \in Bound /\ Under(lo[p], hi[p])
         /\ KeysIn(node[p], lo[p], hi[p]) /\ NextAt(node[p], lo, hi[p])
         /\ \A x \in Held(node[p]) : lo[p] <= x[1] /\ Under(x[1], hi[p])
<1>1. PICK up : up = Upper(hi, split)
  OBVIOUS
<1>2. /\ lo \in [PageIds -> Nat] /\ hi \in [PageIds -> Bound] /\ Under(lo[p], hi[p])
      /\ Fenced(node[p], lo, up, lo[p], hi[p])
  BY <1>1, BoundsAre
<1>3. node[p].keys \in Seq(Keys)
  BY NodeFacts
<1>4. KeysIn(node[p], lo[p], hi[p])
  BY <1>2 DEF Fenced
<1>5. \A x \in Held(node[p]) : lo[p] <= x[1] /\ Under(x[1], hi[p])
  BY <1>3, <1>4, KeysInHeld
<1> QED BY <1>2, <1>4, <1>5 DEF Fenced

\* The two calls that change one leaf.
LEMMA OneLeafBounds ==
  ASSUME NEW ht, Shape(node, root_page_id, split, ht), NEW nodes2 \in Seq(Nodes),
         NEW lo, NEW hi, Bounds(node, root_page_id, split, lo, hi),
         NEW p \in PageIds, node[p].leaf, Len(nodes2) = Len(node),
         \A r \in 1 .. Len(node) : r # p => nodes2[r] = node[r],
         nodes2[p].leaf, nodes2[p].next = node[p].next, nodes2[p].parent = node[p].parent,
         Kept(nodes2), NEW new, All(nodes2) \subseteq All(node) \cup new,
         \A x \in new : lo[p] <= x[1] /\ Under(x[1], hi[p])
  PROVE  Bounds(nodes2, root_page_id, split, lo, hi)
<1>1. PageIds = 1 .. Len(node) /\ Len(ht) = Len(node) /\ Len(node) \in Nat
  BY PagesAre
<1>2. LeafPages(nodes2) = LeafPages(node) /\ p \in LeafPages(nodes2)
  BY <1>1 DEF LeafPages
<1>3. Held(nodes2[p]) \subseteq Held(node[p]) \cup new
  <2>1. \A r \in LeafPages(node) : r # p => nodes2[r] = node[r] /\ r \in LeafPages(nodes2)
    BY <1>2 DEF LeafPages
  <2>2. p = p \/ p \notin LeafPages(node)
    OBVIOUS
  <2> QED BY <1>2, <2>1, <2>2, ChangedLeafHolds
<1>4. \A x \in Held(nodes2[p]) : lo[p] <= x[1] /\ Under(x[1], hi[p])
  BY <1>3, LeafBounds
<1>5. nodes2[p].keys \in Seq(Keys)
  <2>1. nodes2[p] \in Nodes
    BY <1>1, ElementOfSeq
  <2> QED BY <2>1 DEF Nodes
<1>6. KeysIn(nodes2[p], lo[p], hi[p])
  BY <1>4, <1>5, KeysInHeld
<1>7. \A i \in 1 .. Len(node) : ~node[i].leaf =>
        \A j \in 1 .. Len(node[i].vals) : node[i].vals[j] \in 1 .. Len(node)
  BY <1>1 DEF Shape, NodeFits
<1>8. root_page_id \in 1 .. Len(node)
  <2>1. Len(ht) # 0
    BY <1>1
  <2> QED BY <1>1, <2>1 DEF Shape, RootFits
<1>9. split # NoSplit => split.left \in 1 .. Len(node) /\ split.right \in 1 .. Len(node)
  BY <1>1 DEF Shape, SplitFits
<1> QED BY <1>1, <1>6, <1>7, <1>8, <1>9, LeafChangesBounds

LEMMA BoundsInsertInLeaf ==
  ASSUME NEW ht, Shape(node, root_page_id, split, ht), NEW ch, Linked(node, ch), Kept(node),
         NEW key \in Keys, NEW rid \in RIDs, <<key, rid>> \notin All(node), InsertInLeaf(key, rid),
         split = NoSplit, NEW lo, NEW hi, Bounds(node, root_page_id, split, lo, hi)
  PROVE  Bounds(node', root_page_id', split', lo, hi)
<1> DEFINE p == FindLeafPage(key)
           e == EntryAdded(node[p], key, rid)
<1>1. /\ p \in PageIds /\ node[p].leaf /\ Len(node') = Len(node) /\ node' \in Seq(Nodes)
      /\ \A r \in 1 .. Len(node) : node'[r] = IF r = p THEN e ELSE node[r]
  BY InsertInLeafDoes
<1>2. In(key, p, lo, hi)
  <2>1. key \in Nat /\ root_page_id # INVALID_PAGE_ID
    BY KeyAssumption DEF InsertInLeaf
  <2> QED BY <2>1, FoundInside
<1> HIDE DEF p
<1>3. e.leaf /\ e.next = node[p].next /\ e.parent = node[p].parent
  BY <1>1, EntryAddedTo
<1>4. PageIds = 1 .. Len(node)
  BY PagesAre
<1> HIDE DEF e
<1>5. /\ node'[p].leaf /\ node'[p].next = node[p].next /\ node'[p].parent = node[p].parent
      /\ \A r \in 1 .. Len(node) : r # p => node'[r] = node[r]
  BY <1>1, <1>3, <1>4
<1>6. Kept(node') /\ All(node') \subseteq All(node) \cup {<<key, rid>>}
  BY LeavesInsertInLeaf
<1>7. \A x \in {<<key, rid>>} : lo[p] <= x[1] /\ Under(x[1], hi[p])
  BY <1>2 DEF In
<1>8. root_page_id' = root_page_id /\ split' = split
  BY DEF InsertInLeaf
<1> QED BY <1>1, <1>5, <1>6, <1>7, <1>8, OneLeafBounds

LEMMA BoundsDelete ==
  ASSUME NEW ht, Shape(node, root_page_id, split, ht), NEW ch, Linked(node, ch), Kept(node),
         NEW key \in Keys, NEW rid \in RIDs, Delete(key, rid),
         NEW lo, NEW hi, Bounds(node, root_page_id, split, lo, hi)
  PROVE  Bounds(node', root_page_id', split', lo, hi)
<1> DEFINE p == FindLeafPage(key)
<1>1. /\ p \in PageIds /\ node[p].leaf /\ Len(node') = Len(node) /\ node' \in Seq(Nodes)
      /\ \A r \in 1 .. Len(node) : r # p => node'[r] = node[r]
  BY DeleteDoes
<1>0. PICK i \in 1 .. Len(node[p].keys) :
        /\ node[p].keys[i] = key /\ node[p].vals[i] = rid
        /\ node'[p] = [node[p] EXCEPT !.keys = RemoveAt(node[p].keys, i),
                                      !.vals = RemoveAt(node[p].vals, i)]
        /\ RemoveAt(node[p].keys, i) \in Seq(Keys)
        /\ RemoveAt(node[p].vals, i) \in Seq(RIDs)
        /\ Ascending(RemoveAt(node[p].keys, i))
        /\ Len(RemoveAt(node[p].keys, i)) = Len(node[p].keys) - 1
        /\ Len(RemoveAt(node[p].vals, i)) = Len(node[p].keys) - 1
  BY DeleteDoes
<1> HIDE DEF p
<1>2. node[p] \in Nodes
  BY <1>1, NodeFacts
<1>3. node'[p].leaf /\ node'[p].next = node[p].next /\ node'[p].parent = node[p].parent
  BY <1>0, <1>1, <1>2 DEF Nodes
<1>4. PICK new : new = {}
  OBVIOUS
<1>8. Kept(node') /\ All(node') \subseteq All(node) \cup new
  BY <1>4, LeavesDelete
<1>5. root_page_id' = root_page_id /\ split' = split
  BY DEF Delete
<1>6. \A x \in new : lo[p] <= x[1] /\ Under(x[1], hi[p])
  BY <1>4
<1>7. Bounds(node', root_page_id, split, lo, hi)
  BY <1>1, <1>3, <1>8, <1>6, OneLeafBounds
<1> QED BY <1>5, <1>7

LEMMA BoundsInsertFirst ==
  ASSUME NEW ht, Shape(node, root_page_id, split, ht), NEW key \in Keys, NEW rid \in RIDs,
         InsertFirst(key, rid), split = NoSplit
  PROVE  \E lo, hi : Bounds(node', root_page_id', split', lo, hi)
<1> DEFINE n == Leaf(INVALID_PAGE_ID, INVALID_PAGE_ID, <<key>>, <<rid>>)
           lo == [i \in 1 .. 1 |-> 0]
           hi == [i \in 1 .. 1 |-> -1]
           up == Upper(hi, NoSplit)
<1>1. Len(node') = 1 /\ root_page_id' = 1 /\ node'[1] = n /\ split' = NoSplit
  BY InsertFirstDoes DEF InsertFirst
<1>2. n.leaf /\ n.parent = INVALID_PAGE_ID /\ n.next = INVALID_PAGE_ID /\ n.keys = <<key>>
  BY DEF Leaf
<1>3. lo[1] = 0 /\ hi[1] = -1 /\ Ranges(1, lo, hi)
  BY DEF Ranges, Bound, Under
<1>4. 1 .. 1 = {1} /\ DOMAIN hi = {1}
  OBVIOUS
<1>5. up[1] = -1
  BY <1>3, <1>4 DEF Upper
<1> HIDE DEF n, lo, hi, up
<1>6. Fenced(n, lo, up, lo[1], hi[1])
  <2>1. key \in Nat
    BY KeyAssumption
  <2>2. Len(<<key>>) = 1 /\ <<key>>[1] = key
    OBVIOUS
  <2>3. \A j \in 1 .. Len(<<key>>) : <<key>>[j] = key
    BY <1>4, <2>2
  <2>4. KeysIn(n, 0, -1)
    BY <1>2, <2>1, <2>3 DEF KeysIn, Under
  <2> QED BY <1>2, <1>3, <2>4 DEF Fenced, NextAt
<1>7. AllFenced(node', lo, hi, up)
  BY <1>1, <1>4, <1>6 DEF AllFenced
<1>8. Parented(node', 1, NoSplit)
  BY <1>1, <1>2, <1>4 DEF Parented
<1>9. Rooted(1, 1, lo, up) /\ Pending(node', NoSplit, lo, hi)
  BY <1>3, <1>5 DEF Rooted, Pending
<1>10. Bounds(node', root_page_id', split', lo, hi)
  BY <1>1, <1>3, <1>7, <1>8, <1>9 DEF Bounds, up
<1> QED BY <1>10

\* The ranges when p is split at m and its upper part is the new node L + 1.
SplitAt(L, lo, hi, p, m, lo2, hi2, up2) ==
  /\ \A r \in 1 .. L : lo2[r] = lo[r] /\ up2[r] = hi[r]
  /\ \A r \in 1 .. L : r # p => hi2[r] = hi[r]
  /\ lo2[L + 1] = m /\ hi2[p] = m /\ hi2[L + 1] = hi[p] /\ up2[L + 1] = hi[p]

LEMMA SplitRanges ==
  ASSUME NEW L \in Nat, NEW lo, NEW hi, Ranges(L, lo, hi), NEW p \in 1 .. L, NEW m \in Nat,
         lo[p] < m, Under(m, hi[p]), NEW s, s = [left |-> p, key |-> m, right |-> L + 1]
  PROVE  \E lo2, hi2 : /\ Ranges(L + 1, lo2, hi2)
                       /\ SplitAt(L, lo, hi, p, m, lo2, hi2, Upper(hi2, s))
<1> DEFINE q == L + 1
           lo2 == [r \in 1 .. q |-> IF r = q THEN m ELSE lo[r]]
           hi2 == [r \in 1 .. q |-> IF r = p THEN m ELSE IF r = q THEN hi[p] ELSE hi[r]]
           up2 == Upper(hi2, s)
<1>1. /\ \A r \in 1 .. L : lo[r] \in Nat /\ hi[r] \in Bound /\ Under(lo[r], hi[r])
      /\ \A r \in 1 .. q : r \in 1 .. L \/ r = q
      /\ \A r \in 1 .. L : r \in 1 .. q /\ r # q
      /\ q \in 1 .. q /\ p \in 1 .. q /\ p # q
  BY DEF Ranges
<1>2. s # NoSplit /\ s.left = p /\ s.right = q /\ s.key = m
  <2>1. p # INVALID_PAGE_ID
    BY InvalidAssumption
  <2> QED BY <2>1 DEF NoSplit
<1> HIDE DEF q
<1>3. /\ lo2 \in [1 .. q -> Nat] /\ hi2 \in [1 .. q -> Bound]
  BY <1>1 DEF Bound
<1>4. /\ \A r \in 1 .. L : lo2[r] = lo[r]
      /\ \A r \in 1 .. L : r # p => hi2[r] = hi[r]
      /\ lo2[q] = m /\ hi2[p] = m /\ hi2[q] = hi[p]
  BY <1>1
<1>5. DOMAIN hi2 = 1 .. q
  OBVIOUS
<1> HIDE DEF lo2, hi2
<1>6. ASSUME NEW r \in 1 .. q PROVE Under(lo2[r], hi2[r])
  <2>1. CASE r = p
    BY <1>1, <1>4, <2>1 DEF Under
  <2>2. CASE r = q
    BY <1>4, <2>2
  <2>3. CASE r # p /\ r # q
    BY <1>1, <1>4, <2>3
  <2> QED BY <2>1, <2>2, <2>3
<1>7. \A r \in 1 .. q : up2[r] = IF r = p THEN hi2[q] ELSE hi2[r]
  BY <1>2, <1>5 DEF Upper
<1> HIDE DEF up2
<1>8. (\A r \in 1 .. L : up2[r] = hi[r]) /\ up2[q] = hi[p]
  BY <1>1, <1>4, <1>7
<1>9. Ranges(q, lo2, hi2)
  BY <1>3, <1>6 DEF Ranges
<1>10. SplitAt(L, lo, hi, p, m, lo2, hi2, up2)
  BY <1>4, <1>8 DEF SplitAt, q
<1> QED BY <1>9, <1>10 DEF q, up2

LEMMA SplitLeafParts ==
  ASSUME NEW ht, Shape(node, root_page_id, split, ht), NEW key \in Keys, NEW rid \in RIDs,
         SplitLeaf(key, rid), NEW p, p = FindLeafPage(key), NEW q, q = Len(node) + 1
  PROVE  /\ p \in PageIds /\ node[p].leaf /\ Len(node') = q
         /\ \A r \in 1 .. Len(node) : r # p => node'[r] = node[r]
         /\ node'[p].leaf /\ node'[p].next = q /\ node'[p].parent = node[p].parent
         /\ node'[q].leaf /\ node'[q].next = node[p].next /\ node'[q].parent = node[p].parent
         /\ node'[p].keys \in Seq(Keys) /\ node'[q].keys \in Seq(Keys)
         /\ Len(node'[p].keys) >= 1 /\ Len(node'[q].keys) >= 1
         /\ \A i \in 1 .. Len(node'[p].keys), j \in 1 .. Len(node'[q].keys) :
              node'[p].keys[i] <= node'[q].keys[j]
         /\ \A j \in 1 .. Len(node'[q].keys) : node'[q].keys[1] <= node'[q].keys[j]
         /\ split' = [left |-> p, key |-> node'[q].keys[1], right |-> q]
<1> DEFINE e == EntryAdded(node[p], key, rid)
           pos == Len(e.keys) \div 2
           m == Len(e.keys)
           ks == Cut(e.keys, pos + 1, m)
           vs == Cut(e.vals, pos + 1, m)
<1>1. /\ p \in PageIds /\ node[p].leaf /\ m = LeafMax + 1 /\ pos \in 1 .. LeafMax
      /\ Len(node') = q
      /\ \A r \in 1 .. Len(node) : r # p => node'[r] = node[r]
      /\ node'[p] = LeftOf(e, pos, q)
      /\ node'[q] = Leaf(node[p].parent, node[p].next, ks, vs)
      /\ split' = [left |-> p, key |-> e.keys[pos + 1], right |-> q]
  BY SplitLeafDoes DEF Cut, LeftOf
<1>2. /\ e \in Nodes /\ e.leaf /\ e.parent = node[p].parent
      /\ e.keys \in Seq(Keys) /\ e.vals \in Seq(RIDs) /\ Len(e.vals) = m /\ Ascending(e.keys)
  BY <1>1, EntryAddedTo
<1>3. Len(node) \in Nat /\ q \in Nat /\ m \in Nat /\ pos \in 0 .. m /\ pos >= 1 /\ m - pos >= 1
  BY <1>1, PagesAre, SizeAssumption
<1> HIDE DEF e, pos, m, ks, vs
<1>4. /\ node'[p].leaf /\ node'[p].next = q /\ node'[p].parent = node[p].parent
      /\ node'[p].keys = Cut(e.keys, 1, pos) /\ node'[p].vals = Cut(e.vals, 1, pos)
  <2>1. pos \in 0 .. Len(e.keys) /\ Len(e.vals) = Len(e.keys)
    BY <1>2, <1>3 DEF m
  <2> QED BY <1>1, <1>2, <1>3, <2>1, LeftHalfOf
<1>5. /\ node'[q].leaf /\ node'[q].next = node[p].next /\ node'[q].parent = node[p].parent
      /\ node'[q].keys = ks /\ node'[q].vals = vs
  BY <1>1 DEF Leaf
<1> DEFINE a == node'[p]
           b == node'[q]
<1>6. /\ a.keys \in Seq(Keys) /\ b.keys \in Seq(Keys) /\ Len(a.keys) = pos /\ Len(b.keys) = m - pos
      /\ \A i \in 1 .. pos : a.keys[i] = e.keys[i]
      /\ \A i \in 1 .. m - pos : b.keys[i] = e.keys[pos + i]
  <2>1. a.keys = SubSeq(e.keys, 1, pos) /\ b.keys = SubSeq(e.keys, pos + 1, m)
    BY <1>4, <1>5 DEF ks, Cut
  <2> HIDE DEF a, b
  <2>2. m = Len(e.keys) /\ e.keys \in Seq(Keys)
    BY <1>2 DEF m
  <2>3. PICK s : s = e.keys
    OBVIOUS
  <2>4. a.keys \in Seq(Keys) /\ Len(a.keys) = pos /\ \A i \in 1 .. pos : a.keys[i] = e.keys[i]
    <3>1. PICK c \in 1 .. Len(s) + 1 : c = 1
      BY <1>3, <2>2, <2>3
    <3>2. PICK d \in c - 1 .. Len(s) : d = pos
      BY <1>3, <2>2, <2>3, <3>1
    <3>3. /\ SubSeq(s, c, d) \in Seq(Keys) /\ Len(SubSeq(s, c, d)) = d - c + 1
          /\ \A i \in 1 .. d - c + 1 : SubSeq(s, c, d)[i] = s[c + i - 1]
      BY <2>2, <2>3, Piece
    <3>4. a.keys = SubSeq(s, c, d) /\ d - c + 1 = pos /\ \A i \in 1 .. pos : c + i - 1 = i
      BY <1>3, <2>1, <2>3, <3>1, <3>2
    <3> QED BY <2>3, <3>3, <3>4
  <2>5. b.keys \in Seq(Keys) /\ Len(b.keys) = m - pos /\ \A i \in 1 .. m - pos : b.keys[i] = e.keys[pos + i]
    <3>1. PICK c \in 1 .. Len(s) + 1 : c = pos + 1
      BY <1>3, <2>2, <2>3
    <3>2. PICK d \in c - 1 .. Len(s) : d = m
      BY <1>3, <2>2, <2>3, <3>1
    <3>3. /\ SubSeq(s, c, d) \in Seq(Keys) /\ Len(SubSeq(s, c, d)) = d - c + 1
          /\ \A i \in 1 .. d - c + 1 : SubSeq(s, c, d)[i] = s[c + i - 1]
      BY <2>2, <2>3, Piece
    <3>4. b.keys = SubSeq(s, c, d) /\ d - c + 1 = m - pos /\ \A i \in 1 .. m - pos : c + i - 1 = pos + i
      BY <1>3, <2>1, <2>3, <3>1, <3>2
    <3> QED BY <2>3, <3>3, <3>4
  <2> QED BY <2>4, <2>5
<1>7. /\ \A i \in 1 .. m : e.keys[i] \in Nat
      /\ \A i, j \in 1 .. m : i < j => e.keys[i] <= e.keys[j]
  <2>1. DOMAIN e.keys = 1 .. m
    BY <1>2, LenProperties DEF m
  <2>2. \A i \in 1 .. m : e.keys[i] \in Nat
    BY <1>2, KeysAreNumbers DEF m
  <2> QED BY <1>2, <2>1, <2>2 DEF Ascending
<1>8. \A i \in 1 .. m - pos : pos + i \in 1 .. m
  BY <1>3
<1> HIDE DEF a, b
<1>9. ASSUME NEW i \in 1 .. Len(a.keys), NEW j \in 1 .. Len(b.keys) PROVE a.keys[i] <= b.keys[j]
  <2>1. PICK g \in 1 .. m : g = pos + j
    BY <1>6, <1>8
  <2>2. i \in 1 .. m /\ i < g
    BY <1>3, <1>6, <2>1
  <2>3. e.keys[i] <= e.keys[g]
    BY <1>7, <2>2
  <2> QED BY <1>6, <2>1, <2>3
<1>10. PICK g \in 1 .. m : g = pos + 1
  BY <1>3
<1>11. 1 \in 1 .. m - pos /\ b.keys[1] = e.keys[g]
  <2>1. 1 \in 1 .. m - pos
    BY <1>3
  <2> QED BY <1>6, <1>10, <2>1
<1>12. ASSUME NEW j \in 1 .. Len(b.keys) PROVE b.keys[1] <= b.keys[j]
  <2>1. PICK f \in 1 .. m : f = pos + j
    BY <1>6, <1>8
  <2>2. g = f \/ g < f
    BY <1>3, <1>6, <1>10, <2>1
  <2>3. e.keys[g] <= e.keys[f]
    BY <1>7, <2>2
  <2> QED BY <1>6, <1>11, <2>1, <2>3
<1>13. split' = [left |-> p, key |-> b.keys[1], right |-> q]
  BY <1>1, <1>10, <1>11
<1>14. Len(a.keys) >= 1 /\ Len(b.keys) >= 1
  BY <1>3, <1>6
<1> QED BY <1>1, <1>4, <1>5, <1>6, <1>9, <1>12, <1>13, <1>14 DEF a, b

\* No key has two entries.
Unique(nodes) == \A x, y \in All(nodes) : x[1] = y[1] => x = y

LEMMA BoundsSplitLeaf ==
  ASSUME NEW ht, Shape(node, root_page_id, split, ht), NEW ch, Linked(node, ch), Kept(node),
         NEW key \in Keys, NEW rid \in RIDs, <<key, rid>> \notin All(node), SplitLeaf(key, rid),
         split = NoSplit, NEW lo, NEW hi, Bounds(node, root_page_id, split, lo, hi), Unique(node')
  PROVE  \E lo2, hi2 : Bounds(node', root_page_id', split', lo2, hi2)
<1> DEFINE p == FindLeafPage(key)
           L == Len(node)
           q == L + 1
           a == node'[p]
           b == node'[q]
           m == b.keys[1]
<1>1. /\ p \in PageIds /\ node[p].leaf /\ Len(node') = q
      /\ \A r \in 1 .. L : r # p => node'[r] = node[r]
      /\ a.leaf /\ a.next = q /\ a.parent = node[p].parent
      /\ b.leaf /\ b.next = node[p].next /\ b.parent = node[p].parent
      /\ a.keys \in Seq(Keys) /\ b.keys \in Seq(Keys)
      /\ Len(a.keys) >= 1 /\ Len(b.keys) >= 1
      /\ \A i \in 1 .. Len(a.keys), j \in 1 .. Len(b.keys) : a.keys[i] <= b.keys[j]
      /\ \A j \in 1 .. Len(b.keys) : b.keys[1] <= b.keys[j]
      /\ split' = [left |-> p, key |-> m, right |-> q]
  BY SplitLeafParts
<1>2. In(key, p, lo, hi)
  <2>1. key \in Nat /\ root_page_id # INVALID_PAGE_ID
    BY KeyAssumption DEF SplitLeaf
  <2> QED BY <2>1, FoundInside
<1>3. PICK i \in 1 .. Len(ch) : ch[i] = p
  <2>1. p \in LeafPages(node)
    BY <1>1, PagesAre DEF LeafPages
  <2> QED BY <2>1 DEF Linked
<1>4. Kept(node') /\ All(node') = All(node) \cup {<<key, rid>>} /\ LeafPages(node') = LeafPages(node) \cup {q}
  BY <1>3, LeavesSplitLeaf
<1>5. /\ L \in Nat /\ PageIds = 1 .. L /\ Len(ht) = L /\ p \in 1 .. L /\ q \notin 1 .. L /\ p # q
      /\ \A r \in 1 .. q : r \in 1 .. L \/ r = q
      /\ L > 0 /\ INVALID_PAGE_ID # q /\ INVALID_PAGE_ID \notin 1 .. L
  <2>1. L \in Nat /\ PageIds = 1 .. L /\ Len(ht) = L /\ INVALID_PAGE_ID # q /\ INVALID_PAGE_ID \notin 1 .. L
    BY PagesAre
  <2> HIDE DEF p, L, a, b
  <2> QED BY <1>1, <2>1
<1> HIDE DEF p, L, a, b, q
<1>0. p \in LeafPages(node) /\ p \in LeafPages(node') /\ q \in LeafPages(node') /\ q \notin LeafPages(node)
  <2>1. p \in LeafPages(node) /\ q \notin LeafPages(node)
    BY <1>1, <1>5 DEF LeafPages, L
  <2> QED BY <1>4, <2>1 DEF q, L
<1>6. /\ lo[p] \in Nat /\ hi[p] \in Bound /\ Under(lo[p], hi[p]) /\ NextAt(node[p], lo, hi[p])
      /\ \A x \in Held(node[p]) : lo[p] <= x[1] /\ Under(x[1], hi[p])
  BY <1>1, LeafBounds
\* The keys of both halves lie in the range of the leaf.
<1>7. \A x \in Held(a) \cup Held(b) : lo[p] <= x[1] /\ Under(x[1], hi[p])
  <2>2. \A r \in LeafPages(node) : r # p => node'[r] = node[r] /\ r \in LeafPages(node')
    BY <1>1, <1>4 DEF LeafPages, L
  <2>3. PICK new : new = {<<key, rid>>}
    OBVIOUS
  <2>4. Held(a) \subseteq Held(node[p]) \cup new /\ Held(b) \subseteq Held(node[p]) \cup new
    <3>1. All(node') \subseteq All(node) \cup new
      BY <1>4, <2>3
    <3>2. Held(a) \subseteq Held(node[p]) \cup new
      BY <1>0, <1>4, <2>2, <3>1, ChangedLeafHolds DEF a
    <3>3. Held(b) \subseteq Held(node[p]) \cup new
      BY <1>0, <1>4, <2>2, <3>1, ChangedLeafHolds DEF b
    <3> QED BY <3>2, <3>3
  <2>5. \A x \in new : lo[p] <= x[1] /\ Under(x[1], hi[p])
    BY <1>2, <2>3 DEF In
  <2> QED BY <1>6, <2>4, <2>5
<1>8. /\ \A j \in 1 .. Len(a.keys) : <<a.keys[j], a.vals[j]>> \in Held(a)
      /\ \A j \in 1 .. Len(b.keys) : <<b.keys[j], b.vals[j]>> \in Held(b)
  BY <1>1, HeldIs
<1>9. /\ Len(a.keys) \in Nat /\ Len(b.keys) \in Nat
      /\ \A j \in 1 .. Len(a.keys) : a.keys[j] \in Nat
      /\ \A j \in 1 .. Len(b.keys) : b.keys[j] \in Nat
  BY <1>1, KeysAreNumbers, LenProperties
<1>10. 1 \in 1 .. Len(a.keys) /\ 1 \in 1 .. Len(b.keys) /\ m \in Nat
  BY <1>1, <1>9
\* No key is in both halves.
<1>11. ASSUME NEW j \in 1 .. Len(a.keys) PROVE a.keys[j] < m
  <2>1. PICK x \in Held(a) : x = <<a.keys[j], a.vals[j]>>
    BY <1>8
  <2>2. PICK y \in Held(b) : y = <<b.keys[1], b.vals[1]>>
    BY <1>8, <1>10
  <2>3. x \in All(node') /\ y \in All(node')
    BY <1>1, <1>4, <1>5, <2>1, <2>2 DEF All, LeafPages, a, b
  <2>4. Held(a) \cap Held(b) = {}
    BY <1>0, <1>4, <1>5 DEF Kept, a, b
  <2>5. x # y
    BY <2>4
  <2>6. x[1] # y[1]
    BY <2>3, <2>5 DEF Unique
  <2>7. x[1] = a.keys[j] /\ y[1] = m
    BY <2>1, <2>2
  <2>8. a.keys[j] <= m /\ a.keys[j] \in Nat
    BY <1>1, <1>9, <1>10
  <2> QED BY <1>10, <2>6, <2>7, <2>8
<1>12. lo[p] < m /\ Under(m, hi[p])
  <2>1. PICK x \in Held(a) : x = <<a.keys[1], a.vals[1]>>
    BY <1>8, <1>10
  <2>2. PICK y \in Held(b) : y = <<b.keys[1], b.vals[1]>>
    BY <1>8, <1>10
  <2>3. x[1] = a.keys[1] /\ y[1] = m
    BY <2>1, <2>2
  <2>4. lo[p] <= a.keys[1] /\ Under(m, hi[p]) /\ a.keys[1] < m /\ a.keys[1] \in Nat
    BY <1>7, <1>9, <1>10, <1>11, <2>3
  <2> QED BY <1>6, <1>10, <2>4
<1>13. KeysIn(a, lo[p], m) /\ KeysIn(b, m, hi[p])
  <2>1. KeysIn(a, lo[p], hi[p]) /\ KeysIn(b, lo[p], hi[p])
    BY <1>1, <1>7, KeysInHeld
  <2>2. KeysIn(a, lo[p], m)
    BY <1>11, <2>1 DEF KeysIn, Under
  <2>3. KeysIn(b, m, hi[p])
    BY <1>1, <2>1 DEF KeysIn
  <2> QED BY <2>2, <2>3
<1> HIDE DEF m
<1> DEFINE s2 == [left |-> p, key |-> m, right |-> q]
<1>14. Ranges(L, lo, hi)
  BY DEF Bounds, L
<1>15. PICK lo2, hi2 : Ranges(L + 1, lo2, hi2) /\ SplitAt(L, lo, hi, p, m, lo2, hi2, Upper(hi2, s2))
  BY <1>5, <1>10, <1>12, <1>14, SplitRanges DEF q
<1> DEFINE up2 == Upper(hi2, s2)
<1>16. PICK up : up = Upper(hi, split)
  OBVIOUS
<1>17. up = hi /\ \A r \in 1 .. L : Fenced(node[r], lo, up, lo[r], hi[r])
  BY <1>5, <1>16, BoundsAre
<1>18. split' = s2 /\ s2.left = p /\ s2.key = m /\ s2.right = q /\ root_page_id' = root_page_id
  BY <1>1 DEF SplitLeaf
<1> HIDE DEF up2, s2
<1>19. /\ \A r \in 1 .. L : lo2[r] = lo[r] /\ up2[r] = hi[r]
       /\ \A r \in 1 .. L : r # p => hi2[r] = hi[r]
       /\ lo2[q] = m /\ hi2[p] = m /\ hi2[q] = hi[p] /\ up2[q] = hi[p]
  BY <1>15 DEF SplitAt, q, up2
<1>20. ASSUME NEW r \in 1 .. L
       PROVE  NodeFits(node[r], ht[r], ht)
  BY <1>5 DEF Shape
<1>21. \A r \in 1 .. L : ~node[r].leaf => /\ Len(node[r].vals) = Len(node[r].keys) + 1
                                          /\ \A j \in 1 .. Len(node[r].vals) : node[r].vals[j] \in 1 .. L
  BY <1>5, <1>20 DEF NodeFits
<1>22. \A r \in 1 .. L : node[r].next # INVALID_PAGE_ID => node[r].next \in 1 .. L
  BY <1>5, <1>20 DEF NodeFits
<1>23. AllFenced(node', lo2, hi2, up2)
  <2>1. ASSUME NEW r \in 1 .. q PROVE Fenced(node'[r], lo2, up2, lo2[r], hi2[r])
    <3>1. CASE r = p
      <4>1. NextAt(a, lo2, m)
        BY <1>1, <1>5, <1>19 DEF NextAt
      <4> QED BY <1>1, <1>5, <1>13, <1>19, <3>1, <4>1 DEF Fenced, a
    <3>2. CASE r = q
      <4>1. NextAt(b, lo2, hi[p])
        BY <1>1, <1>5, <1>6, <1>19, <1>22 DEF NextAt
      <4> QED BY <1>1, <1>13, <1>19, <3>2, <4>1 DEF Fenced, b
    <3>3. CASE r \in 1 .. L /\ r # p
      <4>1. node'[r] = node[r] /\ lo2[r] = lo[r] /\ hi2[r] = hi[r]
        BY <1>1, <1>19, <3>3 DEF L
      <4>2. CASE node[r].leaf
        <5>1. KeysIn(node[r], lo[r], hi[r]) /\ NextAt(node[r], lo, hi[r])
          BY <1>17, <3>3, <4>2 DEF Fenced
        <5>2. NextAt(node[r], lo2, hi[r])
          BY <1>19, <1>22, <3>3, <5>1 DEF NextAt
        <5> QED BY <4>1, <4>2, <5>1, <5>2 DEF Fenced
      <4>3. CASE ~node[r].leaf
        <5>1. Tiled(node[r].keys, node[r].vals, Len(node[r].keys), lo, hi, lo[r], hi[r])
          BY <1>17, <3>3, <4>3 DEF Fenced
        <5>2. \A j \in 1 .. Len(node[r].keys) + 1 : node[r].vals[j] \in 1 .. L
          BY <1>21, <3>3, <4>3
        <5>3. Tiled(node[r].keys, node[r].vals, Len(node[r].keys), lo2, up2, lo[r], hi[r])
          BY <1>19, <5>1, <5>2, SMTT(60) DEF Tiled
        <5> QED BY <4>1, <4>3, <5>3 DEF Fenced
      <4> QED BY <4>2, <4>3
    <3> QED BY <1>5, <3>1, <3>2, <3>3
  <2> QED BY <1>1, <2>1 DEF AllFenced
<1>24. \A r \in 1 .. L : node'[r].parent = node[r].parent
  BY <1>1 DEF a, L
<1>25. root_page_id \in 1 .. L
  BY <1>5 DEF Shape, RootFits
<1>26. Parented(node', root_page_id, s2)
  <2>1. Parented(node, root_page_id, split)
    BY DEF Bounds
  <2>2. ASSUME NEW r \in 1 .. q, ~node'[r].leaf, NEW j \in 1 .. Len(node'[r].vals)
        PROVE  node'[node'[r].vals[j]].parent = r
    <3>1. r \in 1 .. L /\ r # p /\ node'[r] = node[r]
      BY <1>1, <1>5, <2>2 DEF a, b, L
    <3>2. node[r].vals[j] \in 1 .. L /\ node[node[r].vals[j]].parent = r
      BY <1>21, <2>1, <2>2, <3>1 DEF Parented, L
    <3> QED BY <1>24, <3>1, <3>2
  <2>3. ASSUME NEW r \in 1 .. q, r # root_page_id, r # s2.right
        PROVE  node'[r].parent # INVALID_PAGE_ID /\ IsChild(node', node'[r].parent, r)
    <3>1. r \in 1 .. L
      BY <1>5, <1>18, <2>3
    <3>2. r # split.right
      BY <1>5, <3>1 DEF NoSplit
    <3>3. node[r].parent # INVALID_PAGE_ID /\ IsChild(node, node[r].parent, r)
      BY <2>1, <2>3, <3>1, <3>2 DEF Parented, L
    <3>4. PICK g : g = node[r].parent
      OBVIOUS
    <3>5. g \in 1 .. L /\ ~node[g].leaf /\ \E j \in 1 .. Len(node[g].vals) : node[g].vals[j] = r
      BY <3>3, <3>4 DEF IsChild, L
    <3>6. g # p /\ node'[g] = node[g] /\ g \in 1 .. q
      BY <1>1, <1>5, <3>5 DEF L, q
    <3>7. IsChild(node', g, r)
      BY <1>1, <3>5, <3>6 DEF IsChild
    <3> QED BY <1>24, <3>1, <3>3, <3>4, <3>7
  <2>4. node'[root_page_id].parent = INVALID_PAGE_ID
    BY <1>5, <1>24, <1>25, <2>1 DEF Parented, L
  <2> QED BY <1>1, <2>2, <2>3, <2>4 DEF Parented
<1>27. Rooted(q, root_page_id, lo2, up2)
  <2>1. lo[1] = 0 /\ lo[root_page_id] = 0 /\ hi[root_page_id] = -1
    BY <1>5, <1>16, <1>17 DEF Bounds, Rooted, L
  <2>2. 1 \in 1 .. L
    BY <1>5
  <2> QED BY <1>19, <1>25, <2>1, <2>2 DEF Rooted
<1>28. Pending(node', s2, lo2, hi2)
  BY <1>1, <1>18, <1>19 DEF Pending, a, b
<1>29. Bounds(node', root_page_id', split', lo2, hi2)
  BY <1>1, <1>15, <1>18, <1>23, <1>26, <1>27, <1>28 DEF Bounds, up2, q
<1> QED BY <1>29

-----------------------------------------------------------------------------
(* The ranges when a child is entered in its parent. *)

\* s with x at j is t.
Entered(s, k, j, x, t) ==
  \A i \in 1 .. k : t[i] = IF i < j THEN s[i] ELSE IF i = j THEN x ELSE s[i - 1]

LEMMA EnteredTiles ==
  ASSUME NEW k \in Nat, NEW ks, NEW vs, NEW es, NEW ev, NEW j \in 1 .. k + 1,
         NEW lo, NEW up, NEW hi, NEW a, NEW b, NEW right, NEW key,
         Tiled(ks, vs, k, lo, up, a, b), \A i \in 1 .. k + 1 : i # j => hi[vs[i]] = up[vs[i]],
         hi[vs[j]] = key, lo[right] = key, hi[right] = up[vs[j]],
         NEW k1 \in Nat, k1 = k + 1, NEW j1 \in Nat, j1 = j + 1, NEW k2 \in Nat, k2 = k + 2,
         Entered(ks, k1, j, key, es), Entered(vs, k2, j1, right, ev)
  PROVE  Tiled(es, ev, k1, lo, hi, a, b)
<1>0. /\ \A i \in 1 .. k + 1 : es[i] = IF i < j THEN ks[i] ELSE IF i = j THEN key ELSE ks[i - 1]
      /\ \A i \in 1 .. k + 2 : ev[i] = IF i < j + 1 THEN vs[i] ELSE IF i = j + 1 THEN right ELSE vs[i - 1]
  BY DEF Entered
<1> SUFFICES ASSUME NEW i \in 1 .. k + 2
             PROVE  /\ lo[ev[i]] = IF i = 1 THEN a ELSE es[i - 1]
                    /\ hi[ev[i]] = IF i = k + 2 THEN b ELSE es[i]
  BY DEF Tiled
<1>1. CASE i < j
  <2>1. i \in 1 .. k + 1 /\ i # j /\ i # k + 1 /\ i # k + 2 /\ i < j + 1
    BY <1>1
  <2>2. ev[i] = vs[i] /\ es[i] = ks[i] /\ hi[vs[i]] = up[vs[i]]
    BY <1>0, <1>1, <2>1
  <2>3. lo[vs[i]] = (IF i = 1 THEN a ELSE ks[i - 1]) /\ up[vs[i]] = ks[i]
    BY <2>1 DEF Tiled
  <2>4. i # 1 => i - 1 \in 1 .. k + 1 /\ i - 1 < j
    BY <1>1
  <2>5. i # 1 => es[i - 1] = ks[i - 1]
    BY <1>0, <2>4
  <2> QED BY <2>1, <2>2, <2>3, <2>5
<1>2. CASE i = j
  <2>1. i < j + 1 /\ i # k + 2 /\ i \in 1 .. k + 1
    BY <1>2
  <2>2. ev[i] = vs[j] /\ es[i] = key
    BY <1>0, <1>2, <2>1
  <2>3. lo[vs[j]] = IF i = 1 THEN a ELSE ks[i - 1]
    BY <1>2 DEF Tiled
  <2>4. i # 1 => i - 1 \in 1 .. k + 1 /\ i - 1 < j
    BY <1>2
  <2>5. i # 1 => es[i - 1] = ks[i - 1]
    BY <1>0, <2>4
  <2> QED BY <2>1, <2>2, <2>3, <2>5
<1>3. CASE i = j + 1
  <2>1. i # 1 /\ ~(i < j + 1) /\ i - 1 = j /\ (i = k + 2 <=> j = k + 1)
    BY <1>3
  <2>2. ev[i] = right
    BY <1>0, <1>3, <2>1
  <2>3. es[i - 1] = key
    BY <1>0, <2>1
  <2>4. up[vs[j]] = IF j = k + 1 THEN b ELSE ks[j]
    BY DEF Tiled
  <2>5. i # k + 2 => es[i] = ks[j]
    <3>1. i # k + 2 => i \in 1 .. k + 1 /\ ~(i < j) /\ i # j
      BY <1>3
    <3> QED BY <1>0, <2>1, <3>1
  <2> QED BY <2>1, <2>2, <2>3, <2>4, <2>5
<1>4. CASE i > j + 1
  <2>1. ~(i < j + 1) /\ i # j + 1 /\ i # 1
    BY <1>4
  <2>2. ev[i] = vs[i - 1]
    BY <1>0, <2>1
  <2>3. PICK g \in 1 .. k + 1 : g = i - 1
    BY <1>4
  <2>4. g # j /\ g # 1 /\ ~(g < j) /\ (g = k + 1 <=> i = k + 2)
    BY <1>4, <2>3
  <2>5. hi[vs[g]] = up[vs[g]] /\ lo[vs[g]] = ks[g - 1] /\ up[vs[g]] = IF g = k + 1 THEN b ELSE ks[g]
    BY <2>4 DEF Tiled
  <2>6. es[g] = ks[g - 1]
    BY <1>0, <2>4
  <2>7. i # k + 2 => es[i] = ks[g]
    <3>1. i # k + 2 => i \in 1 .. k + 1 /\ ~(i < j) /\ i # j
      BY <1>4
    <3> QED BY <1>0, <2>3, <3>1
  <2> QED BY <2>1, <2>2, <2>3, <2>4, <2>5, <2>6, <2>7
<1> QED BY <1>1, <1>2, <1>3, <1>4

\* The node that was split is at the position FindChild gives for the key.
LEMMA LeftIsAt ==
  ASSUME NEW ht, Shape(node, root_page_id, split, ht), split # NoSplit,
         NEW lo, NEW hi, Bounds(node, root_page_id, split, lo, hi), NEW p \in PageIds, p = SplitParent
  PROVE  /\ FindChild(node[p], split.key) \in 0 .. Len(node[p].keys)
         /\ node[p].vals[FindChild(node[p], split.key) + 1] = split.left
<1> DEFINE n == node[p]
           k == Len(n.keys)
           key == split.key
           left == split.left
           right == split.right
           pos == FindChild(n, key)
<1>1. /\ ~n.leaf /\ left \in PageIds /\ right \in PageIds /\ key \in Nat
  BY ChildEnteredTo
<1>2. PICK up : up = Upper(hi, split)
  OBVIOUS
<1>3. /\ k \in Nat /\ Len(n.vals) = k + 1 /\ Tiled(n.keys, n.vals, k, lo, up, lo[p], hi[p])
  BY <1>1, <1>2, InnerIs
<1>4. /\ lo \in [PageIds -> Nat] /\ hi \in [PageIds -> Bound]
      /\ Under(lo[left], hi[left]) /\ Under(lo[right], hi[right])
      /\ up[left] = hi[right] /\ hi[left] = key /\ lo[right] = key
  <2>1. hi[left] = key /\ lo[right] = key
    BY DEF Bounds, Pending
  <2> QED BY <1>1, <1>2, <2>1, BoundsAre
<1>5. PageIds = 1 .. Len(node) /\ INVALID_PAGE_ID \notin PageIds
  BY PagesAre
<1>6. lo[left] < key
  <2>1. hi[left] # -1
    BY <1>1, <1>4
  <2> QED BY <1>4, <2>1 DEF Under
<1>7. PICK j \in 1 .. k + 1 : n.vals[j] = left
  <2>1. left # right
    BY <1>4, <1>6, <1>1
  <2>2. node[left].parent = p /\ p # INVALID_PAGE_ID
    BY <1>5 DEF SplitParent
  <2>3. Parented(node, root_page_id, split)
    BY DEF Bounds
  <2>4. left # root_page_id
    <3>1. Len(node) > 0
      BY <1>5
    <3> QED BY <2>2, <2>3, <3>1 DEF Parented
  <2>5. IsChild(node, p, left)
    BY <1>1, <1>5, <2>1, <2>2, <2>3, <2>4 DEF Parented
  <2> QED BY <1>3, <2>5 DEF IsChild
<1>8. /\ lo[left] = IF j = 1 THEN lo[p] ELSE n.keys[j - 1]
      /\ hi[right] = IF j = k + 1 THEN hi[p] ELSE n.keys[j]
  BY <1>3, <1>4, <1>7 DEF Tiled
<1>9. pos \in 0 .. k /\ \A i \in 1 .. k : n.keys[i] <= key <=> i <= pos
  <2>1. n.keys \in Seq(Nat) /\ Ascending(n.keys) /\ key \in Int
    BY <1>1, NodeFacts
  <2> HIDE DEF n, key
  <2> QED BY <2>1, FindChildIs
<1>10. \A i \in 1 .. k : n.keys[i] \in Nat
  BY NodeFacts
<1>11. lo[left] \in Nat /\ hi[right] \in Bound
  BY <1>1, <1>4
<1> HIDE DEF n, k, key, left, right, pos
<1>12. j - 1 <= pos
  <2>1. CASE j = 1
    BY <1>3, <1>9, <2>1
  <2>2. CASE j # 1
    <3>1. PICK i \in 1 .. k : i = j - 1
      BY <1>3, <2>2
    <3>2. n.keys[i] <= key
      BY <1>1, <1>6, <1>8, <1>10, <2>2, <3>1
    <3> QED BY <1>9, <3>1, <3>2
  <2> QED BY <2>1, <2>2
<1>13. pos < j
  <2>1. CASE j = k + 1
    BY <1>3, <1>9, <2>1
  <2>2. CASE j # k + 1
    <3>1. j \in 1 .. k
      BY <1>3, <2>2
    <3>2. n.keys[j] \in Nat /\ hi[right] = n.keys[j]
      BY <1>8, <1>10, <2>2, <3>1
    <3>3. key < n.keys[j]
      BY <1>1, <1>4, <3>2 DEF Under
    <3>4. ~(n.keys[j] <= key)
      BY <1>1, <3>2, <3>3
    <3>5. ~(j <= pos)
      BY <1>9, <3>1, <3>4
    <3> QED BY <1>3, <1>9, <3>1, <3>5
  <2> QED BY <2>1, <2>2
<1>14. pos + 1 = j
  BY <1>3, <1>9, <1>12, <1>13
<1> QED BY <1>7, <1>9, <1>14 DEF n, k, key, left, pos

LEMMA EnteredIs ==
  ASSUME NEW ht, Shape(node, root_page_id, split, ht), split # NoSplit,
         NEW lo, NEW hi, Bounds(node, root_page_id, split, lo, hi), NEW p \in PageIds, p = SplitParent,
         NEW e, e = ChildEntered(node[p])
  PROVE  /\ Tiled(e.keys, e.vals, Len(e.keys), lo, hi, lo[p], hi[p])
         /\ \A i \in 1 .. Len(e.vals) : e.vals[i] \in PageIds /\ node[e.vals[i]].parent = p
         /\ \A j \in 1 .. Len(node[p].vals) : \E i \in 1 .. Len(e.vals) : e.vals[i] = node[p].vals[j]
         /\ \E i \in 1 .. Len(e.vals) : e.vals[i] = split.right
<1> DEFINE n == node[p]
           k == Len(n.keys)
           key == split.key
           left == split.left
           right == split.right
           pos == FindChild(n, key)
<1>1. /\ ~n.leaf /\ left \in PageIds /\ right \in PageIds /\ key \in Keys
      /\ n.vals \in Seq(Nat) /\ Len(n.vals) = k + 1 /\ Len(e.keys) = k + 1 /\ Len(e.vals) = k + 2
      /\ e.keys = InsertAt(n.keys, pos + 1, key) /\ e.vals = InsertAt(n.vals, pos + 2, right)
      /\ \A i \in 1 .. Len(e.vals) : e.vals[i] \in PageIds
  BY ChildEnteredTo
<1>2. PICK up : up = Upper(hi, split)
  OBVIOUS
<1>3. /\ k \in Nat /\ Tiled(n.keys, n.vals, k, lo, up, lo[p], hi[p])
      /\ \A j \in 1 .. Len(n.vals) : n.vals[j] \in PageIds /\ node[n.vals[j]].parent = p
      /\ \A i, j \in 1 .. Len(n.vals) : n.vals[i] = n.vals[j] => i = j
  BY <1>1, <1>2, InnerIs
<1>4. pos \in 0 .. k /\ n.vals[pos + 1] = left
  BY LeftIsAt
<1>5. n.keys \in Seq(Keys)
  BY NodeFacts
<1>6. /\ hi[left] = key /\ lo[right] = key /\ up[left] = hi[right]
      /\ \A q \in PageIds : q # left => hi[q] = up[q]
      /\ node[right].parent = p
  <2>1. hi[left] = key /\ lo[right] = key /\ node[right].parent = p
    BY DEF Bounds, Pending, SplitParent
  <2> QED BY <1>1, <1>2, <2>1, BoundsAre
<1>7. PICK vs : vs = n.vals
  OBVIOUS
<1>8. PICK ks : ks = n.keys
  OBVIOUS
<1>9. right \in Nat
  BY <1>1, PagesAre, SMTT(30)
<1> HIDE DEF n, k, key, left, right, pos
<1>10. PICK j \in 1 .. k + 1 : j = pos + 1
  BY <1>3, <1>4
<1>11. \A i \in 1 .. k + 1 : e.keys[i] = IF i < j THEN ks[i] ELSE IF i = j THEN key ELSE ks[i - 1]
  <2>1. j \in 1 .. Len(ks) + 1 /\ ks \in Seq(Keys) /\ Len(ks) = k
    BY <1>5, <1>8 DEF k
  <2>2. PICK g \in 1 .. Len(ks) + 1 : g = j
    BY <2>1
  <2>3. PICK t : t = InsertAt(ks, g, key)
    OBVIOUS
  <2>7. PICK S : S = Keys
    OBVIOUS
  <2>4. key \in S /\ ks \in Seq(S)
    BY <1>1, <2>1, <2>7
  <2>5. /\ InsertAt(ks, g, key) \in Seq(S) /\ Len(InsertAt(ks, g, key)) = Len(ks) + 1
        /\ \A i \in 1 .. Len(ks) + 1 :
             InsertAt(ks, g, key)[i] = IF i < g THEN ks[i] ELSE IF i = g THEN key ELSE ks[i - 1]
    BY <2>4, Inserted
  <2>6. e.keys = InsertAt(ks, g, key)
    BY <1>1, <1>8, <1>10, <2>2
  <2> QED BY <2>1, <2>2, <2>5, <2>6
<1>12. \A i \in 1 .. k + 2 : e.vals[i] = IF i < j + 1 THEN vs[i] ELSE IF i = j + 1 THEN right ELSE vs[i - 1]
  <2>1. vs \in Seq(Nat) /\ Len(vs) = k + 1
    BY <1>1, <1>7
  <2>2. PICK g \in 1 .. Len(vs) + 1 : g = j + 1
    BY <1>3, <2>1
  <2>3. PICK N : N = Nat
    OBVIOUS
  <2>4. vs \in Seq(N) /\ right \in N
    BY <1>9, <2>1, <2>3
  <2>5. /\ InsertAt(vs, g, right) \in Seq(N) /\ Len(InsertAt(vs, g, right)) = Len(vs) + 1
        /\ \A i \in 1 .. Len(vs) + 1 :
             InsertAt(vs, g, right)[i] = IF i < g THEN vs[i] ELSE IF i = g THEN right ELSE vs[i - 1]
    BY <2>4, Inserted, SMTT(30)
  <2>6. g = pos + 2 /\ Len(vs) + 1 = k + 2
    BY <1>3, <1>4, <1>10, <2>1, <2>2
  <2> QED BY <1>1, <1>7, <2>2, <2>5, <2>6
<1>13. vs[j] = left
  BY <1>4, <1>7, <1>10
<1>14. Tiled(e.keys, e.vals, k + 1, lo, hi, lo[p], hi[p])
  <2>1. \A i \in 1 .. k + 1 : i # j => hi[vs[i]] = up[vs[i]]
    <3>1. ASSUME NEW i \in 1 .. k + 1, i # j PROVE hi[vs[i]] = up[vs[i]]
      <4>1. vs[i] # vs[j] /\ vs[i] \in PageIds
        BY <1>1, <1>3, <1>7, <3>1
      <4> QED BY <1>6, <1>13, <4>1
    <3> QED BY <3>1
  <2>2. hi[vs[j]] = key /\ lo[right] = key /\ hi[right] = up[vs[j]]
    BY <1>6, <1>13
  <2>3. PICK es, ev, a, b : es = e.keys /\ ev = e.vals /\ a = lo[p] /\ b = hi[p]
    OBVIOUS
  <2>4. Tiled(ks, vs, k, lo, up, a, b)
    BY <1>3, <1>7, <1>8, <2>3
  <2>5. PICK k2 \in Nat : k2 = k + 2
    BY <1>3
  <2>8. PICK j1 \in Nat : j1 = j + 1
    BY <1>3
  <2>7. PICK k1 \in Nat : k1 = k + 1
    BY <1>3
  <2>9. Entered(ks, k1, j, key, es) /\ Entered(vs, k2, j1, right, ev)
    BY <1>11, <1>12, <2>3, <2>5, <2>7, <2>8 DEF Entered
  <2>6. Tiled(es, ev, k1, lo, hi, a, b)
    BY <1>3, <2>1, <2>2, <2>4, <2>5, <2>7, <2>8, <2>9, EnteredTiles
  <2> QED BY <2>3, <2>6, <2>7
<1>15. ASSUME NEW i \in 1 .. Len(e.vals) PROVE node[e.vals[i]].parent = p
  <2>1. i \in 1 .. k + 2
    BY <1>1
  <2>2. CASE i < j + 1
    <3>1. i \in 1 .. Len(n.vals) /\ e.vals[i] = n.vals[i]
      BY <1>1, <1>3, <1>7, <1>12, <2>1, <2>2
    <3> QED BY <1>3, <3>1
  <2>3. CASE i = j + 1
    BY <1>6, <1>12, <2>1, <2>3
  <2>4. CASE i > j + 1
    <3>1. PICK g \in 1 .. Len(n.vals) : g = i - 1
      BY <1>1, <1>3, <2>1, <2>4
    <3>2. e.vals[i] = n.vals[g]
      BY <1>3, <1>7, <1>12, <2>1, <2>4, <3>1
    <3> QED BY <1>3, <3>2
  <2> QED BY <1>3, <2>1, <2>2, <2>3, <2>4
<1>16. ASSUME NEW i \in 1 .. Len(n.vals) PROVE \E g \in 1 .. Len(e.vals) : e.vals[g] = n.vals[i]
  <2>1. CASE i < j + 1
    <3>1. i \in 1 .. k + 2
      BY <1>1, <1>3
    <3> QED BY <1>1, <1>7, <1>12, <2>1, <3>1
  <2>2. CASE ~(i < j + 1)
    <3>1. PICK g \in 1 .. k + 2 : g = i + 1
      BY <1>1, <1>3
    <3>2. ~(g < j + 1) /\ g # j + 1 /\ g - 1 = i
      BY <1>1, <1>3, <2>2, <3>1
    <3> QED BY <1>1, <1>7, <1>12, <3>2
  <2> QED BY <2>1, <2>2
<1>17. \E i \in 1 .. Len(e.vals) : e.vals[i] = right
  <2>1. PICK g \in 1 .. k + 2 : g = j + 1
    BY <1>3
  <2>2. ~(g < j + 1)
    BY <1>3, <2>1
  <2> QED BY <1>1, <1>12, <2>1, <2>2
<1> QED BY <1>1, <1>14, <1>15, <1>16, <1>17 DEF n, right

\* What a step needs to know of the nodes it leaves alone.
LEMMA NodeLinks ==
  ASSUME NEW ht, Shape(node, root_page_id, split, ht), NEW p \in PageIds
  PROVE  /\ node[p].next # INVALID_PAGE_ID => node[p].next \in PageIds
         /\ ~node[p].leaf => /\ Len(node[p].keys) \in Nat /\ Len(node[p].vals) = Len(node[p].keys) + 1
                             /\ \A j \in 1 .. Len(node[p].vals) : node[p].vals[j] \in PageIds
         /\ node[p].parent # INVALID_PAGE_ID => node[p].parent \in PageIds /\ node[p].parent # p
<1>1. NodeFits(node[p], ht[p], ht) /\ PageIds = 1 .. Len(ht) /\ Len(node[p].keys) \in Nat /\ ht[p] \in Nat
  BY NodeFacts
<1>2. node[p].parent # INVALID_PAGE_ID => ht[node[p].parent] = ht[p] + 1
  BY <1>1 DEF NodeFits
<1> QED BY <1>1, <1>2 DEF NodeFits

\* The fields the ranges speak of are as they were, and so are the ranges they lead to.
AlikeNode(n, n2) == n2.leaf = n.leaf /\ n2.next = n.next /\ n2.keys = n.keys /\ n2.vals = n.vals
SameLows(L, lo, lo2) == \A r \in L : lo2[r] = lo[r]
SameAbout(n, L, up, up2) ==
  /\ n.next # INVALID_PAGE_ID => n.next \in L
  /\ ~n.leaf => \A j \in 1 .. Len(n.keys) + 1 : n.vals[j] \in L /\ up2[n.vals[j]] = up[n.vals[j]]

\* A node whose fields the ranges speak of are as they were keeps its range.
LEMMA FencedSame ==
  ASSUME NEW n, NEW n2, AlikeNode(n, n2), NEW lo, NEW up, NEW lo2, NEW up2, NEW a, NEW b,
         Fenced(n, lo, up, a, b), NEW L, SameLows(L, lo, lo2), SameAbout(n, L, up, up2)
  PROVE  Fenced(n2, lo2, up2, a, b)
<1>0. /\ n2.leaf = n.leaf /\ n2.next = n.next /\ n2.keys = n.keys /\ n2.vals = n.vals
      /\ \A r \in L : lo2[r] = lo[r]
      /\ n.next # INVALID_PAGE_ID => n.next \in L
      /\ ~n.leaf => \A j \in 1 .. Len(n.keys) + 1 : n.vals[j] \in L /\ up2[n.vals[j]] = up[n.vals[j]]
  BY DEF AlikeNode, SameLows, SameAbout
<1>1. CASE n.leaf
  <2>1. KeysIn(n, a, b) /\ NextAt(n, lo, b)
    BY <1>1 DEF Fenced
  <2>2. KeysIn(n2, a, b) /\ NextAt(n2, lo2, b)
    BY <1>0, <2>1 DEF KeysIn, NextAt
  <2> QED BY <1>0, <1>1, <2>2 DEF Fenced
<1>2. CASE ~n.leaf
  <2>1. Tiled(n.keys, n.vals, Len(n.keys), lo, up, a, b)
    BY <1>2 DEF Fenced
  <2>2. Tiled(n.keys, n.vals, Len(n.keys), lo2, up2, a, b)
    BY <1>0, <1>2, <2>1 DEF Tiled
  <2> QED BY <1>0, <1>2, <2>2 DEF Fenced
<1> QED BY <1>1, <1>2

LEMMA BoundsInsertInParent ==
  ASSUME NEW ht, Shape(node, root_page_id, split, ht), InsertInParent,
         NEW lo, NEW hi, Bounds(node, root_page_id, split, lo, hi)
  PROVE  Bounds(node', root_page_id', split', lo, hi)
<1> DEFINE p == SplitParent
           e == ChildEntered(node[p])
           L == Len(node)
           left == split.left
           right == split.right
<1>1. /\ split # NoSplit /\ p \in PageIds /\ Len(node') = L
      /\ \A r \in 1 .. L : node'[r] = IF r = p THEN e ELSE node[r]
      /\ split' = NoSplit /\ root_page_id' = root_page_id /\ p # INVALID_PAGE_ID
  BY InsertInParentDoes DEF InsertInParent
<1>2. /\ ~node[p].leaf /\ ~e.leaf /\ e.parent = node[p].parent
      /\ left \in PageIds /\ right \in PageIds
  BY <1>1, ChildEnteredTo
<1>3. /\ Tiled(e.keys, e.vals, Len(e.keys), lo, hi, lo[p], hi[p])
      /\ \A i \in 1 .. Len(e.vals) : e.vals[i] \in PageIds /\ node[e.vals[i]].parent = p
      /\ \A j \in 1 .. Len(node[p].vals) : \E i \in 1 .. Len(e.vals) : e.vals[i] = node[p].vals[j]
      /\ \E i \in 1 .. Len(e.vals) : e.vals[i] = right
  BY <1>1, EnteredIs
<1>4. PICK up : up = Upper(hi, split)
  OBVIOUS
<1>5. /\ \A q \in PageIds : up[q] = IF q = left THEN hi[right] ELSE hi[q]
      /\ \A q \in PageIds : Fenced(node[q], lo, up, lo[q], hi[q])
  BY <1>1, <1>4, BoundsAre
<1>6. PageIds = 1 .. L /\ L \in Nat /\ Len(ht) = L /\ L > 0 /\ INVALID_PAGE_ID \notin PageIds
  BY <1>1, PagesAre
<1>7. node[left].parent = p /\ node[right].parent = p
  BY <1>1 DEF Bounds, Pending, SplitParent
<1>8. Ranges(L, lo, hi) /\ Parented(node, root_page_id, split)
  BY DEF Bounds, L
<1>9. Upper(hi, NoSplit) = hi
  BY <1>8, UpperIs
<1> HIDE DEF p, e, L, left, right
<1>10. AllFenced(node', lo, hi, hi)
  <2>1. ASSUME NEW r \in 1 .. L PROVE Fenced(node'[r], lo, hi, lo[r], hi[r])
    <3>1. CASE r = p
      BY <1>1, <1>2, <1>3, <1>6, <3>1 DEF Fenced
    <3>2. CASE r # p
      <4>1. node'[r] = node[r] /\ Fenced(node[r], lo, up, lo[r], hi[r]) /\ r \in PageIds
        BY <1>1, <1>5, <1>6, <3>2
      <4>2. node[r].next # INVALID_PAGE_ID => node[r].next \in PageIds
        BY <4>1, NodeLinks
      <4>3. ASSUME ~node[r].leaf
            PROVE  \A j \in 1 .. Len(node[r].keys) + 1 :
                     node[r].vals[j] \in PageIds /\ hi[node[r].vals[j]] = up[node[r].vals[j]]
        <5>1. ASSUME NEW j \in 1 .. Len(node[r].vals)
              PROVE  node[r].vals[j] \in PageIds /\ node[r].vals[j] # left
          <6>1. node[node[r].vals[j]].parent = r
            BY <1>6, <1>8, <4>1, <4>3, <5>1 DEF Parented, L
          <6> QED BY <1>7, <3>2, <4>1, <4>3, <5>1, <6>1, NodeLinks
        <5>2. Len(node[r].vals) = Len(node[r].keys) + 1
          BY <4>1, <4>3, NodeLinks
        <5> QED BY <1>5, <5>1, <5>2
      <4>4. Fenced(node[r], lo, hi, lo[r], hi[r])
        <5>1. PICK n : n = node[r]
          OBVIOUS
        <5>2. AlikeNode(n, n) /\ SameLows(PageIds, lo, lo)
          BY DEF AlikeNode, SameLows
        <5>3. SameAbout(n, PageIds, up, hi)
          BY <4>2, <4>3, <5>1 DEF SameAbout
        <5> QED BY <4>1, <5>1, <5>2, <5>3, FencedSame
      <4> QED BY <4>1, <4>4
    <3> QED BY <3>1, <3>2
  <2> QED BY <1>1, <2>1 DEF AllFenced
<1>11. \A r \in 1 .. L : node'[r].parent = node[r].parent
  BY <1>1, <1>2
<1>12. root_page_id \in 1 .. L
  BY <1>6 DEF Shape, RootFits
<1>13. Parented(node', root_page_id, NoSplit)
  <2>1. ASSUME NEW r \in 1 .. L, ~node'[r].leaf, NEW j \in 1 .. Len(node'[r].vals)
        PROVE  node'[node'[r].vals[j]].parent = r
    <3>1. CASE r = p
      <4>1. node'[r] = e
        BY <1>1, <3>1
      <4>2. e.vals[j] \in 1 .. L /\ node[e.vals[j]].parent = p
        BY <1>3, <1>6, <2>1, <4>1
      <4> QED BY <1>11, <3>1, <4>1, <4>2
    <3>2. CASE r # p
      <4>1. node'[r] = node[r] /\ r \in PageIds
        BY <1>1, <1>6, <3>2
      <4>2. node[node[r].vals[j]].parent = r /\ node[r].vals[j] \in 1 .. L
        BY <1>6, <1>8, <2>1, <4>1, NodeLinks DEF Parented, L
      <4> QED BY <1>11, <4>1, <4>2
    <3> QED BY <3>1, <3>2
  <2>2. ASSUME NEW r \in 1 .. L, r # root_page_id
        PROVE  node'[r].parent # INVALID_PAGE_ID /\ IsChild(node', node'[r].parent, r)
    <3>1. CASE r = right
      <4>1. IsChild(node', p, right)
        BY <1>1, <1>2, <1>3, <1>6 DEF IsChild
      <4> QED BY <1>1, <1>7, <1>11, <3>1, <4>1
    <3>2. CASE r # right
      <4>1. node[r].parent # INVALID_PAGE_ID /\ IsChild(node, node[r].parent, r)
        BY <1>8, <2>2, <3>2 DEF Parented, L, right
      <4>2. PICK g : g = node[r].parent
        OBVIOUS
      <4>3. g \in 1 .. L /\ ~node[g].leaf /\ \E j \in 1 .. Len(node[g].vals) : node[g].vals[j] = r
        BY <4>1, <4>2 DEF IsChild, L
      <4>4. CASE g = p
        <5>1. \E j \in 1 .. Len(e.vals) : e.vals[j] = r
          BY <1>3, <4>3, <4>4
        <5>2. IsChild(node', p, r)
          BY <1>1, <1>2, <1>6, <5>1 DEF IsChild
        <5> QED BY <1>11, <4>1, <4>2, <4>4, <5>2
      <4>5. CASE g # p
        <5>1. IsChild(node', g, r)
          BY <1>1, <4>3, <4>5 DEF IsChild
        <5> QED BY <1>11, <4>1, <4>2, <5>1
      <4> QED BY <4>4, <4>5
    <3> QED BY <3>1, <3>2
  <2>3. node'[root_page_id].parent = INVALID_PAGE_ID
    BY <1>6, <1>8, <1>11, <1>12 DEF Parented, L
  <2> QED BY <1>1, <2>1, <2>2, <2>3 DEF Parented
<1>14. Rooted(L, root_page_id, lo, hi)
  <2>1. lo[1] = 0 /\ lo[root_page_id] = 0 /\ up[root_page_id] = -1
    BY <1>4, <1>6 DEF Bounds, Rooted, L
  <2>2. root_page_id # left
    BY <1>1, <1>6, <1>7, <1>8 DEF Parented, L
  <2> QED BY <1>5, <1>6, <1>12, <2>1, <2>2 DEF Rooted
<1>15. Pending(node', NoSplit, lo, hi)
  BY DEF Pending
<1> QED BY <1>1, <1>8, <1>9, <1>10, <1>13, <1>14, <1>15 DEF Bounds

LEMMA BoundsCreateNewRoot ==
  ASSUME NEW ht, Shape(node, root_page_id, split, ht), CreateNewRoot,
         NEW lo, NEW hi, Bounds(node, root_page_id, split, lo, hi)
  PROVE  \E lo2, hi2 : Bounds(node', root_page_id', split', lo2, hi2)
<1> DEFINE L == Len(node)
           q == L + 1
           left == split.left
           right == split.right
           n == InternalNode(INVALID_PAGE_ID, <<split.key>>, <<left, right>>)
           lo2 == [r \in 1 .. q |-> IF r = q THEN 0 ELSE lo[r]]
           hi2 == [r \in 1 .. q |-> IF r = q THEN -1 ELSE hi[r]]
<1>1. /\ split # NoSplit /\ left \in PageIds /\ right \in PageIds
      /\ split.key \in Keys
      /\ node[left].parent = INVALID_PAGE_ID
      /\ Len(node') = q
      /\ \A i \in 1 .. L :
           node'[i] = IF i \in {left, right} THEN [node[i] EXCEPT !.parent = q] ELSE node[i]
      /\ node'[q] = n
      /\ split' = NoSplit /\ root_page_id' = q
  BY CreateNewRootDoes
<1>2. PageIds = 1 .. L /\ L \in Nat /\ Len(ht) = L /\ INVALID_PAGE_ID \notin PageIds
      /\ INVALID_PAGE_ID # q
  BY PagesAre
<1>3. \A i \in 1 .. L : node[i] \in Nodes
  BY <1>2, NodeFacts
<1>4. PICK up : up = Upper(hi, split)
  OBVIOUS
<1>5. /\ lo \in [PageIds -> Nat] /\ hi \in [PageIds -> Bound]
      /\ \A r \in PageIds : Under(lo[r], hi[r])
      /\ \A r \in PageIds : up[r] = IF r = left THEN hi[right] ELSE hi[r]
      /\ \A r \in PageIds : Fenced(node[r], lo, up, lo[r], hi[r])
  BY <1>1, <1>4, BoundsAre
<1>6. /\ hi[left] = split.key /\ lo[right] = split.key /\ node[right].parent = INVALID_PAGE_ID
      /\ Parented(node, root_page_id, split)
  BY <1>1 DEF Bounds, Pending
<1>7. split.key \in Nat
  BY <1>1, KeyAssumption
<1>8. n.keys = <<split.key>> /\ n.vals = <<left, right>> /\ ~n.leaf /\ n.parent = INVALID_PAGE_ID
  BY DEF InternalNode
<1>9. /\ n.keys[1] = split.key /\ Len(n.keys) = 1 /\ Len(n.vals) = 2
      /\ n.vals[1] = left /\ n.vals[2] = right
  BY <1>8
<1> HIDE DEF n, left, right, q, L
<1>10. left # right /\ left = root_page_id
  <2>1. left # right
    BY <1>1, <1>5, <1>6, <1>7 DEF Under
  <2> QED BY <1>1, <1>2, <1>6, <2>1 DEF Parented, L, right
<1>11. L > 0 /\ q \in 1 .. q /\ q \notin 1 .. L /\ (\A r \in 1 .. q : r \in 1 .. L \/ r = q)
       /\ \A r \in 1 .. L : r \in 1 .. q
  BY <1>1, <1>2 DEF q
<1>12. /\ \A r \in 1 .. L : lo2[r] = lo[r] /\ hi2[r] = hi[r]
       /\ lo2[q] = 0 /\ hi2[q] = -1
       /\ lo2 \in [1 .. q -> Nat] /\ hi2 \in [1 .. q -> Bound]
  BY <1>2, <1>5, <1>11 DEF Bound
<1> HIDE DEF lo2, hi2
<1>13. Ranges(q, lo2, hi2)
  BY <1>2, <1>5, <1>11, <1>12 DEF Ranges, Under
<1>14. Upper(hi2, NoSplit) = hi2
  BY <1>13, UpperIs
<1>15. \A i \in 1 .. L : /\ node'[i].leaf = node[i].leaf /\ node'[i].next = node[i].next
                         /\ node'[i].keys = node[i].keys /\ node'[i].vals = node[i].vals
                         /\ node'[i].parent = IF i \in {left, right} THEN q ELSE node[i].parent
  BY <1>1, <1>3 DEF Nodes
<1>16. lo[1] = 0 /\ lo[left] = 0 /\ hi[right] = -1
  <2>1. lo[1] = 0 /\ lo[root_page_id] = 0 /\ up[root_page_id] = -1
    BY <1>4, <1>11 DEF Bounds, Rooted, L
  <2> QED BY <1>1, <1>5, <1>10, <2>1
<1>17. ASSUME NEW r \in 1 .. L, ~node[r].leaf, NEW j \in 1 .. Len(node[r].vals)
       PROVE  /\ node[r].vals[j] \in 1 .. L /\ node[node[r].vals[j]].parent = r
              /\ node[r].vals[j] # left /\ node[r].vals[j] # right
  <2>1. node[r].vals[j] \in 1 .. L /\ node[node[r].vals[j]].parent = r
    BY <1>2, <1>6, <1>17, NodeLinks DEF Parented, L
  <2> QED BY <1>1, <1>2, <1>6, <2>1, SMTT(30)
<1>18. AllFenced(node', lo2, hi2, hi2)
  <2>1. ASSUME NEW r \in 1 .. q PROVE Fenced(node'[r], lo2, hi2, lo2[r], hi2[r])
    <3>1. CASE r = q
      <4>1. ASSUME NEW j \in 1 .. 1 + 1
            PROVE  /\ lo2[n.vals[j]] = IF j = 1 THEN 0 ELSE n.keys[j - 1]
                   /\ hi2[n.vals[j]] = IF j = 1 + 1 THEN -1 ELSE n.keys[j]
        <5>1. CASE j = 1
          BY <1>1, <1>2, <1>6, <1>9, <1>12, <1>16, <5>1
        <5>2. CASE j = 2
          BY <1>1, <1>2, <1>6, <1>9, <1>12, <1>16, <5>2
        <5> QED BY <5>1, <5>2
      <4>2. Tiled(n.keys, n.vals, 1, lo2, hi2, 0, -1)
        BY <4>1 DEF Tiled
      <4> QED BY <1>1, <1>8, <1>9, <1>12, <3>1, <4>2 DEF Fenced
    <3>2. CASE r \in 1 .. L
      <4>1. /\ Fenced(node[r], lo, up, lo[r], hi[r])
            /\ node[r].next # INVALID_PAGE_ID => node[r].next \in 1 .. L
            /\ ~node[r].leaf => Len(node[r].vals) = Len(node[r].keys) + 1
        BY <1>2, <1>5, <3>2, NodeLinks
      <4>2. ~node[r].leaf => \A j \in 1 .. Len(node[r].keys) + 1 :
              node[r].vals[j] \in 1 .. L /\ hi2[node[r].vals[j]] = up[node[r].vals[j]]
        BY <1>2, <1>5, <1>12, <1>17, <3>2, <4>1, SMTT(30)
      <4>3. /\ node'[r].leaf = node[r].leaf /\ node'[r].next = node[r].next
            /\ node'[r].keys = node[r].keys /\ node'[r].vals = node[r].vals
        BY <1>15, <3>2
      <4>4. \A i \in 1 .. L : lo2[i] = lo[i]
        BY <1>12
      <4>5. Fenced(node'[r], lo2, hi2, lo[r], hi[r])
        <5>1. PICK n1, n2, S, a, b : n1 = node[r] /\ n2 = node'[r] /\ S = 1 .. L /\ a = lo[r] /\ b = hi[r]
          OBVIOUS
        <5>2. AlikeNode(n1, n2) /\ SameLows(S, lo, lo2) /\ Fenced(n1, lo, up, a, b)
          BY <4>1, <4>3, <4>4, <5>1 DEF AlikeNode, SameLows
        <5>3. SameAbout(n1, S, up, hi2)
          BY <4>1, <4>2, <5>1 DEF SameAbout
        <5> QED BY <5>1, <5>2, <5>3, FencedSame
      <4> QED BY <1>12, <3>2, <4>5
    <3> QED BY <1>11, <3>1, <3>2
  <2> QED BY <1>1, <2>1 DEF AllFenced
<1>19. Parented(node', q, NoSplit)
  <2>1. ASSUME NEW r \in 1 .. q, ~node'[r].leaf, NEW j \in 1 .. Len(node'[r].vals)
        PROVE  node'[node'[r].vals[j]].parent = r
    <3>1. CASE r = q
      <4>1. j = 1 \/ j = 2
        <5>1. node'[r] = n
          BY <1>1, <3>1
        <5>2. Len(node'[r].vals) = 2
          BY <1>9, <5>1
        <5> QED BY <2>1, <5>2
      <4>2. node'[r].vals[j] \in {left, right}
        BY <1>1, <1>9, <3>1, <4>1
      <4> QED BY <1>1, <1>2, <1>15, <3>1, <4>2
    <3>2. CASE r \in 1 .. L
      <4>1. ~node[r].leaf /\ j \in 1 .. Len(node[r].vals) /\ node'[r].vals[j] = node[r].vals[j]
        BY <1>15, <2>1, <3>2
      <4>2. /\ node[r].vals[j] \in 1 .. L /\ node[node[r].vals[j]].parent = r
            /\ node[r].vals[j] \notin {left, right}
        BY <1>17, <3>2, <4>1
      <4> QED BY <1>15, <4>1, <4>2
    <3> QED BY <1>11, <3>1, <3>2
  <2>2. ASSUME NEW r \in 1 .. q, r # q
        PROVE  node'[r].parent # INVALID_PAGE_ID /\ IsChild(node', node'[r].parent, r)
    <3>1. r \in 1 .. L
      BY <1>11, <2>2
    <3>2. CASE r \in {left, right}
      <4>1. 1 \in 1 .. Len(n.vals) /\ 2 \in 1 .. Len(n.vals)
        BY <1>9
      <4>2. \E j \in 1 .. Len(n.vals) : n.vals[j] = r
        BY <1>9, <3>2, <4>1
      <4>3. IsChild(node', q, r)
        BY <1>1, <1>8, <1>11, <4>2 DEF IsChild
      <4> QED BY <1>2, <1>15, <3>1, <3>2, <4>3
    <3>3. CASE r \notin {left, right}
      <4>1. node[r].parent # INVALID_PAGE_ID /\ IsChild(node, node[r].parent, r)
        BY <1>6, <1>10, <3>1, <3>3 DEF Parented, L, right
      <4>2. PICK g : g = node[r].parent
        OBVIOUS
      <4>3. g \in 1 .. L /\ ~node[g].leaf /\ \E j \in 1 .. Len(node[g].vals) : node[g].vals[j] = r
        BY <4>1, <4>2 DEF IsChild, L
      <4>4. IsChild(node', g, r)
        BY <1>1, <1>11, <1>15, <4>3 DEF IsChild
      <4> QED BY <1>15, <3>1, <3>3, <4>1, <4>2, <4>4
    <3> QED BY <3>2, <3>3
  <2>3. node'[q].parent = INVALID_PAGE_ID
    BY <1>1, <1>8
  <2> QED BY <1>1, <2>1, <2>2, <2>3 DEF Parented
<1>20. Rooted(q, q, lo2, hi2)
  BY <1>11, <1>12, <1>16 DEF Rooted
<1>21. Pending(node', NoSplit, lo2, hi2)
  BY DEF Pending
<1>22. Bounds(node', root_page_id', split', lo2, hi2)
  BY <1>1, <1>13, <1>14, <1>18, <1>19, <1>20, <1>21 DEF Bounds
<1> QED BY <1>22

-----------------------------------------------------------------------------
(* The ranges when a full internal node is split. *)

\* t is the n elements of s after the first off.
PartOf(s, off, n, t) == \A i \in 1 .. n : t[i] = s[off + i]

\* The node up to its m-th key, which moves up, and the node after it.
LEMMA TiledParts ==
  ASSUME NEW k \in Nat, NEW m \in 1 .. k, NEW ks, NEW vs, NEW lo, NEW hi, NEW a, NEW b,
         Tiled(ks, vs, k, lo, hi, a, b), NEW ls, NEW lv, NEW rs, NEW rv, NEW c, c = ks[m],
         NEW n1 \in Nat, n1 = m - 1, NEW n2 \in Nat, n2 = k - m, NEW n3 \in Nat, n3 = k + 1 - m,
         PartOf(ks, 0, n1, ls), PartOf(vs, 0, m, lv), PartOf(ks, m, n2, rs), PartOf(vs, m, n3, rv)
  PROVE  Tiled(ls, lv, n1, lo, hi, a, c) /\ Tiled(rs, rv, n2, lo, hi, c, b)
<1>1. ASSUME NEW j \in 1 .. n1 + 1
      PROVE  /\ lo[lv[j]] = IF j = 1 THEN a ELSE ls[j - 1]
             /\ hi[lv[j]] = IF j = n1 + 1 THEN c ELSE ls[j]
  <2>1. j \in 1 .. m /\ j \in 1 .. k + 1 /\ j # k + 1 /\ 0 + j = j
    OBVIOUS
  <2>2. lv[j] = vs[j]
    BY <2>1 DEF PartOf
  <2>3. lo[vs[j]] = (IF j = 1 THEN a ELSE ks[j - 1]) /\ hi[vs[j]] = ks[j]
    BY <2>1 DEF Tiled
  <2>4. ASSUME j # 1 PROVE ls[j - 1] = ks[j - 1]
    <3>1. PICK g \in 1 .. n1 : g = j - 1
      BY <2>1, <2>4
    <3>2. 0 + g = g
      BY <3>1
    <3>3. ls[g] = ks[0 + g]
      BY DEF PartOf
    <3> QED BY <3>1, <3>2, <3>3
  <2>5. ASSUME j # n1 + 1 PROVE ls[j] = ks[j]
    <3>1. j \in 1 .. n1
      BY <2>1, <2>5
    <3>2. ls[j] = ks[0 + j]
      BY <3>1 DEF PartOf
    <3> QED BY <2>1, <3>2
  <2>6. j = n1 + 1 => j = m
    BY <2>1
  <2> QED BY <2>2, <2>3, <2>4, <2>5, <2>6
<1>2. ASSUME NEW j \in 1 .. n2 + 1
      PROVE  /\ lo[rv[j]] = IF j = 1 THEN c ELSE rs[j - 1]
             /\ hi[rv[j]] = IF j = n2 + 1 THEN b ELSE rs[j]
  <2>1. PICK g \in 1 .. k + 1 : g = m + j
    OBVIOUS
  <2>2. rv[j] = vs[g]
    BY <2>1 DEF PartOf
  <2>3. g # 1 /\ (g = k + 1 <=> j = n2 + 1)
    BY <2>1
  <2>4. lo[vs[g]] = ks[g - 1] /\ hi[vs[g]] = (IF g = k + 1 THEN b ELSE ks[g])
    BY <2>3 DEF Tiled
  <2>5. ASSUME j # 1 PROVE rs[j - 1] = ks[g - 1]
    <3>1. PICK f \in 1 .. n2 : f = j - 1
      BY <2>5
    <3>2. m + f = g - 1
      BY <2>1, <3>1
    <3>3. rs[f] = ks[m + f]
      BY DEF PartOf
    <3> QED BY <3>1, <3>2, <3>3
  <2>6. ASSUME j # n2 + 1 PROVE rs[j] = ks[g]
    <3>1. j \in 1 .. n2
      BY <2>6
    <3>2. rs[j] = ks[m + j]
      BY <3>1 DEF PartOf
    <3> QED BY <2>1, <3>2
  <2>7. j = 1 => g - 1 = m
    BY <2>1
  <2> QED BY <2>2, <2>3, <2>4, <2>5, <2>6, <2>7
<1> QED BY <1>1, <1>2 DEF Tiled

\* What the split makes of e, the full node p with the child that is entered: its middle
\* key m moves up, and what comes after it becomes the node q.
SplitParts(nodes, nodes2, e, p, q, k, m, s) ==
  /\ nodes2[p].leaf = FALSE /\ nodes2[p].parent = nodes[p].parent
  /\ Len(nodes2[p].keys) = m - 1 /\ PartOf(e.keys, 0, m - 1, nodes2[p].keys)
  /\ Len(nodes2[p].vals) = m /\ PartOf(e.vals, 0, m, nodes2[p].vals)
  /\ nodes2[q].leaf = FALSE /\ nodes2[q].parent = nodes[p].parent
  /\ Len(nodes2[q].keys) = k - m /\ PartOf(e.keys, m, k - m, nodes2[q].keys)
  /\ Len(nodes2[q].vals) = k + 1 - m /\ PartOf(e.vals, m, k + 1 - m, nodes2[q].vals)
  /\ s = [left |-> p, key |-> e.keys[m], right |-> q]

SplitsInner(nodes, nodes2, e, p, q, k, L, s) ==
  \E m \in 2 .. k - 1 :
    /\ SplitParts(nodes, nodes2, e, p, q, k, m, s)
    /\ \A r \in 1 .. L : r # p =>
         nodes2[r] = IF \E i \in m + 1 .. k + 1 : e.vals[i] = r
                     THEN [nodes[r] EXCEPT !.parent = q] ELSE nodes[r]

LEMMA SplitInnerParts ==
  ASSUME NEW ht, Shape(node, root_page_id, split, ht), SplitFullParent, ~refused',
         NEW p, p = SplitParent, NEW e, e = ChildEntered(node[p]),
         NEW L, L = Len(node), NEW q, q = L + 1, NEW k, k = Len(e.keys)
  PROVE  /\ p \in PageIds /\ split # NoSplit /\ Len(node') = q /\ k \in Nat
         /\ SplitsInner(node, node', e, p, q, k, L, split')
<1> DEFINE mid == k \div 2
           left == InternalNode(e.parent, SubSeq(e.keys, 1, mid), SubSeq(e.vals, 1, mid + 1))
           right == InternalNode(e.parent, SubSeq(e.keys, mid + 2, k), SubSeq(e.vals, mid + 2, k + 1))
           moved == ToSet(SubSeq(e.vals, mid + 2, k + 1))
<1>1. /\ split # NoSplit /\ p \in PageIds /\ k = InternalMax + 1 /\ mid \in 1 .. InternalMax - 1
      /\ Len(node') = q /\ node'[q] = right
      /\ split' = [left |-> p, key |-> e.keys[mid + 1], right |-> q]
      /\ \E lost \in SUBSET (moved \ {split.left, split.right}) :
           /\ \A r \in 1 .. Len(node) :
                node'[r] = IF r \in moved \ lost
                           THEN [(IF r = p THEN left ELSE node[r]) EXCEPT !.parent = q]
                           ELSE IF r = p THEN left ELSE node[r]
           /\ refused' = (refused \/ lost # {})
  BY SplitFullParentDoes
<1>2. \A r \in 1 .. L :
        node'[r] = IF r \in moved
                   THEN [(IF r = p THEN left ELSE node[r]) EXCEPT !.parent = q]
                   ELSE IF r = p THEN left ELSE node[r]
  <2>1. PICK lost \in SUBSET (moved \ {split.left, split.right}) :
           /\ \A r \in 1 .. Len(node) :
                node'[r] = IF r \in moved \ lost
                           THEN [(IF r = p THEN left ELSE node[r]) EXCEPT !.parent = q]
                           ELSE IF r = p THEN left ELSE node[r]
           /\ refused' = (refused \/ lost # {})
    BY <1>1
  <2>2. lost = {}
    BY <2>1
  <2> HIDE DEF moved, left
  <2>3. moved \ lost = moved
    BY <2>2
  <2> QED BY <2>1, <2>3
<1>3. /\ e.parent = node[p].parent /\ e.keys \in Seq(Keys) /\ e.vals \in Seq(Nat)
      /\ Len(e.vals) = k + 1
      /\ \A i \in 1 .. Len(e.vals) : e.vals[i] \in PageIds /\ ht[e.vals[i]] = ht[p] - 1
  <2>1. /\ e.parent = node[p].parent /\ e.keys \in Seq(Keys) /\ e.vals \in Seq(Nat)
        /\ Len(node[p].keys) \in 1 .. InternalMax
        /\ Len(e.keys) = Len(node[p].keys) + 1 /\ Len(e.vals) = Len(node[p].keys) + 2
        /\ \A i \in 1 .. Len(e.vals) : e.vals[i] \in PageIds /\ ht[e.vals[i]] = ht[p] - 1
    <3>1. split # NoSplit /\ p \in PageIds
      BY <1>1
    <3> HIDE DEF mid, left, right, moved
    <3>2. PICK n, f : n = node[p] /\ f = ChildEntered(n)
      OBVIOUS
    <3>3. /\ f.parent = n.parent /\ f.keys \in Seq(Keys) /\ f.vals \in Seq(Nat)
          /\ Len(n.keys) \in 1 .. InternalMax
          /\ Len(f.keys) = Len(n.keys) + 1 /\ Len(f.vals) = Len(n.keys) + 2
          /\ \A i \in 1 .. Len(f.vals) : f.vals[i] \in PageIds /\ ht[f.vals[i]] = ht[p] - 1
      BY <3>1, <3>2, ChildEnteredTo
    <3> QED BY <3>2, <3>3
  <2>2. InternalMax \in Nat
    BY SizeAssumption
  <2> QED BY <2>1, <2>2
<1>4. InternalMax \in Nat /\ PageIds = 1 .. L /\ L \in Nat /\ ht[p] \in Nat
  BY <1>1, SizeAssumption, PagesAre, NodeFacts
<1>5. PICK m \in 2 .. k - 1 : m = mid + 1
  BY <1>1, <1>4, SMTT(30)
<1>6. /\ k \in Nat /\ m \in 2 .. k - 1 /\ mid = m - 1 /\ mid + 1 = m /\ mid + 2 = m + 1
  BY <1>1, <1>4, <1>5, SMTT(30)
<1> HIDE DEF mid
<1>7. /\ ~left.leaf /\ left.parent = node[p].parent /\ left.keys = SubSeq(e.keys, 1, m - 1)
      /\ left.vals = SubSeq(e.vals, 1, m)
      /\ ~right.leaf /\ right.parent = node[p].parent /\ right.keys = SubSeq(e.keys, m + 1, k)
      /\ right.vals = SubSeq(e.vals, m + 1, k + 1) /\ moved = ToSet(SubSeq(e.vals, m + 1, k + 1))
      /\ left.leaf = FALSE /\ right.leaf = FALSE
  BY <1>3, <1>6 DEF InternalNode
<1> HIDE DEF left, right, moved
<1>8. PICK s, t : s = e.keys /\ t = e.vals
  OBVIOUS
<1>9. s \in Seq(Keys) /\ t \in Seq(Nat) /\ Len(s) = k /\ Len(t) = k + 1
  BY <1>3, <1>8
<1>10. Len(left.keys) = m - 1 /\ PartOf(s, 0, m - 1, left.keys)
  <2>1. PICK c \in 1 .. Len(s) + 1 : c = 1
    BY <1>6, <1>9
  <2>2. PICK d \in c - 1 .. Len(s) : d = m - 1
    BY <1>6, <1>9, <2>1
  <2>3. /\ Len(SubSeq(s, c, d)) = d - c + 1
        /\ \A i \in 1 .. d - c + 1 : SubSeq(s, c, d)[i] = s[c + i - 1]
    BY <1>9, Piece
  <2>4. left.keys = SubSeq(s, c, d) /\ d - c + 1 = m - 1 /\ \A i \in 1 .. m - 1 : c + i - 1 = 0 + i
    BY <1>6, <1>7, <1>8, <2>1, <2>2
  <2> QED BY <2>3, <2>4 DEF PartOf
<1>11. Len(left.vals) = m /\ PartOf(t, 0, m, left.vals)
  <2>1. PICK c \in 1 .. Len(t) + 1 : c = 1
    BY <1>6, <1>9
  <2>2. PICK d \in c - 1 .. Len(t) : d = m
    BY <1>6, <1>9, <2>1
  <2>5. PICK N : N = Nat
    OBVIOUS
  <2>6. t \in Seq(N)
    BY <1>9, <2>5
  <2>3. /\ Len(SubSeq(t, c, d)) = d - c + 1
        /\ \A i \in 1 .. d - c + 1 : SubSeq(t, c, d)[i] = t[c + i - 1]
    BY <2>6, Piece
  <2>4. left.vals = SubSeq(t, c, d) /\ d - c + 1 = m /\ \A i \in 1 .. m : c + i - 1 = 0 + i
    BY <1>6, <1>7, <1>8, <2>1, <2>2
  <2> QED BY <2>3, <2>4 DEF PartOf
<1>12. Len(right.keys) = k - m /\ PartOf(s, m, k - m, right.keys)
  <2>1. PICK c \in 1 .. Len(s) + 1 : c = m + 1
    BY <1>6, <1>9
  <2>2. PICK d \in c - 1 .. Len(s) : d = k
    BY <1>6, <1>9, <2>1
  <2>3. /\ Len(SubSeq(s, c, d)) = d - c + 1
        /\ \A i \in 1 .. d - c + 1 : SubSeq(s, c, d)[i] = s[c + i - 1]
    BY <1>9, Piece
  <2>4. right.keys = SubSeq(s, c, d) /\ d - c + 1 = k - m /\ \A i \in 1 .. k - m : c + i - 1 = m + i
    BY <1>6, <1>7, <1>8, <2>1, <2>2
  <2> QED BY <2>3, <2>4 DEF PartOf
<1>13. Len(right.vals) = k + 1 - m /\ PartOf(t, m, k + 1 - m, right.vals) /\ right.vals \in Seq(Nat)
  <2>1. PICK c \in 1 .. Len(t) + 1 : c = m + 1
    BY <1>6, <1>9
  <2>2. PICK d \in c - 1 .. Len(t) : d = k + 1
    BY <1>6, <1>9, <2>1
  <2>5. PICK N : N = Nat
    OBVIOUS
  <2>6. t \in Seq(N)
    BY <1>9, <2>5
  <2>3. /\ SubSeq(t, c, d) \in Seq(N) /\ Len(SubSeq(t, c, d)) = d - c + 1
        /\ \A i \in 1 .. d - c + 1 : SubSeq(t, c, d)[i] = t[c + i - 1]
    BY <2>6, Piece
  <2>4. right.vals = SubSeq(t, c, d) /\ d - c + 1 = k + 1 - m /\ \A i \in 1 .. k + 1 - m : c + i - 1 = m + i
    BY <1>6, <1>7, <1>8, <2>1, <2>2
  <2> QED BY <2>3, <2>4, <2>5 DEF PartOf
<1>14. \A r : r \in moved <=> \E i \in m + 1 .. k + 1 : t[i] = r
  <2>1. DOMAIN right.vals = 1 .. k + 1 - m /\ moved = {right.vals[i] : i \in 1 .. k + 1 - m}
    <3>1. PICK v : v = right.vals
      OBVIOUS
    <3>2. v \in Seq(Nat) /\ Len(v) = k + 1 - m
      BY <1>13, <3>1
    <3>3. DOMAIN v = 1 .. k + 1 - m
      BY <3>2, LenProperties
    <3>4. moved = ToSet(v)
      BY <1>7, <3>1
    <3> QED BY <3>1, <3>3, <3>4 DEF ToSet
  <2>2. ASSUME NEW i \in 1 .. k + 1 - m PROVE \E g \in m + 1 .. k + 1 : t[g] = right.vals[i]
    <3>1. m + i \in m + 1 .. k + 1
      BY <1>6
    <3> QED BY <1>13, <3>1 DEF PartOf
  <2>3. ASSUME NEW g \in m + 1 .. k + 1 PROVE t[g] \in moved
    <3>1. PICK i \in 1 .. k + 1 - m : i = g - m
      BY <1>6
    <3>2. m + i = g
      BY <1>6, <3>1
    <3>3. right.vals[i] = t[g]
      BY <1>13, <3>2 DEF PartOf
    <3> QED BY <2>1, <3>3
  <2>4. ASSUME NEW r \in moved PROVE \E i \in m + 1 .. k + 1 : t[i] = r
    <3>1. PICK i \in 1 .. k + 1 - m : r = right.vals[i]
      BY <2>1
    <3>2. PICK g \in m + 1 .. k + 1 : t[g] = right.vals[i]
      BY <2>2
    <3> QED BY <3>1, <3>2
  <2> QED BY <2>3, <2>4
<1>15. p \notin moved
  <2>1. SUFFICES ASSUME NEW i \in m + 1 .. k + 1, t[i] = p PROVE FALSE
    BY <1>14
  <2>2. i \in 1 .. Len(e.vals)
    BY <1>3, <1>6
  <2>3. ht[p] = ht[p] - 1
    BY <1>3, <1>8, <2>1, <2>2
  <2> QED BY <1>4, <2>3
<1>16. node'[p] = left /\ node'[q] = right
  BY <1>1, <1>2, <1>4, <1>15
<1>17. SplitParts(node, node', e, p, q, k, m, split')
  BY <1>1, <1>6, <1>7, <1>8, <1>10, <1>11, <1>12, <1>13, <1>16, ZenonT(30) DEF SplitParts
<1>18. \A r \in 1 .. L : r # p =>
         node'[r] = IF \E i \in m + 1 .. k + 1 : e.vals[i] = r
                    THEN [node[r] EXCEPT !.parent = q] ELSE node[r]
  <2>1. ASSUME NEW r \in 1 .. L, r # p
        PROVE node'[r] = IF \E i \in m + 1 .. k + 1 : e.vals[i] = r
                         THEN [node[r] EXCEPT !.parent = q] ELSE node[r]
    <3>1. r \in moved <=> \E i \in m + 1 .. k + 1 : e.vals[i] = r
      BY <1>8, <1>14
    <3>2. node'[r] = IF r \in moved THEN [node[r] EXCEPT !.parent = q] ELSE node[r]
      BY <1>2, <2>1
    <3> QED BY <3>1, <3>2
  <2> QED BY <2>1
<1> QED BY <1>1, <1>6, <1>17, <1>18 DEF SplitsInner

LEMMA BoundsSplitFullParent ==
  ASSUME NEW ht, Shape(node, root_page_id, split, ht), SplitFullParent, ~refused',
         NEW lo, NEW hi, Bounds(node, root_page_id, split, lo, hi)
  PROVE  \E lo2, hi2 : Bounds(node', root_page_id', split', lo2, hi2)
<1> DEFINE p == SplitParent
           e == ChildEntered(node[p])
           L == Len(node)
           q == L + 1
           k == Len(e.keys)
           left == split.left
           right == split.right
           a == node'[p]
           b == node'[q]
<1>1. /\ p \in PageIds /\ split # NoSplit /\ Len(node') = q /\ k \in Nat
      /\ SplitsInner(node, node', e, p, q, k, L, split')
  <2>1. PICK p1, L1 : p1 = SplitParent /\ L1 = Len(node)
    OBVIOUS
  <2>2. PICK e1, q1 : e1 = ChildEntered(node[p1]) /\ q1 = L1 + 1
    OBVIOUS
  <2>3. PICK k1 : k1 = Len(e1.keys)
    OBVIOUS
  <2>5. p1 = p /\ L1 = L /\ e1 = e /\ q1 = q /\ k1 = k
    BY <2>1, <2>2, <2>3
  <2> HIDE DEF p, e, L, q, k
  <2>4. /\ p1 \in PageIds /\ split # NoSplit /\ Len(node') = q1 /\ k1 \in Nat
        /\ SplitsInner(node, node', e1, p1, q1, k1, L1, split')
    BY <2>1, <2>2, <2>3, SplitInnerParts
  <2> QED BY <2>4, <2>5
<1>2. PICK m \in 2 .. k - 1 :
        /\ SplitParts(node, node', e, p, q, k, m, split')
        /\ \A r \in 1 .. L : r # p =>
             node'[r] = IF \E i \in m + 1 .. k + 1 : e.vals[i] = r
                        THEN [node[r] EXCEPT !.parent = q] ELSE node[r]
  <2> HIDE DEF p, e, q, k, L
  <2> QED BY <1>1 DEF SplitsInner
<1>3. /\ ~node[p].leaf /\ ~e.leaf /\ e.parent = node[p].parent /\ e.keys \in Seq(Nat)
      /\ Len(e.vals) = k + 1 /\ Ascending(e.keys)
      /\ left \in PageIds /\ right \in PageIds
  <2>1. PICK n, f : n = node[p] /\ f = ChildEntered(n)
    OBVIOUS
  <2>2. /\ ~n.leaf /\ ~f.leaf /\ f.parent = n.parent /\ f.keys \in Seq(Nat) /\ Ascending(f.keys)
        /\ Len(n.keys) \in 1 .. InternalMax
        /\ Len(f.keys) = Len(n.keys) + 1 /\ Len(f.vals) = Len(n.keys) + 2
        /\ split.left \in PageIds /\ split.right \in PageIds
    BY <1>1, <2>1, ChildEnteredTo
  <2> QED BY <2>1, <2>2, SizeAssumption
<1>4. /\ Tiled(e.keys, e.vals, k, lo, hi, lo[p], hi[p])
      /\ \A i \in 1 .. Len(e.vals) : e.vals[i] \in PageIds /\ node[e.vals[i]].parent = p
      /\ \A j \in 1 .. Len(node[p].vals) : \E i \in 1 .. Len(e.vals) : e.vals[i] = node[p].vals[j]
      /\ \E i \in 1 .. Len(e.vals) : e.vals[i] = right
  BY <1>1, EnteredIs
<1>5. PICK up : up = Upper(hi, split)
  OBVIOUS
<1>6. /\ lo \in [PageIds -> Nat] /\ hi \in [PageIds -> Bound]
      /\ \A r \in PageIds : Under(lo[r], hi[r])
      /\ \A r \in PageIds : up[r] = IF r = left THEN hi[right] ELSE hi[r]
      /\ \A r \in PageIds : Fenced(node[r], lo, up, lo[r], hi[r])
  BY <1>1, <1>5, BoundsAre
<1>7. PageIds = 1 .. L /\ L \in Nat /\ Len(ht) = L /\ L > 0 /\ INVALID_PAGE_ID \notin PageIds
      /\ INVALID_PAGE_ID # q
  BY <1>1, PagesAre
<1>8. node[left].parent = p /\ node[right].parent = p
  BY <1>1 DEF Bounds, Pending, SplitParent
<1>9. Ranges(L, lo, hi) /\ Parented(node, root_page_id, split)
  BY DEF Bounds, L
<1>10. \A r \in 1 .. L : node[r] \in Nodes /\ node[r].parent # r
  BY <1>7, NodeFacts, NodeLinks
<1>11. left # p
  BY <1>3, <1>7, <1>8, <1>10
<1> HIDE DEF p, e, L, left, right
<1>12. /\ \A j \in 1 .. k : e.keys[j] \in Nat
       /\ \A i, j \in 1 .. k : i < j => e.keys[i] <= e.keys[j]
  <2>1. DOMAIN e.keys = 1 .. k
    BY <1>3, LenProperties
  <2>2. \A j \in 1 .. k : e.keys[j] \in Nat
    BY <1>3, ElementOfSeq
  <2> QED BY <1>3, <2>1, <2>2 DEF Ascending
<1>13. m \in 1 .. k /\ k \in Nat /\ m \in Nat /\ m - 1 \in Nat /\ k - m \in Nat /\ k + 1 - m \in Nat
  BY <1>1, <1>2
<1> HIDE DEF k
<1>14. /\ \A j \in 1 .. k : lo[p] < e.keys[j] /\ Under(e.keys[j], hi[p])
       /\ \A i, j \in 1 .. k + 1 : e.vals[i] = e.vals[j] => i = j
  <2>1. PICK ks, vs, c, d : ks = e.keys /\ vs = e.vals /\ c = lo[p] /\ d = hi[p]
    OBVIOUS
  <2>2. c \in Nat /\ d \in Bound
    BY <1>1, <1>6, <2>1
  <2>3. \A j \in 1 .. k + 1 : Under(lo[vs[j]], hi[vs[j]])
    BY <1>3, <1>4, <1>6, <2>1
  <2>4. /\ \A j \in 1 .. k : ks[j] \in Nat
        /\ \A i, j \in 1 .. k : i < j => ks[i] <= ks[j]
        /\ Tiled(ks, vs, k, lo, hi, c, d)
    BY <1>4, <1>12, <2>1
  <2>5. /\ \A j \in 1 .. k : c < ks[j] /\ Under(ks[j], d)
        /\ \A i, j \in 1 .. k + 1 : vs[i] = vs[j] => i = j
    BY <1>13, <2>2, <2>3, <2>4, TiledInside
  <2> QED BY <2>1, <2>5
<1>15. PICK x : x = e.keys[m]
  OBVIOUS
<1>16. x \in Nat /\ lo[p] < x /\ Under(x, hi[p])
  BY <1>12, <1>13, <1>14, <1>15
<1>17. /\ ~a.leaf /\ a.parent = node[p].parent /\ Len(a.keys) = m - 1 /\ Len(a.vals) = m
       /\ ~b.leaf /\ b.parent = node[p].parent /\ Len(b.keys) = k - m /\ Len(b.vals) = k + 1 - m
       /\ split' = [left |-> p, key |-> x, right |-> q]
       /\ PartOf(e.keys, 0, m - 1, a.keys) /\ PartOf(e.vals, 0, m, a.vals)
       /\ PartOf(e.keys, m, k - m, b.keys) /\ PartOf(e.vals, m, k + 1 - m, b.vals)
  BY <1>2, <1>15 DEF SplitParts
<1> HIDE DEF a, b
<1>18. Tiled(a.keys, a.vals, m - 1, lo, hi, lo[p], x) /\ Tiled(b.keys, b.vals, k - m, lo, hi, x, hi[p])
  <2>1. PICK n1 \in Nat : n1 = m - 1
    BY <1>13
  <2>2. PICK n2 \in Nat : n2 = k - m
    BY <1>13
  <2>3. PICK n3 \in Nat : n3 = k + 1 - m
    BY <1>13
  <2>4. PICK ks, vs, c, d : ks = e.keys /\ vs = e.vals /\ c = lo[p] /\ d = hi[p]
    OBVIOUS
  <2>5. PICK ls, lv, rs, rv : ls = a.keys /\ lv = a.vals /\ rs = b.keys /\ rv = b.vals
    OBVIOUS
  <2>6. /\ Tiled(ks, vs, k, lo, hi, c, d) /\ x = ks[m]
        /\ PartOf(ks, 0, n1, ls) /\ PartOf(vs, 0, m, lv) /\ PartOf(ks, m, n2, rs) /\ PartOf(vs, m, n3, rv)
    BY <1>4, <1>15, <1>17, <2>1, <2>2, <2>3, <2>4, <2>5
  <2>7. Tiled(ls, lv, n1, lo, hi, c, x) /\ Tiled(rs, rv, n2, lo, hi, x, d)
    BY <1>13, <2>1, <2>2, <2>3, <2>6, TiledParts
  <2> QED BY <2>1, <2>2, <2>4, <2>5, <2>7
\* The children of both are those of e.
<1>19. /\ \A j \in 1 .. Len(a.vals) : \E i \in 1 .. m : a.vals[j] = e.vals[i]
       /\ \A j \in 1 .. Len(b.vals) : \E i \in m + 1 .. k + 1 : b.vals[j] = e.vals[i]
       /\ \A i \in 1 .. m : \E j \in 1 .. Len(a.vals) : a.vals[j] = e.vals[i]
       /\ \A i \in m + 1 .. k + 1 : \E j \in 1 .. Len(b.vals) : b.vals[j] = e.vals[i]
  <2>1. ASSUME NEW j \in 1 .. m PROVE a.vals[j] = e.vals[j]
    <3>1. a.vals[j] = e.vals[0 + j]
      BY <1>17 DEF PartOf
    <3> QED BY <3>1
  <2>2. ASSUME NEW j \in 1 .. Len(b.vals) PROVE \E i \in m + 1 .. k + 1 : b.vals[j] = e.vals[i]
    <3>1. PICK i \in m + 1 .. k + 1 : i = m + j
      BY <1>13, <1>17
    <3>2. b.vals[j] = e.vals[m + j]
      BY <1>17 DEF PartOf
    <3> QED BY <3>1, <3>2
  <2>3. ASSUME NEW i \in m + 1 .. k + 1 PROVE \E j \in 1 .. Len(b.vals) : b.vals[j] = e.vals[i]
    <3>1. PICK j \in 1 .. Len(b.vals) : i = m + j
      <4>1. i - m \in 1 .. k + 1 - m /\ i = m + (i - m)
        BY <1>13
      <4> QED BY <1>17, <4>1
    <3>2. b.vals[j] = e.vals[m + j]
      BY <1>17 DEF PartOf
    <3> QED BY <3>1, <3>2
  <2> QED BY <1>17, <2>1, <2>2, <2>3
<1>20. \A i \in 1 .. k + 1 : e.vals[i] \in 1 .. L /\ node[e.vals[i]].parent = p
  BY <1>3, <1>4, <1>7
<1> DEFINE Moved(r) == \E i \in m + 1 .. k + 1 : e.vals[i] = r
<1>21. \A r \in 1 .. L : Moved(r) => node[r].parent = p /\ r # p
  <2>1. ASSUME NEW r \in 1 .. L, Moved(r) PROVE node[r].parent = p /\ r # p
    <3>1. PICK i \in m + 1 .. k + 1 : e.vals[i] = r
      BY <2>1
    <3>2. i \in 1 .. k + 1
      BY <1>13
    <3>3. node[r].parent = p
      BY <1>20, <3>1, <3>2
    <3> QED BY <1>10, <3>3
  <2> QED BY <2>1
<1>22. \A i \in 1 .. m : ~Moved(e.vals[i])
  <2>1. SUFFICES ASSUME NEW i \in 1 .. m, NEW j \in m + 1 .. k + 1, e.vals[j] = e.vals[i] PROVE FALSE
    OBVIOUS
  <2>2. i \in 1 .. k + 1 /\ j \in 1 .. k + 1 /\ i # j
    BY <1>13
  <2> QED BY <1>14, <2>1, <2>2
<1>23. \A r \in 1 .. L : r # p => node'[r] = IF Moved(r) THEN [node[r] EXCEPT !.parent = q] ELSE node[r]
  BY <1>2
<1> HIDE DEF Moved
<1>24. /\ \A r \in 1 .. q : r \in 1 .. L \/ r = q
       /\ \A r \in 1 .. L : r \in 1 .. q /\ r # q
       /\ q \in 1 .. q /\ q \in Nat /\ p \in 1 .. L
  BY <1>1, <1>7
<1>25. \A r \in 1 .. L : /\ r # p => /\ node'[r].leaf = node[r].leaf /\ node'[r].next = node[r].next
                                     /\ node'[r].keys = node[r].keys /\ node'[r].vals = node[r].vals
                         /\ node'[r].parent = IF Moved(r) THEN q ELSE node[r].parent
  <2>1. ASSUME NEW r \in 1 .. L
        PROVE  /\ r # p => /\ node'[r].leaf = node[r].leaf /\ node'[r].next = node[r].next
                           /\ node'[r].keys = node[r].keys /\ node'[r].vals = node[r].vals
               /\ node'[r].parent = IF Moved(r) THEN q ELSE node[r].parent
    <3>1. CASE r = p
      BY <1>17, <1>21, <3>1 DEF a
    <3>2. CASE r # p
      BY <1>10, <1>23, <3>2 DEF Nodes
    <3> QED BY <3>1, <3>2
  <2> QED BY <2>1
<1> DEFINE s2 == [left |-> p, key |-> x, right |-> q]
<1>26. PICK lo2, hi2 : Ranges(L + 1, lo2, hi2) /\ SplitAt(L, lo, hi, p, x, lo2, hi2, Upper(hi2, s2))
  BY <1>7, <1>9, <1>16, <1>24, SplitRanges DEF q
<1> DEFINE up2 == Upper(hi2, s2)
<1>27. split' = s2 /\ s2.left = p /\ s2.key = x /\ s2.right = q /\ root_page_id' = root_page_id
  BY <1>17 DEF SplitFullParent
<1> HIDE DEF up2, s2
<1>28. /\ \A r \in 1 .. L : lo2[r] = lo[r] /\ up2[r] = hi[r]
       /\ \A r \in 1 .. L : r # p => hi2[r] = hi[r]
       /\ lo2[q] = x /\ hi2[p] = x /\ hi2[q] = hi[p] /\ up2[q] = hi[p]
  BY <1>26 DEF SplitAt, q, up2
<1> HIDE DEF q
\* A child of a node other than p keeps its parent, and is not left.
<1>29. ASSUME NEW r \in 1 .. L, r # p, ~node[r].leaf, NEW j \in 1 .. Len(node[r].vals)
       PROVE  /\ node[r].vals[j] \in 1 .. L /\ node[node[r].vals[j]].parent = r
              /\ ~Moved(node[r].vals[j]) /\ node[r].vals[j] # left
  <2>1. node[r].vals[j] \in 1 .. L /\ node[node[r].vals[j]].parent = r
    BY <1>7, <1>9, <1>29, NodeLinks DEF Parented, L
  <2> QED BY <1>8, <1>21, <1>29, <2>1
<1>30. AllFenced(node', lo2, hi2, up2)
  <2>1. ASSUME NEW r \in 1 .. q PROVE Fenced(node'[r], lo2, up2, lo2[r], hi2[r])
    <3>1. CASE r = p
      <4>1. \A j \in 1 .. m - 1 + 1 : a.vals[j] \in 1 .. L
        <5>1. ASSUME NEW j \in 1 .. m - 1 + 1 PROVE a.vals[j] \in 1 .. L
          <6>1. j \in 1 .. Len(a.vals)
            BY <1>13, <1>17
          <6>2. PICK i \in 1 .. m : a.vals[j] = e.vals[i]
            BY <1>19, <6>1
          <6>3. i \in 1 .. k + 1
            BY <1>13
          <6> QED BY <1>20, <6>2, <6>3
        <5> QED BY <5>1
      <4>2. Tiled(a.keys, a.vals, m - 1, lo2, up2, lo[p], x)
        BY <1>18, <1>28, <4>1 DEF Tiled
      <4> QED BY <1>17, <1>24, <1>28, <3>1, <4>2 DEF Fenced, a
    <3>2. CASE r = q
      <4>1. \A j \in 1 .. k - m + 1 : b.vals[j] \in 1 .. L
        <5>1. ASSUME NEW j \in 1 .. k - m + 1 PROVE b.vals[j] \in 1 .. L
          <6>1. j \in 1 .. Len(b.vals)
            BY <1>13, <1>17
          <6>2. PICK i \in m + 1 .. k + 1 : b.vals[j] = e.vals[i]
            BY <1>19, <6>1
          <6>3. i \in 1 .. k + 1
            BY <1>13
          <6> QED BY <1>20, <6>2, <6>3
        <5> QED BY <5>1
      <4>2. Tiled(b.keys, b.vals, k - m, lo2, up2, x, hi[p])
        BY <1>18, <1>28, <4>1 DEF Tiled
      <4> QED BY <1>17, <1>28, <3>2, <4>2 DEF Fenced, b
    <3>3. CASE r \in 1 .. L /\ r # p
      <4>1. /\ Fenced(node[r], lo, up, lo[r], hi[r])
            /\ node[r].next # INVALID_PAGE_ID => node[r].next \in 1 .. L
            /\ ~node[r].leaf => /\ Len(node[r].keys) \in Nat
                                /\ Len(node[r].vals) = Len(node[r].keys) + 1
        BY <1>6, <1>7, <3>3, NodeLinks
      <4>2. ~node[r].leaf => \A j \in 1 .. Len(node[r].keys) + 1 :
              node[r].vals[j] \in 1 .. L /\ up2[node[r].vals[j]] = up[node[r].vals[j]]
        <5>1. ASSUME ~node[r].leaf, NEW j \in 1 .. Len(node[r].vals)
              PROVE  node[r].vals[j] \in 1 .. L /\ up2[node[r].vals[j]] = up[node[r].vals[j]]
          <6>1. node[r].vals[j] \in 1 .. L /\ node[r].vals[j] # left
            BY <1>29, <3>3, <5>1
          <6> QED BY <1>6, <1>7, <1>28, <6>1
        <5> QED BY <4>1, <5>1
      <4>3. PICK n1, n2, S, c, d : n1 = node[r] /\ n2 = node'[r] /\ S = 1 .. L /\ c = lo[r] /\ d = hi[r]
        OBVIOUS
      <4>4. AlikeNode(n1, n2) /\ SameLows(S, lo, lo2) /\ Fenced(n1, lo, up, c, d)
        BY <1>25, <1>28, <3>3, <4>1, <4>3 DEF AlikeNode, SameLows
      <4>5. SameAbout(n1, S, up, up2)
        BY <4>1, <4>2, <4>3 DEF SameAbout
      <4>6. Fenced(n2, lo2, up2, c, d)
        BY <4>4, <4>5, FencedSame
      <4> QED BY <1>28, <3>3, <4>3, <4>6
    <3> QED BY <1>24, <3>1, <3>2, <3>3
  <2> QED BY <1>1, <2>1 DEF AllFenced
<1>31. root_page_id \in 1 .. L
  BY <1>7 DEF Shape, RootFits
<1>32. Parented(node', root_page_id, s2)
  <2>1. ASSUME NEW r \in 1 .. q, ~node'[r].leaf, NEW j \in 1 .. Len(node'[r].vals)
        PROVE  node'[node'[r].vals[j]].parent = r
    <3>1. CASE r = p
      <4>1. PICK i \in 1 .. m : a.vals[j] = e.vals[i]
        BY <1>19, <2>1, <3>1 DEF a
      <4>2. i \in 1 .. k + 1
        BY <1>13
      <4>3. e.vals[i] \in 1 .. L /\ node[e.vals[i]].parent = p /\ ~Moved(e.vals[i])
        BY <1>20, <1>22, <4>2
      <4>4. node'[r].vals[j] = e.vals[i]
        BY <3>1, <4>1 DEF a
      <4> QED BY <1>25, <3>1, <4>3, <4>4
    <3>2. CASE r = q
      <4>1. PICK i \in m + 1 .. k + 1 : b.vals[j] = e.vals[i]
        BY <1>19, <2>1, <3>2 DEF b
      <4>2. i \in 1 .. k + 1 /\ Moved(e.vals[i])
        BY <1>13 DEF Moved
      <4>3. e.vals[i] \in 1 .. L
        BY <1>20, <4>2
      <4>4. node'[r].vals[j] = e.vals[i]
        BY <3>2, <4>1 DEF b
      <4> QED BY <1>25, <3>2, <4>2, <4>3, <4>4
    <3>3. CASE r \in 1 .. L /\ r # p
      <4>1. ~node[r].leaf /\ node'[r].vals = node[r].vals
        BY <1>25, <2>1, <3>3
      <4>2. /\ node[r].vals[j] \in 1 .. L /\ node[node[r].vals[j]].parent = r
            /\ ~Moved(node[r].vals[j])
        BY <1>29, <2>1, <3>3, <4>1
      <4> QED BY <1>25, <4>1, <4>2
    <3> QED BY <1>24, <3>1, <3>2, <3>3
  <2>2. \A r \in 1 .. L : Moved(r) => IsChild(node', q, r)
    <3>1. ASSUME NEW r \in 1 .. L, Moved(r) PROVE IsChild(node', q, r)
      <4>1. PICK i \in m + 1 .. k + 1 : e.vals[i] = r
        BY <3>1 DEF Moved
      <4>2. \E j \in 1 .. Len(b.vals) : b.vals[j] = r
        BY <1>19, <4>1
      <4> QED BY <1>1, <1>17, <1>24, <4>2 DEF IsChild, b
    <3> QED BY <3>1
  <2>3. \A i \in 1 .. k + 1 : ~Moved(e.vals[i]) => IsChild(node', p, e.vals[i])
    <3>1. ASSUME NEW i \in 1 .. k + 1, ~Moved(e.vals[i]) PROVE IsChild(node', p, e.vals[i])
      <4>1. i \in 1 .. m
        <5>1. i \notin m + 1 .. k + 1
          BY <3>1 DEF Moved
        <5> QED BY <1>13, <5>1
      <4>2. \E j \in 1 .. Len(a.vals) : a.vals[j] = e.vals[i]
        BY <1>19, <4>1
      <4> QED BY <1>1, <1>17, <1>24, <4>2 DEF IsChild, a
    <3> QED BY <3>1
  <2>4. ASSUME NEW r \in 1 .. q, r # root_page_id, r # s2.right
        PROVE  node'[r].parent # INVALID_PAGE_ID /\ IsChild(node', node'[r].parent, r)
    <3>1. r \in 1 .. L
      BY <1>24, <1>27, <2>4
    <3>2. CASE Moved(r)
      BY <1>7, <1>25, <2>2, <3>1, <3>2
    <3>3. CASE ~Moved(r) /\ \E i \in 1 .. k + 1 : e.vals[i] = r
      <4>1. node[r].parent = p /\ IsChild(node', p, r)
        BY <1>20, <2>3, <3>3
      <4>2. p # INVALID_PAGE_ID
        BY <1>1, <1>7
      <4> QED BY <1>25, <3>1, <3>3, <4>1, <4>2
    <3>4. CASE ~\E i \in 1 .. k + 1 : e.vals[i] = r
      <4>1. ~Moved(r)
        <5>1. \A i \in m + 1 .. k + 1 : i \in 1 .. k + 1
          BY <1>13
        <5> QED BY <3>4, <5>1 DEF Moved
      <4>2. r # right
        BY <1>3, <1>4, <3>4
      <4>3. node[r].parent # INVALID_PAGE_ID /\ IsChild(node, node[r].parent, r)
        BY <1>9, <2>4, <3>1, <4>2 DEF Parented, L, right
      <4>4. PICK g : g = node[r].parent
        OBVIOUS
      <4>5. g \in 1 .. L /\ ~node[g].leaf /\ \E j \in 1 .. Len(node[g].vals) : node[g].vals[j] = r
        BY <4>3, <4>4 DEF IsChild, L
      <4>6. g # p
        BY <1>3, <1>4, <3>4, <4>5
      <4>7. IsChild(node', g, r)
        BY <1>1, <1>24, <1>25, <4>5, <4>6 DEF IsChild
      <4> QED BY <1>25, <3>1, <4>1, <4>3, <4>4, <4>7
    <3> QED BY <3>2, <3>3, <3>4
  <2>5. node'[root_page_id].parent = INVALID_PAGE_ID
    <3>1. node[root_page_id].parent = INVALID_PAGE_ID
      BY <1>7, <1>9 DEF Parented, L
    <3>2. ~Moved(root_page_id)
      BY <1>1, <1>7, <1>21, <1>31, <3>1
    <3> QED BY <1>25, <1>31, <3>1, <3>2
  <2> QED BY <1>1, <2>1, <2>4, <2>5 DEF Parented
<1>33. Rooted(q, root_page_id, lo2, up2)
  <2>1. lo[1] = 0 /\ lo[root_page_id] = 0 /\ up[root_page_id] = -1
    BY <1>5, <1>7 DEF Bounds, Rooted, L
  <2>2. node[root_page_id].parent = INVALID_PAGE_ID
    BY <1>7, <1>9 DEF Parented, L
  <2>3. root_page_id # left
    BY <1>1, <1>7, <1>8, <2>2
  <2>4. up[root_page_id] = hi[root_page_id]
    BY <1>6, <1>7, <1>31, <2>3
  <2>5. 1 \in 1 .. L
    BY <1>7
  <2> QED BY <1>28, <1>31, <2>1, <2>4, <2>5 DEF Rooted
<1>34. Pending(node', s2, lo2, hi2)
  <2>1. node'[p].parent = node'[q].parent
    BY <1>17 DEF a, b
  <2> QED BY <1>27, <1>28, <2>1 DEF Pending
<1>35. Bounds(node', root_page_id', split', lo2, hi2)
  <2>1. Ranges(q, lo2, hi2)
    BY <1>26 DEF q
  <2> QED BY <1>1, <1>27, <1>30, <1>32, <1>33, <1>34, <2>1 DEF Bounds, up2
<1> QED BY <1>35

-----------------------------------------------------------------------------
(* The invariant of the ranges. *)

\* No two entries have the same key.
OneRecordPerKey == \A x, y \in Contents : x[1] = y[1] => x = y

Bounded == Leaved /\ (~refused => \E lo, hi : Bounds(node, root_page_id, split, lo, hi))

LEMMA BoundedInit == Init => Bounded
<1> SUFFICES ASSUME Init PROVE Bounded
  OBVIOUS
<1>1. Leaved
  BY LeavedInit
<1> DEFINE lo == [p \in 1 .. 0 |-> 0]
<1>2. node = <<>> /\ Len(node) = 0 /\ split = NoSplit
  BY DEF Init
<1>3. 1 .. 0 = {}
  OBVIOUS
<1>4. Ranges(0, lo, lo)
  BY <1>3 DEF Ranges
<1> DEFINE up == Upper(lo, NoSplit)
<1>5. AllFenced(node, lo, lo, up)
  BY <1>2, <1>3 DEF AllFenced
<1>6. Parented(node, root_page_id, NoSplit)
  BY <1>2, <1>3 DEF Parented
<1>7. Rooted(0, root_page_id, lo, up)
  BY DEF Rooted
<1>8. Pending(node, NoSplit, lo, lo)
  BY DEF Pending
<1> HIDE DEF lo
<1>9. Bounds(node, root_page_id, split, lo, lo)
  BY <1>2, <1>4, <1>5, <1>6, <1>7, <1>8 DEF Bounds, up
<1> QED BY <1>1, <1>9 DEF Bounded

LEMMA UniqueAfter ==
  ASSUME Leaved, [Next]_vars, OneRecordPerKey'
  PROVE  Unique(node')
<1>1. Shaped'
  BY ShapedStep DEF Leaved
<1>2. PICK ht : Shape(node', root_page_id', split', ht)
  BY <1>1 DEF Shaped
<1>3. PageIds' = 1 .. Len(node')
  BY <1>2, LenProperties DEF Shape, PageIds
<1>4. Contents' = All(node')
  BY <1>3 DEF Contents, All, LeafPages, Held
<1> QED BY <1>4 DEF OneRecordPerKey, Unique

LEMMA BoundedInsert ==
  ASSUME Leaved, NEW ht, Shape(node, root_page_id, split, ht), split = NoSplit,
         NEW lo, NEW hi, Bounds(node, root_page_id, split, lo, hi),
         NEW key \in Keys, NEW rid \in RIDs, Insert(key, rid), Unique(node')
  PROVE  \E lo2, hi2 : Bounds(node', root_page_id', split', lo2, hi2)
<1>1. PICK ch : Linked(node, ch)
  BY DEF Leaved
<1>2. Kept(node) /\ <<key, rid>> \notin All(node)
  BY ContentsIs DEF Leaved, Insert
<1>3. CASE InsertFirst(key, rid)
  BY <1>3, BoundsInsertFirst
<1>4. CASE InsertInLeaf(key, rid)
  BY <1>1, <1>2, <1>4, BoundsInsertInLeaf
<1>5. CASE SplitLeaf(key, rid)
  BY <1>1, <1>2, <1>5, BoundsSplitLeaf
<1> QED BY <1>3, <1>4, <1>5 DEF Insert

\* A step that loses no page keeps the ranges, as far as no key comes twice.
LEMMA BoundedStep == Bounded /\ [Next]_vars /\ OneRecordPerKey' => Bounded'
<1> SUFFICES ASSUME Bounded, [Next]_vars, OneRecordPerKey' PROVE Bounded'
  OBVIOUS
<1>1. Leaved /\ Leaved'
  BY LeavedStep DEF Bounded
<1>2. SUFFICES ASSUME ~refused' PROVE \E lo, hi : Bounds(node', root_page_id', split', lo, hi)
  BY <1>1 DEF Bounded
<1>3. PICK ht : Shape(node, root_page_id, split, ht)
  BY <1>1 DEF Leaved, Shaped
<1>4. ~refused
  <2>1. CASE UNCHANGED vars
    BY <1>2, <2>1 DEF vars
  <2>2. CASE Next
    <3>1. ASSUME NEW key \in Keys, NEW rid \in RIDs, Insert(key, rid) \/ Delete(key, rid)
          PROVE  refused' = refused
      BY <3>1 DEF Insert, InsertFirst, InsertInLeaf, SplitLeaf, Delete
    <3>2. ASSUME InsertInParent \/ CreateNewRoot \/ SplitRefused
          PROVE  refused => refused'
      BY <3>2 DEF InsertInParent, CreateNewRoot, SplitRefused
    <3>3. ASSUME SplitFullParent PROVE refused => refused'
      BY <3>3 DEF SplitFullParent
    <3> QED BY <1>2, <2>2, <3>1, <3>2, <3>3 DEF Next
  <2> QED BY <2>1, <2>2
<1>5. PICK lo, hi : Bounds(node, root_page_id, split, lo, hi)
  BY <1>4 DEF Bounded
<1>6. Unique(node')
  BY <1>1, UniqueAfter
<1>7. CASE UNCHANGED vars
  BY <1>5, <1>7 DEF vars
<1>8. CASE Next
  <2>1. ASSUME split = NoSplit, NEW key \in Keys, NEW rid \in RIDs, Insert(key, rid)
        PROVE  \E lo2, hi2 : Bounds(node', root_page_id', split', lo2, hi2)
    BY <1>1, <1>3, <1>5, <1>6, <2>1, BoundedInsert
  <2>2. ASSUME split = NoSplit, NEW key \in Keys, NEW rid \in RIDs, Delete(key, rid)
        PROVE  \E lo2, hi2 : Bounds(node', root_page_id', split', lo2, hi2)
    <3>1. PICK ch : Linked(node, ch) /\ Kept(node)
      BY <1>1 DEF Leaved
    <3> QED BY <1>3, <1>5, <2>2, <3>1, BoundsDelete
  <2>3. ASSUME InsertInParent PROVE \E lo2, hi2 : Bounds(node', root_page_id', split', lo2, hi2)
    BY <1>3, <1>5, <2>3, BoundsInsertInParent
  <2>4. ASSUME SplitFullParent PROVE \E lo2, hi2 : Bounds(node', root_page_id', split', lo2, hi2)
    BY <1>2, <1>3, <1>5, <2>4, BoundsSplitFullParent
  <2>5. ASSUME CreateNewRoot PROVE \E lo2, hi2 : Bounds(node', root_page_id', split', lo2, hi2)
    BY <1>3, <1>5, <2>5, BoundsCreateNewRoot
  <2>6. ~SplitRefused
    BY <1>2 DEF SplitRefused
  <2> QED BY <1>8, <2>1, <2>2, <2>3, <2>4, <2>5, <2>6 DEF Next
<1> QED BY <1>7, <1>8

LEMMA AlwaysBounded == Spec /\ []OneRecordPerKey => []Bounded
<1>1. Init => Bounded
  BY BoundedInit
<1>2. Bounded /\ [Next]_vars /\ OneRecordPerKey' => Bounded'
  BY BoundedStep
<1> QED BY <1>1, <1>2, PTL DEF Spec

-----------------------------------------------------------------------------
(* The nodes of one depth, from left to right. *)

\* The ranges of the nodes of s fill [a, b) in their order.
Spans(s, lo, hi, a, b) ==
  /\ Len(s) >= 1 /\ lo[s[1]] = a /\ hi[s[Len(s)]] = b
  /\ \A i \in 1 .. Len(s) - 1 : hi[s[i]] = lo[s[i + 1]]

AtHeight(s, ht, h) == \A i \in 1 .. Len(s) : ht[s[i]] = h

LEMMA SpansJoined ==
  ASSUME NEW S, NEW s \in Seq(S), NEW t \in Seq(S), NEW lo, NEW hi, NEW a, NEW b, NEW c,
         Spans(s, lo, hi, a, b), Spans(t, lo, hi, b, c),
         NEW ht, NEW h, AtHeight(s, ht, h), AtHeight(t, ht, h)
  PROVE  s \o t \in Seq(S) /\ Spans(s \o t, lo, hi, a, c) /\ AtHeight(s \o t, ht, h)
<1> DEFINE u == s \o t
           m == Len(s)
           n == Len(t)
<1>1. /\ u \in Seq(S) /\ Len(u) = m + n /\ m \in Nat /\ n \in Nat
      /\ \A i \in 1 .. m + n : u[i] = IF i <= m THEN s[i] ELSE t[i - m]
  BY ConcatProperties, LenProperties
<1>2. /\ m >= 1 /\ lo[s[1]] = a /\ hi[s[m]] = b
      /\ \A i \in 1 .. m - 1 : hi[s[i]] = lo[s[i + 1]]
  BY DEF Spans
<1>3. /\ n >= 1 /\ lo[t[1]] = b /\ hi[t[n]] = c
      /\ \A i \in 1 .. n - 1 : hi[t[i]] = lo[t[i + 1]]
  BY DEF Spans
<1>4. (\A i \in 1 .. m : ht[s[i]] = h) /\ \A i \in 1 .. n : ht[t[i]] = h
  BY DEF AtHeight
<1> HIDE DEF u, m, n
<1>5. lo[u[1]] = a /\ hi[u[m + n]] = c
  <2>1. 1 \in 1 .. m + n /\ 1 <= m
    BY <1>1, <1>2, <1>3
  <2>2. u[1] = s[1]
    BY <1>1, <2>1
  <2>3. PICK j \in 1 .. m + n : j = m + n
    BY <1>1, <1>2, <1>3
  <2>4. ~(j <= m) /\ j - m = n
    BY <1>1, <1>3, <2>3
  <2>5. u[j] = t[n]
    BY <1>1, <2>4
  <2> QED BY <1>2, <1>3, <2>2, <2>3, <2>5
<1>6. ASSUME NEW i \in 1 .. m + n - 1 PROVE hi[u[i]] = lo[u[i + 1]]
  <2>1. PICK j \in 1 .. m + n : j = i + 1
    BY <1>1
  <2>2. i \in 1 .. m + n
    BY <1>1
  <2>3. CASE i < m
    <3>1. i <= m /\ j <= m /\ i \in 1 .. m - 1
      BY <1>1, <2>1, <2>3
    <3>2. u[i] = s[i] /\ u[j] = s[i + 1]
      BY <1>1, <2>1, <2>2, <3>1
    <3> QED BY <1>2, <2>1, <3>1, <3>2
  <2>4. CASE i = m
    <3>1. i <= m /\ ~(j <= m) /\ j - m = 1
      BY <1>1, <2>1, <2>4
    <3>2. u[i] = s[m] /\ u[j] = t[1]
      BY <1>1, <2>2, <2>4, <3>1
    <3> QED BY <1>2, <1>3, <2>1, <3>2
  <2>5. CASE i > m
    <3>1. PICK g \in 1 .. n - 1 : g = i - m
      BY <1>1, <2>5
    <3>2. ~(i <= m) /\ ~(j <= m) /\ j - m = g + 1
      BY <1>1, <2>1, <2>5, <3>1
    <3>3. u[i] = t[g] /\ u[j] = t[g + 1]
      BY <1>1, <2>2, <3>1, <3>2
    <3> QED BY <1>3, <2>1, <3>3
  <2> QED BY <1>1, <2>3, <2>4, <2>5
<1>7. ASSUME NEW i \in 1 .. m + n PROVE ht[u[i]] = h
  <2>1. CASE i <= m
    <3>1. i \in 1 .. m
      BY <1>1, <2>1
    <3> QED BY <1>1, <1>4, <2>1, <3>1
  <2>2. CASE ~(i <= m)
    <3>1. PICK g \in 1 .. n : g = i - m
      BY <1>1, <2>2
    <3> QED BY <1>1, <1>4, <2>2, <3>1
  <2> QED BY <2>1, <2>2
<1>8. Len(u) >= 1
  BY <1>1, <1>2, <1>3
<1>9. Spans(u, lo, hi, a, c)
  BY <1>1, <1>5, <1>6, <1>8 DEF Spans
<1>10. AtHeight(u, ht, h)
  BY <1>1, <1>7 DEF AtHeight
<1> QED BY <1>1, <1>9, <1>10 DEF u

\* What is below a node fills its range, one lower.
LEMMA BelowSpans ==
  ASSUME NEW ht, Shape(node, root_page_id, split, ht), split = NoSplit,
         NEW lo, NEW hi, Bounds(node, root_page_id, split, lo, hi), NEW p \in PageIds
  PROVE  /\ Below(p) \in Seq(PageIds) /\ Spans(Below(p), lo, hi, lo[p], hi[p])
         /\ AtHeight(Below(p), ht, IF ht[p] = 0 THEN 0 ELSE ht[p] - 1)
<1>1. /\ NodeFits(node[p], ht[p], ht) /\ node[p] \in Nodes /\ PageIds = 1 .. Len(ht)
      /\ ht[p] \in Nat
  BY NodeFacts
<1>2. CASE node[p].leaf
  <2>1. Below(p) = <<p>> /\ ht[p] = 0
    BY <1>1, <1>2 DEF Below, NodeFits
  <2>2. PICK s : s = <<p>>
    OBVIOUS
  <2>3. s \in Seq(PageIds) /\ Len(s) = 1 /\ s[1] = p
    BY <2>2
  <2>4. Spans(s, lo, hi, lo[p], hi[p])
    BY <2>3 DEF Spans
  <2>5. AtHeight(s, ht, 0)
    <3>1. \A i \in 1 .. Len(s) : i = 1
      BY <2>3
    <3> QED BY <2>1, <2>3, <3>1 DEF AtHeight
  <2> QED BY <2>1, <2>2, <2>3, <2>4, <2>5
<1>3. CASE ~node[p].leaf
  <2>1. PICK up : up = Upper(hi, split)
    OBVIOUS
  <2>2. up = hi
    BY <2>1, BoundsAre
  <2>3. PICK vs, ks, k, a, b : vs = node[p].vals /\ ks = node[p].keys /\ k = Len(ks) /\ a = lo[p] /\ b = hi[p]
    OBVIOUS
  <2>4. /\ k \in Nat /\ Len(vs) = k + 1 /\ Tiled(ks, vs, k, lo, hi, a, b)
        /\ \A j \in 1 .. Len(vs) : vs[j] \in PageIds
    BY <1>3, <2>1, <2>2, <2>3, InnerIs
  <2>5. /\ vs \in Seq(Nat) /\ ht[p] > 0 /\ \A j \in 1 .. Len(vs) : ht[vs[j]] = ht[p] - 1
    BY <1>1, <1>3, <2>3 DEF NodeFits
  <2>6. vs \in Seq(PageIds)
    <3>1. vs = [i \in 1 .. k + 1 |-> vs[i]]
      BY <2>4, <2>5, LenProperties
    <3>2. vs \in [1 .. k + 1 -> PageIds]
      BY <2>4, <3>1
    <3>3. PICK n \in Nat : n = k + 1
      BY <2>4
    <3> QED BY <3>2, <3>3, SequenceOf
  <2>7. Spans(vs, lo, hi, a, b)
    <3>1. 1 \in 1 .. k + 1 /\ k + 1 \in 1 .. k + 1 /\ Len(vs) >= 1
      BY <2>4
    <3>2. lo[vs[1]] = a /\ hi[vs[k + 1]] = b
      BY <2>4, <3>1 DEF Tiled
    <3>3. ASSUME NEW i \in 1 .. k + 1 - 1 PROVE hi[vs[i]] = lo[vs[i + 1]]
      <4>1. PICK j \in 1 .. k + 1 : j = i + 1
        BY <2>4
      <4>2. i \in 1 .. k + 1 /\ i # k + 1 /\ j # 1 /\ j - 1 = i
        BY <2>4, <4>1
      <4>3. hi[vs[i]] = ks[i] /\ lo[vs[j]] = ks[i]
        BY <2>4, <4>2 DEF Tiled
      <4> QED BY <4>1, <4>3
    <3> QED BY <2>4, <3>1, <3>2, <3>3 DEF Spans
  <2>8. AtHeight(vs, ht, ht[p] - 1)
    BY <2>5 DEF AtHeight
  <2>9. Below(p) = vs /\ ht[p] # 0
    BY <1>1, <1>3, <2>3, <2>5 DEF Below
  <2> QED BY <2>3, <2>6, <2>7, <2>8, <2>9
<1> QED BY <1>2, <1>3

NextLevel(s) == FlattenSeq([i \in DOMAIN s |-> Below(s[i])])

\* So the nodes below those that fill a range fill it too.
LEMMA NextLevelSpans ==
  ASSUME NEW ht, Shape(node, root_page_id, split, ht), split = NoSplit,
         NEW lo, NEW hi, Bounds(node, root_page_id, split, lo, hi),
         NEW s \in Seq(PageIds), NEW a, NEW b, Spans(s, lo, hi, a, b), NEW h \in Nat, AtHeight(s, ht, h)
  PROVE  /\ NextLevel(s) \in Seq(PageIds) /\ Spans(NextLevel(s), lo, hi, a, b)
         /\ AtHeight(NextLevel(s), ht, IF h = 0 THEN 0 ELSE h - 1)
<1> DEFINE g == IF h = 0 THEN 0 ELSE h - 1
           L == Len(s)
           t == [i \in 1 .. L |-> Below(s[i])]
<1>1. L \in Nat /\ L >= 1 /\ DOMAIN s = 1 .. L /\ \A i \in 1 .. L : s[i] \in PageIds /\ ht[s[i]] = h
  BY LenProperties, ElementOfSeq DEF Spans, AtHeight
<1>2. ASSUME NEW i \in 1 .. L
      PROVE  /\ t[i] \in Seq(PageIds) /\ Spans(t[i], lo, hi, lo[s[i]], hi[s[i]])
             /\ AtHeight(t[i], ht, g)
  <2>1. PICK p \in PageIds : p = s[i]
    BY <1>1
  <2>2. ht[p] = h /\ t[i] = Below(p)
    BY <1>1, <2>1
  <2>3. /\ Below(p) \in Seq(PageIds) /\ Spans(Below(p), lo, hi, lo[p], hi[p])
        /\ AtHeight(Below(p), ht, IF ht[p] = 0 THEN 0 ELSE ht[p] - 1)
    BY BelowSpans
  <2> QED BY <2>1, <2>2, <2>3
<1>3. t \in [1 .. L -> Seq(PageIds)] /\ NextLevel(s) = FlattenSeq(t)
  BY <1>1, <1>2 DEF NextLevel
<1> HIDE DEF t, g, L
<1>4. PICK f : Joins(PageIds, L, t, f) /\ FlattenSeq(t) = f[L]
  BY <1>1, <1>3, Flattened
<1>5. /\ f \in [1 .. L -> Seq(PageIds)] /\ f[1] = t[1]
      /\ \A i \in 1 .. L : i > 1 => f[i] = f[i - 1] \o t[i]
  BY <1>4 DEF Joins
<1>6. lo[s[1]] = a /\ hi[s[L]] = b /\ \A i \in 1 .. L - 1 : hi[s[i]] = lo[s[i + 1]]
  BY DEF Spans, L
<1> DEFINE U == {i \in 1 .. L : ~(Spans(f[i], lo, hi, a, hi[s[i]]) /\ AtHeight(f[i], ht, g))}
<1>7. U = {}
  <2> SUFFICES ASSUME U # {} PROVE FALSE
    OBVIOUS
  <2>1. U \subseteq Nat
    OBVIOUS
  <2>2. PICK m \in U : \A k \in U : m <= k
    <3> HIDE DEF U
    <3> QED BY <2>1, LeastNatural
  <2>3. m \in 1 .. L /\ ~(Spans(f[m], lo, hi, a, hi[s[m]]) /\ AtHeight(f[m], ht, g))
    BY <2>2
  <2>4. m # 1
    BY <1>2, <1>5, <1>6, <2>3
  <2>5. PICK j \in 1 .. L - 1 : j = m - 1
    BY <1>1, <2>3, <2>4
  <2>6. j \in 1 .. L /\ ~(m <= j) /\ m > 1 /\ j + 1 = m
    BY <1>1, <2>3, <2>4, <2>5
  <2>7. Spans(f[j], lo, hi, a, hi[s[j]]) /\ AtHeight(f[j], ht, g)
    BY <2>2, <2>6
  <2>8. hi[s[j]] = lo[s[m]] /\ f[m] = f[j] \o t[m]
    BY <1>5, <1>6, <2>3, <2>5, <2>6
  <2>9. PICK x, y, c, d : x = f[j] /\ y = t[m] /\ c = hi[s[j]] /\ d = hi[s[m]]
    OBVIOUS
  <2>10. /\ x \in Seq(PageIds) /\ y \in Seq(PageIds) /\ Spans(x, lo, hi, a, c) /\ Spans(y, lo, hi, c, d)
         /\ AtHeight(x, ht, g) /\ AtHeight(y, ht, g)
    BY <1>2, <1>5, <2>3, <2>6, <2>7, <2>8, <2>9
  <2>11. Spans(x \o y, lo, hi, a, d) /\ AtHeight(x \o y, ht, g)
    BY <2>10, SpansJoined
  <2> QED BY <2>3, <2>8, <2>9, <2>11
<1>8. L \in 1 .. L
  BY <1>1
<1>9. Spans(f[L], lo, hi, a, b) /\ AtHeight(f[L], ht, g) /\ f[L] \in Seq(PageIds)
  BY <1>5, <1>6, <1>7, <1>8
<1> QED BY <1>3, <1>4, <1>9 DEF g

\* The level d of the tree, where H is the height of its root.
LevelFits(s, ht, lo, hi, d, H) ==
  /\ s \in Seq(PageIds) /\ Spans(s, lo, hi, 0, -1)
  /\ \E h \in Nat : AtHeight(s, ht, h) /\ (h + d <= H \/ h = 0)

LEMMA LevelsAre ==
  ASSUME NEW ht, Shape(node, root_page_id, split, ht), split = NoSplit, root_page_id # INVALID_PAGE_ID,
         NEW lo, NEW hi, Bounds(node, root_page_id, split, lo, hi)
  PROVE  /\ DOMAIN Level = 0 .. Len(node)
         /\ \A d \in 0 .. Len(node) : LevelFits(Level[d], ht, lo, hi, d, ht[root_page_id])
<1> DEFINE L == Len(node)
           H == ht[root_page_id]
           G(f) == [d \in 0 .. L |-> IF d = 0 THEN <<root_page_id>> ELSE NextLevel(f[d - 1])]
           c == CHOOSE f : f = G(f)
           V == {s \in Seq(PageIds) : Spans(s, lo, hi, 0, -1) /\ \E h \in Nat : AtHeight(s, ht, h)}
           base == <<root_page_id>>
           step == [n \in 1 .. L |-> [s \in V |-> NextLevel(s)]]
<1>1. L \in Nat /\ L = Len(ht) /\ PageIds = 1 .. L
  BY PagesAre
<1>2. root_page_id \in PageIds /\ H \in Nat /\ H < L /\ L > 0
  <2>1. root_page_id \in PageIds
    BY <1>1 DEF Shape, RootFits
  <2> QED BY <1>1, <2>1, NodeFacts
<1>3. Level = c
  BY DEF Level, NextLevel
<1>4. base \in Seq(PageIds) /\ Spans(base, lo, hi, 0, -1) /\ AtHeight(base, ht, H)
  <2>1. lo[root_page_id] = 0 /\ hi[root_page_id] = -1
    <3>1. lo[root_page_id] = 0 /\ Upper(hi, split)[root_page_id] = -1
      BY <1>2 DEF Bounds, Rooted
    <3>2. PICK up : up = Upper(hi, split)
      OBVIOUS
    <3>3. up = hi
      BY <3>2, BoundsAre
    <3> QED BY <3>1, <3>2, <3>3
  <2>2. PICK s : s = base
    OBVIOUS
  <2>3. s \in Seq(PageIds) /\ Len(s) = 1 /\ s[1] = root_page_id
    BY <1>2, <2>2
  <2>4. Spans(s, lo, hi, 0, -1)
    BY <2>1, <2>3 DEF Spans
  <2>5. AtHeight(s, ht, H)
    <3>1. \A i \in 1 .. Len(s) : i = 1
      BY <2>3
    <3> QED BY <2>3, <3>1 DEF AtHeight
  <2> QED BY <2>2, <2>3, <2>4, <2>5
<1>5. base \in V
  BY <1>2, <1>4
<1>6. ASSUME NEW s \in V PROVE NextLevel(s) \in V
  <2>1. PICK h \in Nat : AtHeight(s, ht, h)
    OBVIOUS
  <2>2. s \in Seq(PageIds) /\ Spans(s, lo, hi, 0, -1)
    OBVIOUS
  <2>3. PICK b : b = -1
    OBVIOUS
  <2>4. Spans(s, lo, hi, 0, b)
    BY <2>2, <2>3
  <2>5. /\ NextLevel(s) \in Seq(PageIds) /\ Spans(NextLevel(s), lo, hi, 0, b)
        /\ AtHeight(NextLevel(s), ht, IF h = 0 THEN 0 ELSE h - 1)
    BY <2>1, <2>2, <2>4, NextLevelSpans
  <2>6. (IF h = 0 THEN 0 ELSE h - 1) \in Nat
    OBVIOUS
  <2> QED BY <2>3, <2>5, <2>6
<1> HIDE DEF V, base, H
<1>7. Passes(L, V, step)
  <2>1. [s \in V |-> NextLevel(s)] \in [V -> V]
    BY <1>6
  <2> QED BY <2>1 DEF Passes
<1>8. PICK e : RunOf(L, V, base, step, e)
  <2> HIDE DEF step, L
  <2> QED BY <1>1, <1>5, <1>7, LoopRuns
<1>9. \A n \in 0 .. L : n # 0 => n \in 1 .. L /\ n - 1 \in 0 .. L
  BY <1>1
<1>10. e = G(e)
  <2>1. e \in [0 .. L -> V] /\ e[0] = base
    BY <1>8 DEF RunOf
  <2>2. ASSUME NEW n \in 1 .. L PROVE e[n] = NextLevel(e[n - 1])
    <3>1. e[n] = step[n][e[n - 1]]
      BY <1>8 DEF RunOf
    <3>2. e[n - 1] \in V
      BY <1>1, <2>1
    <3> QED BY <3>1, <3>2
  <2>3. \A n \in 0 .. L : e[n] = IF n = 0 THEN <<root_page_id>> ELSE NextLevel(e[n - 1])
    BY <1>9, <2>1, <2>2 DEF base
  <2>4. e = [n \in 0 .. L |-> e[n]]
    BY <2>1
  <2> QED BY <2>3, <2>4
<1>11. c = G(c)
  <2> HIDE DEF G
  <2> QED BY <1>10
<1>12. /\ c = [n \in 0 .. L |-> c[n]]
       /\ \A n \in 0 .. L : c[n] = IF n = 0 THEN base ELSE NextLevel(c[n - 1])
  <2> HIDE DEF c
  <2> QED BY <1>11 DEF base
<1> HIDE DEF c, G
<1> DEFINE U == {n \in 0 .. L : ~LevelFits(c[n], ht, lo, hi, n, H)}
<1>13. U = {}
  <2> SUFFICES ASSUME U # {} PROVE FALSE
    OBVIOUS
  <2>1. U \subseteq Nat
    OBVIOUS
  <2>2. PICK m \in U : \A j \in U : m <= j
    <3> HIDE DEF U
    <3> QED BY <2>1, LeastNatural
  <2>3. m \in 0 .. L /\ ~LevelFits(c[m], ht, lo, hi, m, H)
    BY <2>2
  <2>4. m # 0
    <3>1. ASSUME m = 0 PROVE FALSE
      <4>1. c[m] = base /\ H + m <= H
        <5>1. c[m] = base
          BY <1>12, <2>3, <3>1
        <5>2. H \in Nat
          BY <1>2 DEF H
        <5> QED BY <3>1, <5>1, <5>2
      <4>2. LevelFits(c[m], ht, lo, hi, m, H)
        BY <1>2, <1>4, <4>1 DEF LevelFits, H
      <4> QED BY <2>3, <4>2
    <3> QED BY <3>1
  <2>5. PICK j \in 0 .. L : j = m - 1
    BY <1>9, <2>3, <2>4
  <2>6. ~(m <= j)
    BY <2>3, <2>5
  <2>7. LevelFits(c[j], ht, lo, hi, j, H)
    BY <2>2, <2>6
  <2>8. PICK s, b : s = c[j] /\ b = -1
    OBVIOUS
  <2>9. s \in Seq(PageIds) /\ Spans(s, lo, hi, 0, b) /\ \E h \in Nat : AtHeight(s, ht, h) /\ (h + j <= H \/ h = 0)
    BY <2>7, <2>8 DEF LevelFits
  <2>10. PICK h \in Nat : AtHeight(s, ht, h) /\ (h + j <= H \/ h = 0)
    BY <2>9
  <2>11. /\ NextLevel(s) \in Seq(PageIds) /\ Spans(NextLevel(s), lo, hi, 0, b)
         /\ AtHeight(NextLevel(s), ht, IF h = 0 THEN 0 ELSE h - 1)
    BY <2>9, <2>10, NextLevelSpans
  <2>12. PICK g \in Nat : g = IF h = 0 THEN 0 ELSE h - 1
    OBVIOUS
  <2>13. g + m <= H \/ g = 0
    BY <1>2, <2>3, <2>5, <2>10, <2>12 DEF H
  <2>14. c[m] = NextLevel(s)
    BY <1>12, <2>3, <2>4, <2>5, <2>8
  <2>15. LevelFits(c[m], ht, lo, hi, m, H)
    BY <2>8, <2>11, <2>12, <2>13, <2>14 DEF LevelFits
  <2> QED BY <2>3, <2>15
<1>14. DOMAIN c = 0 .. L
  BY <1>12
<1>15. \A d \in 0 .. L : LevelFits(c[d], ht, lo, hi, d, H)
  BY <1>13
<1> QED BY <1>3, <1>14, <1>15 DEF H

\* The deepest level: leaves only.
LEMMA DeepestLevel ==
  ASSUME NEW ht, Shape(node, root_page_id, split, ht), split = NoSplit, root_page_id # INVALID_PAGE_ID,
         NEW lo, NEW hi, Bounds(node, root_page_id, split, lo, hi)
  PROVE  /\ Level[Len(node)] \in Seq(PageIds) /\ Spans(Level[Len(node)], lo, hi, 0, -1)
         /\ \A i \in 1 .. Len(Level[Len(node)]) :
              Level[Len(node)][i] \in PageIds /\ node[Level[Len(node)][i]].leaf
<1>1. Len(node) \in Nat /\ Len(node) = Len(ht) /\ PageIds = 1 .. Len(node)
  BY PagesAre
<1>2. root_page_id \in PageIds
  BY <1>1 DEF Shape, RootFits
<1>3. ht[root_page_id] \in Nat /\ ht[root_page_id] < Len(node)
  BY <1>1, <1>2, NodeFacts
<1>4. Len(node) \in 0 .. Len(node)
  BY <1>1
<1>5. LevelFits(Level[Len(node)], ht, lo, hi, Len(node), ht[root_page_id])
  BY <1>4, LevelsAre
<1>6. PICK s : s = Level[Len(node)]
  OBVIOUS
<1>7. s \in Seq(PageIds) /\ Spans(s, lo, hi, 0, -1)
  BY <1>5, <1>6 DEF LevelFits
<1>8. PICK h \in Nat : AtHeight(s, ht, h) /\ (h + Len(node) <= ht[root_page_id] \/ h = 0)
  BY <1>5, <1>6 DEF LevelFits
<1>9. h = 0
  BY <1>1, <1>3, <1>8
<1>10. ASSUME NEW i \in 1 .. Len(s) PROVE s[i] \in PageIds /\ node[s[i]].leaf
  <2>1. PICK p \in PageIds : p = s[i]
    BY <1>7, ElementOfSeq
  <2>2. ht[p] = 0
    BY <1>8, <1>9, <2>1 DEF AtHeight
  <2>3. NodeFits(node[p], ht[p], ht)
    BY NodeFacts
  <2>4. node[p].leaf
    BY <2>2, <2>3 DEF NodeFits
  <2> QED BY <2>1, <2>4
<1> QED BY <1>6, <1>7, <1>10

-----------------------------------------------------------------------------
(* The leaves in the order of their ranges are those of the chain. *)

LEMMA ChainAscends ==
  ASSUME NEW ht, Shape(node, root_page_id, split, ht), NEW ch, Linked(node, ch),
         NEW lo, NEW hi, Bounds(node, root_page_id, split, lo, hi)
  PROVE  /\ \A i \in 1 .. Len(ch) : ch[i] \in PageIds /\ node[ch[i]].leaf
         /\ \A i \in 1 .. Len(ch) : hi[ch[i]] = IF i = Len(ch) THEN -1 ELSE lo[ch[i + 1]]
         /\ \A i, j \in 1 .. Len(ch) : i < j => lo[ch[i]] < lo[ch[j]]
<1> DEFINE M == Len(ch)
<1>1. M \in Nat /\ PageIds = 1 .. Len(node)
  BY LenProperties, PagesAre DEF Linked
<1>2. ASSUME NEW i \in 1 .. M
      PROVE  /\ ch[i] \in PageIds /\ node[ch[i]].leaf
             /\ node[ch[i]].next = IF i = M THEN INVALID_PAGE_ID ELSE ch[i + 1]
  BY <1>1 DEF Linked, LeafPages
<1>3. INVALID_PAGE_ID \notin PageIds
  BY PagesAre
<1>4. ASSUME NEW i \in 1 .. M
      PROVE  /\ hi[ch[i]] = IF i = M THEN -1 ELSE lo[ch[i + 1]]
             /\ lo[ch[i]] \in Nat /\ Under(lo[ch[i]], hi[ch[i]])
  <2>1. PICK p \in PageIds : p = ch[i] /\ node[p].leaf
    BY <1>2
  <2>2. /\ lo[p] \in Nat /\ Under(lo[p], hi[p]) /\ NextAt(node[p], lo, hi[p])
    BY <2>1, LeafBounds
  <2>3. CASE i = M
    <3>1. node[p].next = INVALID_PAGE_ID
      BY <1>2, <2>1, <2>3
    <3> QED BY <2>1, <2>2, <2>3, <3>1 DEF NextAt
  <2>4. CASE i # M
    <3>1. PICK j \in 1 .. M : j = i + 1
      BY <1>1, <2>4
    <3>2. node[p].next = ch[j] /\ ch[j] \in PageIds
      BY <1>2, <2>1, <2>4, <3>1
    <3>3. node[p].next # INVALID_PAGE_ID
      BY <1>3, <3>2
    <3> QED BY <2>1, <2>2, <2>4, <3>1, <3>2, <3>3 DEF NextAt
  <2> QED BY <2>3, <2>4
<1> HIDE DEF M
<1>5. ASSUME NEW i \in 1 .. M, NEW j \in 1 .. M, j = i + 1 PROVE lo[ch[i]] < lo[ch[j]]
  <2>1. i # M
    BY <1>1, <1>5
  <2>2. hi[ch[i]] = lo[ch[j]] /\ lo[ch[j]] \in Nat /\ Under(lo[ch[i]], hi[ch[i]])
    BY <1>4, <1>5, <2>1
  <2> QED BY <2>2 DEF Under
<1>6. ASSUME NEW i \in 1 .. M PROVE \A j \in 1 .. M : i < j => lo[ch[i]] < lo[ch[j]]
  <2> DEFINE U == {j \in 1 .. M : i < j /\ ~(lo[ch[i]] < lo[ch[j]])}
  <2>1. U = {}
    <3> SUFFICES ASSUME U # {} PROVE FALSE
      OBVIOUS
    <3>1. U \subseteq Nat
      OBVIOUS
    <3>2. PICK m \in U : \A j \in U : m <= j
      <4> HIDE DEF U
      <4> QED BY <3>1, LeastNatural
    <3>3. m \in 1 .. M /\ i < m /\ ~(lo[ch[i]] < lo[ch[m]])
      BY <3>2
    <3>4. PICK j \in 1 .. M : j = m - 1
      BY <1>1, <3>3
    <3>5. lo[ch[j]] < lo[ch[m]] /\ ~(m <= j) /\ (i = j \/ i < j)
      <4>1. m = j + 1
        BY <3>3, <3>4
      <4> QED BY <1>5, <3>3, <3>4, <4>1
    <3>6. i < j => lo[ch[i]] < lo[ch[j]]
      BY <3>2, <3>5
    <3>7. lo[ch[i]] \in Nat /\ lo[ch[j]] \in Nat /\ lo[ch[m]] \in Nat
      BY <1>4, <3>3
    <3> QED BY <3>3, <3>5, <3>6, <3>7
  <2> QED BY <2>1
<1> QED BY <1>2, <1>4, <1>6 DEF M

\* Leaves that fill the whole range are the chain.
LEMMA LeavesAreChain ==
  ASSUME NEW ht, Shape(node, root_page_id, split, ht), NEW ch, Linked(node, ch),
         NEW lo, NEW hi, Bounds(node, root_page_id, split, lo, hi),
         NEW s \in Seq(PageIds), Spans(s, lo, hi, 0, -1), \A i \in 1 .. Len(s) : node[s[i]].leaf
  PROVE  Len(s) = Len(ch) /\ \A i \in 1 .. Len(s) : s[i] = ch[i]
<1> DEFINE M == Len(ch)
           K == Len(s)
<1>1. /\ K \in Nat /\ K >= 1 /\ lo[s[1]] = 0 /\ hi[s[K]] = -1
      /\ \A i \in 1 .. K - 1 : hi[s[i]] = lo[s[i + 1]]
      /\ \A i \in 1 .. K : s[i] \in PageIds /\ node[s[i]].leaf
  BY LenProperties, ElementOfSeq DEF Spans
<1>2. /\ \A i \in 1 .. M : ch[i] \in PageIds
      /\ \A i \in 1 .. M : hi[ch[i]] = IF i = M THEN -1 ELSE lo[ch[i + 1]]
      /\ \A i, j \in 1 .. M : i < j => lo[ch[i]] < lo[ch[j]]
  BY ChainAscends
<1>3. M \in Nat /\ PageIds = 1 .. Len(node) /\ Len(node) \in Nat
  BY LenProperties, PagesAre DEF Linked
<1>4. \A p \in PageIds : lo[p] \in Nat
  <2>1. lo \in [PageIds -> Nat]
    <3>1. PICK up : up = Upper(hi, split)
      OBVIOUS
    <3> QED BY <3>1, BoundsAre
  <2> QED BY <2>1
<1>5. M >= 1 /\ ch[1] = 1 /\ lo[1] = 0
  <2>1. 1 \in 1 .. K
    BY <1>1
  <2>2. Len(node) > 0
    BY <1>1, <1>3, <2>1
  <2>3. lo[1] = 0
    BY <2>2 DEF Bounds, Rooted
  <2> QED BY <1>3, <2>2, <2>3 DEF Linked
\* Two leaves that begin at the same key are one.
<1>6. ASSUME NEW p \in PageIds, node[p].leaf, NEW j \in 1 .. M, lo[p] = lo[ch[j]] PROVE p = ch[j]
  <2>1. p \in LeafPages(node)
    BY <1>3, <1>6 DEF LeafPages
  <2>2. PICK i \in 1 .. M : ch[i] = p
    BY <2>1 DEF Linked
  <2>3. lo[p] \in Nat
    BY <1>4
  <2>4. ~(lo[ch[i]] < lo[ch[j]]) /\ ~(lo[ch[j]] < lo[ch[i]])
    BY <1>6, <2>2, <2>3
  <2>5. i = j
    BY <1>2, <1>3, <2>4
  <2> QED BY <2>2, <2>5
<1> HIDE DEF K, M
<1> DEFINE U == {i \in 1 .. K : ~(i <= M /\ s[i] = ch[i])}
<1>7. U = {}
  <2> SUFFICES ASSUME U # {} PROVE FALSE
    OBVIOUS
  <2>1. U \subseteq Nat
    OBVIOUS
  <2>2. PICK m \in U : \A k \in U : m <= k
    <3> HIDE DEF U
    <3> QED BY <2>1, LeastNatural
  <2>3. m \in 1 .. K /\ ~(m <= M /\ s[m] = ch[m])
    BY <2>2
  <2>4. m # 1
    <3>1. ASSUME m = 1 PROVE FALSE
      <4>1. 1 \in 1 .. M /\ lo[s[1]] = lo[ch[1]]
        BY <1>1, <1>3, <1>5
      <4>2. s[1] \in PageIds /\ node[s[1]].leaf
        BY <1>1
      <4>3. s[1] = ch[1]
        BY <1>6, <4>1, <4>2
      <4> QED BY <1>5, <2>3, <3>1, <4>3
    <3> QED BY <3>1
  <2>5. PICK j \in 1 .. K - 1 : j = m - 1
    BY <1>1, <2>3, <2>4
  <2>6. j \in 1 .. K /\ ~(m <= j) /\ j + 1 = m
    BY <1>1, <2>3, <2>5
  <2>7. j <= M /\ s[j] = ch[j]
    BY <2>2, <2>6
  <2>8. j \in 1 .. M /\ hi[s[j]] = lo[s[m]] /\ s[m] \in PageIds /\ node[s[m]].leaf
    <3>1. hi[s[j]] = lo[s[j + 1]]
      BY <1>1, <2>5
    <3>2. j \in 1 .. M
      BY <1>3, <2>6, <2>7
    <3> QED BY <1>1, <2>3, <2>6, <3>1, <3>2
  <2>9. j # M
    <3>1. lo[s[m]] # -1
      <4>1. lo[s[m]] \in Nat
        BY <1>4, <2>8
      <4> QED BY <4>1
    <3>2. hi[ch[j]] # -1
      BY <2>7, <2>8, <3>1
    <3> QED BY <1>2, <2>8, <3>2
  <2>10. m \in 1 .. M
    BY <1>3, <2>3, <2>5, <2>8, <2>9
  <2>11. lo[s[m]] = lo[ch[m]]
    BY <1>2, <2>6, <2>7, <2>8, <2>9
  <2>12. s[m] = ch[m]
    BY <1>6, <2>8, <2>10, <2>11
  <2> QED BY <2>3, <2>10, <2>12
<1>8. \A i \in 1 .. K : i \in 1 .. M /\ s[i] = ch[i]
  <2>1. ASSUME NEW i \in 1 .. K PROVE i <= M /\ s[i] = ch[i]
    BY <1>7
  <2> QED BY <1>1, <1>3, <2>1
<1>9. K = M
  <2>1. K \in 1 .. K
    BY <1>1
  <2>2. K \in 1 .. M /\ s[K] = ch[K] /\ hi[ch[K]] = -1
    BY <1>1, <1>8, <2>1
  <2>3. ASSUME K # M PROVE FALSE
    <3>1. PICK j \in 1 .. M : j = K + 1
      BY <1>1, <1>3, <2>2, <2>3
    <3>2. hi[ch[K]] = lo[ch[j]]
      BY <1>2, <2>2, <2>3, <3>1
    <3>3. lo[ch[j]] \in Nat
      BY <1>2, <1>4
    <3> QED BY <2>2, <3>2, <3>3
  <2> QED BY <2>3
<1> QED BY <1>8, <1>9 DEF K, M

LEMMA LevelIsChain ==
  ASSUME NEW ht, Shape(node, root_page_id, split, ht), NEW ch, Linked(node, ch),
         split = NoSplit, root_page_id # INVALID_PAGE_ID,
         NEW lo, NEW hi, Bounds(node, root_page_id, split, lo, hi)
  PROVE  Level[Len(node)] = ChainFrom(1)
<1>1. PICK s : s = Level[Len(node)]
  OBVIOUS
<1>2. s \in Seq(PageIds) /\ Spans(s, lo, hi, 0, -1) /\ \A i \in 1 .. Len(s) : node[s[i]].leaf
  BY <1>1, DeepestLevel
<1>3. Len(s) = Len(ch) /\ \A i \in 1 .. Len(s) : s[i] = ch[i]
  BY <1>2, LeavesAreChain
<1>4. node \in Seq(Nodes) /\ Len(node) \in Nat /\ PageIds = 1 .. Len(node) /\ Len(ch) \in Nat
      /\ Len(ht) = Len(node)
  BY PagesAre, LenProperties DEF Linked
<1>5. root_page_id \in PageIds
  BY <1>4 DEF Shape, RootFits
<1>6. Len(ch) > 0 /\ ch[1] = 1
  BY <1>4, <1>5 DEF Linked
<1> DEFINE M == Len(ch)
<1>7. PICK i \in 1 .. M : i = 1
  BY <1>4, <1>6
<1>8. ch[i] = 1 /\ M - i + 1 = M /\ \A n \in 1 .. M : i + n - 1 = n
  BY <1>4, <1>6, <1>7
<1>9. /\ ChainFrom(ch[i]) \in Seq(Nat) /\ Len(ChainFrom(ch[i])) = M - i + 1
      /\ \A n \in 1 .. M - i + 1 : ChainFrom(ch[i])[n] = ch[i + n - 1]
  BY <1>4, ChainFromIs
<1>10. PICK d : d = ChainFrom(ch[i])
  OBVIOUS
<1>11. d \in Seq(Nat) /\ Len(d) = M /\ (\A n \in 1 .. M : d[n] = ch[n]) /\ d = ChainFrom(1)
  BY <1>8, <1>9, <1>10
<1>12. d = [n \in 1 .. M |-> d[n]]
  BY <1>11, LenProperties
<1>13. s = [n \in 1 .. M |-> s[n]]
  <2>1. Len(s) = M
    BY <1>3
  <2> QED BY <1>2, <2>1, LenProperties
<1>14. \A n \in 1 .. M : s[n] = d[n]
  BY <1>3, <1>11
<1>15. [n \in 1 .. M |-> s[n]] = [n \in 1 .. M |-> d[n]]
  BY <1>14
<1> QED BY <1>1, <1>11, <1>12, <1>13, <1>15

-----------------------------------------------------------------------------
(* The keys below a node. *)

\* The nodes whose ranges lie in the one of p.
Inside(p, lo, hi) == {q \in PageIds : Within(lo[q], hi[q], lo[p], hi[p])}

LEMMA BelowInside ==
  ASSUME NEW ht, Shape(node, root_page_id, split, ht), split = NoSplit,
         NEW lo, NEW hi, Bounds(node, root_page_id, split, lo, hi),
         NEW p \in PageIds, NEW q \in Inside(p, lo, hi)
  PROVE  ToSet(Below(q)) \subseteq Inside(p, lo, hi)
<1>1. q \in PageIds /\ Within(lo[q], hi[q], lo[p], hi[p])
  BY DEF Inside
<1>2. /\ lo \in [PageIds -> Nat] /\ hi \in [PageIds -> Bound]
      /\ \A up : up = Upper(hi, split) => up = hi
  BY BoundsAre
<1>3. CASE node[q].leaf
  <2>1. Below(q) = <<q>>
    BY <1>3 DEF Below
  <2>2. ToSet(<<q>>) = {q}
    BY DEF ToSet
  <2> QED BY <2>1, <2>2
<1>4. CASE ~node[q].leaf
  <2>1. PICK vs : vs = node[q].vals
    OBVIOUS
  <2>2. \A j \in 1 .. Len(vs) : vs[j] \in PageIds /\ Within(lo[vs[j]], hi[vs[j]], lo[q], hi[q])
    <3>1. PICK up : up = Upper(hi, split)
      OBVIOUS
    <3>2. up = hi
      BY <1>2, <3>1
    <3>3. \A j \in 1 .. Len(node[q].vals) :
            /\ node[q].vals[j] \in PageIds
            /\ Within(lo[node[q].vals[j]], up[node[q].vals[j]], lo[q], hi[q])
      BY <1>1, <1>4, <3>1, InnerIs
    <3> QED BY <2>1, <3>2, <3>3
  <2>3. vs \in Seq(Nat)
    <3>1. NodeFits(node[q], ht[q], ht)
      BY <1>1, NodeFacts
    <3> QED BY <1>4, <2>1, <3>1 DEF NodeFits
  <2>4. DOMAIN vs = 1 .. Len(vs)
    BY <2>3, LenProperties
  <2>5. ASSUME NEW j \in 1 .. Len(vs) PROVE vs[j] \in Inside(p, lo, hi)
    <3>1. PICK r \in PageIds : r = vs[j] /\ Within(lo[r], hi[r], lo[q], hi[q])
      BY <2>2
    <3>2. /\ lo[r] \in Nat /\ lo[q] \in Nat /\ lo[p] \in Nat
          /\ hi[r] \in Bound /\ hi[q] \in Bound /\ hi[p] \in Bound
      BY <1>1, <1>2
    <3>3. Within(lo[r], hi[r], lo[p], hi[p])
      BY <1>1, <3>1, <3>2 DEF Within, Bound
    <3> QED BY <3>1, <3>3 DEF Inside
  <2>6. Below(q) = vs
    BY <1>4, <2>1 DEF Below
  <2> QED BY <2>4, <2>5, <2>6 DEF ToSet
<1> QED BY <1>3, <1>4

LEMMA LeavesUnderInside ==
  ASSUME NEW ht, Shape(node, root_page_id, split, ht), split = NoSplit,
         NEW lo, NEW hi, Bounds(node, root_page_id, split, lo, hi), NEW p \in PageIds
  PROVE  LeavesUnder(p) \subseteq Inside(p, lo, hi)
<1> DEFINE L == Len(node)
           Spread(X) == UNION {ToSet(Below(q)) : q \in X}
           G(f) == [d \in 0 .. L |-> IF d = 0 THEN {p} ELSE Spread(f[d - 1])]
           c == CHOOSE f : f = G(f)
           V == SUBSET Inside(p, lo, hi)
           base == {p}
           step == [n \in 1 .. L |-> [X \in V |-> Spread(X)]]
<1>1. L \in Nat /\ PageIds = 1 .. L
  BY PagesAre
<1>2. base \in V
  <2>1. p \in Inside(p, lo, hi)
    <3>1. lo[p] \in Nat /\ hi[p] \in Bound
      <4>1. PICK up : up = Upper(hi, split)
        OBVIOUS
      <4>2. lo \in [PageIds -> Nat] /\ hi \in [PageIds -> Bound]
        BY <4>1, BoundsAre
      <4> QED BY <4>2
    <3>2. Within(lo[p], hi[p], lo[p], hi[p])
      BY <3>1 DEF Within, Bound
    <3> QED BY <3>2 DEF Inside
  <2> QED BY <2>1
<1>3. ASSUME NEW X \in V PROVE Spread(X) \in V
  <2>1. \A q \in X : ToSet(Below(q)) \subseteq Inside(p, lo, hi)
    BY <1>3, BelowInside
  <2> QED BY <2>1
<1>4. LeavesUnder(p) = c[L]
  BY DEF LeavesUnder
<1> HIDE DEF V, base, Spread
<1>5. Passes(L, V, step)
  <2>1. [X \in V |-> Spread(X)] \in [V -> V]
    BY <1>3
  <2> QED BY <2>1 DEF Passes
<1>6. PICK e : RunOf(L, V, base, step, e)
  <2> HIDE DEF step, L
  <2> QED BY <1>1, <1>2, <1>5, LoopRuns
<1>7. \A n \in 0 .. L : n # 0 => n \in 1 .. L /\ n - 1 \in 0 .. L
  BY <1>1
<1>8. e = G(e)
  <2>1. e \in [0 .. L -> V] /\ e[0] = base
    BY <1>6 DEF RunOf
  <2>2. ASSUME NEW n \in 1 .. L PROVE e[n] = Spread(e[n - 1])
    <3>1. e[n] = step[n][e[n - 1]]
      BY <1>6 DEF RunOf
    <3>2. e[n - 1] \in V
      BY <1>1, <2>1
    <3> QED BY <3>1, <3>2
  <2>3. \A n \in 0 .. L : e[n] = IF n = 0 THEN {p} ELSE Spread(e[n - 1])
    BY <1>7, <2>1, <2>2 DEF base
  <2>4. e = [n \in 0 .. L |-> e[n]]
    BY <2>1
  <2> QED BY <2>3, <2>4
<1>9. c = G(c)
  <2> HIDE DEF G
  <2> QED BY <1>8
<1>10. \A n \in 0 .. L : c[n] = IF n = 0 THEN base ELSE Spread(c[n - 1])
  <2> HIDE DEF c
  <2> QED BY <1>9 DEF base
<1> HIDE DEF c, G
<1> DEFINE U == {n \in 0 .. L : c[n] \notin V}
<1>11. U = {}
  <2> SUFFICES ASSUME U # {} PROVE FALSE
    OBVIOUS
  <2>1. U \subseteq Nat
    OBVIOUS
  <2>2. PICK m \in U : \A j \in U : m <= j
    <3> HIDE DEF U
    <3> QED BY <2>1, LeastNatural
  <2>3. m \in 0 .. L /\ c[m] \notin V
    BY <2>2
  <2>4. m # 0
    BY <1>2, <1>10, <2>3
  <2>5. m - 1 \in 0 .. L /\ ~(m <= m - 1)
    BY <1>7, <2>3, <2>4
  <2>6. c[m - 1] \in V
    BY <2>2, <2>5
  <2>7. c[m] = Spread(c[m - 1])
    BY <1>10, <2>3, <2>4
  <2> QED BY <1>3, <2>3, <2>6, <2>7
<1>12. c[L] \in V
  <2>1. L \in 0 .. L
    BY <1>1
  <2> QED BY <1>11, <2>1
<1> QED BY <1>4, <1>12 DEF V

LEMMA KeysUnderInside ==
  ASSUME NEW ht, Shape(node, root_page_id, split, ht), split = NoSplit,
         NEW lo, NEW hi, Bounds(node, root_page_id, split, lo, hi), NEW p \in PageIds,
         NEW k \in KeysUnder(p)
  PROVE  k \in Nat /\ lo[p] <= k /\ Under(k, hi[p])
<1>1. PICK q \in LeavesUnder(p) : k \in ToSet(node[q].keys)
  BY DEF KeysUnder
<1>2. q \in PageIds /\ Within(lo[q], hi[q], lo[p], hi[p])
  BY LeavesUnderInside DEF Inside
<1>3. PICK up : up = Upper(hi, split)
  OBVIOUS
<1>4. lo \in [PageIds -> Nat] /\ hi \in [PageIds -> Bound] /\ up = hi
  BY <1>3, BoundsAre
<1>5. PICK ks : ks = node[q].keys
  OBVIOUS
<1>6. ks \in Seq(Nat) /\ \A j \in 1 .. Len(ks) : ks[j] \in Nat
  BY <1>2, <1>5, NodeFacts
<1>7. PICK j \in 1 .. Len(ks) : k = ks[j]
  <2>1. DOMAIN ks = 1 .. Len(ks)
    BY <1>6, LenProperties
  <2> QED BY <1>1, <1>5, <2>1 DEF ToSet
<1>8. lo[q] <= k /\ Under(k, hi[q])
  <2>1. CASE node[q].leaf
    <3>1. KeysIn(node[q], lo[q], hi[q])
      BY <1>2, <2>1, LeafBounds
    <3> QED BY <1>5, <1>7, <3>1 DEF KeysIn
  <2>2. CASE ~node[q].leaf
    <3>1. \A i \in 1 .. Len(ks) : lo[q] < ks[i] /\ Under(ks[i], hi[q])
      BY <1>2, <1>3, <1>5, <2>2, InnerIs
    <3>2. lo[q] \in Nat
      BY <1>2, <1>4
    <3> QED BY <1>6, <1>7, <3>1, <3>2
  <2> QED BY <2>1, <2>2
<1>9. /\ lo[p] \in Nat /\ lo[q] \in Nat /\ hi[p] \in Bound /\ hi[q] \in Bound /\ k \in Nat
  BY <1>2, <1>4, <1>6, <1>7
<1> QED BY <1>2, <1>8, <1>9 DEF Within, Under, Bound

\* Nodes of one depth are leaves together.
LEMMA LevelsAgree ==
  ASSUME NEW ht, Shape(node, root_page_id, split, ht), split = NoSplit, root_page_id # INVALID_PAGE_ID,
         NEW lo, NEW hi, Bounds(node, root_page_id, split, lo, hi)
  PROVE  \A d \in DOMAIN Level :
           LET level == ToSet(Level[d]) IN \A p, q \in level : node[p].leaf = node[q].leaf
<1>1. ASSUME NEW d \in DOMAIN Level, NEW p \in ToSet(Level[d]), NEW q \in ToSet(Level[d])
      PROVE  node[p].leaf = node[q].leaf
  <2>1. PICK s : s = Level[d]
    OBVIOUS
  <2>2. LevelFits(Level[d], ht, lo, hi, d, ht[root_page_id])
    BY <1>1, LevelsAre
  <2>3. s \in Seq(PageIds) /\ \E h \in Nat : AtHeight(s, ht, h)
    BY <2>1, <2>2 DEF LevelFits
  <2>4. PICK h \in Nat : AtHeight(s, ht, h)
    BY <2>3
  <2>5. DOMAIN s = 1 .. Len(s)
    BY <2>3, LenProperties
  <2>6. PICK i \in 1 .. Len(s), j \in 1 .. Len(s) : p = s[i] /\ q = s[j]
    BY <1>1, <2>1, <2>5 DEF ToSet
  <2>7. p \in PageIds /\ q \in PageIds
    BY <2>3, <2>6, ElementOfSeq
  <2>8. ht[p] = h /\ ht[q] = h
    BY <2>4, <2>6 DEF AtHeight
  <2>9. /\ NodeFits(node[p], ht[p], ht) /\ node[p] \in Nodes
        /\ NodeFits(node[q], ht[q], ht) /\ node[q] \in Nodes
    BY <2>7, NodeFacts
  <2>10. node[p].leaf \in BOOLEAN /\ node[q].leaf \in BOOLEAN
    BY <2>9 DEF Nodes
  <2>11. (node[p].leaf => h = 0) /\ (~node[p].leaf => h > 0) /\ (node[q].leaf => h = 0) /\ (~node[q].leaf => h > 0)
    BY <2>8, <2>9 DEF NodeFits
  <2> QED BY <2>10, <2>11
<1> QED BY <1>1

LEMMA RangesSeparate ==
  ASSUME NEW ht, Shape(node, root_page_id, split, ht), split = NoSplit,
         NEW lo, NEW hi, Bounds(node, root_page_id, split, lo, hi)
  PROVE  Separated
<1>1. ASSUME NEW p \in PageIds, ~node[p].leaf, NEW i \in DOMAIN node[p].keys
      PROVE  /\ \A k \in KeysUnder(node[p].vals[i]) : k < node[p].keys[i]
             /\ \A k \in KeysUnder(node[p].vals[i + 1]) : node[p].keys[i] <= k
  <2>1. PICK up : up = Upper(hi, split)
    OBVIOUS
  <2>2. up = hi
    BY <2>1, BoundsAre
  <2>3. PICK ks, vs, m : ks = node[p].keys /\ vs = node[p].vals /\ m = Len(ks)
    OBVIOUS
  <2>4. /\ Len(node[p].keys) \in Nat /\ Len(node[p].vals) = Len(node[p].keys) + 1
        /\ Tiled(node[p].keys, node[p].vals, Len(node[p].keys), lo, up, lo[p], hi[p])
        /\ \A j \in 1 .. Len(node[p].vals) : node[p].vals[j] \in PageIds
    BY <1>1, <2>1, InnerIs
  <2>5. /\ m \in Nat /\ Tiled(ks, vs, m, lo, hi, lo[p], hi[p])
        /\ \A j \in 1 .. m + 1 : vs[j] \in PageIds
    BY <2>2, <2>3, <2>4
  <2>6. ks \in Seq(Nat) /\ \A j \in 1 .. m : ks[j] \in Nat
    BY <2>3, NodeFacts
  <2>7. i \in 1 .. m
    BY <1>1, <2>3, <2>6, LenProperties
  <2>8. PICK j \in 1 .. m + 1 : j = i + 1
    BY <2>5, <2>7
  <2>9. i \in 1 .. m + 1 /\ i # m + 1 /\ j # 1 /\ j - 1 = i
    BY <2>5, <2>7, <2>8
  <2>10. hi[vs[i]] = ks[i] /\ lo[vs[j]] = ks[i]
    BY <2>5, <2>9 DEF Tiled
  <2>11. ks[i] \in Nat
    BY <2>6, <2>7
  <2>12. PICK c \in PageIds : c = vs[i]
    BY <2>5, <2>9
  <2>13. PICK d \in PageIds : d = vs[j]
    BY <2>5
  <2>14. ASSUME NEW k \in KeysUnder(c) PROVE k < ks[i]
    <3>1. Under(k, hi[c])
      BY <2>14, KeysUnderInside
    <3> QED BY <2>10, <2>11, <2>12, <3>1 DEF Under
  <2>15. ASSUME NEW k \in KeysUnder(d) PROVE ks[i] <= k
    <3>1. lo[d] <= k
      BY <2>15, KeysUnderInside
    <3> QED BY <2>10, <2>13, <3>1
  <2> QED BY <2>3, <2>8, <2>12, <2>13, <2>14, <2>15
<1> QED BY <1>1 DEF Separated

LEMMA BoundedIsSound == Bounded => TreeSound
<1> SUFFICES ASSUME Bounded PROVE TreeSound
  OBVIOUS
<1>1. Leaved /\ LeavesChained
  BY LeavedIsChained DEF Bounded
<1>2. SUFFICES ASSUME Settled
      PROVE  /\ \A d \in DOMAIN Level :
                  LET level == ToSet(Level[d]) IN \A p, q \in level : node[p].leaf = node[q].leaf
             /\ Level[Len(node)] = ChainFrom(1)
             /\ node[root_page_id].parent = INVALID_PAGE_ID
             /\ \A p \in PageIds : ~node[p].leaf => \A c \in ToSet(node[p].vals) : node[c].parent = p
             /\ Separated
  BY <1>1 DEF TreeSound
<1>3. split = NoSplit /\ ~refused /\ root_page_id # INVALID_PAGE_ID
  BY <1>2 DEF Settled
<1>4. PICK ht : Shape(node, root_page_id, split, ht)
  BY <1>1 DEF Leaved, Shaped
<1>5. PICK ch : Linked(node, ch)
  BY <1>1 DEF Leaved
<1>6. PICK lo, hi : Bounds(node, root_page_id, split, lo, hi)
  BY <1>3 DEF Bounded
<1>7. PageIds = 1 .. Len(node) /\ Len(node) \in Nat /\ Len(ht) = Len(node)
  BY <1>4, PagesAre
<1>8. Parented(node, root_page_id, split)
  BY <1>6 DEF Bounds
<1>9. node[root_page_id].parent = INVALID_PAGE_ID
  <2>1. root_page_id \in 1 .. Len(node)
    BY <1>3, <1>4, <1>7 DEF Shape, RootFits
  <2> QED BY <1>7, <1>8, <2>1 DEF Parented
<1>10. ASSUME NEW p \in PageIds, ~node[p].leaf, NEW c \in ToSet(node[p].vals) PROVE node[c].parent = p
  <2>1. NodeFits(node[p], ht[p], ht)
    BY <1>4, NodeFacts
  <2>2. PICK vs : vs = node[p].vals
    OBVIOUS
  <2>3. vs \in Seq(Nat)
    BY <1>10, <2>1, <2>2 DEF NodeFits
  <2>4. DOMAIN vs = 1 .. Len(vs)
    BY <2>3, LenProperties
  <2>5. PICK j \in 1 .. Len(vs) : c = vs[j]
    BY <1>10, <2>2, <2>4 DEF ToSet
  <2>6. \A i \in 1 .. Len(node[p].vals) : node[node[p].vals[i]].parent = p
    BY <1>7, <1>8, <1>10 DEF Parented
  <2> QED BY <2>2, <2>5, <2>6
<1>11. Level[Len(node)] = ChainFrom(1)
  BY <1>3, <1>4, <1>5, <1>6, LevelIsChain
<1>12. Separated
  BY <1>3, <1>4, <1>6, RangesSeparate
<1>13. \A d \in DOMAIN Level :
         LET level == ToSet(Level[d]) IN \A p, q \in level : node[p].leaf = node[q].leaf
  BY <1>3, <1>4, <1>6, LevelsAgree
<1> QED BY <1>9, <1>10, <1>11, <1>12, <1>13

\* btree.h, "The tree is always balanced (all leaves at same depth)" and "All keys in
\* child[i] are < key[i] <= all keys in child[i+1]": whatever the inserts have split and
\* the deletes have emptied, between two calls the leaves found from the root are those
\* on the chain, every node names its parent and the separators separate, as long as no
\* page was refused and no two records share a key.
THEOREM StaysSound == Spec /\ []OneRecordPerKey => []TreeSound
BY AlwaysBounded, BoundedIsSound, PTL

-----------------------------------------------------------------------------
(* Searching. *)

\* A key lies in the range of one leaf only, and so do its entries.
LEMMA OneHome ==
  ASSUME NEW ht, Shape(node, root_page_id, split, ht), NEW ch, Linked(node, ch),
         NEW lo, NEW hi, Bounds(node, root_page_id, split, lo, hi), NEW k \in Nat,
         NEW i \in 1 .. Len(ch), In(k, ch[i], lo, hi), NEW j \in 1 .. Len(ch), In(k, ch[j], lo, hi)
  PROVE  i = j
<1> DEFINE M == Len(ch)
<1>1. M \in Nat
  BY LenProperties DEF Linked
<1>2. /\ \A n \in 1 .. M : ch[n] \in PageIds
      /\ \A n \in 1 .. M : hi[ch[n]] = IF n = M THEN -1 ELSE lo[ch[n + 1]]
      /\ \A m, n \in 1 .. M : m < n => lo[ch[m]] < lo[ch[n]]
  BY ChainAscends
<1>3. \A n \in 1 .. M : lo[ch[n]] \in Nat
  <2>1. lo \in [PageIds -> Nat]
    <3>1. PICK up : up = Upper(hi, split)
      OBVIOUS
    <3> QED BY <3>1, BoundsAre
  <2> QED BY <1>2, <2>1
<1> HIDE DEF M
<1>4. ASSUME NEW m \in 1 .. M, NEW n \in 1 .. M, m < n, In(k, ch[m], lo, hi), In(k, ch[n], lo, hi)
      PROVE  FALSE
  <2>1. PICK g \in 1 .. M : g = m + 1
    BY <1>1, <1>4
  <2>2. m # M
    BY <1>1, <1>4
  <2>3. hi[ch[m]] = lo[ch[g]] /\ lo[ch[g]] \in Nat
    BY <1>2, <1>3, <2>1, <2>2
  <2>4. k < lo[ch[g]] /\ lo[ch[n]] <= k
    BY <1>4, <2>3 DEF In, Under
  <2>5. g = n \/ g < n
    BY <1>1, <1>4, <2>1
  <2>6. g < n => lo[ch[g]] < lo[ch[n]]
    BY <1>2
  <2>7. lo[ch[n]] \in Nat /\ lo[ch[g]] \in Nat
    BY <1>3
  <2>8. g # n
    <3>1. ASSUME g = n PROVE FALSE
      <4>1. lo[ch[g]] <= k
        BY <2>4, <3>1
      <4> QED BY <2>4, <2>7, <4>1
    <3> QED BY <3>1
  <2> QED BY <2>4, <2>5, <2>6, <2>7, <2>8
<1>5. i \in 1 .. M /\ j \in 1 .. M
  BY DEF M
<1> QED BY <1>1, <1>4, <1>5

LEMMA HeldAtHome ==
  ASSUME NEW ht, Shape(node, root_page_id, split, ht), NEW ch, Linked(node, ch),
         NEW lo, NEW hi, Bounds(node, root_page_id, split, lo, hi),
         NEW x \in All(node), NEW k \in Nat, k = x[1],
         NEW i \in 1 .. Len(ch), In(k, ch[i], lo, hi)
  PROVE  x \in Held(node[ch[i]])
<1>1. PICK q \in LeafPages(node) : x \in Held(node[q])
  BY DEF All
<1>2. PICK j \in 1 .. Len(ch) : ch[j] = q
  BY DEF Linked
<1>3. q \in PageIds /\ node[q].leaf
  BY <1>1, PagesAre DEF LeafPages
<1>4. In(k, q, lo, hi)
  BY <1>1, <1>3, LeafBounds DEF In
<1>5. i = j
  BY <1>2, <1>4, OneHome
<1> QED BY <1>1, <1>2, <1>5

\* What the search of a leaf finds.
LEMMA FindAllIs ==
  ASSUME NEW n, n.keys \in Seq(Nat), Ascending(n.keys), NEW R, n.vals \in Seq(R),
         Len(n.vals) = Len(n.keys), NEW k \in Int
  PROVE  /\ FindAll(n, k) \in Seq(R)
         /\ \E a \in 0 .. Len(n.keys), b \in 0 .. Len(n.keys) :
              /\ a <= b /\ Len(FindAll(n, k)) = b - a
              /\ \A i \in 1 .. b - a : FindAll(n, k)[i] = n.vals[a + i]
              /\ \A i \in 1 .. Len(n.keys) : n.keys[i] = k <=> a < i /\ i <= b
<1> DEFINE L == Len(n.keys)
           a == FindKeyPosition(n, k)
           b == FindChild(n, k)
<1>1. L \in Nat /\ \A i \in 1 .. L : n.keys[i] \in Nat
  BY LenProperties, ElementOfSeq
<1>2. /\ a \in 0 .. L /\ \A i \in 1 .. L : n.keys[i] < k <=> i <= a
  BY FindKeyPositionIs
<1>3. /\ b \in 0 .. L /\ \A i \in 1 .. L : n.keys[i] <= k <=> i <= b
  BY FindChildIs
<1>4. FindAll(n, k) = SubSeq(n.vals, a + 1, b)
  BY DEF FindAll
<1> HIDE DEF a, b, L
<1>5. a <= b
  <2>1. CASE a = 0
    BY <1>1, <1>3, <2>1
  <2>2. CASE a # 0
    <3>1. a \in 1 .. L /\ a <= a
      BY <1>1, <1>2, <2>2
    <3>2. n.keys[a] < k
      BY <1>2, <3>1
    <3>3. n.keys[a] <= k
      BY <1>1, <3>1, <3>2
    <3> QED BY <1>3, <3>1, <3>3
  <2> QED BY <2>1, <2>2
<1>6. ASSUME NEW i \in 1 .. L PROVE n.keys[i] = k <=> a < i /\ i <= b
  <2>1. n.keys[i] \in Nat
    BY <1>1
  <2>2. n.keys[i] = k <=> ~(n.keys[i] < k) /\ n.keys[i] <= k
    BY <2>1
  <2>3. ~(i <= a) <=> a < i
    BY <1>1, <1>2
  <2> QED BY <1>2, <1>3, <2>2, <2>3
<1>7. PICK v : v = n.vals
  OBVIOUS
<1>8. v \in Seq(R) /\ Len(v) = L
  BY <1>7 DEF L
<1>9. PICK c \in 1 .. Len(v) + 1 : c = a + 1
  BY <1>1, <1>2, <1>8
<1>10. PICK d \in c - 1 .. Len(v) : d = b
  BY <1>1, <1>2, <1>3, <1>5, <1>8, <1>9
<1>11. /\ SubSeq(v, c, d) \in Seq(R) /\ Len(SubSeq(v, c, d)) = d - c + 1
       /\ \A i \in 1 .. d - c + 1 : SubSeq(v, c, d)[i] = v[c + i - 1]
  BY <1>8, Piece
<1>12. FindAll(n, k) = SubSeq(v, c, d) /\ d - c + 1 = b - a /\ \A i \in 1 .. b - a : c + i - 1 = a + i
  BY <1>1, <1>2, <1>3, <1>4, <1>7, <1>9, <1>10
<1>13. /\ FindAll(n, k) \in Seq(R) /\ Len(FindAll(n, k)) = b - a
       /\ \A i \in 1 .. b - a : FindAll(n, k)[i] = n.vals[a + i]
  BY <1>7, <1>11, <1>12
<1> QED BY <1>2, <1>3, <1>5, <1>6, <1>13 DEF L

LEMMA LeafFacts ==
  ASSUME NEW ht, Shape(node, root_page_id, split, ht), NEW p \in PageIds, node[p].leaf
  PROVE  /\ node[p].keys \in Seq(Keys) /\ node[p].keys \in Seq(Nat) /\ Ascending(node[p].keys)
         /\ node[p].vals \in Seq(RIDs) /\ Len(node[p].vals) = Len(node[p].keys)
         /\ Len(node[p].keys) \in Nat
         /\ p \in LeafPages(node)
<1>1. NodeFits(node[p], ht[p], ht) /\ PageIds = 1 .. Len(node)
  BY NodeFacts, PagesAre
<1> QED BY <1>1, NodeFacts DEF NodeFits, LeafPages

\* The leaf of a key and its place on the chain.
LEMMA FoundOnChain ==
  ASSUME NEW ht, Shape(node, root_page_id, split, ht), NEW ch, Linked(node, ch),
         split = NoSplit, root_page_id # INVALID_PAGE_ID,
         NEW lo, NEW hi, Bounds(node, root_page_id, split, lo, hi), NEW k \in Nat
  PROVE  /\ FindLeafPage(k) \in PageIds /\ node[FindLeafPage(k)].leaf
         /\ In(k, FindLeafPage(k), lo, hi)
         /\ \E i \in 1 .. Len(ch) : ch[i] = FindLeafPage(k)
<1>1. k \in Int
  OBVIOUS
<1>2. PICK p : p = FindLeafPage(k)
  OBVIOUS
<1>3. p \in PageIds /\ node[p].leaf
  BY <1>1, <1>2, FoundLeaf
<1>4. In(k, p, lo, hi)
  BY <1>2, FoundInside
<1>5. p \in LeafPages(node)
  BY <1>3, LeafFacts
<1>6. \E i \in 1 .. Len(ch) : ch[i] = p
  BY <1>5 DEF Linked
<1> QED BY <1>2, <1>3, <1>4, <1>6

\* The leaf after the one of a key does not begin with it.
LEMMA NextBeginsLater ==
  ASSUME NEW ht, Shape(node, root_page_id, split, ht), NEW ch, Linked(node, ch),
         NEW lo, NEW hi, Bounds(node, root_page_id, split, lo, hi), NEW k \in Nat,
         NEW i \in 1 .. Len(ch), In(k, ch[i], lo, hi), NEW j \in 1 .. Len(ch), j = i + 1
  PROVE  node[ch[j]].keys = <<>> \/ Head(node[ch[j]].keys) # k
<1>1. PICK q \in PageIds : q = ch[j] /\ node[q].leaf
  BY ChainAscends
<1>2. lo[q] \in Nat /\ KeysIn(node[q], lo[q], hi[q])
  BY <1>1, LeafBounds
<1>3. node[q].keys \in Seq(Nat)
  BY <1>1, LeafFacts
<1>4. Len(ch) \in Nat
  BY LenProperties DEF Linked
<1>5. hi[ch[i]] = lo[q]
  <2>1. i # Len(ch)
    BY <1>4
  <2>2. hi[ch[i]] = IF i = Len(ch) THEN -1 ELSE lo[ch[i + 1]]
    BY ChainAscends
  <2> QED BY <1>1, <2>1, <2>2
<1>6. k < lo[q]
  BY <1>2, <1>5 DEF In, Under
<1>7. ASSUME node[q].keys # <<>> PROVE Head(node[q].keys) # k
  <2>1. PICK ks \in Seq(Nat) : ks = node[q].keys
    BY <1>3
  <2>2. Len(ks) \in Nat \ {0}
    BY <1>7, <2>1, EmptySeq
  <2>3. PICK f \in 1 .. Len(ks) : f = 1
    BY <2>2
  <2>4. lo[q] <= ks[f] /\ ks[f] \in Nat
    BY <1>2, <2>1, ElementOfSeq DEF KeysIn
  <2>5. Head(ks) = ks[f]
    BY <2>3
  <2> QED BY <1>2, <1>6, <2>1, <2>4, <2>5, SMTT(30)
<1> QED BY <1>1, <1>7

LEMMA NothingFlat == ASSUME NEW G(_) PROVE FlattenSeq([i \in DOMAIN <<>> |-> G(i)]) = <<>>
<1> DEFINE z == [i \in DOMAIN <<>> |-> G(i)]
<1>1. DOMAIN <<>> = {}
  OBVIOUS
<1>2. z = <<>>
  BY <1>1
<1>3. Len(z) = 0
  BY <1>2
<1> QED BY <1>2, <1>3 DEF FlattenSeq

\* The first N leaves from the i-th of the chain on.
Follows(leaves, ch, i, N) ==
  /\ leaves \in Seq(Nat) /\ Len(leaves) = N /\ N <= Len(ch) - i + 1
  /\ \A n \in 1 .. N : leaves[n] = ch[i + n - 1]

\* The leaves a search sees are those of the chain from the one of its key on, all of
\* them unless it is refused one.
LEMMA FetchedIs ==
  ASSUME NEW ht, Shape(node, root_page_id, split, ht), NEW ch, Linked(node, ch),
         split = NoSplit, root_page_id # INVALID_PAGE_ID,
         NEW lo, NEW hi, Bounds(node, root_page_id, split, lo, hi), NEW k \in Nat,
         NEW leaves \in Fetched(k)
  PROVE  \E i \in 1 .. Len(ch), N \in Nat :
            /\ ch[i] = FindLeafPage(k) /\ In(k, ch[i], lo, hi) /\ Follows(leaves, ch, i, N)
            /\ leaves = LeavesFrom(k) => N = Len(ch) - i + 1
<1> DEFINE all == LeavesFrom(k)
           M   == Len(ch)
<1>1. PICK i \in 1 .. Len(ch) : ch[i] = FindLeafPage(k)
  BY FoundOnChain
<1>2. In(k, ch[i], lo, hi)
  BY <1>1, FoundOnChain
<1>3. Len(node) \in Nat /\ M \in Nat
  BY PagesAre, LenProperties DEF Linked
<1>4. all = ChainFrom(ch[i])
  BY <1>1 DEF LeavesFrom
<1>5. /\ ChainFrom(ch[i]) \in Seq(Nat) /\ Len(ChainFrom(ch[i])) = M - i + 1
      /\ \A n \in 1 .. M - i + 1 : ChainFrom(ch[i])[n] = ch[i + n - 1]
  BY <1>3, ChainFromIs
<1> HIDE DEF all
<1>6. all \in Seq(Nat) /\ Len(all) = M - i + 1 /\ \A n \in 1 .. M - i + 1 : all[n] = ch[i + n - 1]
  BY <1>4, <1>5
<1>7. i \in 1 .. M
  BY DEF M
<1>8. Len(all) \in Nat
  BY <1>6, LenProperties
<1>9. PICK N \in 0 .. Len(all) : leaves = SubSeq(all, 1, N)
  <2>1. leaves \in {SubSeq(all, 1, n) : n \in IF FramesRunOut THEN 0 .. Len(all) ELSE {Len(all)}}
    BY DEF Fetched, all
  <2>2. PICK N \in IF FramesRunOut THEN 0 .. Len(all) ELSE {Len(all)} : leaves = SubSeq(all, 1, N)
    BY <2>1
  <2>3. N \in 0 .. Len(all)
    BY <1>8, <2>2
  <2> QED BY <2>2, <2>3
<1>10. PICK c \in 1 .. Len(all) + 1 : c = 1
  BY <1>8
<1>11. PICK d \in c - 1 .. Len(all) : d = N
  BY <1>8, <1>9, <1>10
<1>12. /\ SubSeq(all, c, d) \in Seq(Nat) /\ Len(SubSeq(all, c, d)) = d - c + 1
       /\ \A n \in 1 .. d - c + 1 : SubSeq(all, c, d)[n] = all[c + n - 1]
  BY <1>6, Piece
<1>13. leaves = SubSeq(all, c, d) /\ d - c + 1 = N /\ N \in Nat
  BY <1>8, <1>9, <1>10, <1>11
<1>14. leaves \in Seq(Nat) /\ Len(leaves) = N
  BY <1>12, <1>13
<1> HIDE DEF M
<1>15. ASSUME NEW n \in 1 .. N PROVE leaves[n] = ch[i + n - 1]
  <2>1. leaves[n] = all[c + n - 1]
    BY <1>12, <1>13
  <2>2. c + n - 1 = n
    BY <1>10, <1>13
  <2>3. n \in 1 .. M - i + 1
    BY <1>3, <1>6, <1>7, <1>8, <1>9
  <2> QED BY <1>6, <2>1, <2>2, <2>3
<1>16. N <= M - i + 1
  BY <1>6, <1>8, <1>9
<1>17. Follows(leaves, ch, i, N)
  BY <1>14, <1>15, <1>16 DEF Follows, M
<1>18. leaves = all => N = M - i + 1
  BY <1>6, <1>14
<1> QED BY <1>1, <1>2, <1>13, <1>17, <1>18 DEF all, M

\* Keys being unique to a leaf, a lookup ends in the leaf it begins in.
LEMMA LookupInLeaf ==
  ASSUME NEW ht, Shape(node, root_page_id, split, ht), NEW ch, Linked(node, ch),
         split = NoSplit, root_page_id # INVALID_PAGE_ID,
         NEW lo, NEW hi, Bounds(node, root_page_id, split, lo, hi), NEW k \in Keys,
         NEW leaves \in Fetched(k), leaves # <<>>
  PROVE  Lookup(k, leaves) = FindAll(node[FindLeafPage(k)], k)
<1> DEFINE leaf  == FindLeafPage(k)
           rest  == Tail(leaves)
           stops == {i \in DOMAIN rest : LET ks == node[rest[i]].keys
                                         IN  ks = <<>> \/ Head(ks) # k}
           more  == IF stops = {} THEN rest ELSE SubSeq(rest, 1, Min(stops) - 1)
           here  == FindAll(node[leaf], k)
           flat  == FlattenSeq([i \in DOMAIN more |-> FindAll(node[more[i]], k)])
           M     == Len(ch)
<1>1. k \in Nat
  BY KeyAssumption
<1>2. PICK i \in 1 .. Len(ch), N \in Nat : ch[i] = leaf /\ In(k, ch[i], lo, hi) /\ Follows(leaves, ch, i, N)
  BY <1>1, FetchedIs
<1>3. leaf \in PageIds /\ node[leaf].leaf /\ In(k, ch[i], lo, hi)
  BY <1>1, <1>2, FoundOnChain
<1>4. /\ leaves \in Seq(Nat) /\ Len(leaves) = N /\ N <= M - i + 1
      /\ \A n \in 1 .. N : leaves[n] = ch[i + n - 1]
  BY <1>2 DEF Follows
<1>5. here \in Seq(RIDs)
  <2>1. PICK n : n = node[leaf]
    OBVIOUS
  <2>2. n.keys \in Seq(Nat) /\ Ascending(n.keys) /\ n.vals \in Seq(RIDs) /\ Len(n.vals) = Len(n.keys)
    BY <1>3, <2>1, LeafFacts
  <2>3. k \in Int
    BY <1>1
  <2> QED BY <2>1, <2>2, <2>3, FindAllIs
<1>6. M \in Nat /\ i \in 1 .. M /\ N >= 1
  <2>1. M \in Nat
    BY LenProperties DEF Linked
  <2>2. N # 0
    BY <1>4, EmptySeq
  <2> QED BY <2>1, <2>2
<1>7. /\ Head(leaves) = leaves[1] /\ rest \in Seq(Nat) /\ Len(rest) = N - 1
      /\ \A n \in 1 .. Len(rest) : rest[n] = leaves[n + 1]
  BY <1>4, HeadTailProperties
<1>8. Head(leaves) = leaf
  <2> HIDE DEF leaf, rest, M
  <2>1. 1 \in 1 .. N /\ i + 1 - 1 = i
    BY <1>6
  <2> QED BY <1>2, <1>4, <1>7, <2>1
<1>9. Lookup(k, leaves) = IF here = <<>> THEN <<>> ELSE here \o flat
  BY <1>8 DEF Lookup
<1> HIDE DEF M
<1>10. DOMAIN rest = 1 .. N - 1
  <2> HIDE DEF rest
  <2>1. DOMAIN rest = 1 .. Len(rest)
    BY <1>7, LenProperties
  <2> QED BY <1>7, <2>1
<1>11. more = <<>>
  <2>1. CASE N = 1
    <3>1. rest = <<>>
      <4> HIDE DEF rest
      <4>1. Len(rest) = 0
        BY <1>7, <2>1
      <4> QED BY <1>7, <4>1, EmptySeq
    <3>2. DOMAIN rest = {}
      BY <3>1
    <3>3. stops = {}
      BY <3>2
    <3> QED BY <3>1, <3>3
  <2>2. CASE N # 1
    <3>1. PICK j \in 1 .. Len(ch) : j = i + 1
      BY <1>4, <1>6, <2>2 DEF M
    <3>2. node[ch[j]].keys = <<>> \/ Head(node[ch[j]].keys) # k
      BY <1>1, <1>3, <3>1, NextBeginsLater
    <3>3. 1 \in 1 .. N - 1
      BY <1>6, <2>2
    <3>4. rest[1] = ch[j]
      <4> HIDE DEF rest
      <4>1. rest[1] = leaves[1 + 1] /\ 1 + 1 \in 1 .. N
        BY <1>6, <1>7, <3>3
      <4>2. leaves[1 + 1] = ch[i + (1 + 1) - 1] /\ i + (1 + 1) - 1 = j
        BY <1>4, <1>6, <3>1, <4>1
      <4> QED BY <4>1, <4>2
    <3>5. 1 \in stops
      <4> HIDE DEF rest
      <4> QED BY <1>10, <3>2, <3>3, <3>4
    <3>6. stops \subseteq Nat /\ \A n \in stops : n >= 1
      <4> HIDE DEF rest
      <4> QED BY <1>6, <1>10
    <3> HIDE DEF stops
    <3>7. Min(stops) \in stops /\ \A n \in stops : Min(stops) <= n
      BY <3>5, <3>6, MinIsLeast
    <3>8. Min(stops) = 1
      <4>1. PICK m \in Nat : m = Min(stops)
        BY <3>6, <3>7
      <4>2. m >= 1 /\ m <= 1
        BY <3>5, <3>6, <3>7, <4>1
      <4> QED BY <4>1, <4>2
    <3>9. SubSeq(rest, 1, 0) = <<>>
      BY SubSeqEmpty
    <3> QED BY <3>5, <3>8, <3>9
  <2> QED BY <2>1, <2>2
<1> HIDE DEF more
<1>12. flat = <<>>
  <2> DEFINE G(n) == FindAll(node[more[n]], k)
  <2>1. flat = FlattenSeq([n \in DOMAIN <<>> |-> G(n)])
    BY <1>11
  <2> HIDE DEF G, flat
  <2> QED BY <2>1, NothingFlat
<1> HIDE DEF flat, here
<1>13. here \o <<>> = here
  BY <1>5, ConcatEmptySeq
<1> QED BY <1>9, <1>12, <1>13 DEF here

LEMMA LookupFinds ==
  ASSUME NEW ht, Shape(node, root_page_id, split, ht), NEW ch, Linked(node, ch), Kept(node),
         split = NoSplit, root_page_id # INVALID_PAGE_ID,
         NEW lo, NEW hi, Bounds(node, root_page_id, split, lo, hi), NEW k \in Keys,
         NEW leaves \in Fetched(k), leaves # <<>>
  PROVE  ToSet(Lookup(k, leaves)) = Index!Found(k) /\ IsInjective(Lookup(k, leaves))
<1>1. k \in Nat
  BY KeyAssumption
<1>2. PICK p, n : p = FindLeafPage(k) /\ n = node[p]
  OBVIOUS
<1>3. p \in PageIds /\ n.leaf /\ In(k, p, lo, hi)
  BY <1>1, <1>2, FoundOnChain
<1>4. PICK i \in 1 .. Len(ch) : ch[i] = p
  BY <1>1, <1>2, FoundOnChain
<1>5. /\ n.keys \in Seq(Nat) /\ n.keys \in Seq(Keys) /\ Ascending(n.keys) /\ n.vals \in Seq(RIDs)
      /\ Len(n.vals) = Len(n.keys) /\ p \in LeafPages(node) /\ Len(n.keys) \in Nat
  BY <1>2, <1>3, LeafFacts
<1>6. PICK s : s = Lookup(k, leaves) /\ s = FindAll(n, k)
  BY <1>2, LookupInLeaf
<1>7. /\ s \in Seq(RIDs)
      /\ \E a \in 0 .. Len(n.keys), b \in 0 .. Len(n.keys) :
              /\ a <= b /\ Len(s) = b - a
              /\ \A j \in 1 .. b - a : s[j] = n.vals[a + j]
              /\ \A j \in 1 .. Len(n.keys) : n.keys[j] = k <=> a < j /\ j <= b
  <2>1. k \in Int
    BY <1>1
  <2>2. /\ FindAll(n, k) \in Seq(RIDs)
        /\ \E a \in 0 .. Len(n.keys), b \in 0 .. Len(n.keys) :
              /\ a <= b /\ Len(FindAll(n, k)) = b - a
              /\ \A j \in 1 .. b - a : FindAll(n, k)[j] = n.vals[a + j]
              /\ \A j \in 1 .. Len(n.keys) : n.keys[j] = k <=> a < j /\ j <= b
    BY <1>5, <2>1, FindAllIs
  <2>3. s = FindAll(n, k)
    BY <1>6
  <2> QED BY <2>2, <2>3
<1>8. PICK a \in 0 .. Len(n.keys), b \in 0 .. Len(n.keys) :
              /\ a <= b /\ Len(s) = b - a
              /\ \A j \in 1 .. b - a : s[j] = n.vals[a + j]
              /\ \A j \in 1 .. Len(n.keys) : n.keys[j] = k <=> a < j /\ j <= b
  BY <1>7
<1>9. DOMAIN s = 1 .. b - a /\ \A j \in 1 .. b - a : s[j] \in RIDs
  BY <1>7, <1>8, LenProperties, ElementOfSeq
<1>10. ASSUME NEW j \in 1 .. b - a
       PROVE  \E m \in 1 .. Len(n.keys) : m = a + j /\ n.keys[m] = k /\ s[j] = n.vals[m]
  <2>1. PICK m \in 1 .. Len(n.keys) : m = a + j
    BY <1>5, <1>8
  <2>2. a < m /\ m <= b
    BY <1>5, <1>8, <2>1
  <2> QED BY <1>8, <2>1, <2>2
<1>11. Contents = All(node)
  BY ContentsIs
<1>12. ASSUME NEW r \in ToSet(s) PROVE r \in RIDs /\ <<k, r>> \in Contents
  <2>1. PICK j \in 1 .. b - a : r = s[j]
    BY <1>9 DEF ToSet
  <2>2. PICK m \in 1 .. Len(n.keys) : n.keys[m] = k /\ r = n.vals[m]
    BY <1>10, <2>1
  <2>3. <<n.keys[m], n.vals[m]>> \in Held(n)
    BY <1>5, HeldIs
  <2>4. <<k, r>> \in Held(node[p])
    BY <1>2, <2>2, <2>3
  <2> QED BY <1>5, <1>9, <1>11, <2>1, <2>4 DEF All
<1>13. ASSUME NEW r \in RIDs, <<k, r>> \in Contents PROVE r \in ToSet(s)
  <2>1. PICK x \in All(node) : x = <<k, r>>
    BY <1>11, <1>13
  <2>2. k = x[1]
    BY <2>1
  <2>3. x \in Held(node[ch[i]])
    BY <1>1, <1>3, <1>4, <2>2, HeldAtHome
  <2>4. x \in Held(n)
    BY <1>2, <1>4, <2>3
  <2>5. PICK m \in 1 .. Len(n.keys) : x = <<n.keys[m], n.vals[m]>>
    BY <1>5, <2>4, HeldIs
  <2>6. n.keys[m] = k /\ n.vals[m] = r
    BY <2>1, <2>5
  <2>7. a < m /\ m <= b
    BY <1>8, <2>6
  <2>8. PICK j \in 1 .. b - a : a + j = m
    <3>1. m - a \in 1 .. b - a /\ a + (m - a) = m
      BY <1>5, <1>8, <2>7
    <3> QED BY <3>1
  <2>9. s[j] = r
    BY <1>8, <2>6, <2>8
  <2> QED BY <1>9, <2>9 DEF ToSet
<1>14. ASSUME NEW j \in 1 .. b - a, NEW m \in 1 .. b - a, s[j] = s[m] PROVE j = m
  <2>1. PICK g \in 1 .. Len(n.keys) : g = a + j /\ n.keys[g] = k /\ s[j] = n.vals[g]
    BY <1>10
  <2>2. PICK h \in 1 .. Len(n.keys) : h = a + m /\ n.keys[h] = k /\ s[m] = n.vals[h]
    BY <1>10
  <2>3. Single(n)
    BY <1>2, <1>5 DEF Kept
  <2>4. g = h
    BY <1>14, <2>1, <2>2, <2>3 DEF Single
  <2> QED BY <1>8, <2>1, <2>2, <2>4
<1>15. IsInjective(s)
  BY <1>9, <1>14 DEF IsInjective
<1>16. ToSet(s) = {r \in RIDs : <<k, r>> \in Contents}
  BY <1>12, <1>13
<1> QED BY <1>6, <1>15, <1>16 DEF Index!Found

LEMMA BoundedLooksUp == Bounded => LookupExact
<1> SUFFICES ASSUME Bounded, Settled, NEW k \in Keys, NEW leaves \in Fetched(k), leaves # <<>>
             PROVE  ToSet(Lookup(k, leaves)) = Index!Found(k) /\ IsInjective(Lookup(k, leaves))
  BY DEF LookupExact
<1>1. split = NoSplit /\ ~refused /\ root_page_id # INVALID_PAGE_ID
  BY DEF Settled
<1>2. PICK ht : Shape(node, root_page_id, split, ht)
  BY DEF Bounded, Leaved, Shaped
<1>3. PICK ch : Linked(node, ch)
  BY DEF Bounded, Leaved
<1>4. PICK lo, hi : Bounds(node, root_page_id, split, lo, hi)
  BY <1>1 DEF Bounded
<1>5. Kept(node)
  BY DEF Bounded, Leaved
<1> QED BY <1>1, <1>2, <1>3, <1>4, <1>5, LookupFinds

-----------------------------------------------------------------------------
(* Scanning. *)

Pairs == Keys \X RIDs

Climbs(s) == \A i, j \in 1 .. Len(s) : i < j => s[i][1] < s[j][1]

\* Of the entries in A, s lists those from key a on and under b, in the order of their keys.
Scans(s, A, a, b) ==
  /\ s \in Seq(Pairs) /\ Climbs(s)
  /\ \A i \in 1 .. Len(s) : s[i] \in A /\ a <= s[i][1] /\ Under(s[i][1], b)
  /\ \A x \in A : a <= x[1] /\ Under(x[1], b) => \E i \in 1 .. Len(s) : s[i] = x

LEMMA PairKeys == \A x \in Pairs : x[1] \in Keys /\ x[1] \in Nat
BY KeyAssumption DEF Pairs

LEMMA ScansJoined ==
  ASSUME NEW A, A \subseteq Pairs, NEW a \in Nat, NEW b \in Nat, NEW c \in Bound, a <= b, Under(b, c),
         NEW s, Scans(s, A, a, b), NEW t, Scans(t, A, b, c)
  PROVE  Scans(s \o t, A, a, c)
<1> DEFINE u == s \o t
           m == Len(s)
           n == Len(t)
<1>0. s \in Seq(Pairs) /\ t \in Seq(Pairs)
  BY DEF Scans
<1>1. /\ u \in Seq(Pairs) /\ Len(u) = m + n /\ m \in Nat /\ n \in Nat
      /\ \A i \in 1 .. m + n : u[i] = IF i <= m THEN s[i] ELSE t[i - m]
  BY <1>0, ConcatProperties, LenProperties
<1>2. /\ \A i \in 1 .. m : s[i] \in A /\ a <= s[i][1] /\ Under(s[i][1], b) /\ s[i][1] \in Nat
      /\ \A i, j \in 1 .. m : i < j => s[i][1] < s[j][1]
      /\ \A x \in A : a <= x[1] /\ Under(x[1], b) => \E i \in 1 .. m : s[i] = x
  BY PairKeys DEF Scans, Climbs
<1>3. /\ \A i \in 1 .. n : t[i] \in A /\ b <= t[i][1] /\ Under(t[i][1], c) /\ t[i][1] \in Nat
      /\ \A i, j \in 1 .. n : i < j => t[i][1] < t[j][1]
      /\ \A x \in A : b <= x[1] /\ Under(x[1], c) => \E i \in 1 .. n : t[i] = x
  BY PairKeys DEF Scans, Climbs
<1> HIDE DEF u, m, n
<1>4. ASSUME NEW i \in 1 .. m + n, NEW j \in 1 .. m + n, i < j PROVE u[i][1] < u[j][1]
  <2>1. CASE j <= m
    <3>1. i \in 1 .. m /\ j \in 1 .. m /\ i <= m
      BY <1>1, <1>4, <2>1
    <3>2. u[i] = s[i] /\ u[j] = s[j]
      BY <1>1, <2>1, <3>1
    <3> QED BY <1>2, <1>4, <3>1, <3>2
  <2>2. CASE i <= m /\ ~(j <= m)
    <3>1. i \in 1 .. m
      BY <1>1, <2>2
    <3>2. PICK g \in 1 .. n : g = j - m
      BY <1>1, <2>2
    <3>3. u[i] = s[i] /\ u[j] = t[g]
      BY <1>1, <2>2, <3>2
    <3>4. s[i][1] < b /\ s[i][1] \in Nat
      BY <1>2, <3>1 DEF Under
    <3>5. b <= t[g][1] /\ t[g][1] \in Nat
      BY <1>3
    <3> QED BY <3>3, <3>4, <3>5
  <2>3. CASE ~(i <= m)
    <3>1. ~(j <= m)
      BY <1>1, <1>4, <2>3
    <3>2. PICK g \in 1 .. n, h \in 1 .. n : g = i - m /\ h = j - m
      BY <1>1, <2>3, <3>1
    <3>3. u[i] = t[g] /\ u[j] = t[h] /\ g < h
      BY <1>1, <1>4, <2>3, <3>1, <3>2
    <3> QED BY <1>3, <3>3
  <2> QED BY <2>1, <2>2, <2>3
<1>5. ASSUME NEW i \in 1 .. m + n PROVE u[i] \in A /\ a <= u[i][1] /\ Under(u[i][1], c)
  <2>1. CASE i <= m
    <3>1. i \in 1 .. m
      BY <1>1, <2>1
    <3>2. u[i] = s[i] /\ s[i] \in A /\ a <= s[i][1] /\ s[i][1] < b /\ s[i][1] \in Nat
      BY <1>1, <1>2, <2>1, <3>1 DEF Under
    <3> QED BY <3>2 DEF Under, Bound
  <2>2. CASE ~(i <= m)
    <3>1. PICK g \in 1 .. n : g = i - m
      BY <1>1, <2>2
    <3>2. u[i] = t[g] /\ t[g] \in A /\ b <= t[g][1] /\ t[g][1] \in Nat /\ Under(t[g][1], c)
      BY <1>1, <1>3, <2>2, <3>1
    <3> QED BY <3>2
  <2> QED BY <2>1, <2>2
<1>6. ASSUME NEW x \in A, a <= x[1], Under(x[1], c) PROVE \E i \in 1 .. m + n : u[i] = x
  <2>1. x[1] \in Nat
    BY PairKeys
  <2>2. CASE x[1] < b
    <3>1. PICK i \in 1 .. m : s[i] = x
      BY <1>2, <1>6, <2>2 DEF Under
    <3>2. i \in 1 .. m + n /\ i <= m
      BY <1>1
    <3> QED BY <1>1, <3>1, <3>2
  <2>3. CASE b <= x[1]
    <3>1. PICK g \in 1 .. n : t[g] = x
      BY <1>3, <1>6, <2>3
    <3>2. PICK i \in 1 .. m + n : i = m + g
      BY <1>1
    <3>3. ~(i <= m) /\ i - m = g
      BY <1>1, <3>2
    <3>4. u[i] = t[i - m]
      BY <1>1, <3>3
    <3> QED BY <3>1, <3>3, <3>4
  <2> QED BY <2>1, <2>2, <2>3
<1>7. Climbs(u)
  BY <1>1, <1>4 DEF Climbs
<1>8. Scans(u, A, a, c)
  BY <1>1, <1>5, <1>6, <1>7 DEF Scans
<1> QED BY <1>8 DEF u

\* The part of a leaf that a scan takes.
FromLow(n, low) == SubSeq(Entries(n), FindKeyPosition(n, low) + 1, Len(n.keys))

LEMMA FromLowIs ==
  ASSUME NEW n, n.keys \in Seq(Keys), Ascending(n.keys), n.vals \in Seq(RIDs),
         Len(n.vals) = Len(n.keys), NEW low \in Nat
  PROVE  /\ FromLow(n, low) \in Seq(Pairs)
         /\ \E a \in 0 .. Len(n.keys) :
              /\ Len(FromLow(n, low)) = Len(n.keys) - a
              /\ \A i \in 1 .. Len(n.keys) - a : FromLow(n, low)[i] = <<n.keys[a + i], n.vals[a + i]>>
              /\ \A i \in 1 .. Len(n.keys) : low <= n.keys[i] <=> i > a
<1> DEFINE L == Len(n.keys)
           a == FindKeyPosition(n, low)
           e == Entries(n)
<1>1. L \in Nat /\ n.keys \in Seq(Nat) /\ (\A i \in 1 .. L : n.keys[i] \in Nat /\ n.keys[i] \in Keys)
      /\ (\A i \in 1 .. L : n.vals[i] \in RIDs) /\ DOMAIN n.keys = 1 .. L
  BY KeysAreNumbers, LenProperties, ElementOfSeq
<1>2. low \in Int
  OBVIOUS
<1>3. a \in 0 .. L /\ \A i \in 1 .. L : n.keys[i] < low <=> i <= a
  BY <1>1, <1>2, FindKeyPositionIs
<1>4. e \in [1 .. L -> Pairs] /\ \A i \in 1 .. L : e[i] = <<n.keys[i], n.vals[i]>>
  <2>1. e = [i \in 1 .. L |-> <<n.keys[i], n.vals[i]>>]
    BY <1>1 DEF Entries
  <2>2. \A i \in 1 .. L : <<n.keys[i], n.vals[i]>> \in Pairs
    BY <1>1 DEF Pairs
  <2> QED BY <2>1, <2>2
<1> HIDE DEF a, e, L
<1>5. e \in Seq(Pairs) /\ Len(e) = L
  BY <1>1, <1>4, SequenceOf
<1>6. PICK c \in 1 .. Len(e) + 1 : c = a + 1
  BY <1>1, <1>3, <1>5
<1>7. PICK d \in c - 1 .. Len(e) : d = L
  BY <1>1, <1>3, <1>5, <1>6
<1>8. /\ SubSeq(e, c, d) \in Seq(Pairs) /\ Len(SubSeq(e, c, d)) = d - c + 1
      /\ \A i \in 1 .. d - c + 1 : SubSeq(e, c, d)[i] = e[c + i - 1]
  BY <1>5, Piece
<1>9. FromLow(n, low) = SubSeq(e, c, d)
  BY <1>6, <1>7 DEF FromLow, a, e, L
<1>10. d - c + 1 = L - a /\ \A i \in 1 .. L - a : c + i - 1 = a + i /\ a + i \in 1 .. L
  BY <1>1, <1>3, <1>6, <1>7
<1>11. \A i \in 1 .. L - a : FromLow(n, low)[i] = <<n.keys[a + i], n.vals[a + i]>>
  BY <1>4, <1>8, <1>9, <1>10
<1>12. \A i \in 1 .. L : low <= n.keys[i] <=> i > a
  BY <1>1, <1>3
<1>13. FromLow(n, low) \in Seq(Pairs) /\ Len(FromLow(n, low)) = L - a
  BY <1>8, <1>9, <1>10
<1> QED BY <1>3, <1>11, <1>12, <1>13 DEF L

LEMMA PieceScans ==
  ASSUME NEW ht, Shape(node, root_page_id, split, ht), NEW ch, Linked(node, ch), Kept(node),
         NEW lo, NEW hi, Bounds(node, root_page_id, split, lo, hi), Unique(node),
         NEW i \in 1 .. Len(ch), NEW low \in Nat, NEW m \in Nat, low <= m, lo[ch[i]] <= m,
         m = low \/ m = lo[ch[i]]
  PROVE  Scans(FromLow(node[ch[i]], low), All(node), m, hi[ch[i]])
<1>1. PICK p \in PageIds : p = ch[i] /\ node[p].leaf
  BY ChainAscends
<1>2. PICK n : n = node[p]
  OBVIOUS
<1>3. /\ n.keys \in Seq(Keys) /\ n.keys \in Seq(Nat) /\ Ascending(n.keys) /\ n.vals \in Seq(RIDs)
      /\ Len(n.vals) = Len(n.keys) /\ Len(n.keys) \in Nat /\ p \in LeafPages(node)
  BY <1>1, <1>2, LeafFacts
<1>4. lo[p] \in Nat /\ hi[p] \in Bound /\ KeysIn(n, lo[p], hi[p])
  BY <1>1, <1>2, LeafBounds
<1> DEFINE L == Len(n.keys)
<1>5. /\ \A j \in 1 .. L : n.keys[j] \in Nat /\ lo[p] <= n.keys[j] /\ Under(n.keys[j], hi[p])
      /\ \A j \in 1 .. L : <<n.keys[j], n.vals[j]>> \in Held(n)
      /\ \A j, g \in 1 .. L : j < g => n.keys[j] <= n.keys[g]
  <2>1. \A j \in 1 .. L : n.keys[j] \in Nat
    BY <1>3, ElementOfSeq
  <2>2. \A j \in 1 .. L : <<n.keys[j], n.vals[j]>> \in Held(n)
    BY <1>3, HeldIs
  <2>3. DOMAIN n.keys = 1 .. L
    BY <1>3, LenProperties
  <2> QED BY <1>3, <1>4, <2>1, <2>2, <2>3 DEF KeysIn, Ascending
<1>6. \A x \in Held(n) : x \in All(node)
  BY <1>2, <1>3 DEF All
<1>7. PICK s : s = FromLow(n, low)
  OBVIOUS
<1>8. /\ s \in Seq(Pairs)
      /\ \E a \in 0 .. L : /\ Len(s) = L - a
                           /\ \A j \in 1 .. L - a : s[j] = <<n.keys[a + j], n.vals[a + j]>>
                           /\ \A j \in 1 .. L : low <= n.keys[j] <=> j > a
  BY <1>3, <1>7, FromLowIs
<1>9. PICK a \in 0 .. L : /\ Len(s) = L - a
                          /\ \A j \in 1 .. L - a : s[j] = <<n.keys[a + j], n.vals[a + j]>>
                          /\ \A j \in 1 .. L : low <= n.keys[j] <=> j > a
  BY <1>8
<1>10. L \in Nat
  BY <1>3
<1> HIDE DEF L
<1>11. ASSUME NEW j \in 1 .. L - a
       PROVE  \E g \in 1 .. L : g = a + j /\ s[j] = <<n.keys[g], n.vals[g]>> /\ low <= n.keys[g]
  <2>1. PICK g \in 1 .. L : g = a + j
    BY <1>10
  <2>2. g > a
    BY <1>10, <2>1
  <2> QED BY <1>9, <2>1, <2>2
<1>12. ASSUME NEW j \in 1 .. L - a
       PROVE  s[j] \in All(node) /\ m <= s[j][1] /\ Under(s[j][1], hi[p])
  <2>1. PICK g \in 1 .. L : s[j] = <<n.keys[g], n.vals[g]>> /\ low <= n.keys[g]
    BY <1>11
  <2>2. s[j] \in All(node) /\ s[j][1] = n.keys[g]
    BY <1>5, <1>6, <2>1
  <2>3. lo[p] <= n.keys[g] /\ Under(n.keys[g], hi[p])
    BY <1>5
  <2> QED BY <1>1, <2>1, <2>2, <2>3
<1>13. ASSUME NEW j \in 1 .. L - a, NEW k \in 1 .. L - a, j < k PROVE s[j][1] < s[k][1]
  <2>1. PICK g \in 1 .. L : g = a + j /\ s[j] = <<n.keys[g], n.vals[g]>>
    BY <1>11
  <2>2. PICK h \in 1 .. L : h = a + k /\ s[k] = <<n.keys[h], n.vals[h]>>
    BY <1>11
  <2>3. g < h
    BY <1>10, <1>13, <2>1, <2>2
  <2>4. n.keys[g] <= n.keys[h] /\ n.keys[g] \in Nat /\ n.keys[h] \in Nat
    BY <1>5, <2>3
  <2>5. n.keys[g] # n.keys[h]
    <3> SUFFICES ASSUME n.keys[g] = n.keys[h] PROVE FALSE
      OBVIOUS
    <3>1. s[j] \in All(node) /\ s[k] \in All(node) /\ s[j][1] = s[k][1]
      BY <1>12, <2>1, <2>2
    <3>2. s[j] = s[k]
      BY <3>1 DEF Unique
    <3>3. n.vals[g] = n.vals[h]
      BY <2>1, <2>2, <3>2
    <3>4. Single(n)
      BY <1>2, <1>3 DEF Kept
    <3>5. g = h
      BY <3>3, <3>4 DEF Single, L
    <3> QED BY <1>10, <2>3, <3>5
  <2> QED BY <2>1, <2>2, <2>4, <2>5
<1>14. ASSUME NEW x \in All(node), m <= x[1], Under(x[1], hi[p])
       PROVE  \E j \in 1 .. L - a : s[j] = x
  <2>1. PICK q \in LeafPages(node) : x \in Held(node[q])
    BY DEF All
  <2>2. q \in PageIds /\ node[q].leaf
    BY PagesAre DEF LeafPages
  <2>3. node[q].keys \in Seq(Nat) /\ node[q].keys \in Seq(Keys)
    BY <2>2, LeafFacts
  <2>4. PICK t : t = node[q]
    OBVIOUS
  <2>5. PICK f \in 1 .. Len(t.keys) : x = <<t.keys[f], t.vals[f]>>
    BY <2>1, <2>3, <2>4, HeldIs
  <2>6. t.keys[f] \in Nat
    BY <2>3, <2>4, ElementOfSeq
  <2>7. PICK k \in Nat : k = x[1]
    BY <2>5, <2>6
  <2>8. In(k, ch[i], lo, hi)
    BY <1>1, <1>4, <1>14, <2>7 DEF In
  <2>9. x \in Held(node[ch[i]])
    BY <2>7, <2>8, HeldAtHome
  <2>10. x \in Held(n)
    BY <1>1, <1>2, <2>9
  <2>11. PICK g \in 1 .. L : x = <<n.keys[g], n.vals[g]>>
    BY <1>3, <2>10, HeldIs DEF L
  <2>12. low <= n.keys[g]
    <3>1. n.keys[g] = k /\ m <= k
      BY <1>14, <2>7, <2>11
    <3> QED BY <3>1
  <2>13. g > a
    BY <1>9, <2>12
  <2>14. PICK j \in 1 .. L - a : a + j = g
    <3>1. g - a \in 1 .. L - a /\ a + (g - a) = g
      BY <1>10, <2>13
    <3> QED BY <3>1
  <2>15. s[j] = <<n.keys[g], n.vals[g]>>
    BY <1>9, <2>14
  <2> QED BY <2>11, <2>15
<1>15. Climbs(s)
  BY <1>9, <1>13 DEF Climbs
<1>16. Scans(s, All(node), m, hi[p])
  BY <1>8, <1>9, <1>12, <1>14, <1>15 DEF Scans
<1> QED BY <1>1, <1>2, <1>7, <1>16

LEMMA AllArePairs ==
  ASSUME NEW ht, Shape(node, root_page_id, split, ht)
  PROVE  All(node) \subseteq Pairs
<1> SUFFICES ASSUME NEW x \in All(node) PROVE x \in Pairs
  OBVIOUS
<1>1. PICK q \in LeafPages(node) : x \in Held(node[q])
  BY DEF All
<1>2. q \in PageIds /\ node[q].leaf
  BY PagesAre DEF LeafPages
<1>3. PICK n : n = node[q]
  OBVIOUS
<1>4. n.keys \in Seq(Keys) /\ n.vals \in Seq(RIDs) /\ Len(n.vals) = Len(n.keys)
  BY <1>2, <1>3, LeafFacts
<1>5. PICK f \in 1 .. Len(n.keys) : x = <<n.keys[f], n.vals[f]>>
  BY <1>1, <1>3, <1>4, HeldIs
<1>6. n.keys[f] \in Keys /\ n.vals[f] \in RIDs
  BY <1>4, <1>5, ElementOfSeq
<1> QED BY <1>5, <1>6 DEF Pairs

\* From the i-th leaf on, every later leaf of the chain begins above the key.
LEMMA LaterBegins ==
  ASSUME NEW ht, Shape(node, root_page_id, split, ht), NEW ch, Linked(node, ch),
         NEW lo, NEW hi, Bounds(node, root_page_id, split, lo, hi), NEW low \in Nat,
         NEW i \in 1 .. Len(ch), In(low, ch[i], lo, hi), NEW j \in 1 .. Len(ch), i < j
  PROVE  low < lo[ch[j]]
<1> DEFINE M == Len(ch)
<1>1. M \in Nat
  BY LenProperties DEF Linked
<1>2. /\ \A n \in 1 .. M : ch[n] \in PageIds /\ node[ch[n]].leaf
      /\ \A n \in 1 .. M : hi[ch[n]] = IF n = M THEN -1 ELSE lo[ch[n + 1]]
      /\ \A m, n \in 1 .. M : m < n => lo[ch[m]] < lo[ch[n]]
  BY ChainAscends
<1>3. ASSUME NEW n \in 1 .. M PROVE lo[ch[n]] \in Nat
  <2>1. PICK p \in PageIds : p = ch[n] /\ node[p].leaf
    BY <1>2
  <2> QED BY <2>1, LeafBounds
<1> HIDE DEF M
<1>4. i \in 1 .. M /\ j \in 1 .. M
  BY DEF M
<1>5. PICK g \in 1 .. M : g = i + 1
  BY <1>1, <1>4
<1>6. hi[ch[i]] = lo[ch[g]] /\ lo[ch[g]] \in Nat
  BY <1>1, <1>2, <1>3, <1>4, <1>5
<1>7. low < lo[ch[g]]
  BY <1>6 DEF In, Under
<1>8. g = j \/ g < j
  BY <1>1, <1>4, <1>5
<1>9. lo[ch[g]] <= lo[ch[j]] /\ lo[ch[j]] \in Nat
  BY <1>2, <1>3, <1>4, <1>8
<1> QED BY <1>6, <1>7, <1>9

LEMMA PiecesScan ==
  ASSUME NEW ht, Shape(node, root_page_id, split, ht), NEW ch, Linked(node, ch), Kept(node),
         NEW lo, NEW hi, Bounds(node, root_page_id, split, lo, hi), Unique(node), NEW low \in Nat,
         NEW i \in 1 .. Len(ch), In(low, ch[i], lo, hi), NEW N \in Nat, N # 0, N <= Len(ch) - i + 1,
         NEW t, t = [n \in 1 .. N |-> FromLow(node[ch[i + n - 1]], low)]
  PROVE  Scans(FlattenSeq(t), All(node), low, hi[ch[i + N - 1]])
<1> DEFINE M == Len(ch)
           A == All(node)
           to(n) == hi[ch[i + n - 1]]
<1>1. M \in Nat /\ i \in 1 .. M /\ N <= M - i + 1 /\ N >= 1
  BY LenProperties DEF Linked
<1>2. /\ \A n \in 1 .. M : ch[n] \in PageIds /\ node[ch[n]].leaf
      /\ \A n \in 1 .. M : hi[ch[n]] = IF n = M THEN -1 ELSE lo[ch[n + 1]]
  BY ChainAscends
<1>3. ASSUME NEW n \in 1 .. M PROVE lo[ch[n]] \in Nat /\ hi[ch[n]] \in Bound /\ Under(lo[ch[n]], hi[ch[n]])
  <2>1. PICK p \in PageIds : p = ch[n] /\ node[p].leaf
    BY <1>2
  <2> QED BY <2>1, LeafBounds
<1> HIDE DEF M
<1>4. ASSUME NEW n \in 1 .. N, NEW m \in Nat, m = IF n = 1 THEN low ELSE lo[ch[i + n - 1]]
      PROVE  Scans(t[n], A, m, to(n)) /\ low <= m /\ Under(m, to(n)) /\ to(n) \in Bound
  <2>1. PICK j \in 1 .. Len(ch) : j = i + n - 1
    BY <1>1 DEF M
  <2>2. lo[ch[j]] \in Nat /\ hi[ch[j]] \in Bound /\ Under(lo[ch[j]], hi[ch[j]])
    BY <1>3 DEF M
  <2>3. CASE n = 1
    <3>1. j = i /\ m = low /\ ch[j] = ch[i]
      BY <1>1, <1>4, <2>1, <2>3
    <3>2. lo[ch[j]] <= m /\ low <= m /\ (m = low \/ m = lo[ch[j]]) /\ Under(m, hi[ch[j]])
      BY <3>1 DEF In
    <3>3. Scans(FromLow(node[ch[j]], low), All(node), m, hi[ch[j]])
      BY <3>2, PieceScans
    <3> QED BY <2>1, <2>2, <3>2, <3>3
  <2>4. CASE n # 1
    <3>1. i < j /\ m = lo[ch[j]]
      BY <1>1, <1>4, <2>1, <2>4
    <3>2. low < lo[ch[j]]
      BY <3>1, LaterBegins
    <3>3. lo[ch[j]] <= m /\ low <= m /\ (m = low \/ m = lo[ch[j]]) /\ Under(m, hi[ch[j]])
      BY <2>2, <3>1, <3>2
    <3>4. Scans(FromLow(node[ch[j]], low), All(node), m, hi[ch[j]])
      BY <3>3, PieceScans
    <3> QED BY <2>1, <2>2, <3>3, <3>4
  <2> QED BY <2>3, <2>4
<1>5. ASSUME NEW n \in 1 .. N
      PROVE  \E m \in Nat : m = IF n = 1 THEN low ELSE lo[ch[i + n - 1]]
  <2>1. i + n - 1 \in 1 .. M
    BY <1>1
  <2> QED BY <1>3, <2>1
<1>6. t \in [1 .. N -> Seq(Pairs)]
  <2>1. ASSUME NEW n \in 1 .. N PROVE t[n] \in Seq(Pairs)
    <3>1. PICK m \in Nat : m = IF n = 1 THEN low ELSE lo[ch[i + n - 1]]
      BY <1>5
    <3> QED BY <1>4, <3>1 DEF Scans
  <2>2. t = [n \in 1 .. N |-> t[n]]
    OBVIOUS
  <2> QED BY <2>1, <2>2
<1>7. PICK f : Joins(Pairs, N, t, f) /\ FlattenSeq(t) = f[N]
  BY <1>1, <1>6, Flattened
<1>8. /\ f \in [1 .. N -> Seq(Pairs)] /\ f[1] = t[1]
      /\ \A n \in 1 .. N : n > 1 => f[n] = f[n - 1] \o t[n]
  BY <1>7 DEF Joins
<1> DEFINE U == {n \in 1 .. N : ~Scans(f[n], A, low, to(n))}
<1>9. U = {}
  <2> SUFFICES ASSUME U # {} PROVE FALSE
    OBVIOUS
  <2> HIDE DEF A
  <2>1. PICK n \in U : \A k \in U : n <= k
    <3>1. U \subseteq Nat
      OBVIOUS
    <3> HIDE DEF U
    <3> QED BY <3>1, LeastNatural
  <2>2. n \in 1 .. N /\ ~Scans(f[n], A, low, to(n))
    BY <2>1
  <2>3. PICK m \in Nat : m = IF n = 1 THEN low ELSE lo[ch[i + n - 1]]
    BY <1>5, <2>2
  <2>4. Scans(t[n], A, m, to(n)) /\ low <= m /\ Under(m, to(n)) /\ to(n) \in Bound
    BY <1>4, <2>2, <2>3
  <2>5. n # 1
    <3> SUFFICES ASSUME n = 1 PROVE FALSE
      OBVIOUS
    <3>1. m = low /\ f[n] = t[n]
      BY <1>8, <2>3
    <3> QED BY <2>2, <2>4, <3>1
  <2>6. PICK g \in 1 .. N : g = n - 1
    BY <1>1, <2>2, <2>5
  <2>7. ~(n <= g) /\ n > 1
    BY <1>1, <2>2, <2>5, <2>6
  <2>8. Scans(f[g], A, low, to(g))
    BY <2>1, <2>6, <2>7
  <2>9. to(g) = m
    <3>1. PICK j \in 1 .. M : j = i + g - 1
      BY <1>1
    <3>2. j # M /\ j + 1 = i + n - 1
      BY <1>1, <2>2, <2>6, <3>1
    <3>3. hi[ch[j]] = lo[ch[j + 1]]
      BY <1>2, <3>2
    <3> QED BY <2>3, <2>5, <3>1, <3>2, <3>3
  <2>10. f[n] = f[g] \o t[n]
    BY <1>8, <2>2, <2>6, <2>7
  <2>11. A \subseteq Pairs
    BY AllArePairs DEF A
  <2>12. PICK x, y, c : x = f[g] /\ y = t[n] /\ c = to(n)
    OBVIOUS
  <2>13. Scans(x, A, low, m) /\ Scans(y, A, m, c) /\ c \in Bound /\ Under(m, c)
    BY <2>4, <2>8, <2>9, <2>12
  <2>14. Scans(x \o y, A, low, c)
    BY <2>4, <2>11, <2>13, ScansJoined
  <2> QED BY <2>2, <2>10, <2>12, <2>14
<1>10. Scans(f[N], A, low, to(N))
  <2>1. N \in 1 .. N
    BY <1>1
  <2> QED BY <1>9, <2>1
<1> QED BY <1>7, <1>10

LEMMA NoRepeats ==
  ASSUME NEW S, NEW s \in Seq(S), \A i, j \in 1 .. Len(s) : s[i] = s[j] => i = j
  PROVE  Len(s) = Cardinality(ToSet(s))
<1> DEFINE M == Len(s)
<1>1. M \in Nat /\ DOMAIN s = 1 .. M
  BY LenProperties
<1> HIDE DEF M
<1>2. s \in [1 .. M -> ToSet(s)]
  <2>1. s = [n \in 1 .. M |-> s[n]]
    BY LenProperties DEF M
  <2>2. \A n \in 1 .. M : s[n] \in ToSet(s)
    BY <1>1 DEF ToSet
  <2> QED BY <2>1, <2>2
<1>3. s \in Bijection(1 .. M, ToSet(s))
  <2>1. \A i, j \in 1 .. M : s[i] = s[j] => i = j
    BY DEF M
  <2>2. \A x \in ToSet(s) : \E i \in 1 .. M : s[i] = x
    BY <1>1 DEF ToSet
  <2> QED BY <1>2, <2>1, <2>2 DEF Bijection, Injection, Surjection, IsInjective
<1>4. IsFiniteSet(1 .. M) /\ Cardinality(1 .. M) = M
  BY <1>1, UpTo
<1>5. ExistsBijection(1 .. M, ToSet(s))
  BY <1>3 DEF ExistsBijection
<1>6. Cardinality(ToSet(s)) = Cardinality(1 .. M)
  BY <1>4, <1>5, FS_Bijection
<1> QED BY <1>4, <1>6 DEF M

\* A scan that ends before the first key beyond high.
CutAbove(s, high) ==
  LET past == {i \in DOMAIN s : s[i][1] > high}
  IN  IF past = {} THEN s ELSE SubSeq(s, 1, Min(past) - 1)

LEMMA CutAboveIs ==
  ASSUME NEW s \in Seq(Pairs), Climbs(s), NEW high \in Nat
  PROVE  /\ CutAbove(s, high) \in Seq(Pairs)
         /\ \E n \in 0 .. Len(s) :
              /\ Len(CutAbove(s, high)) = n /\ \A i \in 1 .. n : CutAbove(s, high)[i] = s[i]
              /\ \A i \in 1 .. Len(s) : s[i][1] <= high <=> i <= n
<1> DEFINE L == Len(s)
           past == {i \in DOMAIN s : s[i][1] > high}
<1>1. L \in Nat /\ DOMAIN s = 1 .. L /\ \A i \in 1 .. L : s[i] \in Pairs
  BY LenProperties, ElementOfSeq
<1>2. /\ \A i \in 1 .. L : s[i][1] \in Nat
      /\ \A i, j \in 1 .. L : i < j => s[i][1] < s[j][1]
  BY <1>1, PairKeys DEF Climbs
<1>3. CutAbove(s, high) = IF past = {} THEN s ELSE SubSeq(s, 1, Min(past) - 1)
  BY DEF CutAbove
<1>4. CASE past = {}
  <2>1. \A i \in 1 .. L : s[i][1] <= high
    BY <1>1, <1>2, <1>4
  <2>2. CutAbove(s, high) = s /\ L \in 0 .. L /\ \A i \in 1 .. L : i <= L
    BY <1>1, <1>3, <1>4
  <2> QED BY <2>1, <2>2
<1>5. CASE past # {}
  <2> DEFINE m == Min(past)
  <2>1. past \subseteq Nat
    BY <1>1
  <2>2. m \in past /\ \A k \in past : m <= k
    <3> HIDE DEF past
    <3> QED BY <1>5, <2>1, MinIsLeast
  <2> HIDE DEF m
  <2>3. m \in 1 .. L /\ s[m][1] > high
    BY <1>1, <2>2
  <2>4. PICK n \in 0 .. L : n = m - 1
    BY <1>1, <2>3
  <2>5. ASSUME NEW i \in 1 .. L PROVE s[i][1] <= high <=> i <= n
    <3>1. CASE i <= n
      <4>1. ~(m <= i)
        BY <1>1, <2>3, <2>4, <3>1
      <4>2. i \notin past
        BY <2>2, <4>1
      <4> QED BY <1>1, <1>2, <3>1, <4>2
    <3>2. CASE ~(i <= n)
      <4>1. i = m \/ m < i
        BY <1>1, <2>3, <2>4, <3>2
      <4>2. s[m][1] <= s[i][1]
        BY <1>2, <2>3, <4>1
      <4>3. s[m][1] \in Nat /\ s[i][1] \in Nat
        BY <1>2, <2>3
      <4> QED BY <2>3, <3>2, <4>2, <4>3
    <3> QED BY <3>1, <3>2
  <2>6. PICK c \in 1 .. Len(s) + 1 : c = 1
    BY <1>1
  <2>7. PICK d \in c - 1 .. Len(s) : d = n
    BY <1>1, <2>4, <2>6
  <2>8. /\ SubSeq(s, c, d) \in Seq(Pairs) /\ Len(SubSeq(s, c, d)) = d - c + 1
        /\ \A i \in 1 .. d - c + 1 : SubSeq(s, c, d)[i] = s[c + i - 1]
    BY Piece
  <2>9. CutAbove(s, high) = SubSeq(s, c, d)
    BY <1>3, <1>5, <2>4, <2>6, <2>7 DEF m
  <2>10. d - c + 1 = n /\ \A i \in 1 .. n : c + i - 1 = i
    BY <1>1, <2>4, <2>6, <2>7
  <2>11. \A i \in 1 .. n : CutAbove(s, high)[i] = s[i]
    BY <2>8, <2>9, <2>10
  <2>12. CutAbove(s, high) \in Seq(Pairs) /\ Len(CutAbove(s, high)) = n
    BY <2>8, <2>9, <2>10
  <2> QED BY <2>4, <2>5, <2>11, <2>12
<1> QED BY <1>4, <1>5

\* r lists the entries of A between two keys and under c, once each and in the order of
\* their keys.
ListsRange(r, A, low, high, c) ==
  /\ ToSet(r) = {x \in A : low <= x[1] /\ x[1] <= high /\ Under(x[1], c)}
  /\ Len(r) = Cardinality(ToSet(r))
  /\ Ascending([i \in DOMAIN r |-> r[i][1]])

LEMMA CutIsRange ==
  ASSUME NEW A, A \subseteq Pairs, NEW low \in Nat, NEW high \in Nat, NEW c, NEW s, Scans(s, A, low, c),
         NEW r, r = CutAbove(s, high)
  PROVE  ListsRange(r, A, low, high, c)
<1>1. s \in Seq(Pairs) /\ Climbs(s)
  BY DEF Scans
<1>2. /\ r \in Seq(Pairs)
      /\ \E n \in 0 .. Len(s) :
              /\ Len(r) = n /\ \A i \in 1 .. n : r[i] = s[i]
              /\ \A i \in 1 .. Len(s) : s[i][1] <= high <=> i <= n
  <2>1. /\ CutAbove(s, high) \in Seq(Pairs)
        /\ \E n \in 0 .. Len(s) :
              /\ Len(CutAbove(s, high)) = n /\ \A i \in 1 .. n : CutAbove(s, high)[i] = s[i]
              /\ \A i \in 1 .. Len(s) : s[i][1] <= high <=> i <= n
    BY <1>1, CutAboveIs
  <2> QED BY <2>1
<1>3. PICK n \in 0 .. Len(s) :
              /\ Len(r) = n /\ \A i \in 1 .. n : r[i] = s[i]
              /\ \A i \in 1 .. Len(s) : s[i][1] <= high <=> i <= n
  BY <1>2
<1> DEFINE L == Len(s)
<1>4. L \in Nat /\ n \in 0 .. L /\ DOMAIN r = 1 .. n
  BY <1>1, <1>2, <1>3, LenProperties
<1>5. /\ \A i \in 1 .. L : s[i] \in A /\ low <= s[i][1] /\ s[i][1] \in Nat /\ Under(s[i][1], c)
      /\ \A i, j \in 1 .. L : i < j => s[i][1] < s[j][1]
      /\ \A x \in A : low <= x[1] /\ Under(x[1], c) => \E i \in 1 .. L : s[i] = x
  BY PairKeys DEF Scans, Climbs
<1>6. \A i \in 1 .. L : s[i][1] <= high <=> i <= n
  BY <1>3
<1> HIDE DEF L
<1>7. \A i \in 1 .. n : i \in 1 .. L /\ i <= n /\ r[i] = s[i]
  BY <1>3, <1>4
<1>8. \A i \in 1 .. n : /\ r[i] \in A /\ low <= r[i][1] /\ r[i][1] <= high /\ r[i][1] \in Nat
                       /\ Under(r[i][1], c)
  BY <1>5, <1>6, <1>7
<1>9. ASSUME NEW x \in A, low <= x[1], x[1] <= high, Under(x[1], c) PROVE \E i \in 1 .. n : r[i] = x
  <2>1. PICK i \in 1 .. L : s[i] = x
    BY <1>5, <1>9
  <2>2. i \in 1 .. n
    BY <1>4, <1>6, <1>9, <2>1
  <2> QED BY <1>7, <2>1, <2>2
<1>10. ToSet(r) = {x \in A : low <= x[1] /\ x[1] <= high /\ Under(x[1], c)}
  BY <1>4, <1>8, <1>9, SMTT(30) DEF ToSet
<1>11. \A i, j \in 1 .. n : i < j => r[i][1] < r[j][1]
  BY <1>5, <1>7
<1>12. ASSUME NEW i \in 1 .. n, NEW j \in 1 .. n, r[i] = r[j] PROVE i = j
  <2>1. ~(r[i][1] < r[j][1]) /\ ~(r[j][1] < r[i][1])
    BY <1>8, <1>12
  <2>2. ~(i < j) /\ ~(j < i)
    BY <1>11, <2>1
  <2> QED BY <1>4, <2>2
<1>13. Len(r) = Cardinality(ToSet(r))
  BY <1>2, <1>3, <1>12, NoRepeats
<1>14. Ascending([i \in DOMAIN r |-> r[i][1]])
  <2> DEFINE k == [i \in DOMAIN r |-> r[i][1]]
  <2>1. DOMAIN k = 1 .. n /\ \A i \in 1 .. n : k[i] = r[i][1]
    BY <1>4
  <2> HIDE DEF k
  <2>2. ASSUME NEW i \in 1 .. n, NEW j \in 1 .. n, i < j PROVE k[i] <= k[j]
    <3>1. r[i][1] < r[j][1] /\ r[i][1] \in Nat /\ r[j][1] \in Nat
      BY <1>8, <1>11, <2>2
    <3> QED BY <2>1, <3>1
  <2>3. Ascending(k)
    BY <2>1, <2>2 DEF Ascending
  <2> QED BY <2>3 DEF k
<1> QED BY <1>10, <1>13, <1>14 DEF ListsRange

\* A scan that is refused the leaves from some key on lists what lies before it.
LEMMA RangeListed ==
  ASSUME NEW ht, Shape(node, root_page_id, split, ht), NEW ch, Linked(node, ch), Kept(node),
         split = NoSplit, root_page_id # INVALID_PAGE_ID, Unique(node),
         NEW lo, NEW hi, Bounds(node, root_page_id, split, lo, hi), NEW low \in Keys, NEW high \in Keys,
         NEW leaves \in Fetched(low), leaves # <<>>
  PROVE  \E c \in Bound : /\ ListsRange(RangeScan(low, high, leaves), All(node), low, high, c)
                          /\ leaves = LeavesFrom(low) => c = -1
<1> DEFINE all == FlattenSeq([i \in DOMAIN leaves |-> FromLow(node[leaves[i]], low)])
           M == Len(ch)
<1>1. low \in Nat /\ high \in Nat
  BY KeyAssumption
<1>2. RangeScan(low, high, leaves) = CutAbove(all, high)
  BY DEF RangeScan, CutAbove, FromLow
<1>3. PICK i \in 1 .. Len(ch), N \in Nat :
         /\ In(low, ch[i], lo, hi) /\ Follows(leaves, ch, i, N)
         /\ leaves = LeavesFrom(low) => N = Len(ch) - i + 1
  BY <1>1, FetchedIs
<1>4. /\ leaves \in Seq(Nat) /\ Len(leaves) = N /\ N <= Len(ch) - i + 1
      /\ \A n \in 1 .. N : leaves[n] = ch[i + n - 1]
  BY <1>3 DEF Follows
<1>5. N # 0
  BY <1>4, EmptySeq
<1>6. M \in Nat /\ i \in 1 .. M
  BY LenProperties DEF Linked
<1>7. PICK t : t = [n \in 1 .. N |-> FromLow(node[ch[i + n - 1]], low)]
  OBVIOUS
<1>8. [n \in DOMAIN leaves |-> FromLow(node[leaves[n]], low)] = t
  <2>1. DOMAIN leaves = 1 .. N
    BY <1>4, LenProperties
  <2>2. \A n \in 1 .. N : FromLow(node[leaves[n]], low) = FromLow(node[ch[i + n - 1]], low)
    BY <1>4
  <2> QED BY <1>7, <2>1, <2>2
<1>9. Scans(FlattenSeq(t), All(node), low, hi[ch[i + N - 1]])
  BY <1>1, <1>3, <1>4, <1>5, <1>7, PiecesScan
<1>10. PICK c : c = hi[ch[i + N - 1]]
  OBVIOUS
<1>11. Scans(all, All(node), low, c)
  BY <1>8, <1>9, <1>10
<1> HIDE DEF all, M
<1>12. PICK j \in 1 .. M : j = i + N - 1
  BY <1>4, <1>5, <1>6 DEF M
<1>13. c \in Bound
  <2>1. ch[j] \in PageIds /\ node[ch[j]].leaf
    BY <1>12, ChainAscends DEF M
  <2> QED BY <1>10, <1>12, <2>1, LeafBounds
<1>14. leaves = LeavesFrom(low) => c = -1
  <2> SUFFICES ASSUME leaves = LeavesFrom(low) PROVE c = -1
    OBVIOUS
  <2>1. N = M - i + 1
    BY <1>3 DEF M
  <2>2. j = M
    BY <1>6, <1>12, <2>1
  <2>3. hi[ch[j]] = -1
    BY <1>12, <2>2, ChainAscends DEF M
  <2> QED BY <1>10, <1>12, <2>3
<1>15. All(node) \subseteq Pairs
  BY AllArePairs
<1>16. ListsRange(CutAbove(all, high), All(node), low, high, c)
  <2>1. PICK A, r : A = All(node) /\ r = CutAbove(all, high)
    OBVIOUS
  <2>2. A \subseteq Pairs /\ Scans(all, A, low, c)
    BY <1>11, <1>15, <2>1
  <2>3. ListsRange(r, A, low, high, c)
    BY <1>1, <2>1, <2>2, CutIsRange
  <2> QED BY <2>1, <2>3
<1> QED BY <1>2, <1>13, <1>14, <1>16

\* The answer of a scan, whole or cut short.
LEMMA RangeFinds ==
  ASSUME NEW ht, Shape(node, root_page_id, split, ht), NEW ch, Linked(node, ch), Kept(node),
         split = NoSplit, root_page_id # INVALID_PAGE_ID, Unique(node),
         NEW lo, NEW hi, Bounds(node, root_page_id, split, lo, hi), NEW low \in Keys, NEW high \in Keys,
         NEW leaves \in Fetched(low), NEW r, r = RangeScan(low, high, leaves),
         NEW there, there = Index!InRange(low, high)
  PROVE  /\ Len(r) = Cardinality(ToSet(r)) /\ Ascending([i \in DOMAIN r |-> r[i][1]])
         /\ ToSet(r) \subseteq there
         /\ \A x \in ToSet(r), y \in there \ ToSet(r) : x[1] < y[1]
         /\ leaves = LeavesFrom(low) => ToSet(r) = there
<1>1. there = {x \in All(node) : low <= x[1] /\ x[1] <= high}
  BY ContentsIs DEF Index!InRange
<1>2. CASE leaves # <<>>
  <2>1. PICK c \in Bound : /\ ListsRange(r, All(node), low, high, c)
                           /\ leaves = LeavesFrom(low) => c = -1
    BY <1>2, RangeListed
  <2>2. /\ ToSet(r) = {x \in All(node) : low <= x[1] /\ x[1] <= high /\ Under(x[1], c)}
        /\ Len(r) = Cardinality(ToSet(r)) /\ Ascending([i \in DOMAIN r |-> r[i][1]])
    BY <2>1 DEF ListsRange
  <2>3. \A x \in All(node) : x[1] \in Nat
    BY AllArePairs, PairKeys
  <2>4. ToSet(r) \subseteq there
    BY <1>1, <2>2
  <2>5. ASSUME NEW x \in ToSet(r), NEW y \in there \ ToSet(r) PROVE x[1] < y[1]
    <3>1. x[1] \in Nat /\ y[1] \in Nat /\ Under(x[1], c) /\ ~Under(y[1], c)
      BY <1>1, <2>2, <2>3
    <3>2. c \in Nat /\ x[1] < c /\ ~(y[1] < c)
      BY <3>1 DEF Under, Bound
    <3> QED BY <3>1, <3>2
  <2>6. ASSUME leaves = LeavesFrom(low) PROVE ToSet(r) = there
    BY <1>1, <2>1, <2>2, <2>6 DEF Under
  <2> QED BY <2>2, <2>4, <2>5, <2>6
<1>3. CASE leaves = <<>>
  <2>1. r = <<>>
    <3> DEFINE G(i) == FromLow(node[leaves[i]], low)
               all  == FlattenSeq([i \in DOMAIN leaves |-> G(i)])
    <3>1. r = CutAbove(all, high)
      BY DEF RangeScan, CutAbove, FromLow
    <3>2. all = FlattenSeq([i \in DOMAIN <<>> |-> G(i)])
      BY <1>3
    <3> HIDE DEF G, all
    <3>3. all = <<>>
      BY <3>2, NothingFlat
    <3>4. DOMAIN all = {}
      BY <3>3
    <3> QED BY <3>1, <3>3, <3>4 DEF CutAbove
  <2>2. ToSet(r) = {} /\ DOMAIN r = {} /\ Len(r) = 0
    BY <2>1 DEF ToSet
  <2>3. Cardinality(ToSet(r)) = 0
    BY <2>2, FS_EmptySet
  <2>4. Ascending([i \in DOMAIN r |-> r[i][1]])
    <3>1. DOMAIN [i \in DOMAIN r |-> r[i][1]] = {}
      BY <2>2
    <3> QED BY <3>1 DEF Ascending
  <2>5. leaves # LeavesFrom(low)
    <3>1. low \in Nat
      BY KeyAssumption
    <3>2. PICK i \in 1 .. Len(ch), N \in Nat :
             Follows(leaves, ch, i, N) /\ (leaves = LeavesFrom(low) => N = Len(ch) - i + 1)
      BY <3>1, FetchedIs
    <3>3. N = 0
      BY <1>3, <3>2 DEF Follows
    <3>4. Len(ch) \in Nat
      BY LenProperties DEF Linked
    <3> QED BY <3>2, <3>3, <3>4
  <2> QED BY <2>2, <2>3, <2>4, <2>5
<1> QED BY <1>2, <1>3

LEMMA BoundedSearches == Bounded /\ OneRecordPerKey => SearchExact
<1> SUFFICES ASSUME Bounded, OneRecordPerKey PROVE SearchExact
  OBVIOUS
<1>1. LookupExact
  BY BoundedLooksUp
<1>2. ASSUME Settled, NEW low \in Keys, NEW high \in Keys, NEW leaves \in Fetched(low)
      PROVE  LET r     == RangeScan(low, high, leaves)
                 there == Index!InRange(low, high)
             IN  /\ Len(r) = Cardinality(ToSet(r)) /\ Ascending([i \in DOMAIN r |-> r[i][1]])
                 /\ ToSet(r) \subseteq there
                 /\ \A x \in ToSet(r), y \in there \ ToSet(r) : x[1] < y[1]
                 /\ leaves = LeavesFrom(low) => ToSet(r) = there
  <2>1. split = NoSplit /\ ~refused /\ root_page_id # INVALID_PAGE_ID
    BY <1>2 DEF Settled
  <2>2. PICK ht : Shape(node, root_page_id, split, ht)
    BY DEF Bounded, Leaved, Shaped
  <2>3. PICK ch : Linked(node, ch)
    BY DEF Bounded, Leaved
  <2>4. PICK lo, hi : Bounds(node, root_page_id, split, lo, hi)
    BY <2>1 DEF Bounded
  <2>5. Kept(node)
    BY DEF Bounded, Leaved
  <2>6. Unique(node)
    BY <2>2, ContentsIs DEF OneRecordPerKey, Unique
  <2> QED BY <2>1, <2>2, <2>3, <2>4, <2>5, <2>6, RangeFinds
<1> QED BY <1>1, <1>2 DEF SearchExact

\* btree.h, "Find all RIDs matching the given key", "by scanning the leaf chain", and "find
\* all RIDs with keys in [low, high]": as long as no page was refused and no two records
\* share a key, a lookup that comes to a leaf returns the record ids entered for its key, all
\* of them, once each, and a range scan the entries between its bounds, in the order of their
\* keys: all of them, or, if it is refused a leaf, those below some key.
THEOREM SearchesAreExact == Spec /\ []OneRecordPerKey => []SearchExact
BY AlwaysBounded, BoundedSearches, PTL
===============================================================================
