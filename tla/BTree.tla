-------------------------------- MODULE BTree --------------------------------
(***************************************************************************)
(* BPlusTree: an index as a tree of nodes, one in a page each.  Deletion   *)
(* leaves nodes as they are; insertion splits a full leaf and then, node   *)
(* by node towards the root, enters the new sibling in its parent.         *)
(*                                                                         *)
(* The tree has one user.  The recursion of InsertIntoParent is a sequence *)
(* of actions, one per node, with `split` for its arguments; no other call *)
(* comes between them.  A step that is refused a page by the buffer pool   *)
(* returns without a word, and Insert returns true all the same.           *)
(*                                                                         *)
(* Pages are numbered in the order of their allocation, so page 1 is the   *)
(* first leaf, and stays the leftmost, as a split adds leaves to the right.*)
(* Keys in a node are sorted (LeavesChained), hence what a binary search   *)
(* finds is a number of keys.                                              *)
(*                                                                         *)
(* The operators named Mut... are deliberate mistakes, each a variant of   *)
(* the definition that follows it; no definition uses them.                *)
(***************************************************************************)
EXTENDS Integers, SequencesExt

CONSTANTS Keys, RIDs,
          LeafMax, InternalMax,   \* MAX_KEYS of LeafNode and of InternalNode
          MaxPages,               \* bound: no leaf is split when there are as many
          INVALID_PAGE_ID,
          FramesRunOut            \* may the pool refuse a page in mid-split?

ASSUME KeyAssumption  == Keys \subseteq Nat
ASSUME SizeAssumption == LeafMax \in Nat \ {0} /\ InternalMax \in Nat \ {0, 1}
ASSUME BoundAssumption == MaxPages \in Nat \ {0} /\ FramesRunOut \in BOOLEAN
ASSUME InvalidAssumption == INVALID_PAGE_ID \notin Nat \ {0}

VARIABLES node,           \* the pages: nodes
          root_page_id,
          split,          \* what InsertIntoParent is to enter: left, key and right
          refused         \* has a split been left half done?

vars == <<node, root_page_id, split, refused>>

\* vals are the RIDs of a leaf and the children of an internal node.
Leaf(parent, next, keys, rids) ==
  [leaf |-> TRUE, parent |-> parent, next |-> next, keys |-> keys, vals |-> rids]
InternalNode(parent, keys, children) ==
  [leaf |-> FALSE, parent |-> parent, next |-> INVALID_PAGE_ID, keys |-> keys, vals |-> children]

NoSplit == [left |-> INVALID_PAGE_ID, key |-> 0, right |-> INVALID_PAGE_ID]

PageIds == DOMAIN node

\* Every variable stays in its type, no node outgrows its page, and an internal node
\* has one child more than keys.
TypeOK ==
  /\ \A p \in PageIds :
       LET n == node[p]
       IN  /\ n.parent \in PageIds \cup {INVALID_PAGE_ID}
           /\ n.next \in PageIds \cup {INVALID_PAGE_ID}
           /\ n.keys \in Seq(Keys)
           /\ IF n.leaf THEN /\ Len(n.keys) <= LeafMax /\ Len(n.vals) = Len(n.keys)
                             /\ n.vals \in Seq(RIDs)
              ELSE /\ Len(n.keys) \in 1 .. InternalMax /\ Len(n.vals) = Len(n.keys) + 1
                   /\ n.vals \in Seq(PageIds)
  /\ root_page_id \in PageIds \cup {INVALID_PAGE_ID}
  /\ split = NoSplit \/ split \in [left : PageIds, key : Keys, right : PageIds]
  /\ refused \in BOOLEAN

-----------------------------------------------------------------------------
(* Searching. *)

MutStrict(n, key) == Cardinality({i \in DOMAIN n.keys : n.keys[i] < key})
FindChild(n, key) == Cardinality({i \in DOMAIN n.keys : n.keys[i] <= key})

FindKeyPosition(n, key) == Cardinality({i \in DOMAIN n.keys : n.keys[i] < key})

FindLeafPage(key) ==
  LET down[d \in 0 .. Len(node)] ==
        IF d = 0 THEN root_page_id
        ELSE LET p == down[d - 1]
             IN  IF node[p].leaf THEN p ELSE node[p].vals[FindChild(node[p], key) + 1]
  IN  down[Len(node)]

\* The leaves from p on, as next_page_id links them.
ChainFrom(p) ==
  LET c[n \in 1 .. Len(node)] ==
        IF n = 1 THEN p
        ELSE IF c[n - 1] = INVALID_PAGE_ID THEN INVALID_PAGE_ID ELSE node[c[n - 1]].next
      ends == {n \in 1 .. Len(node) : c[n] = INVALID_PAGE_ID}
  IN  IF ends = {} THEN c ELSE SubSeq(c, 1, Min(ends) - 1)

FindAll(n, key) ==
  LET first == FindKeyPosition(n, key)
  IN  SubSeq(n.vals, first + 1, FindChild(n, key))

LeavesFrom(key) == IF root_page_id = INVALID_PAGE_ID THEN <<>> ELSE ChainFrom(FindLeafPage(key))

\* The leaves a search from key gets to see: a page the pool refuses, on the way down or
\* along the chain, ends it there, and the caller is not told.
Fetched(key) ==
  LET all == LeavesFrom(key)
  IN  {SubSeq(all, 1, n) : n \in IF FramesRunOut THEN 0 .. Len(all) ELSE {Len(all)}}

\* The leaf of the key, and the next ones as long as they begin with it.
Lookup(key, leaves) ==
  LET rest  == Tail(leaves)
      stops == {i \in DOMAIN rest : LET ks == node[rest[i]].keys
                                    IN  ks = <<>> \/ Head(ks) # key}
      more  == IF stops = {} THEN rest ELSE SubSeq(rest, 1, Min(stops) - 1)
      here  == FindAll(node[Head(leaves)], key)
  IN  IF leaves = <<>> \/ here = <<>> THEN <<>>
      ELSE here \o FlattenSeq([i \in DOMAIN more |-> FindAll(node[more[i]], key)])

Entries(n) == [i \in DOMAIN n.keys |-> <<n.keys[i], n.vals[i]>>]

\* What the leaf of low and those after it hold from low on, up to the first key
\* beyond high.
RangeScan(low, high, leaves) ==
  LET all  == FlattenSeq([i \in DOMAIN leaves |->
                LET n == node[leaves[i]]
                IN  SubSeq(Entries(n), FindKeyPosition(n, low) + 1, Len(n.keys))])
      past == {i \in DOMAIN all : all[i][1] > high}
  IN  IF past = {} THEN all ELSE SubSeq(all, 1, Min(past) - 1)

-----------------------------------------------------------------------------
(* Insert. *)

MutFullLate(n, max) == Len(n.keys) > max
IsFull(n, max) == Len(n.keys) >= max

EntryAdded(n, key, rid) ==
  LET pos == FindKeyPosition(n, key)
  IN  [n EXCEPT !.keys = InsertAt(@, pos + 1, key), !.vals = InsertAt(@, pos + 1, rid)]

InsertFirst(key, rid) ==
  /\ root_page_id = INVALID_PAGE_ID
  /\ node' = Append(node, Leaf(INVALID_PAGE_ID, INVALID_PAGE_ID, <<key>>, <<rid>>))
  /\ root_page_id' = Len(node')
  /\ UNCHANGED <<split, refused>>

InsertInLeaf(key, rid) ==
  /\ root_page_id # INVALID_PAGE_ID
  /\ LET p == FindLeafPage(key)
     IN  /\ ~IsFull(node[p], LeafMax)
         /\ node' = [node EXCEPT ![p] = EntryAdded(@, key, rid)]
  /\ UNCHANGED <<root_page_id, split, refused>>

MutEntryLost(n, pos) == [n EXCEPT !.keys = SubSeq(@, 1, pos - 1), !.vals = SubSeq(@, 1, pos - 1)]
LeftHalf(n, pos) == [n EXCEPT !.keys = SubSeq(@, 1, pos), !.vals = SubSeq(@, 1, pos)]

MutEndsChain(n) == INVALID_PAGE_ID
NextOfRight(n) == n.next

\* Without a page for the right leaf nothing happens and Insert returns false.
SplitLeaf(key, rid) ==
  /\ root_page_id # INVALID_PAGE_ID /\ Len(node) < MaxPages
  /\ LET p     == FindLeafPage(key)
         all   == EntryAdded(node[p], key, rid)
         pos   == Len(all.keys) \div 2
         right == Leaf(all.parent, NextOfRight(all), SubSeq(all.keys, pos + 1, Len(all.keys)),
                       SubSeq(all.vals, pos + 1, Len(all.vals)))
         q     == Len(node) + 1
     IN  /\ IsFull(node[p], LeafMax)
         /\ node' = Append([node EXCEPT ![p] = [LeftHalf(all, pos) EXCEPT !.next = q]], right)
         /\ split' = [left |-> p, key |-> Head(right.keys), right |-> q]
  /\ UNCHANGED <<root_page_id, refused>>

-----------------------------------------------------------------------------
(* InsertIntoParent and CreateNewRoot. *)

SplitParent == node[split.left].parent

\* The parent with the new key, and the new child to the right of it.
MutChildBefore(n) ==
  LET pos == FindChild(n, split.key)
  IN  [n EXCEPT !.keys = InsertAt(@, pos + 1, split.key), !.vals = InsertAt(@, pos + 1, split.right)]
ChildEntered(n) ==
  LET pos == FindChild(n, split.key)
  IN  [n EXCEPT !.keys = InsertAt(@, pos + 1, split.key), !.vals = InsertAt(@, pos + 2, split.right)]

InsertInParent ==
  /\ split # NoSplit /\ SplitParent # INVALID_PAGE_ID
  /\ ~IsFull(node[SplitParent], InternalMax)
  /\ node' = [node EXCEPT ![SplitParent] = ChildEntered(@)]
  /\ split' = NoSplit
  /\ UNCHANGED <<root_page_id, refused>>

MutParentsKept(nodes, children, p) == nodes
ParentsSet(nodes, children, p) ==
  [q \in DOMAIN nodes |-> IF q \in children THEN [nodes[q] EXCEPT !.parent = p] ELSE nodes[q]]

\* The middle key moves up, the ones after it and their children to a new node.
\* Children that cannot be fetched keep the old parent; the two that were split are
\* still pinned.
SplitFullParent ==
  /\ split # NoSplit /\ SplitParent # INVALID_PAGE_ID
  /\ IsFull(node[SplitParent], InternalMax)
  /\ LET p     == SplitParent
         all   == ChildEntered(node[p])
         mid   == Len(all.keys) \div 2
         right == InternalNode(all.parent, SubSeq(all.keys, mid + 2, Len(all.keys)),
                               SubSeq(all.vals, mid + 2, Len(all.vals)))
         left  == InternalNode(all.parent, SubSeq(all.keys, 1, mid), SubSeq(all.vals, 1, mid + 1))
         q     == Len(node) + 1
         moved == ToSet(right.vals)
     IN  \E lost \in IF FramesRunOut THEN SUBSET (moved \ {split.left, split.right}) ELSE {{}} :
           /\ node' = Append(ParentsSet([node EXCEPT ![p] = left], moved \ lost, q), right)
           /\ split' = [left |-> p, key |-> all.keys[mid + 1], right |-> q]
           /\ refused' = (refused \/ lost # {})
  /\ UNCHANGED root_page_id

CreateNewRoot ==
  /\ split # NoSplit /\ SplitParent = INVALID_PAGE_ID
  /\ LET root == InternalNode(INVALID_PAGE_ID, <<split.key>>, <<split.left, split.right>>)
         r    == Len(node) + 1
     IN  /\ node' = Append(ParentsSet(node, {split.left, split.right}, r), root)
         /\ root_page_id' = r
  /\ split' = NoSplit
  /\ UNCHANGED refused

\* The parent cannot be fetched, or there is no page for a new one or a new root.
SplitRefused ==
  /\ FramesRunOut /\ split # NoSplit
  /\ split' = NoSplit /\ refused' = TRUE
  /\ UNCHANGED <<node, root_page_id>>

-----------------------------------------------------------------------------
(* Delete. *)

Delete(key, rid) ==
  /\ root_page_id # INVALID_PAGE_ID
  /\ LET p  == FindLeafPage(key)
         at == {i \in DOMAIN node[p].keys : Entries(node[p])[i] = <<key, rid>>}
     IN  /\ at # {}
         /\ node' = [node EXCEPT ![p].keys = RemoveAt(@, Min(at)), ![p].vals = RemoveAt(@, Min(at))]
  /\ UNCHANGED <<root_page_id, split, refused>>

-----------------------------------------------------------------------------
Init ==
  /\ node = <<>> /\ root_page_id = INVALID_PAGE_ID
  /\ split = NoSplit /\ refused = FALSE

Contents == UNION {ToSet(Entries(node[p])) : p \in {q \in PageIds : node[q].leaf}}

\* A record is entered once.
Insert(key, rid) ==
  /\ <<key, rid>> \notin Contents
  /\ InsertFirst(key, rid) \/ InsertInLeaf(key, rid) \/ SplitLeaf(key, rid)

Next ==
  \/ split = NoSplit /\ \E key \in Keys, rid \in RIDs : Insert(key, rid) \/ Delete(key, rid)
  \/ InsertInParent \/ SplitFullParent \/ CreateNewRoot \/ SplitRefused

Spec == Init /\ [][Next]_vars

-----------------------------------------------------------------------------
(* Properties. *)

Ascending(s) == \A i, j \in DOMAIN s : i < j => s[i] <= s[j]

\* btree.h:30-31, "Leaf nodes are linked via next_leaf_id", "Keys within a node are
\* always sorted": every leaf is on the chain exactly once, also in the middle of a
\* split and after one that was refused a page.
LeavesChained ==
  LET c == IF node = <<>> THEN <<>> ELSE ChainFrom(1)
  IN  /\ ToSet(c) = {p \in PageIds : node[p].leaf} /\ Len(c) = Cardinality(ToSet(c))
      /\ \A p \in PageIds : Ascending(node[p].keys)

Below(p) == IF node[p].leaf THEN <<p>> ELSE node[p].vals

\* The nodes of each depth, from left to right; a leaf is repeated further down.
Level ==
  LET l[d \in 0 .. Len(node)] ==
        IF d = 0 THEN <<root_page_id>>
        ELSE LET above == l[d - 1] IN FlattenSeq([i \in DOMAIN above |-> Below(above[i])])
  IN  l

\* The leaves below p.
LeavesUnder(p) ==
  LET u[d \in 0 .. Len(node)] ==
        IF d = 0 THEN {p} ELSE LET above == u[d - 1] IN UNION {ToSet(Below(q)) : q \in above}
  IN  u[Len(node)]

KeysUnder(p) == UNION {ToSet(node[q].keys) : q \in LeavesUnder(p)}

\* btree.h:116, "All keys in child[i] are < key[i] <= all keys in child[i+1]".
Separated ==
  \A p \in PageIds : ~node[p].leaf =>
    \A i \in DOMAIN node[p].keys :
      /\ \A k \in KeysUnder(node[p].vals[i]) : k < node[p].keys[i]
      /\ \A k \in KeysUnder(node[p].vals[i + 1]) : node[p].keys[i] <= k

Settled == split = NoSplit /\ ~refused /\ root_page_id # INVALID_PAGE_ID

\* btree.h:32, "The tree is always balanced (all leaves at same depth)": between two
\* calls the leaves found from the root are those on the chain, in its order and at one
\* depth, every node names its parent, where its own split will be entered, and the
\* separators separate.  This is for a tree that was never refused a page; the chain is
\* whole in any tree.
TreeSound ==
  /\ LeavesChained
  /\ Settled =>
    /\ \A d \in DOMAIN Level :
         LET level == ToSet(Level[d]) IN \A p, q \in level : node[p].leaf = node[q].leaf
    /\ Level[Len(node)] = ChainFrom(1)
    /\ node[root_page_id].parent = INVALID_PAGE_ID
    /\ \A p \in PageIds : ~node[p].leaf => \A c \in ToSet(node[p].vals) : node[c].parent = p
    /\ Separated

Index == INSTANCE OrderedIndex WITH entries <- Contents

\* btree.h:301-302, "Find all RIDs matching the given key", "by scanning the leaf chain":
\* a lookup that comes to a leaf finds every entry of the key in whatever leaf, and
\* nothing else.
LookupExact ==
  Settled => \A k \in Keys : \A leaves \in Fetched(k) :
    leaves # <<>> => /\ ToSet(Lookup(k, leaves)) = Index!Found(k)
                     /\ IsInjective(Lookup(k, leaves))

\* btree.h:307, "find all RIDs with keys in [low, high]": and a range scan the entries
\* between its bounds, once each and in the order of their keys.  One that is refused a
\* leaf half-way returns less, and no sign of it: the beginning of the answer, no entry
\* of which it leaves out on the way.
SearchExact ==
  /\ LookupExact
  /\ Settled => \A low, high \in Keys : \A leaves \in Fetched(low) :
       LET r     == RangeScan(low, high, leaves)
           there == Index!InRange(low, high)
       IN  /\ Len(r) = Cardinality(ToSet(r)) /\ Ascending([i \in DOMAIN r |-> r[i][1]])
           /\ ToSet(r) \subseteq there
           /\ \A x \in ToSet(r), y \in there \ ToSet(r) : x[1] < y[1]
           /\ leaves = LeavesFrom(low) => ToSet(r) = there

\* btree.h:287, "Insert a (key, RID) pair": whatever nodes are split for it, and however
\* far that gets, an insert adds its entry and a delete removes its own, and neither
\* touches another.
IndexSpec == Index!Spec
==============================================================================
