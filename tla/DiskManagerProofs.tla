-------------------------- MODULE DiskManagerProofs --------------------------
(***************************************************************************)
(* For every size of the file: the free chain is sound in memory and for a *)
(* restart, no page is lost without a failure, and the disk manager        *)
(* implements PageAllocator.  All of it as long as nothing happens between *)
(* the two writes that take a page off the free list (PointsAssumption     *)
(* lets it; DiskManager!PageZeroIsHeader fails then).                      *)
(*                                                                         *)
(* The chain is never computed: it is the sequence whose existence the     *)
(* invariant asserts.  A call makes it one page longer at its front, or    *)
(* one shorter, or touches pages that are not in it.                       *)
(***************************************************************************)
EXTENDS DiskManager, SequenceTheorems, FiniteSetTheorems, TLAPS

\* IsFreeChain of any file and owners.  That it is no longer than the file is a
\* consequence (ChainIsShort).
ChainIn(c, h, file, own) ==
  /\ c \in Seq(Pages)
  /\ Len(c) = h.free_page_count
  /\ h.free_list_head = IF c = <<>> THEN INVALID_PAGE_ID ELSE c[1]
  /\ \A i \in 1 .. Len(c) :
       /\ c[i] \in (1 .. h.page_count - 1) \ own
       /\ file[c[i]].word0 = IF i = Len(c) THEN INVALID_PAGE_ID ELSE c[i + 1]
  /\ \A i, j \in 1 .. Len(c) : c[i] = c[j] => i = j

\* The chain of the running process.
ChainInMemory == \E c : ChainIn(c, header, image, allocated)

\* The chain the next process would read; in a reuse the page the header on disk
\* still names has been zeroed.
ChainOnDisk == pc # "reuse" => \E d : ChainIn(d, image[0].body, image, allocated)

\* The page a call is about to return, or has just linked in front of the chain.
NewPageSound ==
  /\ pc \in {"reuse", "extend"} =>
       /\ new_page \in (1 .. header.page_count - 1) \ allocated
       /\ image[new_page] = ZeroPage
  /\ pc = "dealloc" => header.free_list_head = new_page

\* The header on disk is never ahead of the one in memory.
HeaderBehind == image[0].body.page_count <= header.page_count

FileInv ==
  /\ TypeOK /\ ChainInMemory /\ ChainOnDisk /\ NewPageSound
  /\ PageZeroIsHeader /\ OwnedPagesCounted /\ HeaderBehind

-----------------------------------------------------------------------------
(* Chains. *)

\* Distinct pages are at most as many as there are.
LEMMA ChainIsShort ==
  ASSUME NEW c \in Seq(Pages), \A i, j \in 1 .. Len(c) : c[i] = c[j] => i = j
  PROVE  Len(c) <= MaxPages
<1>1. Len(c) \in Nat /\ c \in [1 .. Len(c) -> Pages]
  BY LenProperties
<1>2. c \in Injection(1 .. Len(c), Pages)
  BY <1>1 DEF Injection, IsInjective
<1>3. IsFiniteSet(Pages) /\ Cardinality(Pages) = MaxPages
  BY MaxPagesAssumption, FS_Interval DEF Pages
<1>4. Cardinality(1 .. Len(c)) = Len(c)
  BY <1>1, FS_Interval
<1> QED BY <1>2, <1>3, <1>4, FS_Injection

LEMMA ChainsDef ==
  ASSUME NEW c
  PROVE  c \in Chains <=> c \in Seq(Pages) /\ Len(c) <= MaxPages
<1>1. ASSUME c \in Chains PROVE c \in Seq(Pages) /\ Len(c) <= MaxPages
  <2>1. PICK m \in 0 .. MaxPages : c \in [1 .. m -> Pages]
    BY <1>1 DEF Chains, SeqOf
  <2>2. m \in Nat /\ m <= MaxPages
    BY MaxPagesAssumption
  <2>3. c \in Seq(Pages)
    BY <2>1, <2>2, SeqDef
  <2>4. Len(c) = m
    BY <2>1, <2>2, <2>3, LenProperties
  <2> QED BY <2>2, <2>3, <2>4
<1>2. ASSUME c \in Seq(Pages), Len(c) <= MaxPages PROVE c \in Chains
  <2>1. Len(c) \in 0 .. MaxPages /\ c \in [1 .. Len(c) -> Pages]
    BY <1>2, LenProperties, MaxPagesAssumption
  <2> QED BY <2>1 DEF Chains, SeqOf
<1> QED BY <1>1, <1>2

LEMMA ChainInIsFreeChain ==
  ASSUME NEW c, NEW h
  PROVE  ChainIn(c, h, image, allocated) <=> c \in Chains /\ IsFreeChain(c, h)
<1>1. ASSUME c \in Seq(Pages)
      PROVE  ChainIn(c, h, image, allocated) <=> IsFreeChain(c, h)
  <2>1. DOMAIN c = 1 .. Len(c)
    BY <1>1, LenProperties
  <2> QED BY <1>1, <2>1 DEF ChainIn, IsFreeChain
<1>2. ChainIn(c, h, image, allocated) => c \in Chains
  BY ChainIsShort, ChainsDef DEF ChainIn
<1>3. c \in Chains => c \in Seq(Pages)
  BY ChainsDef
<1>4. ChainIn(c, h, image, allocated) => c \in Seq(Pages)
  BY DEF ChainIn
<1> QED BY <1>1, <1>2, <1>3, <1>4

\* A chain stays one if its links stay, nobody owns its pages and the header only
\* counts more pages.
LEMMA ChainStays ==
  ASSUME NEW c, NEW h, NEW f, NEW o, NEW g, NEW e, NEW n, ChainIn(c, h, f, o),
         g.free_list_head = h.free_list_head, g.free_page_count = h.free_page_count,
         h.page_count \in Nat, g.page_count \in Nat, h.page_count <= g.page_count,
         \A i \in 1 .. Len(c) : e[c[i]].word0 = f[c[i]].word0 /\ c[i] \notin n
  PROVE  ChainIn(c, g, e, n)
BY LenProperties DEF ChainIn, Pages

\* Its pages, its first page.
LEMMA ChainPages ==
  ASSUME NEW c, NEW h, NEW f, NEW o, ChainIn(c, h, f, o), h.page_count \in Nat
  PROVE  /\ Len(c) \in Nat
         /\ \A i \in 1 .. Len(c) : c[i] \in Pages /\ c[i] < h.page_count /\ c[i] \notin o
         /\ h.free_list_head = INVALID_PAGE_ID => c = <<>> /\ Len(c) = 0
         /\ h.free_list_head # INVALID_PAGE_ID =>
              c # <<>> /\ Len(c) > 0 /\ h.free_list_head = c[1]
<1>1. Len(c) \in Nat /\ c \in Seq(Pages)
  BY LenProperties DEF ChainIn
<1>2. \A i \in 1 .. Len(c) : c[i] \in Pages /\ c[i] < h.page_count /\ c[i] \notin o
  <2> SUFFICES ASSUME NEW i \in 1 .. Len(c)
               PROVE  c[i] \in Pages /\ c[i] < h.page_count /\ c[i] \notin o
    OBVIOUS
  <2>1. c[i] \in (1 .. h.page_count - 1) \ o
    BY DEF ChainIn
  <2>2. c[i] \in Pages
    BY <1>1, ElementOfSeq
  <2> QED BY <2>1, <2>2
<1>3. c # <<>> => Len(c) > 0
  BY <1>1, EmptySeq
<1>4. c = <<>> => Len(c) = 0
  BY EmptySeq
<1>5. c # <<>> => c[1] # INVALID_PAGE_ID
  BY <1>1, <1>2, <1>3, MaxPagesAssumption DEF Pages, INVALID_PAGE_ID
<1> QED BY <1>1, <1>2, <1>3, <1>4, <1>5 DEF ChainIn

\* A zeroed page is in no chain: page 0 is never free.
LEMMA ZeroPageNotInChain ==
  ASSUME NEW c, NEW h, NEW f, NEW o, ChainIn(c, h, f, o), NEW i \in 1 .. Len(c)
  PROVE  f[c[i]] # ZeroPage
<1>1. Len(c) \in Nat /\ c \in Seq(Pages)
  BY LenProperties DEF ChainIn
<1>2. f[c[i]].word0 = IF i = Len(c) THEN INVALID_PAGE_ID ELSE c[i + 1]
  BY DEF ChainIn
<1>3. i # Len(c) => c[i + 1] \in Pages
  BY <1>1, ElementOfSeq
<1>4. INVALID_PAGE_ID # 0 /\ 0 \notin Pages
  BY MaxPagesAssumption DEF INVALID_PAGE_ID, Pages
<1> QED BY <1>2, <1>3, <1>4 DEF ZeroPage

\* Taking the first page off.
LEMMA ChainTail ==
  ASSUME NEW c, NEW h, NEW f, NEW o, NEW g, NEW e, NEW n, ChainIn(c, h, f, o), c # <<>>,
         h.page_count \in Nat, g.page_count = h.page_count,
         g.free_list_head = f[c[1]].word0, g.free_page_count = h.free_page_count - 1,
         \A i \in 2 .. Len(c) : e[c[i]].word0 = f[c[i]].word0 /\ c[i] \notin n
  PROVE  /\ ChainIn(Tail(c), g, e, n)
         /\ \A i \in 1 .. Len(Tail(c)) : i + 1 \in 1 .. Len(c) /\ Tail(c)[i] = c[i + 1]
                                         /\ Tail(c)[i] # c[1]
<1> DEFINE t == Tail(c)
<1>1. /\ Len(c) \in Nat /\ Len(c) > 0 /\ c \in Seq(Pages)
  BY LenProperties, EmptySeq DEF ChainIn
<1>2. /\ t \in Seq(Pages) /\ Len(t) = Len(c) - 1
      /\ \A i \in 1 .. Len(t) : t[i] = c[i + 1]
  BY <1>1, HeadTailProperties
<1> HIDE DEF t
<1>3. \A i \in 1 .. Len(t) : i + 1 \in 2 .. Len(c) /\ i + 1 \in 1 .. Len(c)
  BY <1>1, <1>2
<1>4. \A i \in 1 .. Len(t) : /\ t[i] \in (1 .. g.page_count - 1) \ n
                            /\ e[t[i]].word0 = IF i = Len(t) THEN INVALID_PAGE_ID ELSE t[i + 1]
  <2> SUFFICES ASSUME NEW i \in 1 .. Len(t)
               PROVE  /\ t[i] \in (1 .. g.page_count - 1) \ n
                      /\ e[t[i]].word0 = IF i = Len(t) THEN INVALID_PAGE_ID ELSE t[i + 1]
    OBVIOUS
  <2>1. t[i] = c[i + 1] /\ i + 1 \in 1 .. Len(c) /\ i + 1 \in 2 .. Len(c)
    BY <1>2, <1>3
  <2>2. t[i] \in (1 .. g.page_count - 1) \ n
    BY <2>1 DEF ChainIn
  <2>3. e[t[i]].word0 = IF i + 1 = Len(c) THEN INVALID_PAGE_ID ELSE c[(i + 1) + 1]
    BY <2>1 DEF ChainIn
  <2>4. CASE i = Len(t)
    BY <2>2, <2>3, <2>4, <1>1, <1>2
  <2>5. CASE i # Len(t)
    <3>1. i + 1 \in 1 .. Len(t) /\ i + 1 # Len(c)
      BY <2>5, <1>1, <1>2
    <3> QED BY <3>1, <2>2, <2>3, <2>5, <1>2
  <2> QED BY <2>4, <2>5
<1>5. \A i, j \in 1 .. Len(t) : t[i] = t[j] => i = j
  <2> SUFFICES ASSUME NEW i \in 1 .. Len(t), NEW j \in 1 .. Len(t), t[i] = t[j]
               PROVE  i = j
    OBVIOUS
  <2>1. i + 1 \in 1 .. Len(c) /\ j + 1 \in 1 .. Len(c) /\ c[i + 1] = c[j + 1]
    BY <1>2, <1>3
  <2>2. i + 1 = j + 1
    BY <2>1 DEF ChainIn
  <2> QED BY <2>2
<1>6. g.free_list_head = IF t = <<>> THEN INVALID_PAGE_ID ELSE t[1]
  <2>1. 1 \in 1 .. Len(c)
    BY <1>1
  <2>2. g.free_list_head = IF 1 = Len(c) THEN INVALID_PAGE_ID ELSE c[1 + 1]
    BY <2>1 DEF ChainIn
  <2>3. t = <<>> <=> Len(c) = 1
    BY <1>1, <1>2, EmptySeq
  <2>4. Len(c) # 1 => t[1] = c[1 + 1]
    BY <1>1, <1>2
  <2> QED BY <2>2, <2>3, <2>4
<1>7. Len(t) = g.free_page_count
  BY <1>2 DEF ChainIn
<1>8. \A i \in 1 .. Len(t) : t[i] # c[1]
  <2> SUFFICES ASSUME NEW i \in 1 .. Len(t), c[i + 1] = c[1] PROVE FALSE
    BY <1>2
  <2>1. i + 1 \in 1 .. Len(c) /\ 1 \in 1 .. Len(c)
    BY <1>1, <1>3
  <2>2. i + 1 = 1
    BY <2>1 DEF ChainIn
  <2> QED BY <2>2
<1>9. ChainIn(t, g, e, n)
  BY <1>2, <1>4, <1>5, <1>6, <1>7 DEF ChainIn
<1> QED BY <1>2, <1>3, <1>8, <1>9 DEF t

\* A page in front of a sequence, and linking it there.
LEMMA ConsAt ==
  ASSUME NEW c \in Seq(Pages), NEW p \in Pages
  PROVE  /\ <<p>> \o c \in Seq(Pages) /\ Len(<<p>> \o c) = 1 + Len(c) /\ (<<p>> \o c)[1] = p
         /\ \A i \in 1 .. Len(c) : i + 1 \in 1 .. Len(<<p>> \o c) /\ (<<p>> \o c)[i + 1] = c[i]
<1> DEFINE t == <<p>> \o c
<1>1. Len(c) \in Nat /\ <<p>> \in Seq(Pages) /\ Len(<<p>>) = 1 /\ <<p>>[1] = p
  BY LenProperties
<1>2. /\ t \in Seq(Pages) /\ Len(t) = 1 + Len(c)
      /\ \A i \in 1 .. 1 + Len(c) : t[i] = IF i <= 1 THEN <<p>>[i] ELSE c[i - 1]
  BY <1>1, ConcatProperties
<1> HIDE DEF t
<1>3. t[1] = p
  BY <1>1, <1>2
<1>4. ASSUME NEW i \in 1 .. Len(c) PROVE i + 1 \in 1 .. Len(t) /\ t[i + 1] = c[i]
  BY <1>1, <1>2
<1> QED BY <1>2, <1>3, <1>4 DEF t

LEMMA ChainCons ==
  ASSUME NEW c, NEW h, NEW f, NEW o, NEW g, NEW e, NEW n, ChainIn(c, h, f, o),
         h.page_count \in Nat, g.page_count = h.page_count,
         NEW p \in 1 .. h.page_count - 1, p \in Pages, p \notin n,
         \A i \in 1 .. Len(c) : c[i] # p,
         g.free_list_head = p, g.free_page_count = h.free_page_count + 1,
         e[p].word0 = h.free_list_head,
         \A i \in 1 .. Len(c) : e[c[i]].word0 = f[c[i]].word0 /\ c[i] \notin n
  PROVE  ChainIn(<<p>> \o c, g, e, n)
<1> DEFINE t == <<p>> \o c
<1>1. c \in Seq(Pages) /\ Len(c) \in Nat
  BY LenProperties DEF ChainIn
<1>2. /\ t \in Seq(Pages) /\ Len(t) = 1 + Len(c) /\ t[1] = p
      /\ \A i \in 1 .. Len(c) : i + 1 \in 1 .. Len(t) /\ t[i + 1] = c[i]
  BY <1>1, ConsAt
<1> HIDE DEF t
<1>3. ASSUME NEW i \in 1 .. Len(t), i # 1
      PROVE  i - 1 \in 1 .. Len(c) /\ t[i] = c[i - 1]
  <2>1. i - 1 \in 1 .. Len(c) /\ (i - 1) + 1 = i
    BY <1>1, <1>2, <1>3
  <2> QED BY <2>1, <1>2
<1>4. \A i \in 1 .. Len(t) : /\ t[i] \in (1 .. g.page_count - 1) \ n
                            /\ e[t[i]].word0 = IF i = Len(t) THEN INVALID_PAGE_ID ELSE t[i + 1]
  <2> SUFFICES ASSUME NEW i \in 1 .. Len(t)
               PROVE  /\ t[i] \in (1 .. g.page_count - 1) \ n
                      /\ e[t[i]].word0 = IF i = Len(t) THEN INVALID_PAGE_ID ELSE t[i + 1]
    OBVIOUS
  <2>1. CASE i = 1
    <3>1. e[t[i]].word0 = IF c = <<>> THEN INVALID_PAGE_ID ELSE c[1]
      BY <1>2, <2>1 DEF ChainIn
    <3>2. c = <<>> <=> Len(c) = 0
      BY <1>1, EmptySeq
    <3>3. Len(c) # 0 => t[1 + 1] = c[1]
      BY <1>1, <1>2, <1>3
    <3> QED BY <1>1, <1>2, <1>3, <2>1, <3>1, <3>2, <3>3
  <2>2. CASE i # 1
    <3>1. i - 1 \in 1 .. Len(c) /\ t[i] = c[i - 1]
      BY <1>3, <2>2
    <3>2. t[i] \in (1 .. g.page_count - 1) \ n
      BY <3>1 DEF ChainIn
    <3>3. e[t[i]].word0 = IF i - 1 = Len(c) THEN INVALID_PAGE_ID ELSE c[(i - 1) + 1]
      BY <3>1 DEF ChainIn
    <3>4. i # Len(t) => i + 1 \in 1 .. Len(t) /\ i + 1 # 1 /\ t[i + 1] = c[(i - 1) + 1]
      BY <1>1, <1>2, <1>3
    <3> QED BY <1>1, <1>2, <3>2, <3>3, <3>4
  <2> QED BY <2>1, <2>2
<1>5. \A i, j \in 1 .. Len(t) : t[i] = t[j] => i = j
  <2> SUFFICES ASSUME NEW i \in 1 .. Len(t), NEW j \in 1 .. Len(t), t[i] = t[j]
               PROVE  i = j
    OBVIOUS
  <2>1. CASE i # 1 /\ j # 1
    <3>1. i - 1 \in 1 .. Len(c) /\ j - 1 \in 1 .. Len(c) /\ c[i - 1] = c[j - 1]
      BY <1>3, <2>1
    <3>2. i - 1 = j - 1
      BY <3>1 DEF ChainIn
    <3> QED BY <3>2
  <2>2. CASE i = 1 /\ j # 1
    <3>1. j - 1 \in 1 .. Len(c) /\ t[i] = p /\ t[j] = c[j - 1]
      BY <1>2, <1>3, <2>2
    <3> QED BY <3>1
  <2>3. CASE j = 1 /\ i # 1
    <3>1. i - 1 \in 1 .. Len(c) /\ t[j] = p /\ t[i] = c[i - 1]
      BY <1>2, <1>3, <2>3
    <3> QED BY <3>1
  <2> QED BY <2>1, <2>2, <2>3
<1>6. g.free_list_head = IF t = <<>> THEN INVALID_PAGE_ID ELSE t[1]
  BY <1>1, <1>2, <1>3, EmptySeq
<1>7. Len(t) = g.free_page_count
  BY <1>1, <1>2 DEF ChainIn
<1>8. ChainIn(t, g, e, n)
  BY <1>2, <1>4, <1>5, <1>6, <1>7 DEF ChainIn
<1> QED BY <1>8 DEF t

-----------------------------------------------------------------------------
(* The invariant holds initially and through each action. *)

LEMMA InitFileInv == Init => FileInv
<1> SUFFICES ASSUME Init PROVE FileInv
  OBVIOUS
<1>2. /\ DOMAIN image = PageId /\ image[0] = HeaderPage(NewHeader)
      /\ \A p \in PageId : p # 0 => image[p] = ZeroPage
  BY MaxPagesAssumption DEF Init, PageId
<1>1. TypeOK
  <2>1. NewHeader \in DatabaseHeader
    BY MaxPagesAssumption DEF NewHeader, DatabaseHeader, INVALID_PAGE_ID
  <2>2. MAGIC \in Nat
    BY MaxPagesAssumption DEF MAGIC
  <2>3. \A p \in PageId : /\ image[p].word0 \in Nat
                          /\ image[p].body \in IF p = 0 THEN DatabaseHeader ELSE Values \cup {Zero}
    BY <1>2, <2>1, <2>2 DEF HeaderPage, ZeroPage
  <2> QED BY <1>2, <2>1, <2>3 DEF Init, TypeOK
<1>3. PageZeroIsHeader /\ OwnedPagesCounted /\ NewPageSound /\ HeaderBehind
  BY <1>2 DEF Init, PageZeroIsHeader, OwnedPagesCounted, NewPageSound, HeaderBehind, HeaderPage, NewHeader
<1>4. ChainIn(<<>>, NewHeader, image, allocated)
  BY EmptySeq DEF ChainIn, NewHeader
<1>5. header = NewHeader /\ image[0].body = NewHeader /\ pc = "idle"
  BY <1>2 DEF Init, HeaderPage
<1>6. ChainInMemory /\ ChainOnDisk
  BY <1>4, <1>5 DEF ChainInMemory, ChainOnDisk
<1> QED BY <1>1, <1>3, <1>6 DEF FileInv

\* What the type invariant says of the headers.
LEMMA HeaderTypes ==
  ASSUME FileInv
  PROVE  /\ header \in DatabaseHeader /\ image[0].body \in DatabaseHeader
         /\ header.page_count \in 1 .. MaxPages + 1 /\ header.page_count \in Nat
         /\ image[0].body.page_count \in 1 .. MaxPages + 1 /\ image[0].body.page_count \in Nat
         /\ DOMAIN image = PageId /\ 0 \in PageId
         /\ image[0].word0 = MAGIC /\ 0 \notin allocated
<1>1. header \in DatabaseHeader /\ DOMAIN image = PageId /\ 0 \in PageId
  BY MaxPagesAssumption DEF FileInv, TypeOK, PageId
<1>2. image[0].body \in DatabaseHeader
  BY <1>1 DEF FileInv, TypeOK
<1>3. \A h \in DatabaseHeader : h.page_count \in 1 .. MaxPages + 1
  BY DEF DatabaseHeader
<1>4. \A n \in 1 .. MaxPages + 1 : n \in Nat
  BY MaxPagesAssumption
<1> QED BY <1>1, <1>2, <1>3, <1>4 DEF FileInv, PageZeroIsHeader

\* An owner writes a page that is in no chain and that the file has.
LEMMA ClientWritesStep ==
  ASSUME FileInv, NEW p \in PageId, NEW v \in Values, ClientWrites(p, v)
  PROVE  /\ \A c : \A h \in DatabaseHeader :
              ChainIn(c, h, image, allocated) => ChainIn(c, h, image', allocated')
         /\ pc = "idle" /\ p \in allocated /\ p # 0 /\ p \in Nat /\ p \in Pages
         /\ pc' = pc /\ header' = header /\ new_page' = new_page /\ allocated' = allocated
         /\ DOMAIN image' = PageId /\ image'[0] = image[0]
         /\ image'[p] = [word0 |-> p, body |-> v]
         /\ \A q \in PageId : q # p => image'[q] = image[q]
<1>1. /\ pc = "idle" /\ p \in allocated /\ p # 0
      /\ pc' = pc /\ header' = header /\ new_page' = new_page /\ allocated' = allocated
  BY HeaderTypes DEF ClientWrites
<1>2. p \in Nat /\ p \in Pages
  BY <1>1, MaxPagesAssumption DEF PageId, Pages
<1>3. p < header.page_count
  BY <1>1, <1>2, HeaderTypes DEF FileInv, OwnedPagesCounted, HeaderBehind
<1>4. image' = [image EXCEPT ![p] = [word0 |-> p, body |-> v]]
  BY <1>3 DEF ClientWrites, WritePage
<1>5. /\ image'[0] = image[0] /\ DOMAIN image' = PageId
      /\ image'[p] = [word0 |-> p, body |-> v]
      /\ \A q \in PageId : q # p => image'[q] = image[q]
  BY <1>1, <1>4, HeaderTypes
<1>6. ASSUME NEW c, NEW h \in DatabaseHeader, ChainIn(c, h, image, allocated)
      PROVE  ChainIn(c, h, image', allocated')
  <2>1. h.page_count \in Nat /\ h.page_count <= h.page_count
    BY MaxPagesAssumption, <1>6 DEF DatabaseHeader
  <2>2. \A i \in 1 .. Len(c) : c[i] \in PageId /\ c[i] # p /\ c[i] \notin allocated
    BY <1>1, <1>6, <2>1, ChainPages, MaxPagesAssumption DEF Pages, PageId
  <2> QED BY <1>1, <1>5, <1>6, <2>1, <2>2, ChainStays
<1> QED BY <1>1, <1>2, <1>5, <1>6

LEMMA ClientWritesKeeps ==
  ASSUME FileInv, NEW p \in PageId, NEW v \in Values, ClientWrites(p, v)
  PROVE  FileInv'
<1>1. /\ pc = "idle" /\ p \in allocated /\ p # 0 /\ p \in Nat
      /\ pc' = pc /\ header' = header /\ new_page' = new_page /\ allocated' = allocated
      /\ DOMAIN image' = PageId /\ image'[0] = image[0]
      /\ image'[p] = [word0 |-> p, body |-> v]
      /\ \A q \in PageId : q # p => image'[q] = image[q]
  BY ClientWritesStep
<1>2. TypeOK'
  BY <1>1 DEF FileInv, TypeOK
<1>3. ChainInMemory'
  BY <1>1, HeaderTypes, ClientWritesStep DEF FileInv, ChainInMemory
<1>4. ChainOnDisk'
  BY <1>1, HeaderTypes, ClientWritesStep DEF FileInv, ChainOnDisk
<1>5. PageZeroIsHeader' /\ OwnedPagesCounted' /\ NewPageSound' /\ HeaderBehind'
  BY <1>1
  DEF FileInv, PageZeroIsHeader, OwnedPagesCounted, NewPageSound, HeaderBehind
<1> QED BY <1>2, <1>3, <1>4, <1>5 DEF FileInv

\* AllocatePage takes the first page of any chain there is in memory.
LEMMA ReuseStep ==
  ASSUME FileInv, AllocateReuse, NEW c, ChainIn(c, header, image, allocated)
  PROVE  /\ ChainIn(Tail(c), header', image', allocated')
         /\ \A i \in 1 .. Len(c) : c[i] # new_page' => \E j \in 1 .. Len(Tail(c)) : Tail(c)[j] = c[i]
         /\ new_page' \in Pages /\ new_page' < header.page_count /\ new_page' \notin allocated
         /\ pc = "idle" /\ pc' = "reuse" /\ allocated' = allocated
         /\ header' \in DatabaseHeader /\ header'.page_count = header.page_count
         /\ DOMAIN image' = PageId /\ image'[0] = image[0] /\ image'[new_page'] = ZeroPage
         /\ \A q \in PageId : q # new_page' => image'[q] = image[q]
<1> DEFINE p == header.free_list_head
<1>2. c # <<>> /\ Len(c) > 0 /\ Len(c) \in Nat /\ p = c[1] /\ p \in Pages
      /\ p < header.page_count /\ p \notin allocated
  <2>1. header.free_list_head # INVALID_PAGE_ID
    BY DEF AllocateReuse
  <2>2. c # <<>> /\ Len(c) > 0 /\ p = c[1] /\ Len(c) \in Nat
    BY <2>1, ChainPages, HeaderTypes
  <2>3. 1 \in 1 .. Len(c)
    BY <2>2
  <2> QED BY <2>2, <2>3, ChainPages, HeaderTypes
<1>3. p \in PageId /\ p # 0 /\ p \in Nat /\ p >= 1
  BY <1>2, MaxPagesAssumption DEF Pages, PageId
<1>4. /\ pc = "idle" /\ pc' = "reuse" /\ new_page' = p /\ allocated' = allocated
      /\ image' = [image EXCEPT ![p] = ZeroPage]
      /\ header' = [header EXCEPT !.free_list_head = image[p].word0, !.free_page_count = @ - 1]
  BY <1>2 DEF AllocateReuse, HeadUnlinked, WritePage
<1> HIDE DEF p
<1>5. /\ header'.free_list_head = image[p].word0 /\ header'.page_count = header.page_count
      /\ header'.free_page_count = header.free_page_count - 1
      /\ header' \in DatabaseHeader
  <2>1. image[p].word0 \in Nat
    BY <1>3 DEF FileInv, TypeOK
  <2>2. /\ DOMAIN header = {"page_count", "free_list_head", "free_page_count"}
        /\ header.page_count \in 1 .. MaxPages + 1 /\ header.free_page_count \in Int
    BY HeaderTypes DEF DatabaseHeader
  <2>3. header' = [page_count |-> header.page_count, free_list_head |-> image[p].word0,
                   free_page_count |-> header.free_page_count - 1]
    BY <1>4, HeaderTypes DEF DatabaseHeader
  <2> QED BY <2>1, <2>2, <2>3 DEF DatabaseHeader
<1>6. /\ image'[0] = image[0] /\ DOMAIN image' = PageId /\ image'[p] = ZeroPage
      /\ \A q \in PageId : q # p => image'[q] = image[q]
  BY <1>3, <1>4, HeaderTypes
<1>7. \A i \in 2 .. Len(c) : image'[c[i]].word0 = image[c[i]].word0 /\ c[i] \notin allocated'
  <2> SUFFICES ASSUME NEW i \in 2 .. Len(c)
               PROVE  image'[c[i]].word0 = image[c[i]].word0 /\ c[i] \notin allocated'
    OBVIOUS
  <2>1. i \in 1 .. Len(c) /\ 1 \in 1 .. Len(c) /\ i # 1
    BY <1>2
  <2>2. c[i] # c[1]
    BY <2>1 DEF ChainIn
  <2>3. c[i] \in Pages /\ c[i] \notin allocated
    BY <2>1, ChainPages, HeaderTypes
  <2>4. c[i] \in PageId
    BY <2>3, MaxPagesAssumption DEF Pages, PageId
  <2> QED BY <2>2, <2>3, <2>4, <1>2, <1>4, <1>6
<1>8. header'.free_list_head = image[c[1]].word0
  BY <1>2, <1>5
<1>9. /\ ChainIn(Tail(c), header', image', allocated')
      /\ \A i \in 1 .. Len(Tail(c)) : Tail(c)[i] = c[i + 1]
  BY <1>2, <1>5, <1>7, <1>8, HeaderTypes, ChainTail
<1>10. ASSUME NEW i \in 1 .. Len(c), c[i] # p
       PROVE  \E j \in 1 .. Len(Tail(c)) : Tail(c)[j] = c[i]
  <2>1. Len(Tail(c)) = Len(c) - 1
    BY <1>2, HeadTailProperties DEF ChainIn
  <2>2. i # 1
    BY <1>2, <1>10
  <2>3. i - 1 \in 1 .. Len(Tail(c)) /\ (i - 1) + 1 = i
    BY <2>1, <2>2, <1>2
  <2> QED BY <2>3, <1>9
<1> QED BY <1>2, <1>4, <1>5, <1>6, <1>9, <1>10

LEMMA AllocateReuseKeeps ==
  ASSUME FileInv, AllocateReuse
  PROVE  FileInv'
<1>1. PICK c : ChainIn(c, header, image, allocated)
  BY DEF FileInv, ChainInMemory
<1> DEFINE p == new_page'
<1>2. /\ ChainIn(Tail(c), header', image', allocated')
      /\ p \in Pages /\ p < header.page_count /\ p \notin allocated
      /\ pc' = "reuse" /\ allocated' = allocated
      /\ header' \in DatabaseHeader /\ header'.page_count = header.page_count
      /\ DOMAIN image' = PageId /\ image'[0] = image[0] /\ image'[p] = ZeroPage
      /\ \A q \in PageId : q # p => image'[q] = image[q]
  BY <1>1, ReuseStep
<1>3. p \in PageId /\ p # 0 /\ p \in Nat
  BY <1>2, MaxPagesAssumption DEF Pages, PageId
<1>4. TypeOK'
  BY <1>2, <1>3 DEF FileInv, TypeOK, ZeroPage
<1>5. NewPageSound'
  BY <1>2, <1>3, HeaderTypes DEF NewPageSound
<1>6. ChainInMemory' /\ ChainOnDisk'
  BY <1>2 DEF ChainInMemory, ChainOnDisk
<1> QED BY <1>2, <1>4, <1>5, <1>6
    DEF FileInv, PageZeroIsHeader, OwnedPagesCounted, HeaderBehind

\* AllocatePage adds a page behind every one that any chain knows.
LEMMA ExtendStep ==
  ASSUME FileInv, AllocateExtend
  PROVE  /\ \A c : ChainIn(c, header, image, allocated) => ChainIn(c, header', image', allocated')
         /\ \A d : ChainIn(d, image[0].body, image, allocated)
                     => ChainIn(d, image[0].body, image', allocated')
         /\ pc = "idle" /\ pc' = "extend" /\ new_page' = header.page_count
         /\ allocated' = allocated /\ new_page' \in PageId /\ new_page' # 0 /\ new_page' \in Nat
         /\ header' \in DatabaseHeader /\ header'.page_count = header.page_count + 1
         /\ image'[0] = image[0] /\ DOMAIN image' = PageId /\ image'[new_page'] = ZeroPage
         /\ \A q \in PageId : q # new_page' => image'[q] = image[q]
<1> DEFINE p == header.page_count
<1>1. /\ pc = "idle" /\ pc' = "extend" /\ new_page' = p /\ allocated' = allocated
      /\ image' = [image EXCEPT ![p] = ZeroPage]
      /\ header' = [header EXCEPT !.page_count = p + 1]
      /\ p \in 1 .. MaxPages
  BY HeaderTypes DEF AllocateExtend, Extended
<1>2. p \in PageId /\ p # 0 /\ p \in Nat
  BY <1>1, MaxPagesAssumption DEF PageId
<1>3. header' = [page_count |-> p + 1, free_list_head |-> header.free_list_head,
                 free_page_count |-> header.free_page_count]
  BY <1>1, HeaderTypes DEF DatabaseHeader
<1>4. header' \in DatabaseHeader
  <2>1. header.free_list_head \in Nat /\ header.free_page_count \in Int
    BY HeaderTypes DEF DatabaseHeader
  <2>2. p + 1 \in 1 .. MaxPages + 1
    BY <1>1, MaxPagesAssumption
  <2> QED BY <1>3, <2>1, <2>2 DEF DatabaseHeader
<1>5. /\ image'[0] = image[0] /\ DOMAIN image' = PageId /\ image'[p] = ZeroPage
      /\ \A q \in PageId : q # p => image'[q] = image[q]
  BY <1>1, <1>2, HeaderTypes
<1> HIDE DEF p
<1>6. ASSUME NEW c, NEW h \in DatabaseHeader, NEW g \in DatabaseHeader,
             ChainIn(c, h, image, allocated), h.page_count <= p, h.page_count <= g.page_count,
             g.free_list_head = h.free_list_head, g.free_page_count = h.free_page_count
      PROVE  ChainIn(c, g, image', allocated')
  <2>1. h.page_count \in Nat /\ g.page_count \in Nat
    BY MaxPagesAssumption DEF DatabaseHeader
  <2>2. ASSUME NEW i \in 1 .. Len(c)
        PROVE  c[i] \in PageId /\ c[i] # p /\ c[i] \notin allocated
    <3>1. c[i] \in Pages /\ c[i] < h.page_count /\ c[i] \notin allocated
      BY <1>6, <2>1, ChainPages
    <3> QED BY <3>1, <1>2, <1>6, <2>1, MaxPagesAssumption DEF Pages, PageId
  <2>3. \A i \in 1 .. Len(c) : image'[c[i]].word0 = image[c[i]].word0 /\ c[i] \notin allocated'
    BY <1>1, <1>5, <2>2
  <2> QED BY <1>6, <2>1, <2>3, ChainStays
<1>7. ASSUME NEW c, ChainIn(c, header, image, allocated)
      PROVE  ChainIn(c, header', image', allocated')
  BY <1>2, <1>3, <1>4, <1>6, <1>7, HeaderTypes DEF p
<1>8. ASSUME NEW d, ChainIn(d, image[0].body, image, allocated)
      PROVE  ChainIn(d, image[0].body, image', allocated')
  BY <1>6, <1>8, HeaderTypes DEF p, FileInv, HeaderBehind
<1> QED BY <1>1, <1>2, <1>3, <1>4, <1>5, <1>7, <1>8 DEF p

LEMMA AllocateExtendKeeps ==
  ASSUME FileInv, AllocateExtend
  PROVE  FileInv'
<1> DEFINE p == new_page'
<1>1. /\ pc = "idle" /\ pc' = "extend" /\ p = header.page_count
      /\ allocated' = allocated /\ p \in PageId /\ p # 0 /\ p \in Nat
      /\ header' \in DatabaseHeader /\ header'.page_count = header.page_count + 1
      /\ image'[0] = image[0] /\ DOMAIN image' = PageId /\ image'[p] = ZeroPage
      /\ \A q \in PageId : q # p => image'[q] = image[q]
  BY ExtendStep
<1>2. TypeOK'
  BY <1>1 DEF FileInv, TypeOK, ZeroPage
<1>3. ChainInMemory' /\ ChainOnDisk'
  BY <1>1, ExtendStep DEF FileInv, ChainInMemory, ChainOnDisk
<1>4. NewPageSound'
  <2>1. p \notin allocated
    BY <1>1, HeaderTypes DEF FileInv, OwnedPagesCounted, HeaderBehind
  <2>2. p \in 1 .. header'.page_count - 1
    BY <1>1
  <2> QED BY <1>1, <2>1, <2>2 DEF NewPageSound
<1>5. HeaderBehind'
  BY <1>1, HeaderTypes DEF FileInv, HeaderBehind
<1>6. PageZeroIsHeader' /\ OwnedPagesCounted'
  BY <1>1 DEF FileInv, PageZeroIsHeader, OwnedPagesCounted
<1> QED BY <1>2, <1>3, <1>4, <1>5, <1>6 DEF FileInv

\* WriteHeader leaves every chain in memory as it is, also if the page that a call
\* has in its hands goes to its owner with it.
LEMMA HeaderStep ==
  ASSUME FileInv, WriteHeader, header' = header,
         allocated' = allocated \/ (pc \in {"reuse", "extend"} /\ allocated' = allocated \cup {new_page})
  PROVE  /\ \A c : ChainIn(c, header, image, allocated) => ChainIn(c, header', image', allocated')
         /\ image'[0] = HeaderPage(header) /\ DOMAIN image' = PageId
         /\ \A q \in PageId : q # 0 => image'[q] = image[q]
<1>1. /\ image'[0] = HeaderPage(header) /\ DOMAIN image' = PageId
      /\ \A q \in PageId : q # 0 => image'[q] = image[q]
  BY HeaderTypes DEF WriteHeader
<1>2. ASSUME NEW c, ChainIn(c, header, image, allocated), NEW i \in 1 .. Len(c)
      PROVE  image'[c[i]].word0 = image[c[i]].word0 /\ c[i] \notin allocated'
  <2>1. c[i] \in Pages /\ c[i] \notin allocated
    BY <1>2, ChainPages, HeaderTypes
  <2>2. c[i] \in PageId /\ c[i] # 0
    BY <2>1, MaxPagesAssumption DEF Pages, PageId
  <2>3. pc \in {"reuse", "extend"} => c[i] # new_page
    BY <1>2, ZeroPageNotInChain DEF FileInv, NewPageSound
  <2> QED BY <1>1, <2>1, <2>2, <2>3
<1>3. ASSUME NEW c, ChainIn(c, header, image, allocated)
      PROVE  ChainIn(c, header', image', allocated')
  BY <1>2, <1>3, HeaderTypes, ChainStays
<1> QED BY <1>1, <1>3

\* After it a restart finds what memory has.
LEMMA HeaderWritten ==
  ASSUME FileInv, WriteHeader, pc' = "idle", header' = header, new_page' = new_page,
         allocated' = allocated \/ (pc \in {"reuse", "extend"} /\ allocated' = allocated \cup {new_page})
  PROVE  FileInv'
<1>1. /\ \A c : ChainIn(c, header, image, allocated) => ChainIn(c, header', image', allocated')
      /\ image'[0] = HeaderPage(header) /\ DOMAIN image' = PageId
      /\ \A q \in PageId : q # 0 => image'[q] = image[q]
  BY HeaderStep
<1>2. image'[0].body = header /\ image'[0].word0 = MAGIC /\ MAGIC \in Nat
  BY <1>1, MaxPagesAssumption DEF HeaderPage, MAGIC
<1>3. \A p \in allocated' : p \in allocated \/ (p = new_page /\ pc \in {"reuse", "extend"})
  OBVIOUS
<1>4. ASSUME pc \in {"reuse", "extend"}
      PROVE  new_page \in PageId /\ new_page # 0 /\ new_page < header.page_count
  BY <1>4, HeaderTypes, MaxPagesAssumption DEF FileInv, NewPageSound, PageId
<1>5. TypeOK'
  <2>1. allocated' \in SUBSET PageId
    BY <1>3, <1>4 DEF FileInv, TypeOK
  <2> QED BY <1>1, <1>2, <2>1, HeaderTypes DEF FileInv, TypeOK
<1>6. ChainInMemory' /\ ChainOnDisk'
  BY <1>1, <1>2 DEF FileInv, ChainInMemory, ChainOnDisk
<1>7. OwnedPagesCounted'
  <2>1. ASSUME NEW p \in allocated PROVE p < header.page_count
    <3>1. p < image[0].body.page_count /\ p \in Nat
      BY MaxPagesAssumption DEF FileInv, OwnedPagesCounted, TypeOK, PageId
    <3> QED BY <3>1, HeaderTypes DEF FileInv, HeaderBehind
  <2>2. \A p \in allocated' : p < image'[0].body.page_count
    BY <2>1, <1>2, <1>3, <1>4
  <2> QED BY <2>2 DEF OwnedPagesCounted
<1>8. PageZeroIsHeader' /\ NewPageSound' /\ HeaderBehind'
  BY <1>2, <1>3, <1>4, HeaderTypes DEF PageZeroIsHeader, NewPageSound, HeaderBehind
<1> QED BY <1>5, <1>6, <1>7, <1>8 DEF FileInv

\* DeallocatePage links its page in front of any chain there is in memory.
LEMMA DeallocateStep ==
  ASSUME FileInv, NEW p \in PageId, Deallocate(p)
  PROVE  /\ \A c : ChainIn(c, header, image, allocated)
                     => /\ ChainIn(<<p>> \o c, header', image', allocated')
                        /\ \A i \in 1 .. Len(c) :
                             /\ i + 1 \in 1 .. Len(<<p>> \o c)
                             /\ (<<p>> \o c)[i + 1] = c[i]
         /\ \A d : ChainIn(d, image[0].body, image, allocated)
                     => ChainIn(d, image[0].body, image', allocated')
         /\ pc = "idle" /\ pc' = "dealloc" /\ new_page' = p /\ allocated' = allocated \ {p}
         /\ p \in allocated /\ p # 0 /\ p \in Pages
         /\ header' \in DatabaseHeader /\ header'.page_count = header.page_count
         /\ header'.free_list_head = p
         /\ DOMAIN image' = PageId /\ image'[0] = image[0] /\ image'[p] = FreePage(p)
         /\ \A q \in PageId : q # p => image'[q] = image[q]
<1>1. /\ pc = "idle" /\ pc' = "dealloc" /\ new_page' = p /\ allocated' = allocated \ {p}
      /\ p \in allocated /\ p # 0 /\ p < header.page_count
      /\ image' = [image EXCEPT ![p] = FreePage(p)]
      /\ header' = [header EXCEPT !.free_list_head = p, !.free_page_count = @ + 1]
  BY DEF Deallocate, WritePage, HeadLinked
<1>2. p \in Nat /\ p \in 1 .. header.page_count - 1 /\ p \in Pages
  BY <1>1, MaxPagesAssumption, HeaderTypes DEF PageId, Pages
<1>3. header' = [page_count |-> header.page_count, free_list_head |-> p,
                 free_page_count |-> header.free_page_count + 1]
  BY <1>1, HeaderTypes DEF DatabaseHeader
<1>4. header' \in DatabaseHeader
  BY <1>2, <1>3, HeaderTypes DEF DatabaseHeader
<1>5. /\ image'[0] = image[0] /\ DOMAIN image' = PageId /\ image'[p] = FreePage(p)
      /\ \A q \in PageId : q # p => image'[q] = image[q]
  BY <1>1, HeaderTypes
<1>6. ASSUME NEW c, NEW h \in DatabaseHeader, ChainIn(c, h, image, allocated)
      PROVE  \A i \in 1 .. Len(c) : /\ c[i] # p /\ image'[c[i]].word0 = image[c[i]].word0
                                    /\ c[i] \notin allocated'
  <2> SUFFICES ASSUME NEW i \in 1 .. Len(c)
               PROVE  /\ c[i] # p /\ image'[c[i]].word0 = image[c[i]].word0
                      /\ c[i] \notin allocated'
    OBVIOUS
  <2>1. h.page_count \in Nat
    BY MaxPagesAssumption DEF DatabaseHeader
  <2>2. c[i] \in Pages /\ c[i] \notin allocated
    BY <1>6, <2>1, ChainPages
  <2> QED BY <1>1, <1>5, <2>2, MaxPagesAssumption DEF Pages, PageId
<1>7. ASSUME NEW c, ChainIn(c, header, image, allocated)
      PROVE  /\ ChainIn(<<p>> \o c, header', image', allocated')
             /\ \A i \in 1 .. Len(c) : i + 1 \in 1 .. Len(<<p>> \o c) /\ (<<p>> \o c)[i + 1] = c[i]
  <2>1. p \notin allocated' /\ image'[p].word0 = header.free_list_head
    BY <1>1, <1>5 DEF FreePage
  <2>2. /\ header'.page_count = header.page_count /\ header'.free_list_head = p
        /\ header'.free_page_count = header.free_page_count + 1
    BY <1>3
  <2>3. /\ header.page_count \in Nat
        /\ \A i \in 1 .. Len(c) : /\ c[i] # p /\ image'[c[i]].word0 = image[c[i]].word0
                                 /\ c[i] \notin allocated'
    BY <1>6, <1>7, HeaderTypes
  <2>4. ChainIn(<<p>> \o c, header', image', allocated')
    BY <1>2, <1>7, <2>1, <2>2, <2>3, ChainCons
  <2>5. c \in Seq(Pages)
    BY <1>7 DEF ChainIn
  <2> QED BY <1>2, <2>4, <2>5, ConsAt
<1>8. ASSUME NEW d, ChainIn(d, image[0].body, image, allocated)
      PROVE  ChainIn(d, image[0].body, image', allocated')
  BY <1>6, <1>8, HeaderTypes, ChainStays
<1>9. header'.page_count = header.page_count /\ header'.free_list_head = p
  BY <1>3
<1> QED BY <1>1, <1>2, <1>4, <1>5, <1>7, <1>8, <1>9

LEMMA DeallocateKeeps ==
  ASSUME FileInv, NEW p \in PageId, Deallocate(p)
  PROVE  FileInv'
<1>1. /\ \A c : ChainIn(c, header, image, allocated) => ChainIn(<<p>> \o c, header', image', allocated')
      /\ \A d : ChainIn(d, image[0].body, image, allocated)
                  => ChainIn(d, image[0].body, image', allocated')
  BY DeallocateStep
<1>2. /\ pc = "idle" /\ pc' = "dealloc" /\ new_page' = p /\ allocated' = allocated \ {p}
      /\ p \in allocated /\ p # 0 /\ p \in Pages
      /\ header' \in DatabaseHeader /\ header'.page_count = header.page_count
      /\ header'.free_list_head = p
      /\ DOMAIN image' = PageId /\ image'[0] = image[0] /\ image'[p] = FreePage(p)
      /\ \A q \in PageId : q # p => image'[q] = image[q]
  BY DeallocateStep
<1>3. p \in Nat /\ header.free_list_head \in Nat
  BY HeaderTypes, MaxPagesAssumption DEF PageId, DatabaseHeader
<1>4. TypeOK'
  BY <1>2, <1>3 DEF FileInv, TypeOK, FreePage
<1>5. ChainInMemory' /\ ChainOnDisk'
  BY <1>1, <1>2 DEF FileInv, ChainInMemory, ChainOnDisk
<1> QED BY <1>2, <1>4, <1>5
    DEF FileInv, PageZeroIsHeader, OwnedPagesCounted, NewPageSound, HeaderBehind

\* A call that fails leaves both chains as they are.
LEMMA HeaderWriteThrowsKeeps ==
  ASSUME FileInv, HeaderWriteThrows, "reuse" \notin FailPoints
  PROVE  FileInv'
<1>1. /\ pc # "reuse" /\ pc' = "idle"
      /\ header' = header /\ image' = image /\ new_page' = new_page /\ allocated' = allocated
  BY DEF HeaderWriteThrows
<1>2. TypeOK'
  BY <1>1 DEF FileInv, TypeOK
<1>3. ChainInMemory' /\ ChainOnDisk'
  BY <1>1 DEF FileInv, ChainInMemory, ChainOnDisk
<1> QED BY <1>1, <1>2, <1>3
    DEF FileInv, NewPageSound, PageZeroIsHeader, OwnedPagesCounted, HeaderBehind

\* The next process goes on with the chain on disk.
LEMMA CrashKeeps ==
  ASSUME FileInv, Crash, "reuse" \notin CrashPoints
  PROVE  FileInv'
<1>1. /\ pc # "reuse" /\ pc' = "idle" /\ header' = image[0].body
      /\ image' = image /\ new_page' = new_page /\ allocated' = allocated
  BY DEF Crash, ReadHeader
<1>2. TypeOK'
  BY <1>1, HeaderTypes DEF FileInv, TypeOK
<1>3. ChainInMemory' /\ ChainOnDisk'
  BY <1>1 DEF FileInv, ChainInMemory, ChainOnDisk
<1> QED BY <1>1, <1>2, <1>3, HeaderTypes
    DEF FileInv, NewPageSound, PageZeroIsHeader, OwnedPagesCounted, HeaderBehind

LEMMA NextFileInv ==
  ASSUME "reuse" \notin CrashPoints, "reuse" \notin FailPoints, FileInv, [Next]_vars
  PROVE  FileInv'
<1>1. CASE AllocateReturns
  BY <1>1, HeaderWritten DEF AllocateReturns
<1>2. CASE DeallocateReturns
  BY <1>2, HeaderWritten DEF DeallocateReturns
<1>3. CASE CloseAndReopen
  BY <1>3, HeaderWritten DEF CloseAndReopen
<1>4. CASE UNCHANGED vars
  <2>1. /\ pc' = pc /\ header' = header /\ image' = image
        /\ new_page' = new_page /\ allocated' = allocated
    BY <1>4 DEF vars
  <2>2. TypeOK'
    BY <2>1 DEF FileInv, TypeOK
  <2>3. ChainInMemory' /\ ChainOnDisk'
    BY <2>1 DEF FileInv, ChainInMemory, ChainOnDisk
  <2> QED BY <2>1, <2>2, <2>3
      DEF FileInv, NewPageSound, PageZeroIsHeader, OwnedPagesCounted, HeaderBehind
<1> QED BY <1>1, <1>2, <1>3, <1>4, ClientWritesKeeps, AllocateReuseKeeps, AllocateExtendKeeps,
           DeallocateKeeps, HeaderWriteThrowsKeeps, CrashKeeps DEF Next

-----------------------------------------------------------------------------
(* No page is lost. *)

\* Leaked in terms of ChainIn.
Unreached ==
  {p \in 1 .. header.page_count - 1 :
     /\ p \notin allocated
     /\ pc # "idle" => p # new_page
     /\ \A c : ChainIn(c, header, image, allocated) => \A i \in 1 .. Len(c) : c[i] # p}

LEMMA LeakedIsUnreached == Leaked = Unreached
<1>1. ASSUME NEW c, ChainIn(c, header, image, allocated)
      PROVE  ToSet(c) = {c[i] : i \in 1 .. Len(c)}
  <2>1. DOMAIN c = 1 .. Len(c)
    BY <1>1, LenProperties DEF ChainIn
  <2> QED BY <2>1 DEF ToSet
<1> QED BY <1>1, ChainInIsFreeChain DEF Leaked, Unreached

\* Nothing leaks in a step that takes at most the page x from its owner, from the
\* call or from the chain, if x is not leaked afterwards.
LEMMA NothingMoreLeaked ==
  ASSUME NEW x, x \notin Unreached', header.page_count \in Nat, header'.page_count \in Nat,
         \A p \in 1 .. header'.page_count - 1 : p # x => p < header.page_count,
         allocated \subseteq allocated' \cup {x},
         pc # "idle" => new_page = x,
         \A c : ChainIn(c, header, image, allocated)
                 => \E d : /\ ChainIn(d, header', image', allocated')
                           /\ \A i \in 1 .. Len(c) : c[i] = x \/ \E j \in 1 .. Len(d) : d[j] = c[i]
  PROVE  Leaked' \subseteq Leaked
<1>1. (Leaked = Unreached)'
  BY LeakedIsUnreached, PTL
<1>2. Leaked = Unreached /\ Leaked' = Unreached'
  BY <1>1, LeakedIsUnreached
<1> SUFFICES ASSUME NEW p \in Unreached' PROVE p \in Unreached
  BY <1>2
<1>3. /\ p # x /\ p \in 1 .. header'.page_count - 1 /\ p \notin allocated'
      /\ \A d : ChainIn(d, header', image', allocated') => \A i \in 1 .. Len(d) : d[i] # p
  BY DEF Unreached
<1>4. p \in 1 .. header.page_count - 1 /\ p \notin allocated /\ (pc # "idle" => p # new_page)
  BY <1>3
<1>5. \A c : ChainIn(c, header, image, allocated) => \A i \in 1 .. Len(c) : c[i] # p
  BY <1>3
<1> QED BY <1>4, <1>5 DEF Unreached

LEMMA NextNothingLeaked ==
  ASSUME FileInv, [Next]_vars
  PROVE  [Crash \/ HeaderWriteThrows \/ Leaked' \subseteq Leaked]_vars
<1>1. ASSUME NEW p \in PageId, Deallocate(p) PROVE Leaked' \subseteq Leaked
  <2>1. /\ pc = "idle" /\ pc' # "idle" /\ new_page' = p /\ allocated' = allocated \ {p}
        /\ header'.page_count = header.page_count
    BY <1>1, DeallocateStep
  <2>2. ASSUME NEW c, ChainIn(c, header, image, allocated)
        PROVE  \E d : /\ ChainIn(d, header', image', allocated')
                      /\ \A i \in 1 .. Len(c) : c[i] = p \/ \E j \in 1 .. Len(d) : d[j] = c[i]
    <3>1. /\ ChainIn(<<p>> \o c, header', image', allocated')
          /\ \A i \in 1 .. Len(c) : i + 1 \in 1 .. Len(<<p>> \o c) /\ (<<p>> \o c)[i + 1] = c[i]
      BY <1>1, <2>2, DeallocateStep
    <3> QED BY <3>1
  <2>3. p \notin Unreached'
    BY <2>1 DEF Unreached
  <2>4. /\ header.page_count \in Nat /\ header'.page_count \in Nat
        /\ \A q \in 1 .. header'.page_count - 1 : q # p => q < header.page_count
        /\ allocated \subseteq allocated' \cup {p}
    BY <2>1, HeaderTypes
  <2> QED BY <2>1, <2>2, <2>3, <2>4, NothingMoreLeaked
<1>2. ASSUME NEW p \in PageId, NEW v \in Values, ClientWrites(p, v)
      PROVE  Leaked' \subseteq Leaked
  <2>1. /\ pc = "idle" /\ allocated' = allocated /\ header' = header
        /\ \A c : ChainIn(c, header, image, allocated) => ChainIn(c, header', image', allocated')
    BY <1>2, ClientWritesStep, HeaderTypes
  <2>2. 0 \notin Unreached'
    BY DEF Unreached
  <2> QED BY <2>1, <2>2, HeaderTypes, NothingMoreLeaked
<1>3. ASSUME AllocateReuse PROVE Leaked' \subseteq Leaked
  <2>1. PICK c : ChainIn(c, header, image, allocated)
    BY DEF FileInv, ChainInMemory
  <2>2. /\ pc = "idle" /\ pc' # "idle" /\ allocated' = allocated
        /\ header'.page_count = header.page_count
    BY <1>3, <2>1, ReuseStep
  <2>3. ASSUME NEW d, ChainIn(d, header, image, allocated)
        PROVE  \E e : /\ ChainIn(e, header', image', allocated')
                      /\ \A i \in 1 .. Len(d) :
                           d[i] = new_page' \/ \E j \in 1 .. Len(e) : e[j] = d[i]
    <3>1. /\ ChainIn(Tail(d), header', image', allocated')
          /\ \A i \in 1 .. Len(d) :
               d[i] # new_page' => \E j \in 1 .. Len(Tail(d)) : Tail(d)[j] = d[i]
      BY <1>3, <2>3, ReuseStep
    <3> QED BY <3>1
  <2>4. new_page' \notin Unreached'
    BY <2>2 DEF Unreached
  <2> QED BY <2>2, <2>3, <2>4, HeaderTypes, NothingMoreLeaked
<1>4. ASSUME AllocateExtend PROVE Leaked' \subseteq Leaked
  <2>1. /\ pc = "idle" /\ pc' # "idle" /\ allocated' = allocated
        /\ new_page' = header.page_count /\ header'.page_count = header.page_count + 1
        /\ \A c : ChainIn(c, header, image, allocated) => ChainIn(c, header', image', allocated')
    BY <1>4, ExtendStep
  <2>2. new_page' \notin Unreached'
    BY <2>1 DEF Unreached
  <2>3. \A p \in 1 .. header'.page_count - 1 : p # new_page' => p < header.page_count
    BY <2>1, HeaderTypes
  <2> QED BY <2>1, <2>2, <2>3, HeaderTypes, NothingMoreLeaked
<1>5. ASSUME AllocateReturns PROVE Leaked' \subseteq Leaked
  <2>1. /\ header' = header /\ allocated' = allocated \cup {new_page}
        /\ \A c : ChainIn(c, header, image, allocated) => ChainIn(c, header', image', allocated')
    BY <1>5, HeaderStep DEF AllocateReturns
  <2>2. new_page \notin Unreached'
    BY <2>1 DEF Unreached
  <2>3. /\ header.page_count \in Nat /\ header'.page_count \in Nat
        /\ \A q \in 1 .. header'.page_count - 1 : q < header.page_count
        /\ allocated \subseteq allocated' \cup {new_page}
    BY <2>1, HeaderTypes
  <2> QED BY <2>1, <2>2, <2>3, NothingMoreLeaked
<1>6. ASSUME DeallocateReturns PROVE Leaked' \subseteq Leaked
  <2>1. /\ header' = header /\ allocated' = allocated /\ header.free_list_head = new_page
        /\ \A c : ChainIn(c, header, image, allocated) => ChainIn(c, header', image', allocated')
    BY <1>6, HeaderStep DEF DeallocateReturns, FileInv, NewPageSound
  <2>2. PICK c : ChainIn(c, header, image, allocated)
    BY DEF FileInv, ChainInMemory
  <2>3. CASE header.free_list_head = INVALID_PAGE_ID
    <3>1. new_page \notin Unreached'
      BY <2>1, <2>3, HeaderTypes, MaxPagesAssumption DEF Unreached, INVALID_PAGE_ID
    <3> QED BY <2>1, <3>1, HeaderTypes, NothingMoreLeaked
  <2>4. CASE header.free_list_head # INVALID_PAGE_ID
    <3>1. 1 \in 1 .. Len(c) /\ c[1] = new_page
      BY <2>1, <2>2, <2>4, ChainPages, HeaderTypes
    <3>2. new_page \notin Unreached'
      BY <2>1, <2>2, <3>1 DEF Unreached
    <3> QED BY <2>1, <3>2, HeaderTypes, NothingMoreLeaked
  <2> QED BY <2>3, <2>4
<1>7. ASSUME CloseAndReopen PROVE Leaked' \subseteq Leaked
  <2>1. /\ pc = "idle" /\ header' = header /\ allocated' = allocated
        /\ \A c : ChainIn(c, header, image, allocated) => ChainIn(c, header', image', allocated')
    BY <1>7, HeaderStep DEF CloseAndReopen
  <2>2. 0 \notin Unreached'
    BY DEF Unreached
  <2> QED BY <2>1, <2>2, HeaderTypes, NothingMoreLeaked
<1> QED BY <1>1, <1>2, <1>3, <1>4, <1>5, <1>6, <1>7 DEF Next

-----------------------------------------------------------------------------
(* Every step is one of the allocator's, or none. *)

LEMMA InitAllocates == Init => Allocator!Init
BY MaxPagesAssumption DEF Init, Allocator!Init, Pages, PageId

\* A step is none of the allocator's if no owner and no owned page changes.
LEMMA AllocatorStutters ==
  ASSUME allocated' = allocated, \A p \in Pages : p \in allocated => image'[p].body = image[p].body
  PROVE  UNCHANGED Allocator!vars
BY DEF Allocator!vars

\* Owned pages are pages of data behind no header.
LEMMA OwnedPages ==
  ASSUME FileInv, NEW p \in allocated
  PROVE  p \in Pages /\ p \in PageId /\ p # 0 /\ p < header.page_count
<1>1. p \in PageId /\ p # 0
  BY HeaderTypes DEF FileInv, TypeOK
<1>2. p \in Pages /\ p \in Nat
  BY <1>1, MaxPagesAssumption DEF PageId, Pages
<1> QED BY <1>1, <1>2, HeaderTypes DEF FileInv, OwnedPagesCounted, HeaderBehind

LEMMA NextAllocates ==
  ASSUME FileInv, [Next]_vars
  PROVE  [Allocator!Next]_(Allocator!vars)
<1>1. ASSUME NEW p \in PageId, Deallocate(p) PROVE Allocator!Deallocate(p) /\ p \in Pages
  <2>1. /\ allocated' = allocated \ {p} /\ p \in allocated /\ p \in Pages
        /\ \A q \in PageId : q # p => image'[q] = image[q]
    BY <1>1, DeallocateStep
  <2>2. \A q \in Pages : q # p => image'[q] = image[q]
    BY <2>1, MaxPagesAssumption DEF Pages, PageId
  <2> QED BY <2>1, <2>2 DEF Allocator!Deallocate
<1>2. ASSUME NEW p \in PageId, NEW v \in Values, ClientWrites(p, v)
      PROVE  Allocator!Write(p, v) /\ p \in Pages
  <2>1. /\ allocated' = allocated /\ p \in allocated /\ p \in Pages
        /\ image'[p] = [word0 |-> p, body |-> v]
        /\ \A q \in PageId : q # p => image'[q] = image[q]
    BY <1>2, ClientWritesStep
  <2>2. image'[p].body = v /\ \A q \in Pages : q # p => image'[q] = image[q]
    BY <2>1, MaxPagesAssumption DEF Pages, PageId
  <2> QED BY <2>1, <2>2 DEF Allocator!Write
<1>3. ASSUME AllocateReuse PROVE UNCHANGED Allocator!vars
  <2>1. PICK c : ChainIn(c, header, image, allocated)
    BY DEF FileInv, ChainInMemory
  <2>2. /\ allocated' = allocated /\ new_page' \notin allocated
        /\ \A q \in PageId : q # new_page' => image'[q] = image[q]
    BY <1>3, <2>1, ReuseStep
  <2> QED BY <2>2, OwnedPages, AllocatorStutters
<1>4. ASSUME AllocateExtend PROVE UNCHANGED Allocator!vars
  <2>1. /\ allocated' = allocated /\ new_page' = header.page_count
        /\ \A q \in PageId : q # new_page' => image'[q] = image[q]
    BY <1>4, ExtendStep
  <2>2. \A q \in allocated : q # new_page' /\ q \in PageId
    BY <2>1, OwnedPages, HeaderTypes
  <2> QED BY <2>1, <2>2, AllocatorStutters
<1>5. ASSUME AllocateReturns PROVE Allocator!Allocate(new_page) /\ new_page \in Pages
  <2>1. /\ allocated' = allocated \cup {new_page} /\ new_page \notin allocated
        /\ image[new_page].body = Zero
    BY <1>5 DEF AllocateReturns, FileInv, NewPageSound, ZeroPage
  <2>2. new_page \in Pages
    BY <1>5, HeaderTypes, MaxPagesAssumption DEF AllocateReturns, FileInv, NewPageSound, Pages
  <2>3. \A q \in PageId : q # 0 => image'[q] = image[q]
    BY <1>5, HeaderStep DEF AllocateReturns
  <2>4. \A q \in Pages : image'[q] = image[q]
    BY <2>3, MaxPagesAssumption DEF Pages, PageId
  <2> QED BY <2>1, <2>2, <2>4 DEF Allocator!Allocate
<1>6. ASSUME DeallocateReturns \/ CloseAndReopen PROVE UNCHANGED Allocator!vars
  <2>1. allocated' = allocated /\ \A q \in PageId : q # 0 => image'[q] = image[q]
    BY <1>6, HeaderStep DEF DeallocateReturns, CloseAndReopen
  <2> QED BY <2>1, OwnedPages, AllocatorStutters
<1>7. ASSUME HeaderWriteThrows \/ Crash \/ UNCHANGED vars PROVE UNCHANGED Allocator!vars
  <2>1. allocated' = allocated /\ image' = image
    BY <1>7 DEF HeaderWriteThrows, Crash, vars
  <2> QED BY <2>1, AllocatorStutters
<1> QED BY <1>1, <1>2, <1>3, <1>4, <1>5, <1>6, <1>7 DEF Next, Allocator!Next

-----------------------------------------------------------------------------
(* What follows from the invariant. *)

LEMMA SpecFileInv ==
  ASSUME "reuse" \notin CrashPoints, "reuse" \notin FailPoints
  PROVE  Spec => []FileInv
BY InitFileInv, NextFileInv, PTL DEF Spec

\* Whatever sequence of calls, failures and crashes, header, file and owners stay in
\* their types; in particular no page is overwritten that holds the header.
THEOREM TypeCorrect ==
  ASSUME "reuse" \notin CrashPoints, "reuse" \notin FailPoints
  PROVE  Spec => []TypeOK
<1>1. FileInv => TypeOK
  BY DEF FileInv
<1> QED BY <1>1, SpecFileInv, PTL

\* disk_manager.h:35, for files of every size: the free list AllocatePage takes pages
\* from is a chain of distinct pages that ends, that nobody owns and that is counted.
THEOREM FreeListSound ==
  ASSUME "reuse" \notin CrashPoints, "reuse" \notin FailPoints
  PROVE  Spec => []FreeChainSound
<1>1. FileInv => FreeChainSound
  BY ChainInIsFreeChain DEF FileInv, ChainInMemory, FreeChainSound
<1> QED BY <1>1, SpecFileInv, PTL

\* A process that dies between any two writes of a call, but for the two of a reuse,
\* leaves a header and a chain the next one can go on with.
THEOREM RestartSound ==
  ASSUME "reuse" \notin CrashPoints, "reuse" \notin FailPoints
  PROVE  Spec => []RestartChainSound
<1>1. FileInv => RestartChainSound
  BY ChainInIsFreeChain DEF FileInv, ChainOnDisk, RestartChainSound
<1> QED BY <1>1, SpecFileInv, PTL

\* No page of a file of any size gets lost: what the file holds beyond its header is
\* owned, in the chain or in a call's hands, unless a process died or failed to write
\* the header in mid-call.
THEOREM NothingLeaked ==
  ASSUME "reuse" \notin CrashPoints, "reuse" \notin FailPoints
  PROVE  Spec => NoPageLeaked
BY SpecFileInv, NextNothingLeaked, PTL DEF Spec, NoPageLeaked

\* The disk manager implements PageAllocator, through every reuse, failure, restart
\* and crash: AllocatePage hands out zeroed pages nobody owns, and what an owner wrote
\* stays there.
THEOREM DiskIsAllocator ==
  ASSUME "reuse" \notin CrashPoints, "reuse" \notin FailPoints
  PROVE  Spec => AllocatorSpec
<1>1. Spec => Allocator!Init /\ [][Allocator!Next]_(Allocator!vars)
  BY InitAllocates, SpecFileInv, NextAllocates, PTL DEF Spec
<1> QED BY <1>1 DEF AllocatorSpec, Allocator!Spec

=============================================================================
