----------------------------- MODULE DiskManager -----------------------------
(***************************************************************************)
(* DiskManager: the database file, the header it caches in memory, and the *)
(* chain of free pages threaded through the file.                          *)
(*                                                                         *)
(* AllocatePage and DeallocatePage write the file twice, first the page    *)
(* and then the header.  Each pwrite is a step, because a process may die  *)
(* between the two; the memory it updates in passing is updated with the   *)
(* first.  A page image is its first four bytes (word0), which hold the    *)
(* page id of a formatted page, the link of a free one, MAGIC in page 0    *)
(* and 0 in a zeroed page, and the body that follows.                      *)
(*                                                                         *)
(* Crashes are those of the process: what was pwritten stays.              *)
(*                                                                         *)
(* The operators named Mut... are deliberate mistakes, each a variant of   *)
(* the definition that follows it; no definition uses them.                *)
(***************************************************************************)
EXTENDS Integers, FiniteSets, SequencesExt

CONSTANTS MaxPages,        \* bound: data pages the file may grow to
          Values,          \* bodies of formatted pages
          Zero,            \* a body of zero bytes
          CrashPoints,     \* the values of pc at which the process may die
          FailPoints       \* the values of pc at which WriteHeader may fail

Pages           == 1 .. MaxPages
PageId          == 0 .. MaxPages
INVALID_PAGE_ID == MaxPages + 1     \* 0xFFFFFFFF, beyond every page id
MAGIC           == MaxPages + 2     \* "COUR", beyond every page id too

ASSUME MaxPagesAssumption == MaxPages \in Nat
ASSUME PointsAssumption ==
  /\ CrashPoints \subseteq {"idle", "reuse", "extend", "dealloc"}
  /\ FailPoints \subseteq {"reuse", "extend", "dealloc"}

VARIABLES header,       \* header_, the copy in memory
          image,        \* the database file, page by page
          pc, new_page, \* how far the call in progress is, and its page
          allocated     \* pages AllocatePage returned and nobody gave back

vars == <<header, image, pc, new_page, allocated>>

DatabaseHeader == [page_count : 1 .. MaxPages + 1, free_list_head : Nat, free_page_count : Int]
NewHeader      == [page_count |-> 1, free_list_head |-> INVALID_PAGE_ID, free_page_count |-> 0]
ZeroPage       == [word0 |-> 0, body |-> Zero]
HeaderPage(h)  == [word0 |-> MAGIC, body |-> h]

\* Every variable stays in its type.
TypeOK ==
  /\ header \in DatabaseHeader
  /\ DOMAIN image = PageId
  /\ \A p \in PageId : /\ image[p].word0 \in Nat
                       /\ image[p].body \in IF p = 0 THEN DatabaseHeader ELSE Values \cup {Zero}
  /\ pc \in {"idle", "reuse", "extend", "dealloc"}
  /\ new_page \in Nat
  /\ allocated \in SUBSET PageId

-----------------------------------------------------------------------------
(* Page I/O: out-of-range pages are refused. *)

WritePage(p, img) ==
  image' = IF p < header.page_count THEN [image EXCEPT ![p] = img] ELSE image

\* A client formats and writes pages it owns.
ClientWrites(p, v) ==
  /\ pc = "idle" /\ p \in allocated
  /\ WritePage(p, [word0 |-> p, body |-> v])
  /\ UNCHANGED <<header, pc, new_page, allocated>>

-----------------------------------------------------------------------------
(* AllocatePage. *)

MutHeadStays == [header EXCEPT !.free_page_count = @ - 1]
HeadUnlinked ==
  LET p == header.free_list_head
  IN  IF p < header.page_count
      THEN [header EXCEPT !.free_list_head = image[p].word0, !.free_page_count = @ - 1]
      ELSE header

\* The head of the free list: its link is read, then it is overwritten.
AllocateReuse ==
  /\ pc = "idle" /\ header.free_list_head # INVALID_PAGE_ID
  /\ header' = HeadUnlinked
  /\ WritePage(header.free_list_head, ZeroPage)
  /\ new_page' = header.free_list_head
  /\ pc' = "reuse"
  /\ UNCHANGED allocated

Extended == header.page_count + 1

\* The file grows by a page of zeros, which the header does not count yet.
AllocateExtend ==
  /\ pc = "idle" /\ header.free_list_head = INVALID_PAGE_ID
  /\ header.page_count <= MaxPages
  /\ header' = [header EXCEPT !.page_count = Extended]
  /\ image' = [image EXCEPT ![header.page_count] = ZeroPage]
  /\ new_page' = header.page_count
  /\ pc' = "extend"
  /\ UNCHANGED allocated

MutHeaderKept == image' = image
WriteHeader == image' = [image EXCEPT ![0] = HeaderPage(header)]

AllocateReturns ==
  /\ pc \in {"reuse", "extend"}
  /\ WriteHeader
  /\ allocated' = allocated \cup {new_page}
  /\ pc' = "idle"
  /\ UNCHANGED <<header, new_page>>

-----------------------------------------------------------------------------
(* DeallocatePage, of a page its owner gives up. *)

MutZeroEndsChain(p) ==
  [word0 |-> IF header.free_list_head = INVALID_PAGE_ID THEN 0 ELSE header.free_list_head,
   body  |-> Zero]
MutLinkLost(p) == [word0 |-> INVALID_PAGE_ID, body |-> Zero]
FreePage(p) == [word0 |-> header.free_list_head, body |-> Zero]

MutCountForgotten(p) == [header EXCEPT !.free_list_head = p]
HeadLinked(p) == [header EXCEPT !.free_list_head = p, !.free_page_count = @ + 1]

Deallocate(p) ==
  /\ pc = "idle" /\ p \in allocated
  /\ p # 0 /\ p < header.page_count
  /\ WritePage(p, FreePage(p))
  /\ header' = HeadLinked(p)
  /\ allocated' = allocated \ {p}
  /\ new_page' = p
  /\ pc' = "dealloc"

DeallocateReturns ==
  /\ pc = "dealloc"
  /\ WriteHeader
  /\ pc' = "idle"
  /\ UNCHANGED <<header, new_page, allocated>>

\* WriteHeader throws: the file keeps the old header, memory the new one, and
\* the page of an allocation goes to nobody.
HeaderWriteThrows ==
  /\ pc \in FailPoints
  /\ pc' = "idle"
  /\ UNCHANGED <<header, image, new_page, allocated>>

-----------------------------------------------------------------------------
(* Opening, closing and dying. *)

\* The destructor writes the header, the constructor reads it back.
CloseAndReopen ==
  /\ pc = "idle"
  /\ WriteHeader
  /\ UNCHANGED <<header, pc, new_page, allocated>>

MutForgetsFreeList == [image[0].body EXCEPT !.free_list_head = INVALID_PAGE_ID]
ReadHeader == image[0].body

\* The process dies and the next one opens the file.
Crash ==
  /\ pc \in CrashPoints
  /\ image[0].word0 = MAGIC
  /\ header' = ReadHeader
  /\ pc' = "idle"
  /\ UNCHANGED <<image, new_page, allocated>>

-----------------------------------------------------------------------------
\* InitializeNewFile has written the header of an empty database.
Init ==
  /\ header = NewHeader
  /\ image = [p \in PageId |-> IF p = 0 THEN HeaderPage(NewHeader) ELSE ZeroPage]
  /\ pc = "idle"
  /\ new_page = 0
  /\ allocated = {}

Next ==
  \/ \E p \in PageId : Deallocate(p) \/ \E v \in Values : ClientWrites(p, v)
  \/ AllocateReuse \/ AllocateExtend \/ AllocateReturns
  \/ DeallocateReturns \/ HeaderWriteThrows
  \/ CloseAndReopen \/ Crash

Spec == Init /\ [][Next]_vars

-----------------------------------------------------------------------------
(* Properties. *)

\* disk_manager.h:27, "Page 0 is always the header/metadata page": it is never
\* overwritten by a page of data and never handed out.
PageZeroIsHeader ==
  /\ image[0].word0 = MAGIC
  /\ 0 \notin allocated

\* The pages c are linked in this order from the header h, none of them twice,
\* none of them owned, and h counts them.
IsFreeChain(c, h) ==
  /\ Len(c) = h.free_page_count
  /\ h.free_list_head = IF c = <<>> THEN INVALID_PAGE_ID ELSE c[1]
  /\ \A i \in DOMAIN c : /\ c[i] \in (1 .. h.page_count - 1) \ allocated
                         /\ image[c[i]].word0 = IF i = Len(c) THEN INVALID_PAGE_ID ELSE c[i + 1]
  /\ \A i, j \in DOMAIN c : c[i] = c[j] => i = j

Chains == SeqOf(Pages, MaxPages)

\* disk_manager.h:35, "Free pages form a singly-linked list via their first 4
\* bytes": the chain the running process follows ends, and AllocatePage can only
\* take from it a page that nobody owns.
FreeChainSound == \E c \in Chains : IsFreeChain(c, header)

\* Every page AllocatePage has returned is one the header on disk already counts.
OwnedPagesCounted == \A p \in allocated : p < image[0].body.page_count

\* The same of the chain a new process would read back, between any two writes of
\* a call: a crash there neither gives away an owned page nor loses count, and finds
\* a header in page 0 that counts every page that is owned.
RestartChainSound ==
  /\ PageZeroIsHeader /\ OwnedPagesCounted
  /\ pc # "reuse" => \E c \in Chains : IsFreeChain(c, image[0].body)

\* The pages of the file that are neither owned, nor free, nor in a call's hands.
Leaked == {p \in 1 .. header.page_count - 1 :
             /\ p \notin allocated
             /\ pc # "idle" => p # new_page
             /\ \A c \in Chains : IsFreeChain(c, header) => p \notin ToSet(c)}

\* No page is lost to the database, however pages are given back and taken again,
\* unless the process dies or the header cannot be written in mid-call.
NoPageLeaked == [][Crash \/ HeaderWriteThrows \/ Leaked' \subseteq Leaked]_vars

-----------------------------------------------------------------------------
Allocator == INSTANCE PageAllocator WITH
  owned   <- allocated,
  content <- [p \in Pages |-> IF p \in allocated THEN image[p].body ELSE Zero]

\* The disk manager hands out zeroed pages that nobody owns and keeps what was
\* written to them through every reuse, restart and crash.
AllocatorSpec == Allocator!Spec
==============================================================================
