------------------------------ MODULE PageStore ------------------------------
(***************************************************************************)
(* What the buffer pool promises its clients: one coherent copy of every   *)
(* page.  Whoever opens a page sees the last value anyone wrote to it,     *)
(* whatever the pool cached, evicted, re-read or flushed meanwhile.        *)
(*                                                                         *)
(* A holder is one outstanding Page* (a pin).  `store` is the value a      *)
(* client sees, `durable` the value left in the database file should the   *)
(* process die.  The pool may copy a page from store to durable whenever   *)
(* it likes (eviction), so every step lets any set of pages become         *)
(* durable; a crash takes every page back to its durable value.            *)
(***************************************************************************)
CONSTANTS Pages,    \* identifiers of data pages
          Holders,  \* outstanding page pointers
          Values,   \* what a client can write to a page
          Empty,    \* a freshly formatted page
          Zero,     \* an all-zero page, as the disk manager leaves it
          NoPage    \* a holder that holds nothing

VARIABLES live, store, durable, open

vars == <<live, store, durable, open>>

Content == Values \cup {Empty, Zero}

Init ==
  /\ live = {}
  /\ store = [p \in Pages |-> Zero]
  /\ durable = [p \in Pages |-> Zero]
  /\ open = [h \in Holders |-> NoPage]

\* Some pages, possibly none, have been written back; those outside `changed`
\* only ever move from their durable value to their current one.
WrittenBack(changed) ==
  /\ durable' \in [Pages -> Content]
  /\ \A p \in Pages \ changed : durable'[p] \in {durable[p], store[p]}

Create(h, p) ==
  /\ open[h] = NoPage
  /\ p \notin live
  /\ live' = live \cup {p}
  /\ open' = [open EXCEPT ![h] = p]
  /\ store' = [store EXCEPT ![p] = Empty]
  /\ WrittenBack({p})
  /\ durable'[p] = Zero

Open(h, p) ==
  /\ open[h] = NoPage
  /\ p \in live
  /\ open' = [open EXCEPT ![h] = p]
  /\ WrittenBack({})
  /\ UNCHANGED <<live, store>>

Write(h, v) ==
  /\ open[h] # NoPage
  /\ store' = [store EXCEPT ![open[h]] = v]
  /\ UNCHANGED <<live, durable, open>>

Close(h) ==
  /\ open[h] # NoPage
  /\ open' = [open EXCEPT ![h] = NoPage]
  /\ UNCHANGED <<live, store, durable>>

Remove(p) ==
  /\ p \in live
  /\ \A h \in Holders : open[h] # p
  /\ live' = live \ {p}
  /\ store' = [store EXCEPT ![p] = Zero]
  /\ durable' = [durable EXCEPT ![p] = Zero]
  /\ UNCHANGED open

\* A flush, a checkpoint, or a write-back that serves an operation which fails.
WriteBack ==
  /\ WrittenBack({})
  /\ UNCHANGED <<live, store, open>>

Crash ==
  /\ store' = durable
  /\ open' = [h \in Holders |-> NoPage]
  /\ UNCHANGED <<live, durable>>

Next ==
  \/ \E h \in Holders, p \in Pages : Create(h, p) \/ Open(h, p)
  \/ \E h \in Holders, v \in Values : Write(h, v)
  \/ \E h \in Holders : Close(h)
  \/ \E p \in Pages : Remove(p)
  \/ WriteBack
  \/ Crash

Spec == Init /\ [][Next]_vars
==============================================================================
