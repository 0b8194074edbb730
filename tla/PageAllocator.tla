---------------------------- MODULE PageAllocator ----------------------------
(***************************************************************************)
(* What the disk manager promises its one client: AllocatePage hands out a *)
(* zeroed page that nobody owns, and what is written to a page stays there *)
(* until its owner writes it again or gives it up -- across restarts and   *)
(* process crashes, which are therefore no step at all here.               *)
(***************************************************************************)
CONSTANTS Pages, Values, Zero

VARIABLES owned, content

vars == <<owned, content>>

Init ==
  /\ owned = {}
  /\ content = [p \in Pages |-> Zero]

Allocate(p) ==
  /\ p \in Pages \ owned
  /\ owned' = owned \cup {p}
  /\ UNCHANGED content

Write(p, v) ==
  /\ p \in owned
  /\ content' = [content EXCEPT ![p] = v]
  /\ UNCHANGED owned

Deallocate(p) ==
  /\ p \in owned
  /\ owned' = owned \ {p}
  /\ content' = [content EXCEPT ![p] = Zero]

Next ==
  \E p \in Pages : Allocate(p) \/ Deallocate(p) \/ \E v \in Values : Write(p, v)

Spec == Init /\ [][Next]_vars
==============================================================================
