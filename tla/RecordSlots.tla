----------------------------- MODULE RecordSlots -----------------------------
(***************************************************************************)
(* What a slotted page promises: a numbered list of slots, each empty or   *)
(* holding one record.  A slot keeps its number and its record until the   *)
(* record is deleted or updated; the page may refuse for lack of room, and *)
(* moving records about, saving the page and loading it are invisible.     *)
(***************************************************************************)
EXTENDS Naturals, Sequences

CONSTANTS Records, NoRecord

VARIABLE slot       \* slot[i] is the record in slot i - 1, or NoRecord

Init == slot = <<>>

\* The first empty slot is used before a new one is added.
Insert(r) ==
  \/ \E i \in DOMAIN slot :
       /\ slot[i] = NoRecord /\ \A j \in 1 .. i - 1 : slot[j] # NoRecord
       /\ slot' = [slot EXCEPT ![i] = r]
  \/ /\ \A i \in DOMAIN slot : slot[i] # NoRecord
     /\ slot' = Append(slot, r)

Update(i, r) ==
  /\ slot[i] # NoRecord
  /\ slot' = [slot EXCEPT ![i] = r]

Delete(i) ==
  /\ slot[i] # NoRecord
  /\ slot' = [slot EXCEPT ![i] = NoRecord]

Next ==
  \/ \E r \in Records : Insert(r) \/ \E i \in DOMAIN slot : Update(i, r)
  \/ \E i \in DOMAIN slot : Delete(i)

Spec == Init /\ [][Next]_slot
==============================================================================
