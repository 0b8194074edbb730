---------------------------- MODULE AppendOnlyLog ----------------------------
(***************************************************************************)
(* What recovery needs of the write-ahead log: records are only added at   *)
(* the end, a crash keeps a prefix of them, and that prefix contains       *)
(* everything that was forced.                                             *)
(***************************************************************************)
EXTENDS Naturals, Sequences

CONSTANT Records

VARIABLES records,  \* the log as a reader that starts now would see it
          forced    \* how many of its records no crash can lose

vars == <<records, forced>>

Init == records = <<>> /\ forced = 0

AppendRecord ==
  /\ \E r \in Records : records' = Append(records, r)
  /\ UNCHANGED forced

Force ==
  /\ forced' = Len(records)
  /\ UNCHANGED records

\* What comes back after a power loss is what had reached stable storage.
Crash ==
  \E n \in forced .. Len(records) :
    /\ records' = SubSeq(records, 1, n)
    /\ forced' \in {forced, n}

Truncate == records' = <<>> /\ forced' = 0

Next == AppendRecord \/ Force \/ Crash \/ Truncate

Spec == Init /\ [][Next]_vars
==============================================================================
