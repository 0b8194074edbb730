---------------------------- MODULE OrderedIndex ----------------------------
(***************************************************************************)
(* What an index promises: a set of entries, each a key and a record id,   *)
(* that inserts and deletes change one at a time, and searches by key and  *)
(* by range of keys.                                                       *)
(***************************************************************************)
EXTENDS Integers

CONSTANTS Keys, RIDs

VARIABLE entries

Insert(key, rid) == entries' = entries \cup {<<key, rid>>}

Delete(key, rid) == entries' = entries \ {<<key, rid>>}

Found(key) == {rid \in RIDs : <<key, rid>> \in entries}

InRange(low, high) == {e \in entries : low <= e[1] /\ e[1] <= high}

Init == entries = {}

Next == \E key \in Keys, rid \in RIDs : Insert(key, rid) \/ Delete(key, rid)

Spec == Init /\ [][Next]_entries
=============================================================================
