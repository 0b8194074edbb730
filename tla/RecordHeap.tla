------------------------------ MODULE RecordHeap ------------------------------
(***************************************************************************)
(* What a heap file promises: records under ids (RIDs) that stay theirs.   *)
(* Inserting gives a record an id nobody has, one by one or several at     *)
(* once; updating leaves it where it is or gives it another such id.       *)
(***************************************************************************)
CONSTANTS RIDs, Records

VARIABLE recs        \* recs[rid] is the record with that id

Only(f, S) == [x \in S |-> f[x]]

Init == recs = <<>>

Insert ==
  /\ DOMAIN recs' \subseteq RIDs /\ \A rid \in DOMAIN recs' : recs'[rid] \in Records
  /\ DOMAIN recs \subseteq DOMAIN recs' /\ Only(recs', DOMAIN recs) = recs

Delete(rid) ==
  recs' = Only(recs, DOMAIN recs \ {rid})

Update(rid, r) ==
  LET others == DOMAIN recs \ {rid}
  IN  \E new \in DOMAIN recs' \cap RIDs :
        new \notin others /\ recs' = [x \in others \cup {new} |-> IF x = new THEN r ELSE recs[x]]

Next ==
  \/ Insert
  \/ \E rid \in DOMAIN recs : Delete(rid) \/ \E r \in Records : Update(rid, r)

Spec == Init /\ [][Next]_recs
==============================================================================
