----------------------------- MODULE MCExecutor -----------------------------
(***************************************************************************)
(* Model-checking instance of Executor.  The name of a record is its key.  *)
(***************************************************************************)
EXTENDS Executor

Query(source, low, high, keep, op, limit) ==
  [source |-> source, low |-> low, high |-> high, keep |-> keep, op |-> op, limit |-> limit]

\* Every operator above a table scan, and the two that stream and one that does not
\* above an index scan.
MCPlans ==
  {Query("table", 0, 0, {1, 2}, "none", 0),  Query("table", 0, 0, {2}, "limit", 1),
   Query("table", 0, 0, {1, 2}, "sort", 0),  Query("table", 0, 0, {1, 2}, "topn", 2),
   Query("table", 0, 0, {1, 2}, "aggregate", 0),
   Query("index", 1, 2, {1, 2}, "none", 0),  Query("index", 1, 1, {1, 2}, "limit", 1),
   Query("index", 1, 2, {2}, "sort", 0)}
=============================================================================
