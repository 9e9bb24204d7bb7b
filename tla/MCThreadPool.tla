----------------------------- MODULE MCThreadPool -----------------------------
(* Instances of ThreadPool: the first task passes the last one to run().   *)
EXTENDS ThreadPool

CONSTANTS t1, t2, t3, t4

Nested == [t \in Tasks |-> IF t = t1 THEN t4 ELSE NoTask]
=============================================================================
