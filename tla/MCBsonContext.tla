---------------------------- MODULE MCBsonContext ----------------------------
(***************************************************************************)
(* Two threads of process 1, and a child it may fork.  Bytes have two       *)
(* values, and of a counter an ObjectID keeps one: it comes round after     *)
(* two.  4 and 6 are task numbers with more than two digits, and the two    *)
(* that are kept of 4 are zero.                                             *)
(***************************************************************************)
EXTENDS BsonContext

TwoThreads == {4, 6}
OneChild == {7}

\* The default context; one of each thread; one that its thread has alone, or shares.
AllPlans ==
  {[c \in {Default} |-> DefaultFlags],
   [c \in TwoThreads |-> {"USE_TASK_ID"}],
   [c \in {6} |-> {"USE_TASK_ID"}],
   [c \in {6} |-> {"THREAD_SAFE", "DISABLE_PID_CACHE", "DISABLE_HOST_CACHE"}]}

\* One of each of two contexts, and of a single one three.
OidsOf == [p \in AllPlans |-> IF Cardinality(DOMAIN p) = 2 THEN 2 ELSE 3]
=============================================================================
