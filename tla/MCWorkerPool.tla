---------------------------- MODULE MCWorkerPool ----------------------------
(***************************************************************************)
(* WorkerPool on a small instance.  The three operations are a fetch, a    *)
(* bcrypt comparison (whose promise never rejects) and a database query.   *)
(***************************************************************************)
EXTENDS WorkerPool, TLC

CONSTANTS c1, c2, t1, t2, t3

MCCalls == {c1, c2}
MCTasks == {t1, t2, t3}
MCKindOf == (t1 :> "fetch") @@ (t2 :> "check") @@ (t3 :> "query")
=============================================================================
