------------------------------ MODULE AsyncOps ------------------------------
(***************************************************************************)
(* What the asynchronous part of the script API promises to a script       *)
(* (http.fetch, gzip.*, crypto.bcrypt.*, db.exec / query / queryRow): a    *)
(* call that succeeds yields a pending promise, its job runs off the       *)
(* script's thread, at most Limit jobs run at a time, and the promise is   *)
(* settled once, after the job has ended.  How slots, condition variable,  *)
(* threads and the isolate's lock achieve this is the business of          *)
(* WorkerPool, which is shown to implement this specification.             *)
(***************************************************************************)
EXTENDS Naturals, FiniteSets

CONSTANTS Tasks,   \* the asynchronous operations scripts may start
          Limit    \* how many jobs may run at the same time

VARIABLES promise, \* promise[t]: what the script sees of operation t
          running  \* the operations whose job is being executed

vars == <<promise, running>>

Settled == {"resolved", "rejected"}

TypeOK == /\ promise \in [Tasks -> {"none", "pending"} \cup Settled]
          /\ running \subseteq Tasks

Init == /\ promise = [t \in Tasks |-> "none"]
        /\ running = {}

Start(t) == /\ promise[t] = "none"
            /\ Cardinality(running) < Limit
            /\ promise' = [promise EXCEPT ![t] = "pending"]
            /\ running' = running \cup {t}

Finish(t) == /\ t \in running
             /\ running' = running \ {t}
             /\ UNCHANGED promise

Settle(t) == /\ promise[t] = "pending"
             /\ t \notin running
             /\ \E outcome \in Settled : promise' = [promise EXCEPT ![t] = outcome]
             /\ UNCHANGED running

Next == \E t \in Tasks : Start(t) \/ Finish(t) \/ Settle(t)

Spec == Init /\ [][Next]_vars

FairSpec == Spec /\ \A t \in Tasks : WF_vars(Finish(t)) /\ WF_vars(Settle(t))
=============================================================================
