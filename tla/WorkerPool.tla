----------------------------- MODULE WorkerPool -----------------------------
(***************************************************************************)
(* The throttle on worker threads shared by every asynchronous function of *)
(* the script API (v8_wrapper.cpp): the counter thread_count with its      *)
(* mutex and condition variable, the detached worker threads, and the      *)
(* isolate's lock (v8::Locker), which the caller keeps while it waits for  *)
(* a slot and which a worker takes to settle its promise.                  *)
(*                                                                         *)
(* http.fetch, gzip.compress, gzip.decompress, crypto.bcrypt.hash,         *)
(* crypto.bcrypt.check, db.exec, db.query and db.queryRow are eight copies *)
(* of one protocol; they differ in the job and in how its end settles the  *)
(* promise (Outcomes).  Settling a promise runs the script's continuation  *)
(* on the worker's own thread, under the lock, so a worker may call an     *)
(* asynchronous function, and wait for a slot, just like the thread of a   *)
(* request.                                                                *)
(*                                                                         *)
(* The regions under thread_count_lock are short and one step each; the    *)
(* notification, which the code sends after leaving the region, is a step  *)
(* of its own.                                                             *)
(***************************************************************************)
EXTENDS Naturals, FiniteSets

CONSTANTS Calls,             \* entries into the script from outside: a request
                             \* notification, a script load, a directory change
          Tasks,             \* the asynchronous operations a script may start
          KindOf,            \* KindOf[t]: the API function operation t is a call of
          MAX_THREADS,       \* v8_wrapper.h: 24
          MaxSpawnFailures,  \* bound: how often std::thread may fail to start
          NoOwner            \* the isolate's lock is free

Kinds == {"fetch", "compress", "decompress", "hash", "check",
          "exec", "query", "queryRow"}

ASSUME PoolAssumption ==
    /\ IsFiniteSet(Calls) /\ IsFiniteSet(Tasks)
    /\ Calls \cap Tasks = {}
    /\ NoOwner \notin Calls \cup Tasks
    /\ KindOf \in [Tasks -> Kinds]
    /\ MAX_THREADS \in Nat \ {0}
    /\ MaxSpawnFailures \in Nat

Agents == Calls \cup Tasks

VARIABLES locker,          \* the thread inside v8::Locker, or NoOwner
          thread_count,    \* the counter of the same name
          phase,           \* phase[a]: where agent a's thread is
          promise,         \* promise[t]: the state of operation t's promise
          spawn_failures   \* how often std::thread has thrown so far

vars == <<locker, thread_count, phase, promise, spawn_failures>>

CallPhases == {"idle", "script", "waiting", "notified", "admitted", "done"}
TaskPhases == {"unborn", "working", "unnotified", "wantLocker", "script",
               "waiting", "notified", "admitted", "dispose", "gone"}

(* Phases in which the thread is inside the scope of a v8::Locker. *)
Inside == {"script", "waiting", "notified", "admitted"}

-----------------------------------------------------------------------------
(* How the worker thread of each API function may settle its promise.      *)

(* Seeded defect: the worker returns without settling when there is no     *)
(* response.                                                               *)
FetchForgetsToReject == {"resolved", "pending"}

(* A missing response - no connection, or a method that is none of the     *)
(* seven known ones - rejects; a response is wrapped and resolves.         *)
FetchOutcomes == {"resolved", "rejected"}

(* An exception of the library leaves the result empty, which rejects.     *)
CompressOutcomes == {"resolved", "rejected"}
DecompressOutcomes == {"resolved", "rejected"}

(* A failing salt or hash computation rejects. *)
HashOutcomes == {"resolved", "rejected"}

(* A comparison resolves to true or false: nothing rejects. *)
CheckOutcomes == {"resolved"}

(* An exception of cppdb is caught, and its text rejects. *)
ExecOutcomes == {"resolved", "rejected"}
QueryOutcomes == {"resolved", "rejected"}
RowOutcomes == {"resolved", "rejected"}

Outcomes(t) == CASE KindOf[t] = "fetch"      -> FetchOutcomes
                 [] KindOf[t] = "compress"   -> CompressOutcomes
                 [] KindOf[t] = "decompress" -> DecompressOutcomes
                 [] KindOf[t] = "hash"       -> HashOutcomes
                 [] KindOf[t] = "check"      -> CheckOutcomes
                 [] KindOf[t] = "exec"       -> ExecOutcomes
                 [] KindOf[t] = "query"      -> QueryOutcomes
                 [] KindOf[t] = "queryRow"   -> RowOutcomes

-----------------------------------------------------------------------------
(* Derived sets.                                                           *)

Unborn  == {t \in Tasks : phase[t] = "unborn"}
Waiting == {a \in Agents : phase[a] = "waiting"}

(* The agents a slot is reserved for: a caller between the increment of    *)
(* thread_count and its std::thread, a worker until it decrements.         *)
Counted == {a \in Agents : phase[a] \in {"admitted", "working"}}

-----------------------------------------------------------------------------
Init == /\ locker = NoOwner
        /\ thread_count = 0
        /\ phase = [a \in Agents |-> IF a \in Calls THEN "idle" ELSE "unborn"]
        /\ promise = [t \in Tasks |-> "none"]
        /\ spawn_failures = 0

(* A thread from outside takes the isolate's lock and runs script code. *)
EnterScript(c) ==
    /\ phase[c] = "idle"
    /\ locker = NoOwner
    /\ locker' = c
    /\ phase' = [phase EXCEPT ![c] = "script"]
    /\ UNCHANGED <<thread_count, promise, spawn_failures>>

(* The script calls an asynchronous function, or a waiting call is woken   *)
(* up: under thread_count_lock the predicate of the wait holds, and the    *)
(* slot is taken.                                                          *)
ReserveSlot(a) ==
    /\ phase[a] \in {"script", "notified"}
    /\ Unborn # {}
    /\ thread_count < MAX_THREADS
    /\ thread_count' = thread_count + 1
    /\ phase' = [phase EXCEPT ![a] = "admitted"]
    /\ UNCHANGED <<locker, promise, spawn_failures>>

(* Seeded defect: the waiting thread gives the isolate up. *)
WaitForSlotUnlocked(a) ==
    /\ phase[a] \in {"script", "notified"}
    /\ Unborn # {}
    /\ thread_count >= MAX_THREADS
    /\ locker' = NoOwner
    /\ phase' = [phase EXCEPT ![a] = "waiting"]
    /\ UNCHANGED <<thread_count, promise, spawn_failures>>

(* The predicate does not hold: the thread blocks in thread_count_cv, with *)
(* the isolate's lock still held.                                          *)
WaitForSlot(a) ==
    /\ phase[a] \in {"script", "notified"}
    /\ Unborn # {}
    /\ thread_count >= MAX_THREADS
    /\ phase' = [phase EXCEPT ![a] = "waiting"]
    /\ UNCHANGED <<locker, thread_count, promise, spawn_failures>>

(* A condition variable may wake up a waiter without a notification. *)
SpuriousWakeup(a) ==
    /\ phase[a] = "waiting"
    /\ phase' = [phase EXCEPT ![a] = "notified"]
    /\ UNCHANGED <<locker, thread_count, promise, spawn_failures>>

(* The promise is handed to the script and the detached worker starts. *)
Spawn(a, t) ==
    /\ phase[a] = "admitted"
    /\ phase[t] = "unborn"
    /\ phase' = [phase EXCEPT ![a] = "script", ![t] = "working"]
    /\ promise' = [promise EXCEPT ![t] = "pending"]
    /\ UNCHANGED <<locker, thread_count, spawn_failures>>

(* The constructor of std::thread throws; v8pp turns the exception into    *)
(* one of the script.  Nothing gives the slot back.                        *)
SpawnFails(a) ==
    /\ phase[a] = "admitted"
    /\ spawn_failures < MaxSpawnFailures
    /\ spawn_failures' = spawn_failures + 1
    /\ phase' = [phase EXCEPT ![a] = "script"]
    /\ UNCHANGED <<locker, thread_count, promise>>

(* Seeded defect: one of the copies forgets the decrement. *)
FinishWorkKeepsSlot(t) ==
    /\ phase[t] = "working"
    /\ phase' = [phase EXCEPT ![t] = "unnotified"]
    /\ UNCHANGED <<locker, thread_count, promise, spawn_failures>>

(* Seeded defect: the worker gives its slot back under the isolate's lock. *)
FinishWorkLocked(t) ==
    /\ phase[t] = "working"
    /\ locker = NoOwner
    /\ thread_count' = thread_count - 1
    /\ phase' = [phase EXCEPT ![t] = "unnotified"]
    /\ UNCHANGED <<locker, promise, spawn_failures>>

(* The worker has done its job and gives its slot back - before it asks    *)
(* for the isolate's lock.                                                 *)
FinishWork(t) ==
    /\ phase[t] = "working"
    /\ thread_count' = thread_count - 1
    /\ phase' = [phase EXCEPT ![t] = "unnotified"]
    /\ UNCHANGED <<locker, promise, spawn_failures>>

(* Seeded defect: one of the copies forgets the notification. *)
NotifyNobody(t) ==
    /\ phase[t] = "unnotified"
    /\ phase' = [phase EXCEPT ![t] = "wantLocker"]
    /\ UNCHANGED <<locker, thread_count, promise, spawn_failures>>

(* thread_count_cv.notify_one(): some waiter, if there is one, is woken.   *)
NotifyOne(t) ==
    /\ phase[t] = "unnotified"
    /\ \/ \E a \in Waiting :
            phase' = [phase EXCEPT ![t] = "wantLocker", ![a] = "notified"]
       \/ /\ Waiting = {}
          /\ phase' = [phase EXCEPT ![t] = "wantLocker"]
    /\ UNCHANGED <<locker, thread_count, promise, spawn_failures>>

(* Seeded defect: the promise is settled before the job has ended. *)
SettleEarly(t) ==
    /\ phase[t] \in {"working", "wantLocker"}
    /\ locker = NoOwner
    /\ \E outcome \in Outcomes(t) : promise' = [promise EXCEPT ![t] = outcome]
    /\ locker' = IF phase[t] = "working" THEN locker ELSE t
    /\ phase' = [phase EXCEPT ![t] = IF @ = "working" THEN @ ELSE "script"]
    /\ UNCHANGED <<thread_count, spawn_failures>>

(* The worker takes the isolate's lock and settles its promise, which runs *)
(* the script's continuation on this thread.                               *)
Settle(t) ==
    /\ phase[t] = "wantLocker"
    /\ locker = NoOwner
    /\ locker' = t
    /\ \E outcome \in Outcomes(t) : promise' = [promise EXCEPT ![t] = outcome]
    /\ phase' = [phase EXCEPT ![t] = "script"]
    /\ UNCHANGED <<thread_count, spawn_failures>>

(* The script code returns and the scope of the v8::Locker ends. *)
ScriptReturn(a) ==
    /\ phase[a] = "script"
    /\ locker' = NoOwner
    /\ phase' = [phase EXCEPT ![a] = IF a \in Calls THEN "done" ELSE "dispose"]
    /\ UNCHANGED <<thread_count, promise, spawn_failures>>

(* The worker's closure is destroyed, and the v8::Global in it with it. *)
DisposeResolver(t) ==
    /\ phase[t] = "dispose"
    /\ phase' = [phase EXCEPT ![t] = "gone"]
    /\ UNCHANGED <<locker, thread_count, promise, spawn_failures>>

(* Every call has returned and every worker has ended. *)
Terminated ==
    /\ \A c \in Calls : phase[c] = "done"
    /\ \A t \in Tasks : phase[t] \in {"unborn", "gone"}
    /\ UNCHANGED vars

Next ==
    \/ \E c \in Calls : EnterScript(c)
    \/ \E a \in Agents : \/ ReserveSlot(a) \/ WaitForSlot(a) \/ SpuriousWakeup(a)
                         \/ SpawnFails(a) \/ ScriptReturn(a)
    \/ \E a \in Agents, t \in Tasks : Spawn(a, t)
    \/ \E t \in Tasks : \/ FinishWork(t) \/ NotifyOne(t)
                        \/ Settle(t) \/ DisposeResolver(t)
    \/ Terminated

Spec == Init /\ [][Next]_vars

(* Every thread that can take a step is scheduled: jobs end, scripts       *)
(* return, woken waiters look again, and the isolate's lock, once it stays *)
(* free, is given to whoever asks.  Nothing is assumed of the calls a      *)
(* script chooses to make, of spurious wakeups or of failing threads.      *)
Fairness ==
    /\ \A c \in Calls : WF_vars(EnterScript(c))
    /\ \A a \in Agents : /\ WF_vars(phase[a] = "notified" /\ (ReserveSlot(a) \/ WaitForSlot(a)))
                         /\ WF_vars(\E t \in Tasks : Spawn(a, t))
                         /\ WF_vars(ScriptReturn(a))
    /\ \A t \in Tasks : /\ WF_vars(FinishWork(t)) /\ WF_vars(NotifyOne(t))
                        /\ WF_vars(Settle(t)) /\ WF_vars(DisposeResolver(t))

FairSpec == Spec /\ Fairness

-----------------------------------------------------------------------------
(* Each variable keeps to the values the code can give it; in particular   *)
(* thread_count, an int, never goes below zero.                            *)
TypeOK == /\ locker \in Agents \cup {NoOwner}
          /\ thread_count \in 0..MAX_THREADS
          /\ phase \in [Agents -> CallPhases \cup TaskPhases]
          /\ promise \in [Tasks -> {"none", "pending", "resolved", "rejected"}]
          /\ spawn_failures \in 0..MaxSpawnFailures

(* thread_count is exactly the number of reserved slots plus the slots     *)
(* lost to threads that failed to start: no path through the eight copies  *)
(* of the protocol counts a worker twice or not at all.                    *)
SlotAccounting == thread_count = Cardinality(Counted) + spawn_failures

(* Only the thread that owns the isolate's lock runs script code or waits  *)
(* for a slot.  So thread_count_cv has at most one waiter, which is why    *)
(* notify_one is enough although the comment beside it says "all waitees". *)
WaiterOwnsIsolate == \A a \in Agents : phase[a] \in Inside <=> locker = a

(* No wakeup is lost: while a thread sleeps in thread_count_cv although a  *)
(* slot is free, the worker that freed the slot has yet to notify.         *)
NoLostWakeup ==
    Waiting # {} /\ thread_count < MAX_THREADS
        => \E t \in Tasks : phase[t] = "unnotified"

(* A settled promise stays as it is, and no promise is settled before its  *)
(* worker has given its slot back.                                         *)
SettledOnce ==
    [][\A t \in Tasks : promise'[t] # promise[t] =>
          \/ promise[t] = "none" /\ promise'[t] = "pending"
          \/ /\ promise[t] = "pending" /\ t \notin Counted
             /\ promise'[t] \in {"resolved", "rejected"}]_vars

(* A call that blocks for a slot, with the isolate's lock in its hands,    *)
(* gets one: the wait never closes into a cycle.                           *)
WaiterProceeds == \A a \in Agents : phase[a] = "waiting" ~> phase[a] = "admitted"

(* Every promise the script was given is settled in the end. *)
EveryPromiseSettles ==
    \A t \in Tasks : promise[t] = "pending" ~> promise[t] \in {"resolved", "rejected"}

(* The pool implements the abstract service. *)
Service == INSTANCE AsyncOps
             WITH Limit <- MAX_THREADS,
                  running <- {t \in Tasks : phase[t] = "working"}

ImplementsService == Service!FairSpec
=============================================================================
