-------------------------- MODULE WorkerPoolProofs --------------------------
(***************************************************************************)
(* What TLAPS proves of WorkerPool, for every number of calls, operations  *)
(* and slots.                                                              *)
(*                                                                         *)
(* None of the invariants is inductive by itself: that thread_count stays  *)
(* above zero when a worker decrements it rests on SlotAccounting, that a  *)
(* single notification is enough on WaiterOwnsIsolate (one waiter at       *)
(* most), and that a job is over before its promise is settled on          *)
(* PromiseFollowsThread.  IInv is their conjunction.                       *)
(***************************************************************************)
EXTENDS WorkerPool, FiniteSetTheorems, TLAPS

(* A promise exists once its worker does, and is pending until the worker  *)
(* takes the isolate's lock.                                               *)
PromiseFollowsThread ==
    \A t \in Tasks :
        /\ phase[t] = "unborn" => promise[t] = "none"
        /\ phase[t] \in {"working", "unnotified", "wantLocker"} => promise[t] = "pending"

IInv == /\ TypeOK
        /\ SlotAccounting
        /\ WaiterOwnsIsolate
        /\ NoLostWakeup
        /\ PromiseFollowsThread

-----------------------------------------------------------------------------
(* The set of reserved slots is finite, so counting it makes sense.        *)
LEMMA CountedFinite ==
    /\ IsFiniteSet(Counted) /\ Cardinality(Counted) \in Nat
    /\ IsFiniteSet(Counted') /\ Cardinality(Counted') \in Nat
<1>1. IsFiniteSet(Agents)
  BY PoolAssumption, FS_Union DEF Agents
<1>2. Counted \in SUBSET Agents /\ Counted' \in SUBSET Agents
  BY DEF Counted
<1> QED
  BY <1>1, <1>2, FS_Subset, FS_CardinalityType

(* Every API function settles its promise one way or the other.            *)
LEMMA OutcomesSettle == \A t \in Tasks : Outcomes(t) \subseteq {"resolved", "rejected"}
<1> SUFFICES ASSUME NEW t \in Tasks PROVE Outcomes(t) \subseteq {"resolved", "rejected"}
  OBVIOUS
<1>1. KindOf[t] \in Kinds
  BY PoolAssumption
<1> QED
  BY <1>1 DEF Kinds, Outcomes, FetchOutcomes, CompressOutcomes, DecompressOutcomes,
              HashOutcomes, CheckOutcomes, ExecOutcomes, QueryOutcomes, RowOutcomes

(* The invariant holds before any call has been made. *)
LEMMA InitHolds == Init => IInv
<1> SUFFICES ASSUME Init PROVE IInv
  OBVIOUS
<1>1. TypeOK
  BY PoolAssumption DEF Init, TypeOK, Agents, CallPhases, TaskPhases
<1>2. SlotAccounting
  <2>1. Counted = {}
    BY DEF Init, Counted, Agents
  <2> QED
    BY <2>1, FS_EmptySet DEF Init, SlotAccounting
<1>3. WaiterOwnsIsolate
  BY PoolAssumption DEF Init, WaiterOwnsIsolate, Inside, Agents
<1>4. NoLostWakeup
  BY DEF Init, NoLostWakeup, Waiting, Agents
<1>5. PromiseFollowsThread
  BY PoolAssumption DEF Init, PromiseFollowsThread, Agents
<1> QED
  BY <1>1, <1>2, <1>3, <1>4, <1>5 DEF IInv

(* EnterScript keeps the inductive invariant. *)
LEMMA EnterScriptKeeps ==
    ASSUME IInv, NEW a \in Calls, EnterScript(a)
    PROVE  IInv'
<1> USE PoolAssumption DEF IInv, Agents
<1>1. Counted' = Counted
  BY DEF EnterScript, TypeOK, Counted
<1>2. SlotAccounting'
  BY <1>1, CountedFinite DEF EnterScript, TypeOK, SlotAccounting
<1>3. TypeOK'
  BY DEF EnterScript, TypeOK, CallPhases, TaskPhases
<1>4. WaiterOwnsIsolate'
  BY DEF EnterScript, TypeOK, WaiterOwnsIsolate, Inside
<1>5. NoLostWakeup'
  BY DEF EnterScript, TypeOK, WaiterOwnsIsolate, Inside, NoLostWakeup, Waiting
<1>6. PromiseFollowsThread'
  BY DEF EnterScript, TypeOK, PromiseFollowsThread
<1> QED
  BY <1>2, <1>3, <1>4, <1>5, <1>6

(* ReserveSlot keeps the inductive invariant. *)
LEMMA ReserveSlotKeeps ==
    ASSUME IInv, NEW a \in Agents, ReserveSlot(a)
    PROVE  IInv'
<1> USE PoolAssumption DEF IInv, Agents
<1>1. Counted' = Counted \cup {a} /\ a \notin Counted
  BY DEF ReserveSlot, TypeOK, Counted
<1>2. SlotAccounting'
  <2>1. Cardinality(Counted') = Cardinality(Counted) + 1
    BY <1>1, CountedFinite, FS_AddElement
  <2> QED
    BY <2>1, CountedFinite DEF ReserveSlot, TypeOK, SlotAccounting
<1>3. TypeOK'
  BY DEF ReserveSlot, TypeOK, CallPhases, TaskPhases
<1>4. WaiterOwnsIsolate'
  BY DEF ReserveSlot, TypeOK, WaiterOwnsIsolate, Inside
<1>5. NoLostWakeup'
  BY DEF ReserveSlot, TypeOK, WaiterOwnsIsolate, Inside, NoLostWakeup, Waiting
<1>6. PromiseFollowsThread'
  BY DEF ReserveSlot, TypeOK, PromiseFollowsThread
<1> QED
  BY <1>2, <1>3, <1>4, <1>5, <1>6

(* WaitForSlot keeps the inductive invariant. *)
LEMMA WaitForSlotKeeps ==
    ASSUME IInv, NEW a \in Agents, WaitForSlot(a)
    PROVE  IInv'
<1> USE PoolAssumption DEF IInv, Agents
<1>1. Counted' = Counted
  BY DEF WaitForSlot, TypeOK, Counted
<1>2. SlotAccounting'
  BY <1>1, CountedFinite DEF WaitForSlot, TypeOK, SlotAccounting
<1>3. TypeOK'
  BY DEF WaitForSlot, TypeOK, CallPhases, TaskPhases
<1>4. WaiterOwnsIsolate'
  BY DEF WaitForSlot, TypeOK, WaiterOwnsIsolate, Inside
<1>5. NoLostWakeup'
  BY DEF WaitForSlot, TypeOK, WaiterOwnsIsolate, Inside, NoLostWakeup, Waiting
<1>6. PromiseFollowsThread'
  BY DEF WaitForSlot, TypeOK, PromiseFollowsThread
<1> QED
  BY <1>2, <1>3, <1>4, <1>5, <1>6

(* SpuriousWakeup keeps the inductive invariant. *)
LEMMA SpuriousWakeupKeeps ==
    ASSUME IInv, NEW a \in Agents, SpuriousWakeup(a)
    PROVE  IInv'
<1> USE PoolAssumption DEF IInv, Agents
<1>1. Counted' = Counted
  BY DEF SpuriousWakeup, TypeOK, Counted
<1>2. SlotAccounting'
  BY <1>1, CountedFinite DEF SpuriousWakeup, TypeOK, SlotAccounting
<1>3. TypeOK'
  BY DEF SpuriousWakeup, TypeOK, CallPhases, TaskPhases
<1>4. WaiterOwnsIsolate'
  BY DEF SpuriousWakeup, TypeOK, WaiterOwnsIsolate, Inside
<1>5. NoLostWakeup'
  BY DEF SpuriousWakeup, TypeOK, WaiterOwnsIsolate, Inside, NoLostWakeup, Waiting
<1>6. PromiseFollowsThread'
  BY DEF SpuriousWakeup, TypeOK, PromiseFollowsThread
<1> QED
  BY <1>2, <1>3, <1>4, <1>5, <1>6

(* Spawn keeps the inductive invariant. *)
LEMMA SpawnKeeps ==
    ASSUME IInv, NEW a \in Agents, NEW t \in Tasks, Spawn(a, t)
    PROVE  IInv'
<1> USE PoolAssumption DEF IInv, Agents
<1>1. Counted' = (Counted \ {a}) \cup {t} /\ a \in Counted /\ t \notin Counted
  BY DEF Spawn, TypeOK, Counted
<1>2. SlotAccounting'
  <2>1. /\ IsFiniteSet(Counted \ {a})
        /\ Cardinality(Counted \ {a}) = Cardinality(Counted) - 1
    BY <1>1, CountedFinite, FS_RemoveElement
  <2>2. Cardinality(Counted') = Cardinality(Counted \ {a}) + 1
    BY <1>1, <2>1, FS_AddElement
  <2> QED
    BY <2>1, <2>2, CountedFinite DEF Spawn, TypeOK, SlotAccounting
<1>3. TypeOK'
  BY DEF Spawn, TypeOK, CallPhases, TaskPhases
<1>4. WaiterOwnsIsolate'
  BY DEF Spawn, TypeOK, WaiterOwnsIsolate, Inside
<1>5. NoLostWakeup'
  BY DEF Spawn, TypeOK, WaiterOwnsIsolate, Inside, NoLostWakeup, Waiting
<1>6. PromiseFollowsThread'
  BY DEF Spawn, TypeOK, PromiseFollowsThread
<1> QED
  BY <1>2, <1>3, <1>4, <1>5, <1>6

(* SpawnFails keeps the inductive invariant. *)
LEMMA SpawnFailsKeeps ==
    ASSUME IInv, NEW a \in Agents, SpawnFails(a)
    PROVE  IInv'
<1> USE PoolAssumption DEF IInv, Agents
<1>1. Counted' = Counted \ {a} /\ a \in Counted
  BY DEF SpawnFails, TypeOK, Counted
<1>2. SlotAccounting'
  <2>1. Cardinality(Counted') = Cardinality(Counted) - 1
    BY <1>1, CountedFinite, FS_RemoveElement
  <2> QED
    BY <2>1, CountedFinite DEF SpawnFails, TypeOK, SlotAccounting
<1>3. TypeOK'
  BY DEF SpawnFails, TypeOK, CallPhases, TaskPhases
<1>4. WaiterOwnsIsolate'
  BY DEF SpawnFails, TypeOK, WaiterOwnsIsolate, Inside
<1>5. NoLostWakeup'
  BY DEF SpawnFails, TypeOK, WaiterOwnsIsolate, Inside, NoLostWakeup, Waiting
<1>6. PromiseFollowsThread'
  BY DEF SpawnFails, TypeOK, PromiseFollowsThread
<1> QED
  BY <1>2, <1>3, <1>4, <1>5, <1>6

(* FinishWork keeps the inductive invariant. *)
LEMMA FinishWorkKeeps ==
    ASSUME IInv, NEW a \in Tasks, FinishWork(a)
    PROVE  IInv'
<1> USE PoolAssumption DEF IInv, Agents
<1>1. Counted' = Counted \ {a} /\ a \in Counted
  BY DEF FinishWork, TypeOK, Counted
<1>2. SlotAccounting'
  <2>1. Cardinality(Counted') = Cardinality(Counted) - 1
    BY <1>1, CountedFinite, FS_RemoveElement
  <2> QED
    BY <2>1, CountedFinite DEF FinishWork, TypeOK, SlotAccounting
<1>3. TypeOK'
  <2>1. Cardinality(Counted) # 0
    BY <1>1, CountedFinite, FS_EmptySet
  <2> QED
    BY <2>1, CountedFinite DEF FinishWork, TypeOK, SlotAccounting, TaskPhases
<1>4. WaiterOwnsIsolate'
  BY DEF FinishWork, TypeOK, WaiterOwnsIsolate, Inside
<1>5. NoLostWakeup'
  BY DEF FinishWork, TypeOK, WaiterOwnsIsolate, Inside, NoLostWakeup, Waiting
<1>6. PromiseFollowsThread'
  BY DEF FinishWork, TypeOK, PromiseFollowsThread
<1> QED
  BY <1>2, <1>3, <1>4, <1>5, <1>6

(* NotifyOne keeps the inductive invariant. *)
LEMMA NotifyOneKeeps ==
    ASSUME IInv, NEW a \in Tasks, NotifyOne(a)
    PROVE  IInv'
<1> USE PoolAssumption DEF IInv, Agents
<1>1. Counted' = Counted
  BY DEF NotifyOne, TypeOK, Counted, Waiting
<1>2. SlotAccounting'
  BY <1>1, CountedFinite DEF NotifyOne, TypeOK, SlotAccounting
<1>3. TypeOK'
  BY DEF NotifyOne, TypeOK, CallPhases, TaskPhases, Waiting
<1>4. WaiterOwnsIsolate'
  BY DEF NotifyOne, TypeOK, WaiterOwnsIsolate, Inside, Waiting
<1>5. NoLostWakeup'
  BY DEF NotifyOne, TypeOK, WaiterOwnsIsolate, Inside, NoLostWakeup, Waiting
<1>6. PromiseFollowsThread'
  BY DEF NotifyOne, TypeOK, PromiseFollowsThread, Waiting
<1> QED
  BY <1>2, <1>3, <1>4, <1>5, <1>6

(* Settle keeps the inductive invariant. *)
LEMMA SettleKeeps ==
    ASSUME IInv, NEW a \in Tasks, Settle(a)
    PROVE  IInv'
<1> USE PoolAssumption DEF IInv, Agents
<1>1. Counted' = Counted
  BY DEF Settle, TypeOK, Counted
<1>2. SlotAccounting'
  BY <1>1, CountedFinite DEF Settle, TypeOK, SlotAccounting
<1>3. TypeOK'
  BY OutcomesSettle DEF Settle, TypeOK, CallPhases, TaskPhases
<1>4. WaiterOwnsIsolate'
  BY DEF Settle, TypeOK, WaiterOwnsIsolate, Inside
<1>5. NoLostWakeup'
  BY DEF Settle, TypeOK, WaiterOwnsIsolate, Inside, NoLostWakeup, Waiting
<1>6. PromiseFollowsThread'
  BY DEF Settle, TypeOK, PromiseFollowsThread
<1> QED
  BY <1>2, <1>3, <1>4, <1>5, <1>6

(* ScriptReturn keeps the inductive invariant. *)
LEMMA ScriptReturnKeeps ==
    ASSUME IInv, NEW a \in Agents, ScriptReturn(a)
    PROVE  IInv'
<1> USE PoolAssumption DEF IInv, Agents
<1>1. Counted' = Counted
  BY DEF ScriptReturn, TypeOK, Counted
<1>2. SlotAccounting'
  BY <1>1, CountedFinite DEF ScriptReturn, TypeOK, SlotAccounting
<1>3. TypeOK'
  BY DEF ScriptReturn, TypeOK, CallPhases, TaskPhases
<1>4. WaiterOwnsIsolate'
  BY DEF ScriptReturn, TypeOK, WaiterOwnsIsolate, Inside
<1>5. NoLostWakeup'
  BY DEF ScriptReturn, TypeOK, WaiterOwnsIsolate, Inside, NoLostWakeup, Waiting
<1>6. PromiseFollowsThread'
  BY DEF ScriptReturn, TypeOK, PromiseFollowsThread
<1> QED
  BY <1>2, <1>3, <1>4, <1>5, <1>6

(* DisposeResolver keeps the inductive invariant. *)
LEMMA DisposeResolverKeeps ==
    ASSUME IInv, NEW a \in Tasks, DisposeResolver(a)
    PROVE  IInv'
<1> USE PoolAssumption DEF IInv, Agents
<1>1. Counted' = Counted
  BY DEF DisposeResolver, TypeOK, Counted
<1>2. SlotAccounting'
  BY <1>1, CountedFinite DEF DisposeResolver, TypeOK, SlotAccounting
<1>3. TypeOK'
  BY DEF DisposeResolver, TypeOK, CallPhases, TaskPhases
<1>4. WaiterOwnsIsolate'
  BY DEF DisposeResolver, TypeOK, WaiterOwnsIsolate, Inside
<1>5. NoLostWakeup'
  BY DEF DisposeResolver, TypeOK, WaiterOwnsIsolate, Inside, NoLostWakeup, Waiting
<1>6. PromiseFollowsThread'
  BY DEF DisposeResolver, TypeOK, PromiseFollowsThread
<1> QED
  BY <1>2, <1>3, <1>4, <1>5, <1>6

(* A step that changes nothing keeps the inductive invariant. *)
LEMMA StutterKeeps == ASSUME IInv, UNCHANGED vars PROVE IInv'
<1>1. Counted' = Counted /\ Waiting' = Waiting
  BY DEF vars, Counted, Waiting
<1> QED
  BY <1>1 DEF vars, IInv, TypeOK, SlotAccounting, WaiterOwnsIsolate, NoLostWakeup,
              PromiseFollowsThread

LEMMA TerminatedKeeps == ASSUME IInv, Terminated PROVE IInv'
BY StutterKeeps DEF Terminated

-----------------------------------------------------------------------------
(* Every step keeps the inductive invariant. *)
LEMMA NextKeeps == IInv /\ [Next]_vars => IInv'
<1> SUFFICES ASSUME IInv, [Next]_vars PROVE IInv'
  OBVIOUS
<1>1. CASE Next
  BY <1>1, EnterScriptKeeps, ReserveSlotKeeps, WaitForSlotKeeps, SpuriousWakeupKeeps,
     SpawnKeeps, SpawnFailsKeeps, FinishWorkKeeps, NotifyOneKeeps, SettleKeeps,
     ScriptReturnKeeps, DisposeResolverKeeps, TerminatedKeeps DEF Next
<1>2. CASE UNCHANGED vars
  BY <1>2, StutterKeeps
<1> QED
  BY <1>1, <1>2

(* Every behaviour of the pool keeps the inductive invariant. *)
THEOREM Invariance == Spec => []IInv
BY InitHolds, NextKeeps, PTL DEF Spec

(* thread_count and the other variables keep to their ranges: the counter  *)
(* never exceeds MAX_THREADS and never goes below zero.                    *)
THEOREM PoolTypeOK == Spec => []TypeOK
<1>1. IInv => TypeOK
  BY DEF IInv
<1> QED
  BY <1>1, Invariance, PTL

(* thread_count is the number of reserved slots plus the leaked ones. *)
THEOREM PoolSlotAccounting == Spec => []SlotAccounting
<1>1. IInv => SlotAccounting
  BY DEF IInv
<1> QED
  BY <1>1, Invariance, PTL

(* Whoever runs script code or waits for a slot owns the isolate's lock. *)
THEOREM PoolWaiterOwnsIsolate == Spec => []WaiterOwnsIsolate
<1>1. IInv => WaiterOwnsIsolate
  BY DEF IInv
<1> QED
  BY <1>1, Invariance, PTL

(* The single notify_one of a worker that frees a slot is never lost. *)
THEOREM PoolNoLostWakeup == Spec => []NoLostWakeup
<1>1. IInv => NoLostWakeup
  BY DEF IInv
<1> QED
  BY <1>1, Invariance, PTL

-----------------------------------------------------------------------------
(* Every step that changes a promise does so in the order of SettledOnce.  *)
LEMMA StepSettles ==
    ASSUME IInv, [Next]_vars, NEW t \in Tasks, promise'[t] # promise[t]
    PROVE  \/ promise[t] = "none" /\ promise'[t] = "pending"
           \/ /\ promise[t] = "pending" /\ t \notin Counted
              /\ promise'[t] \in {"resolved", "rejected"}
<1>1. promise' # promise
  OBVIOUS
<1>2. PICK x \in Tasks : (\E a \in Agents : Spawn(a, x)) \/ Settle(x)
  BY <1>1 DEF Next, vars, EnterScript, ReserveSlot, WaitForSlot, SpuriousWakeup,
              SpawnFails, ScriptReturn, FinishWork, NotifyOne, DisposeResolver, Terminated
<1>3. CASE \E a \in Agents : Spawn(a, x)
  BY <1>3 DEF Spawn, IInv, TypeOK, PromiseFollowsThread
<1>4. CASE Settle(x)
  <2>1. t = x
    BY <1>4 DEF Settle, IInv, TypeOK
  <2>2. promise[t] = "pending" /\ t \notin Counted
    BY <1>4, <2>1 DEF Settle, IInv, PromiseFollowsThread, Counted
  <2>3. promise'[t] \in {"resolved", "rejected"}
    BY <1>4, <2>1, OutcomesSettle DEF Settle, IInv, TypeOK
  <2> QED
    BY <2>2, <2>3
<1> QED
  BY <1>2, <1>3, <1>4

(* A promise goes from pending to settled once, after its job has given    *)
(* the slot back, and then stays as it is.                                 *)
THEOREM PoolSettledOnce == Spec => SettledOnce
<1>1. IInv /\ [Next]_vars =>
        [\A t \in Tasks : promise'[t] # promise[t] =>
          \/ promise[t] = "none" /\ promise'[t] = "pending"
          \/ /\ promise[t] = "pending" /\ t \notin Counted
             /\ promise'[t] \in {"resolved", "rejected"}]_vars
  BY StepSettles
<1> QED
  BY <1>1, Invariance, PTL DEF Spec, SettledOnce

-----------------------------------------------------------------------------
(* The operations whose job is being executed, as AsyncOps sees them. *)
Running == {t \in Tasks : phase[t] = "working"}

(* A caller that has reserved a slot finds fewer than MAX_THREADS jobs     *)
(* running: its own slot is counted, and no job runs without one.          *)
LEMMA RoomForJob ==
    ASSUME IInv, NEW a \in Agents, phase[a] = "admitted"
    PROVE  Cardinality(Running) < MAX_THREADS
<1>1. a \in Counted /\ Running \in SUBSET (Counted \ {a})
  BY DEF Running, Counted, Agents
<1>2. /\ IsFiniteSet(Counted \ {a})
      /\ Cardinality(Counted \ {a}) = Cardinality(Counted) - 1
  BY <1>1, CountedFinite, FS_RemoveElement
<1>3. Cardinality(Running) \in Nat /\ Cardinality(Running) <= Cardinality(Counted \ {a})
  BY <1>1, <1>2, FS_Subset, FS_CardinalityType
<1>4. Cardinality(Counted) <= MAX_THREADS
  BY CountedFinite, PoolAssumption DEF IInv, TypeOK, SlotAccounting
<1> QED
  BY <1>2, <1>3, <1>4, CountedFinite, PoolAssumption

(* Every step of the pool is a step of the abstract service, or changes    *)
(* nothing that the service can see.                                       *)
LEMMA StepImplements ==
    ASSUME IInv, Next
    PROVE  [Service!Next]_(Service!vars)
<1> USE DEF Service!vars
<1> DEFINE Same == promise' = promise /\ Running' = Running
<1>0. Same => UNCHANGED Service!vars
  BY DEF Running
<1>1. ASSUME NEW a \in Calls, EnterScript(a) PROVE Same
  BY <1>1 DEF EnterScript, Running, IInv, TypeOK, Agents
<1>2. ASSUME NEW a \in Agents,
             ReserveSlot(a) \/ WaitForSlot(a) \/ SpuriousWakeup(a) \/ SpawnFails(a)
               \/ ScriptReturn(a)
      PROVE  Same
  BY <1>2 DEF ReserveSlot, WaitForSlot, SpuriousWakeup, SpawnFails, ScriptReturn,
              Running, IInv, TypeOK, Agents
<1>3. ASSUME NEW a \in Agents, NEW t \in Tasks, Spawn(a, t) PROVE Service!Start(t)
  <2>1. promise[t] = "none" /\ promise' = [promise EXCEPT ![t] = "pending"]
    BY <1>3 DEF Spawn, IInv, PromiseFollowsThread
  <2>2. Running' = Running \cup {t}
    BY <1>3 DEF Spawn, Running, IInv, TypeOK, Agents
  <2>3. Cardinality(Running) < MAX_THREADS
    BY <1>3, RoomForJob DEF Spawn
  <2>4. Service!Cardinality(Running) = Cardinality(Running)
    BY DEF Service!Cardinality, Cardinality, Service!IsFiniteSet, IsFiniteSet
  <2> QED
    BY <2>1, <2>2, <2>3, <2>4 DEF Service!Start, Running
<1>4. ASSUME NEW t \in Tasks, FinishWork(t) PROVE Service!Finish(t)
  <2>1. t \in Running /\ Running' = Running \ {t}
    BY <1>4 DEF FinishWork, Running, IInv, TypeOK, Agents
  <2> QED
    BY <1>4, <2>1 DEF FinishWork, Service!Finish, Running
<1>5. ASSUME NEW t \in Tasks, NotifyOne(t) PROVE Same
  BY <1>5 DEF NotifyOne, Waiting, Running, IInv, TypeOK, Agents
<1>6. ASSUME NEW t \in Tasks, Settle(t) PROVE Service!Settle(t)
  <2>1. promise[t] = "pending" /\ t \notin Running /\ Running' = Running
    BY <1>6 DEF Settle, Running, IInv, TypeOK, PromiseFollowsThread, Agents
  <2>2. \E outcome \in {"resolved", "rejected"} : promise' = [promise EXCEPT ![t] = outcome]
    BY <1>6, OutcomesSettle DEF Settle
  <2> QED
    BY <2>1, <2>2 DEF Service!Settle, Service!Settled, Running
<1>7. ASSUME NEW t \in Tasks, DisposeResolver(t) PROVE Same
  BY <1>7 DEF DisposeResolver, Running, IInv, TypeOK, Agents
<1>8. ASSUME Terminated PROVE Same
  BY <1>8 DEF Terminated, vars, Running
<1>9. \/ Same
      \/ \E t \in Tasks : Service!Start(t) \/ Service!Finish(t) \/ Service!Settle(t)
  BY <1>1, <1>2, <1>3, <1>4, <1>5, <1>6, <1>7, <1>8 DEF Next
<1> QED
  BY <1>0, <1>9 DEF Service!Next

(* The pool does nothing the abstract service would not do: promises and   *)
(* running jobs go through Start, Finish and Settle only, with at most     *)
(* MAX_THREADS jobs at a time.  (The fairness of the service is checked by *)
(* TLC.)                                                                   *)
THEOREM PoolImplementsService == Spec => Service!Spec
<1>1. Init => Service!Init
  BY PoolAssumption DEF Init, Service!Init, Agents
<1>2. IInv /\ [Next]_vars => [Service!Next]_(Service!vars)
  <2>1. UNCHANGED vars => UNCHANGED Service!vars
    BY DEF vars, Service!vars
  <2> QED
    BY <2>1, StepImplements
<1> QED
  BY <1>1, <1>2, Invariance, PTL DEF Spec, Service!Spec

-----------------------------------------------------------------------------
(* Jobs are executed by workers only. *)
CallsDoNoJobs == \A c \in Calls : phase[c] # "working"

(* Every step keeps to that. *)
LEMMA CallsDoNoJobsKept == IInv /\ CallsDoNoJobs /\ [Next]_vars => CallsDoNoJobs'
<1> SUFFICES ASSUME IInv, CallsDoNoJobs, [Next]_vars, NEW c \in Calls
             PROVE  phase'[c] # "working"
  BY DEF CallsDoNoJobs
<1>1. phase[c] # "working" /\ c \in Agents /\ c \notin Tasks /\ c \in DOMAIN phase
  BY PoolAssumption DEF CallsDoNoJobs, Agents, IInv, TypeOK
<1>2. CASE UNCHANGED vars
  BY <1>1, <1>2 DEF vars
<1>3. ASSUME NEW a \in Calls, EnterScript(a) PROVE phase'[c] # "working"
  BY <1>1, <1>3 DEF EnterScript
<1>4. ASSUME NEW a \in Agents,
             ReserveSlot(a) \/ WaitForSlot(a) \/ SpuriousWakeup(a) \/ SpawnFails(a)
               \/ ScriptReturn(a)
      PROVE  phase'[c] # "working"
  BY <1>1, <1>4 DEF ReserveSlot, WaitForSlot, SpuriousWakeup, SpawnFails, ScriptReturn
<1>5. ASSUME NEW a \in Agents, NEW t \in Tasks, Spawn(a, t) PROVE phase'[c] # "working"
  BY <1>1, <1>5 DEF Spawn
<1>6. ASSUME NEW t \in Tasks,
             FinishWork(t) \/ NotifyOne(t) \/ Settle(t) \/ DisposeResolver(t)
      PROVE  phase'[c] # "working"
  BY <1>1, <1>6 DEF FinishWork, NotifyOne, Settle, DisposeResolver, Waiting
<1> QED
  BY <1>2, <1>3, <1>4, <1>5, <1>6 DEF Next, Terminated

(* Whenever a thread waits for a slot, with the isolate locked, and not    *)
(* every slot has been lost to a thread that did not start, some worker is *)
(* at a step that needs no lock the waiter holds and leads to its wakeup:  *)
(* it is doing its job, or has freed its slot and is about to notify.  The *)
(* wait with the lock held never closes a cycle.                           *)
THEOREM PoolWaiterIsServed ==
    Spec => [](Waiting # {} /\ spawn_failures < MAX_THREADS
                 => \E t \in Tasks : phase[t] \in {"working", "unnotified"})
<1>1. ASSUME IInv, CallsDoNoJobs, Waiting # {}, spawn_failures < MAX_THREADS
      PROVE  \E t \in Tasks : phase[t] \in {"working", "unnotified"}
  <2>1. CASE thread_count < MAX_THREADS
    BY <1>1, <2>1 DEF IInv, NoLostWakeup
  <2>2. CASE ~(thread_count < MAX_THREADS)
    <3>1. Cardinality(Counted) # 0
      <4>1. /\ thread_count \in 0..MAX_THREADS /\ spawn_failures \in 0..MaxSpawnFailures
            /\ thread_count = Cardinality(Counted) + spawn_failures
        BY <1>1 DEF IInv, TypeOK, SlotAccounting
      <4> QED
        BY <1>1, <2>2, <4>1, PoolAssumption
    <3>2. PICK b \in Agents : phase[b] \in {"admitted", "working"}
      BY <3>1, FS_EmptySet DEF Counted
    <3>3. PICK a \in Agents : phase[a] = "waiting"
      BY <1>1 DEF Waiting
    <3>4. phase[b] # "admitted"
      BY <1>1, <3>3 DEF IInv, WaiterOwnsIsolate, Inside
    <3>5. b \in Tasks
      BY <1>1, <3>2, <3>4 DEF CallsDoNoJobs, Agents
    <3> QED
      BY <3>2, <3>4, <3>5
  <2> QED
    BY <2>1, <2>2
<1>2. Init => CallsDoNoJobs
  BY PoolAssumption DEF Init, CallsDoNoJobs, Agents
<1>3. IInv /\ CallsDoNoJobs =>
        (Waiting # {} /\ spawn_failures < MAX_THREADS
           => \E t \in Tasks : phase[t] \in {"working", "unnotified"})
  BY <1>1
<1> QED
  BY <1>2, <1>3, Invariance, CallsDoNoJobsKept, PTL DEF Spec
=============================================================================
