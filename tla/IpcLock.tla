------------------------------ MODULE IpcLock -------------------------------
(***************************************************************************)
(* The lock that worker processes take around every operation on the       *)
(* shared key-value store (class IPC_Lock of ipckv.h): a named mutex and a *)
(* named counting semaphore of Windows, both shared between processes and  *)
(* destroyed with their last handle.  Each step is one call to the system. *)
(*                                                                         *)
(* Inside one process the isolate's lock admits one operation at a time,   *)
(* so an agent is a process.  A process that dies loses its handles; a     *)
(* mutex it owned is abandoned, while permits it took from the semaphore   *)
(* do not come back.  Who gets an abandoned mutex owns it, but the         *)
(* constructor takes that for an error: the script sees an exception, the  *)
(* process goes on, and a thread of it keeps the mutex.                    *)
(***************************************************************************)
EXTENDS Naturals, FiniteSets

CONSTANTS Readers, Writers,   \* the processes that read / that write (may overlap)
          IPCKV_MAX_LOCKS,    \* 24
          MaxCrashes,         \* bound: how many processes die
          NoOwner, Abandoned  \* the mutex is free / its owner died

Agents == Readers \cup Writers

ASSUME LockAssumption ==
    /\ IsFiniteSet(Agents)
    /\ IPCKV_MAX_LOCKS \in Nat \ {0}
    /\ MaxCrashes \in Nat
    /\ NoOwner \notin Agents /\ Abandoned \notin Agents /\ NoOwner # Abandoned

VARIABLES phase,          \* phase[a]: where process a is in IPC_Lock
          mutex,          \* the owner of the mutex
          mutex_handles,  \* the processes with a handle of the mutex
          permits,        \* the count of the semaphore
          sem_handles,    \* the processes with a handle of the semaphore: it
                          \* exists while there is one
          drained,        \* the permits the writer has taken so far
          kept,           \* the processes of which a thread keeps the mutex without
                          \* being in IPC_Lock
          leaked,         \* those with a handle of the mutex that nobody closes
          crashes

vars == <<phase, mutex, mutex_handles, permits, sem_handles, drained, kept, leaked, crashes>>

ReadPhases  == {"r_wait", "r_in", "r_close"}
OwnerPhases == {"w_open", "w_drain", "w_in", "w_close", "w_unlock"}

Init == /\ phase = [a \in Agents |-> "idle"]
        /\ mutex = NoOwner
        /\ mutex_handles = {}
        /\ permits = 0
        /\ sem_handles = {}
        /\ drained = 0
        /\ kept = {} /\ leaked = {}
        /\ crashes = 0

Goto(a, p) == phase' = [phase EXCEPT ![a] = p]

-----------------------------------------------------------------------------
(* IPC_Lock(true, name): CreateMutex ... *)
OpenMutex(a) ==
    /\ a \in Writers
    /\ phase[a] = "idle"
    /\ mutex_handles' = mutex_handles \cup {a}
    /\ Goto(a, "w_mutex")
    /\ UNCHANGED <<mutex, permits, sem_handles, drained, kept, leaked, crashes>>

(* ... WaitForSingleObject, which a mutex of Windows grants again to the   *)
(* thread that owns it ...                                                 *)
AcquireMutex(a) ==
    /\ phase[a] = "w_mutex"
    /\ mutex = NoOwner \/ a \in kept
    /\ mutex' = a
    /\ Goto(a, "w_open")
    /\ UNCHANGED <<mutex_handles, permits, sem_handles, drained, kept, leaked, crashes>>

(* ... and which returns WAIT_ABANDONED if the previous owner died: the    *)
(* constructor throws, so no destructor runs.  The thread goes on as the   *)
(* owner of the mutex, with a handle that is never closed.                 *)
AcquireAbandoned(a) ==
    /\ phase[a] = "w_mutex"
    /\ mutex = Abandoned
    /\ mutex' = a
    /\ kept' = kept \cup {a}
    /\ leaked' = leaked \cup {a}
    /\ Goto(a, "idle")
    /\ UNCHANGED <<mutex_handles, permits, sem_handles, drained, crashes>>

(* The thread that keeps the mutex ends, as the worker threads do on which *)
(* awaiting code is resumed; its process lives on.                         *)
KeeperEnds(a) ==
    /\ a \in kept
    /\ phase[a] \notin OwnerPhases
    /\ mutex' = Abandoned
    /\ kept' = kept \ {a}
    /\ UNCHANGED <<phase, mutex_handles, permits, sem_handles, drained, leaked, crashes>>

(* CreateSemaphore with a count of 0: a new semaphore admits nobody else,  *)
(* an existing one has to be drained.                                      *)
CreateSemaphoreToWrite(a) ==
    /\ phase[a] = "w_open"
    /\ sem_handles' = sem_handles \cup {a}
    /\ drained' = 0
    /\ IF sem_handles = {} THEN permits' = 0 /\ Goto(a, "w_in")
                           ELSE permits' = permits /\ Goto(a, "w_drain")
    /\ UNCHANGED <<mutex, mutex_handles, kept, leaked, crashes>>

(* One of the IPCKV_MAX_LOCKS waits of the writer. *)
Drain(a) ==
    /\ phase[a] = "w_drain"
    /\ permits > 0
    /\ permits' = permits - 1
    /\ drained' = drained + 1
    /\ Goto(a, IF drained + 1 = IPCKV_MAX_LOCKS THEN "w_in" ELSE "w_drain")
    /\ UNCHANGED <<mutex, mutex_handles, sem_handles, kept, leaked, crashes>>

(* IPC_Lock(false, name): CreateSemaphore with a full count ... *)
CreateSemaphoreToRead(a) ==
    /\ a \in Readers
    /\ phase[a] = "idle"
    /\ sem_handles' = sem_handles \cup {a}
    /\ permits' = IF sem_handles = {} THEN IPCKV_MAX_LOCKS ELSE permits
    /\ Goto(a, "r_wait")
    /\ UNCHANGED <<mutex, mutex_handles, drained, kept, leaked, crashes>>

(* Seeded defect: the reader polls, and leaves the last permit alone. *)
TakePermitPolls(a) ==
    /\ phase[a] = "r_wait"
    /\ IF permits <= 1
       THEN UNCHANGED vars
       ELSE /\ permits' = permits - 1
            /\ Goto(a, "r_in")
            /\ UNCHANGED <<mutex, mutex_handles, sem_handles, drained, kept, leaked, crashes>>

(* ... of which a reader takes one. *)
TakePermit(a) ==
    /\ phase[a] = "r_wait"
    /\ permits > 0
    /\ permits' = permits - 1
    /\ Goto(a, "r_in")
    /\ UNCHANGED <<mutex, mutex_handles, sem_handles, drained, kept, leaked, crashes>>

(* ReleaseSemaphore(h, n): fails, and does nothing, if the count would go  *)
(* beyond the maximum.                                                     *)
AfterRelease(n) == IF permits + n <= IPCKV_MAX_LOCKS THEN permits + n ELSE permits

(* Seeded defect: the writer lets the next writer in before it is done. *)
ReleaseMutexFirst(a) ==
    /\ phase[a] \in {"w_in", "r_in"}
    /\ permits' = AfterRelease(IPCKV_MAX_LOCKS)
    /\ mutex' = IF phase[a] = "w_in" THEN NoOwner ELSE mutex
    /\ Goto(a, IF phase[a] = "w_in" THEN "w_close" ELSE "r_close")
    /\ UNCHANGED <<mutex_handles, sem_handles, drained, kept, leaked, crashes>>

(* Seeded defect: a reader gives nothing back. *)
ReaderKeepsPermit(a) ==
    /\ phase[a] \in {"w_in", "r_in"}
    /\ permits' = IF phase[a] = "w_in" THEN AfterRelease(IPCKV_MAX_LOCKS) ELSE permits
    /\ Goto(a, IF phase[a] = "w_in" THEN "w_close" ELSE "r_close")
    /\ UNCHANGED <<mutex, mutex_handles, sem_handles, drained, kept, leaked, crashes>>

(* ~IPC_Lock: reader and writer both release IPCKV_MAX_LOCKS permits ... *)
ReleaseSemaphore(a) ==
    /\ phase[a] \in {"w_in", "r_in"}
    /\ permits' = AfterRelease(IPCKV_MAX_LOCKS)
    /\ Goto(a, IF phase[a] = "w_in" THEN "w_close" ELSE "r_close")
    /\ UNCHANGED <<mutex, mutex_handles, sem_handles, drained, kept, leaked, crashes>>

(* Seeded defect: a reader leaves its handle open. *)
ReaderKeepsHandle(a) ==
    /\ phase[a] \in {"w_close", "r_close"}
    /\ sem_handles' = IF phase[a] = "w_close" THEN sem_handles \ {a} ELSE sem_handles
    /\ permits' = IF sem_handles' = {} THEN 0 ELSE permits
    /\ Goto(a, IF phase[a] = "w_close" THEN "w_unlock" ELSE "idle")
    /\ UNCHANGED <<mutex, mutex_handles, drained, kept, leaked, crashes>>

(* ... and close the handle; a semaphore without a handle is gone. *)
CloseSemaphore(a) ==
    /\ phase[a] \in {"w_close", "r_close"}
    /\ sem_handles' = sem_handles \ {a}
    /\ permits' = IF sem_handles = {a} THEN 0 ELSE permits
    /\ Goto(a, IF phase[a] = "w_close" THEN "w_unlock" ELSE "idle")
    /\ UNCHANGED <<mutex, mutex_handles, drained, kept, leaked, crashes>>

(* Only a writer has a mutex to release and to close.  One that owned it   *)
(* before owns it still.                                                   *)
ReleaseMutex(a) ==
    /\ phase[a] = "w_unlock"
    /\ mutex' = IF a \in kept THEN a ELSE NoOwner
    /\ mutex_handles' = IF a \in leaked THEN mutex_handles ELSE mutex_handles \ {a}
    /\ Goto(a, "idle")
    /\ UNCHANGED <<permits, sem_handles, drained, kept, leaked, crashes>>

(* The worker process dies in an operation, or with something left over    *)
(* from one, and is replaced.                                              *)
Crash(a) ==
    /\ crashes < MaxCrashes
    /\ phase[a] # "idle" \/ a \in leaked
    /\ crashes' = crashes + 1
    /\ mutex_handles' = mutex_handles \ {a}
    /\ mutex' = IF mutex_handles \subseteq {a} THEN NoOwner
                ELSE IF mutex = a THEN Abandoned ELSE mutex
    /\ sem_handles' = sem_handles \ {a}
    /\ permits' = IF sem_handles \subseteq {a} THEN 0 ELSE permits
    /\ Goto(a, "idle")
    /\ kept' = kept \ {a}
    /\ leaked' = leaked \ {a}
    /\ UNCHANGED drained

ReaderStep(a) == \/ CreateSemaphoreToRead(a) \/ TakePermit(a)
                 \/ ReleaseSemaphore(a) \/ CloseSemaphore(a)

WriterStep(a) == \/ OpenMutex(a) \/ AcquireMutex(a) \/ AcquireAbandoned(a)
                 \/ CreateSemaphoreToWrite(a) \/ Drain(a) \/ ReleaseMutex(a)

Next == \E a \in Agents : ReaderStep(a) \/ WriterStep(a) \/ KeeperEnds(a) \/ Crash(a)

Spec == Init /\ [][Next]_vars

(* Behaviours in which nobody writes and nobody dies.  Running processes   *)
(* make progress, and the system queues the waiters of a semaphore, so     *)
(* none is passed over for ever; no process has to start an operation.     *)
ReadersSpec == Init /\ [][\E a \in Agents : ReaderStep(a)]_vars

FairReadersSpec ==
    /\ ReadersSpec
    /\ \A a \in Agents : /\ SF_vars(TakePermit(a))
                         /\ WF_vars(ReleaseSemaphore(a)) /\ WF_vars(CloseSemaphore(a))

-----------------------------------------------------------------------------
(* Each variable keeps to the values the code and the system can give it;  *)
(* the semaphore never holds more than IPCKV_MAX_LOCKS permits.            *)
TypeOK == /\ phase \in [Agents -> {"idle", "w_mutex"} \cup ReadPhases \cup OwnerPhases]
          /\ mutex \in Agents \cup {NoOwner, Abandoned}
          /\ mutex_handles \subseteq Writers
          /\ permits \in 0..IPCKV_MAX_LOCKS
          /\ sem_handles \subseteq Agents
          /\ drained \in 0..IPCKV_MAX_LOCKS
          /\ kept \subseteq Writers /\ leaked \subseteq Writers
          /\ crashes \in 0..MaxCrashes

(* A process opens the semaphore to write, drains it, writes and cleans up *)
(* only as the owner of the mutex: two writers are never between the two   *)
(* ends of the lock, whatever readers and crashes do, and although a       *)
(* process to which an abandoned mutex fell releases it once too few.      *)
WriterOwnsMutex == \A a \in Agents : phase[a] \in OwnerPhases \/ a \in kept <=> mutex = a

(* The semaphore and the mutex outlive every process that relies on them:  *)
(* whoever is past the opening call still holds its handle.  Handles that  *)
(* nobody relies on are those left over when an abandoned mutex was taken  *)
(* for an error, and there are none as long as nobody dies.                *)
HandlesHeld ==
    /\ sem_handles = {a \in Agents : phase[a] \in ReadPhases \cup {"w_drain", "w_in", "w_close"}}
    /\ mutex_handles = {a \in Agents : phase[a] \in OwnerPhases \cup {"w_mutex"}} \cup leaked
    /\ kept \subseteq leaked
    /\ crashes = 0 => leaked = {}

(* As long as there are only readers, the semaphore is empty only while a  *)
(* reader is inside.  That reader's release, of all permits at once, then  *)
(* succeeds: although the releases of other readers fail and their permits *)
(* are lost, the permits never run out for good.                           *)
EmptyMeansReaderInside ==
    sem_handles # {} /\ permits = 0 => \E a \in Agents : phase[a] = "r_in"

(* A process that wants to read gets in. *)
ReaderGetsIn == \A a \in Agents : phase[a] = "r_wait" ~> phase[a] = "r_in"

(* The lock is a "rwlock" (ipckv.h:424): nobody reads while one writes.    *)
ReadersExcludeWriter ==
    \A a, b \in Agents : ~(phase[a] = "w_in" /\ phase[b] = "r_in")
=============================================================================
