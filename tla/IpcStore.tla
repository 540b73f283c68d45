------------------------------ MODULE IpcStore ------------------------------
(***************************************************************************)
(* The shared key-value store: processes that take IPC_Lock to write, work *)
(* on a record in transactions and leave the lock, or take it to read and  *)
(* follow a pointer into the record (IPC_KV::set and get, as far as they   *)
(* can be told from ipckv.h).  A process may die at any point of this.     *)
(*                                                                         *)
(* IpcLock does not exclude readers from writers.  What it does guarantee, *)
(* one writer at a time, is what the record's transactions rely on.        *)
(***************************************************************************)
EXTENDS IpcLock, IpcSlot

ASSUME StoreAssumption == Processes = Agents

storeVars == <<vars, slotVars>>

StoreInit == Init /\ SlotInit

(* One step of IPC_Lock; its destructor runs when the work is done. *)
LockStep(a) ==
    /\ ReaderStep(a) \/ WriterStep(a)
    /\ LeaveRecord(a)

(* A step of a transaction, with the write lock. *)
Write(a) ==
    /\ phase[a] = "w_in"
    /\ Start(a) \/ (\E f \in Fields : Set(a, f)) \/ BeginCommit(a) \/ Fill(a) \/ Flip(a)
    /\ UNCHANGED vars

(* A getter that returns a pointer, with the read lock. *)
Read(a) ==
    /\ phase[a] = "r_in"
    /\ GetPointer(a)
    /\ UNCHANGED vars

(* A thread of the process that keeps the mutex ends. *)
ThreadEnds(a) == KeeperEnds(a) /\ UNCHANGED slotVars

ProcessDies(a) == Crash(a) /\ Die(a)

StoreNext == \E a \in Agents :
               LockStep(a) \/ Write(a) \/ Read(a) \/ ThreadEnds(a) \/ ProcessDies(a)

StoreSpec == StoreInit /\ [][StoreNext]_storeVars

-----------------------------------------------------------------------------
(* Only the writer inside the lock has a transaction, and it is alone:     *)
(* what the record's specification asks of its users.                      *)
ImplementsSlot == SlotSpec
=============================================================================
