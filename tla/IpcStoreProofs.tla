--------------------------- MODULE IpcStoreProofs ---------------------------
(***************************************************************************)
(* What TLAPS proves of the shared store, for every number of processes,   *)
(* permits, transactions, deaths and fields.                               *)
(*                                                                         *)
(* Of the lock: that the owner of the mutex is the one process in the      *)
(* writing part of the lock or the one that has kept it, and that the      *)
(* handles are where the code needs them, hold each other up: when a       *)
(* process dies, the mutex survives for its owner because that owner still *)
(* has its handle.                                                         *)
(*                                                                         *)
(* Of the records: the lock gives a record's transactions the exclusion    *)
(* they need (StoreSpec implements SlotSpec), and with it the two copies   *)
(* behave as one record that changes atomically (SlotSpec implements       *)
(* AtomicRecord).  The invariant of a transaction, Staged, says what the   *)
(* copy being written holds so far: the transaction's stamp in the fields  *)
(* that were set, the current contents in those that commit has filled in, *)
(* and nothing known in the others.                                        *)
(***************************************************************************)
EXTENDS IpcStore, TLAPS

(* A writer that is still draining has permits left to take. *)
DrainUnfinished == \A a \in Agents : phase[a] = "w_drain" => drained < IPCKV_MAX_LOCKS

(* A mutex is abandoned only after a death. *)
DeathFirst == mutex = Abandoned => crashes > 0

IInv == /\ TypeOK
        /\ WriterOwnsMutex
        /\ HandlesHeld
        /\ DrainUnfinished
        /\ DeathFirst

-----------------------------------------------------------------------------
(* The invariant holds before any process has touched the store. *)
LEMMA InitHolds == Init => IInv
<1> SUFFICES ASSUME Init PROVE IInv
  OBVIOUS
<1> USE LockAssumption DEF Init
<1>1. TypeOK
  BY DEF TypeOK
<1>2. WriterOwnsMutex
  BY DEF WriterOwnsMutex, OwnerPhases
<1>3. HandlesHeld
  BY DEF HandlesHeld, OwnerPhases, ReadPhases
<1>4. DrainUnfinished /\ DeathFirst
  BY DEF DrainUnfinished, DeathFirst
<1> QED
  BY <1>1, <1>2, <1>3, <1>4 DEF IInv

(* OpenMutex keeps the inductive invariant. *)
LEMMA OpenMutexKeeps ==
    ASSUME IInv, NEW a \in Agents, OpenMutex(a)
    PROVE  IInv'
<1> USE LockAssumption DEF IInv, OpenMutex, Goto, TypeOK, ReadPhases, OwnerPhases
<1>1. TypeOK'
  BY DEF DrainUnfinished, Agents
<1>2. WriterOwnsMutex'
  BY DEF WriterOwnsMutex, HandlesHeld
<1>3. HandlesHeld'
  BY DEF HandlesHeld, WriterOwnsMutex, DeathFirst
<1>4. DrainUnfinished'
  BY DEF DrainUnfinished, WriterOwnsMutex
<1>5. DeathFirst'
  BY DEF DeathFirst, HandlesHeld
<1> QED
  BY <1>1, <1>2, <1>3, <1>4, <1>5

(* AcquireMutex keeps the inductive invariant. *)
LEMMA AcquireMutexKeeps ==
    ASSUME IInv, NEW a \in Agents, AcquireMutex(a)
    PROVE  IInv'
<1> USE LockAssumption DEF IInv, AcquireMutex, Goto, TypeOK, ReadPhases, OwnerPhases
<1>1. TypeOK'
  BY DEF DrainUnfinished, Agents
<1>2. WriterOwnsMutex'
  BY DEF WriterOwnsMutex, HandlesHeld
<1>3. HandlesHeld'
  BY DEF HandlesHeld, WriterOwnsMutex, DeathFirst
<1>4. DrainUnfinished'
  BY DEF DrainUnfinished, WriterOwnsMutex
<1>5. DeathFirst'
  BY DEF DeathFirst, HandlesHeld
<1> QED
  BY <1>1, <1>2, <1>3, <1>4, <1>5

(* AcquireAbandoned keeps the inductive invariant. *)
LEMMA AcquireAbandonedKeeps ==
    ASSUME IInv, NEW a \in Agents, AcquireAbandoned(a)
    PROVE  IInv'
<1> USE LockAssumption DEF IInv, AcquireAbandoned, Goto, TypeOK, ReadPhases, OwnerPhases
<1>1. TypeOK'
  BY DEF DrainUnfinished, HandlesHeld, Agents
<1>2. WriterOwnsMutex'
  BY DEF WriterOwnsMutex, HandlesHeld
<1>3. HandlesHeld'
  BY DEF HandlesHeld, WriterOwnsMutex, DeathFirst
<1>4. DrainUnfinished'
  BY DEF DrainUnfinished, WriterOwnsMutex
<1>5. DeathFirst'
  BY DEF DeathFirst, HandlesHeld
<1> QED
  BY <1>1, <1>2, <1>3, <1>4, <1>5

(* KeeperEnds keeps the inductive invariant. *)
LEMMA KeeperEndsKeeps ==
    ASSUME IInv, NEW a \in Agents, KeeperEnds(a)
    PROVE  IInv'
<1> USE LockAssumption DEF IInv, KeeperEnds, Goto, TypeOK, ReadPhases, OwnerPhases
<1>1. TypeOK'
  BY DEF DrainUnfinished, Agents
<1>2. WriterOwnsMutex'
  BY DEF WriterOwnsMutex, HandlesHeld
<1>3. HandlesHeld'
  BY DEF HandlesHeld, WriterOwnsMutex, DeathFirst
<1>4. DrainUnfinished'
  BY DEF DrainUnfinished, WriterOwnsMutex
<1>5. DeathFirst'
  BY DEF DeathFirst, HandlesHeld
<1> QED
  BY <1>1, <1>2, <1>3, <1>4, <1>5

(* CreateSemaphoreToWrite keeps the inductive invariant. *)
LEMMA CreateSemaphoreToWriteKeeps ==
    ASSUME IInv, NEW a \in Agents, CreateSemaphoreToWrite(a)
    PROVE  IInv'
<1> USE LockAssumption DEF IInv, CreateSemaphoreToWrite, Goto, TypeOK, ReadPhases, OwnerPhases
<1>1. TypeOK'
  BY DEF DrainUnfinished, Agents
<1>2. WriterOwnsMutex'
  BY DEF WriterOwnsMutex, HandlesHeld
<1>3. HandlesHeld'
  BY DEF HandlesHeld, WriterOwnsMutex, DeathFirst
<1>4. DrainUnfinished'
  BY DEF DrainUnfinished, WriterOwnsMutex
<1>5. DeathFirst'
  BY DEF DeathFirst, HandlesHeld
<1> QED
  BY <1>1, <1>2, <1>3, <1>4, <1>5

(* Drain keeps the inductive invariant. *)
LEMMA DrainKeeps ==
    ASSUME IInv, NEW a \in Agents, Drain(a)
    PROVE  IInv'
<1> USE LockAssumption DEF IInv, Drain, Goto, TypeOK, ReadPhases, OwnerPhases
<1>1. TypeOK'
  BY DEF DrainUnfinished, Agents
<1>2. WriterOwnsMutex'
  BY DEF WriterOwnsMutex, HandlesHeld
<1>3. HandlesHeld'
  BY DEF HandlesHeld, WriterOwnsMutex, DeathFirst
<1>4. DrainUnfinished'
  BY DEF DrainUnfinished, WriterOwnsMutex
<1>5. DeathFirst'
  BY DEF DeathFirst, HandlesHeld
<1> QED
  BY <1>1, <1>2, <1>3, <1>4, <1>5

(* CreateSemaphoreToRead keeps the inductive invariant. *)
LEMMA CreateSemaphoreToReadKeeps ==
    ASSUME IInv, NEW a \in Agents, CreateSemaphoreToRead(a)
    PROVE  IInv'
<1> USE LockAssumption DEF IInv, CreateSemaphoreToRead, Goto, TypeOK, ReadPhases, OwnerPhases
<1>1. TypeOK'
  BY DEF DrainUnfinished, Agents
<1>2. WriterOwnsMutex'
  BY DEF WriterOwnsMutex, HandlesHeld
<1>3. HandlesHeld'
  BY DEF HandlesHeld, WriterOwnsMutex, DeathFirst
<1>4. DrainUnfinished'
  BY DEF DrainUnfinished, WriterOwnsMutex
<1>5. DeathFirst'
  BY DEF DeathFirst, HandlesHeld
<1> QED
  BY <1>1, <1>2, <1>3, <1>4, <1>5

(* TakePermit keeps the inductive invariant. *)
LEMMA TakePermitKeeps ==
    ASSUME IInv, NEW a \in Agents, TakePermit(a)
    PROVE  IInv'
<1> USE LockAssumption DEF IInv, TakePermit, Goto, TypeOK, ReadPhases, OwnerPhases
<1>1. TypeOK'
  BY DEF DrainUnfinished, Agents
<1>2. WriterOwnsMutex'
  BY DEF WriterOwnsMutex, HandlesHeld
<1>3. HandlesHeld'
  BY DEF HandlesHeld, WriterOwnsMutex, DeathFirst
<1>4. DrainUnfinished'
  BY DEF DrainUnfinished, WriterOwnsMutex
<1>5. DeathFirst'
  BY DEF DeathFirst, HandlesHeld
<1> QED
  BY <1>1, <1>2, <1>3, <1>4, <1>5

(* ReleaseSemaphore keeps the inductive invariant. *)
LEMMA ReleaseSemaphoreKeeps ==
    ASSUME IInv, NEW a \in Agents, ReleaseSemaphore(a)
    PROVE  IInv'
<1> USE LockAssumption DEF IInv, ReleaseSemaphore, Goto, TypeOK, ReadPhases, OwnerPhases
<1>1. TypeOK'
  BY DEF DrainUnfinished, Agents, AfterRelease
<1>2. WriterOwnsMutex'
  BY DEF WriterOwnsMutex, HandlesHeld
<1>3. HandlesHeld'
  BY DEF HandlesHeld, WriterOwnsMutex, DeathFirst
<1>4. DrainUnfinished'
  BY DEF DrainUnfinished, WriterOwnsMutex
<1>5. DeathFirst'
  BY DEF DeathFirst, HandlesHeld
<1> QED
  BY <1>1, <1>2, <1>3, <1>4, <1>5

(* CloseSemaphore keeps the inductive invariant. *)
LEMMA CloseSemaphoreKeeps ==
    ASSUME IInv, NEW a \in Agents, CloseSemaphore(a)
    PROVE  IInv'
<1> USE LockAssumption DEF IInv, CloseSemaphore, Goto, TypeOK, ReadPhases, OwnerPhases
<1>1. TypeOK'
  BY DEF DrainUnfinished, Agents
<1>2. WriterOwnsMutex'
  BY DEF WriterOwnsMutex, HandlesHeld
<1>3. HandlesHeld'
  BY DEF HandlesHeld, WriterOwnsMutex, DeathFirst
<1>4. DrainUnfinished'
  BY DEF DrainUnfinished, WriterOwnsMutex
<1>5. DeathFirst'
  BY DEF DeathFirst, HandlesHeld
<1> QED
  BY <1>1, <1>2, <1>3, <1>4, <1>5

(* ReleaseMutex keeps the inductive invariant. *)
LEMMA ReleaseMutexKeeps ==
    ASSUME IInv, NEW a \in Agents, ReleaseMutex(a)
    PROVE  IInv'
<1> USE LockAssumption DEF IInv, ReleaseMutex, Goto, TypeOK, ReadPhases, OwnerPhases
<1>1. TypeOK'
  BY DEF DrainUnfinished, Agents
<1>2. WriterOwnsMutex'
  BY DEF WriterOwnsMutex, HandlesHeld
<1>3. HandlesHeld'
  BY DEF HandlesHeld, WriterOwnsMutex, DeathFirst
<1>4. DrainUnfinished'
  BY DEF DrainUnfinished, WriterOwnsMutex
<1>5. DeathFirst'
  BY DEF DeathFirst, HandlesHeld
<1> QED
  BY <1>1, <1>2, <1>3, <1>4, <1>5

(* Crash keeps the inductive invariant. *)
LEMMA CrashKeeps ==
    ASSUME IInv, NEW a \in Agents, Crash(a)
    PROVE  IInv'
<1> USE LockAssumption DEF IInv, Crash, Goto, TypeOK, ReadPhases, OwnerPhases
<1>1. TypeOK'
  BY DEF DrainUnfinished, Agents
<1>2. WriterOwnsMutex'
  BY DEF WriterOwnsMutex, HandlesHeld
<1>3. HandlesHeld'
  BY DEF HandlesHeld, WriterOwnsMutex, DeathFirst
<1>4. DrainUnfinished'
  BY DEF DrainUnfinished, WriterOwnsMutex
<1>5. DeathFirst'
  BY DEF DeathFirst, HandlesHeld
<1> QED
  BY <1>1, <1>2, <1>3, <1>4, <1>5

-----------------------------------------------------------------------------
(* Every step keeps the inductive invariant. *)
LEMMA NextKeeps == IInv /\ [Next]_vars => IInv'
<1> SUFFICES ASSUME IInv, [Next]_vars PROVE IInv'
  OBVIOUS
<1>1. CASE Next
  BY <1>1, OpenMutexKeeps, AcquireMutexKeeps, AcquireAbandonedKeeps, KeeperEndsKeeps,
     CreateSemaphoreToWriteKeeps, DrainKeeps, CreateSemaphoreToReadKeeps,
     TakePermitKeeps, ReleaseSemaphoreKeeps, CloseSemaphoreKeeps,
     ReleaseMutexKeeps, CrashKeeps DEF Next, ReaderStep, WriterStep
<1>2. CASE UNCHANGED vars
  BY <1>2 DEF vars, IInv, TypeOK, WriterOwnsMutex, HandlesHeld, DrainUnfinished, DeathFirst
<1> QED
  BY <1>1, <1>2

(* Every behaviour of the lock keeps the inductive invariant. *)
THEOREM Invariance == Spec => []IInv
BY InitHolds, NextKeeps, PTL DEF Spec

(* Counters and phases keep to their ranges. *)
THEOREM LockTypeOK == Spec => []TypeOK
<1>1. IInv => TypeOK
  BY DEF IInv
<1> QED
  BY <1>1, Invariance, PTL

(* Writers exclude each other, whatever readers do and whoever dies, and   *)
(* although a process may keep the mutex beyond its operation.             *)
THEOREM LockWriterOwnsMutex == Spec => []WriterOwnsMutex
<1>1. IInv => WriterOwnsMutex
  BY DEF IInv
<1> QED
  BY <1>1, Invariance, PTL

(* The semaphore and the mutex live as long as somebody relies on them, and *)
(* a handle outlives its operation only after a death.                     *)
THEOREM LockHandlesHeld == Spec => []HandlesHeld
<1>1. IInv => HandlesHeld
  BY DEF IInv
<1> QED
  BY <1>1, Invariance, PTL

-----------------------------------------------------------------------------
(* While nobody writes, no process is in the writing part of the lock. *)
OnlyReading == \A a \in Agents : phase[a] \in {"idle"} \cup ReadPhases

ReadersInv == TypeOK /\ OnlyReading /\ EmptyMeansReaderInside

(* One step of readers alone. *)
LEMMA ReadersStep ==
    ASSUME ReadersInv, [\E a \in Agents : ReaderStep(a)]_vars
    PROVE  ReadersInv'
<1> USE LockAssumption
    DEF ReadersInv, TypeOK, OnlyReading, ReadPhases, OwnerPhases, EmptyMeansReaderInside, Goto
<1>1. CASE UNCHANGED vars
  BY <1>1 DEF vars
<1>2. ASSUME NEW a \in Agents, CreateSemaphoreToRead(a)
      PROVE  ReadersInv'
  BY <1>2 DEF CreateSemaphoreToRead
<1>3. ASSUME NEW a \in Agents, TakePermit(a)
      PROVE  ReadersInv'
  BY <1>3 DEF TakePermit
<1>4. ASSUME NEW a \in Agents, ReleaseSemaphore(a)
      PROVE  ReadersInv'
  BY <1>4 DEF ReleaseSemaphore, AfterRelease
<1>5. ASSUME NEW a \in Agents, CloseSemaphore(a)
      PROVE  ReadersInv'
  BY <1>5 DEF CloseSemaphore
<1> QED
  BY <1>1, <1>2, <1>3, <1>4, <1>5 DEF ReaderStep

(* Readers alone never run out of permits for good: an empty semaphore has *)
(* a reader inside whose release fills it.                                 *)
THEOREM ReadersNeverStuck == ReadersSpec => []EmptyMeansReaderInside
<1>1. Init => ReadersInv
  BY LockAssumption DEF Init, ReadersInv, TypeOK, OnlyReading, EmptyMeansReaderInside
<1>2. ReadersInv => EmptyMeansReaderInside
  BY DEF ReadersInv
<1> QED
  BY <1>1, <1>2, ReadersStep, PTL DEF ReadersSpec

-----------------------------------------------------------------------------
(* Only a process in a transaction is in commit, and one at a time is. *)
FillStarted == \A p \in Processes : fill[p] # 0 => started[p]
OneWriter == \A p, q \in Processes : started[p] /\ started[q] => p = q

(* A pointer that is still good points into the current copy, or nobody is *)
(* in a transaction.                                                       *)
PinApart == \A p, q \in Processes :
               pin[p].held /\ ~pin[p].overtaken /\ pin[p].copy = Inactive => ~started[q]

(* Stamps are younger than everything in the current copy. *)
StampIsNew ==
    /\ \A b \in {0, 1}, f \in Fields : buffer[b][f] <= transactions
    /\ \A p \in Processes : started[p] =>
         /\ stamp[p] \in 1..transactions
         /\ \A f \in Fields : buffer[Active][f] < stamp[p]

(* The fields that hold the stamp when commit has come so far. *)
SoFar(p) == IF "value" \in flags[p] \ asked[p] THEN asked[p] \ {"size"} ELSE asked[p]

Staged(p) ==
    /\ "value" \in flags[p] => "size" \in flags[p]
    /\ fill[p] = 0 => \A f \in flags[p] : buffer[Inactive][f] = stamp[p]
    /\ fill[p] # 0 =>
         /\ "value" \in asked[p] => "size" \in asked[p]
         /\ asked[p] \subseteq flags[p]
         /\ \A i \in DOMAIN FillOrder : i < fill[p] => FillOrder[i] \in flags[p]
         /\ \A f \in flags[p] :
              buffer[Inactive][f] = IF f \in SoFar(p) THEN stamp[p] ELSE buffer[Active][f]

AllStaged == \A p \in Processes : started[p] => Staged(p)

SlotInv == /\ SlotTypeOK
           /\ FillStarted
           /\ OneWriter
           /\ PointerSeesRecord
           /\ PinApart
           /\ StampIsNew
           /\ AllStaged

-----------------------------------------------------------------------------
(* The fields are those that commit goes through, and setData has a size   *)
(* to store.                                                               *)
LEMMA FieldFacts ==
    /\ \A i \in DOMAIN FillOrder : FillOrder[i] \in Fields
    /\ \A f \in Fields : \E i \in DOMAIN FillOrder : FillOrder[i] = f
    /\ \A f \in Fields : Stores(f) \subseteq Fields /\ f \in Stores(f)
    /\ Len(FillOrder) \in Nat /\ DOMAIN FillOrder = 1..Len(FillOrder)
  BY SlotAssumption DEF Fields, Stores, SlotAssumption

(* The two copies are different ones. *)
LEMMA CopyFacts ==
    ASSUME SlotTypeOK
    PROVE  /\ Active \in {0, 1} /\ Inactive \in {0, 1} /\ Active # Inactive
           /\ Active = 1 - Inactive
           /\ \A b \in {0, 1} : b = Active \/ b = Inactive
  BY DEF SlotTypeOK, Active, Inactive

(* The invariant holds of an empty record nobody uses. *)
LEMMA SlotInitHolds == SlotInit => SlotInv
<1> SUFFICES ASSUME SlotInit PROVE SlotInv
  OBVIOUS
<1> USE SlotAssumption DEF SlotInit
<1>1. SlotTypeOK
  <2>1. [f \in Fields |-> 0] \in Record
    BY DEF Record
  <2> QED
    BY <2>1, FieldFacts DEF SlotTypeOK, NoPin
<1>2. FillStarted /\ OneWriter /\ AllStaged
  BY DEF FillStarted, OneWriter, AllStaged
<1>3. PointerSeesRecord /\ PinApart
  BY DEF PointerSeesRecord, PinApart, NoPin
<1>4. StampIsNew
  BY DEF StampIsNew
<1> QED
  BY <1>1, <1>2, <1>3, <1>4 DEF SlotInv

-----------------------------------------------------------------------------
(* Starting a transaction keeps the invariant. *)
LEMMA StartKeeps ==
    ASSUME SlotInv, NEW p \in Processes, Alone(p), Start(p)
    PROVE  SlotInv'
<1> USE SlotAssumption DEF SlotInv
<1>0. /\ Active' = Active /\ Inactive' = Inactive /\ buffer' = buffer
  BY DEF Start, Active, Inactive
<1>9. ASSUME NEW q \in Processes, pin'[q].held, ~pin'[q].overtaken
      PROVE  pin'[q] = pin[q] /\ pin[q].copy # Inactive
  <2>1. pin'[q] = IF pin[q].held /\ pin[q].copy = Inactive
                  THEN [pin[q] EXCEPT !.overtaken = TRUE] ELSE pin[q]
    BY DEF Start, Overtake
  <2>2. pin[q] \in [held : BOOLEAN, copy : {0, 1}, record : Record, overtaken : BOOLEAN]
    BY DEF SlotTypeOK
  <2>3. ~(pin[q].held /\ pin[q].copy = Inactive)
    BY <1>9, <2>1, <2>2
  <2> QED
    BY <1>9, <2>1, <2>3
<1>1. SlotTypeOK'
  <2>1. pin' \in [Processes -> [held : BOOLEAN, copy : {0, 1}, record : Record,
                               overtaken : BOOLEAN]]
    BY DEF SlotTypeOK, Start, Overtake, NoPin
  <2>2. transactions' \in 0..MaxTransactions /\ stamp' \in [Processes -> 0..MaxTransactions]
    BY DEF SlotTypeOK, Start
  <2> QED
    BY <2>1, <2>2 DEF SlotTypeOK, Start
<1>2. FillStarted' /\ OneWriter'
  BY DEF FillStarted, OneWriter, Start, SlotTypeOK, Alone
<1>3. PointerSeesRecord' /\ PinApart'
  BY <1>0, <1>9 DEF PointerSeesRecord, PinApart
<1>4. StampIsNew'
  BY <1>0, CopyFacts DEF StampIsNew, Start, SlotTypeOK, Alone, Record
<1>5. AllStaged'
  BY <1>0 DEF AllStaged, Staged, Start, SlotTypeOK, Alone, FillStarted
<1> QED
  BY <1>1, <1>2, <1>3, <1>4, <1>5

(* A setter keeps it. *)
LEMMA SetKeeps ==
    ASSUME SlotInv, NEW p \in Processes, Alone(p), NEW f \in Fields, Set(p, f)
    PROVE  SlotInv'
<1> USE SlotAssumption DEF SlotInv
<1>0. /\ Active' = Active /\ Inactive' = Inactive /\ pin' = pin
      /\ buffer'[Active] = buffer[Active]
      /\ buffer'[Inactive] = [g \in Fields |-> IF g \in Stores(f) THEN stamp[p]
                                                ELSE buffer[Inactive][g]]
      /\ started[p]
  BY CopyFacts DEF Set, Active, Inactive, SlotTypeOK
<1>1. SlotTypeOK'
  BY FieldFacts, CopyFacts DEF SlotTypeOK, Set, Record
<1>2. FillStarted' /\ OneWriter'
  BY DEF FillStarted, OneWriter, Set
<1>3. PointerSeesRecord' /\ PinApart'
  BY <1>0, CopyFacts DEF PointerSeesRecord, PinApart, Set, SlotTypeOK, NoPin
<1>4. StampIsNew'
  BY <1>0, CopyFacts DEF StampIsNew, Set, SlotTypeOK, Record
<1>5. AllStaged'
  BY <1>0, FieldFacts DEF AllStaged, Staged, Set, SlotTypeOK, OneWriter, Stores
<1> QED
  BY <1>1, <1>2, <1>3, <1>4, <1>5

(* The call of commit keeps it. *)
LEMMA BeginCommitKeeps ==
    ASSUME SlotInv, NEW p \in Processes, Alone(p), BeginCommit(p)
    PROVE  SlotInv'
<1> USE SlotAssumption DEF SlotInv
<1>0. Active' = Active /\ Inactive' = Inactive /\ pin' = pin
  BY DEF BeginCommit, Active, Inactive
<1>1. SlotTypeOK'
  BY FieldFacts DEF SlotTypeOK, BeginCommit
<1>2. FillStarted' /\ OneWriter'
  BY DEF FillStarted, OneWriter, BeginCommit, SlotTypeOK
<1>3. PointerSeesRecord' /\ PinApart'
  BY <1>0 DEF PointerSeesRecord, PinApart, BeginCommit
<1>4. StampIsNew'
  BY <1>0 DEF StampIsNew, BeginCommit
<1>5. AllStaged'
  BY <1>0, FieldFacts DEF AllStaged, Staged, SoFar, BeginCommit, SlotTypeOK, OneWriter
<1> QED
  BY <1>1, <1>2, <1>3, <1>4, <1>5

(* Filling in a field keeps it: what was set stays, except a size without  *)
(* its value.                                                              *)
LEMMA FillKeeps ==
    ASSUME SlotInv, NEW p \in Processes, Alone(p), Fill(p)
    PROVE  SlotInv'
<1> USE SlotAssumption DEF SlotInv
<1> DEFINE f == FillOrder[fill[p]]
<1>01. /\ Active' = Active /\ Inactive' = Inactive /\ pin' = pin
      /\ fill[p] \in DOMAIN FillOrder /\ fill[p] # 0 /\ started[p] /\ f \in Fields
      /\ Stores(f) \subseteq Fields
  BY FieldFacts DEF Fill, Active, Inactive, SlotTypeOK, FillStarted
<1>02. f \in flags[p] => buffer' = buffer /\ flags' = flags
  BY DEF Fill
<1>03. f \notin flags[p] =>
        /\ buffer' = [buffer EXCEPT ![Inactive] =
               [g \in Fields |-> IF g \in Stores(f) THEN buffer[Active][g] ELSE @[g]]]
        /\ flags' = [flags EXCEPT ![p] = @ \cup Stores(f)]
  BY DEF Fill
<1>0. /\ Active' = Active /\ Inactive' = Inactive /\ pin' = pin
      /\ started[p] /\ fill[p] # 0 /\ f \in Fields
      /\ buffer'[Active] = buffer[Active]
      /\ \A g \in Fields : buffer'[Inactive][g] =
            IF f \notin flags[p] /\ g \in Stores(f) THEN buffer[Active][g]
                                                    ELSE buffer[Inactive][g]
      /\ flags'[p] = IF f \in flags[p] THEN flags[p] ELSE flags[p] \cup Stores(f)
  <2> HIDE DEF f
  <2>1. CASE f \in flags[p]
    BY <2>1, <1>01, <1>02
  <2>2. CASE f \notin flags[p]
    BY <2>2, <1>01, <1>03, CopyFacts DEF SlotTypeOK, Record
  <2> QED
    BY <2>1, <2>2
<1>1. SlotTypeOK'
  <2>1. fill' \in [Processes -> 0..(Len(FillOrder) + 1)]
    BY FieldFacts DEF SlotTypeOK, Fill
  <2>2. flags' \in [Processes -> SUBSET Fields]
    <3> HIDE DEF f
    <3>1. flags[p] \cup Stores(f) \in SUBSET Fields
      BY <1>01 DEF SlotTypeOK
    <3>2. CASE f \in flags[p]
      BY <3>2, <1>02 DEF SlotTypeOK
    <3>3. CASE f \notin flags[p]
      BY <3>3, <3>1, <1>03 DEF SlotTypeOK
    <3> QED
      BY <3>2, <3>3
  <2>3. buffer' \in [{0, 1} -> Record]
    <3> HIDE DEF f
    <3>1. [g \in Fields |-> IF g \in Stores(f) THEN buffer[Active][g] ELSE buffer[Inactive][g]]
            \in Record
      BY CopyFacts DEF SlotTypeOK, Record
    <3> QED
      BY <3>1, <1>02, <1>03, CopyFacts DEF SlotTypeOK
  <2> QED
    BY <2>1, <2>2, <2>3 DEF SlotTypeOK, Fill
<1>2. FillStarted' /\ OneWriter'
  BY <1>0 DEF FillStarted, OneWriter, Fill, SlotTypeOK
<1>3. PointerSeesRecord' /\ PinApart'
  BY <1>0, CopyFacts DEF PointerSeesRecord, PinApart, Fill, SlotTypeOK, NoPin
<1>4. StampIsNew'
  BY <1>0, CopyFacts DEF StampIsNew, Fill, SlotTypeOK, Record
<1>5. AllStaged'
  <2>1. /\ fill'[p] = fill[p] + 1 /\ fill[p] \in Nat /\ asked' = asked /\ stamp' = stamp
        /\ started' = started
        /\ Staged(p) /\ flags[p] \subseteq Fields /\ asked[p] \subseteq Fields
    BY <1>0 DEF Fill, SlotTypeOK, AllStaged
  <2>2. "value" \in flags'[p] => "size" \in flags'[p]
    BY <1>0, <2>1 DEF Staged, Stores
  <2>3. asked[p] \subseteq flags'[p]
    BY <1>0, <2>1 DEF Staged
  <2>4. \A i \in DOMAIN FillOrder : i < fill[p] + 1 => FillOrder[i] \in flags'[p]
    BY <1>0, <2>1, FieldFacts DEF Staged
  <2>5. ASSUME NEW g \in flags'[p]
        PROVE  buffer'[Inactive][g] = IF g \in SoFar(p)' THEN stamp[p] ELSE buffer[Active][g]
    <3>1. CASE f \in flags[p]
      BY <3>1, <1>0, <2>1 DEF Staged, SoFar
    <3>2. CASE f \notin flags[p] /\ f = "value"
      BY <3>2, <1>0, <2>1 DEF Staged, SoFar, Stores
    <3>3. CASE f \notin flags[p] /\ f # "value"
      BY <3>3, <1>0, <2>1 DEF Staged, SoFar, Stores
    <3> QED
      BY <3>1, <3>2, <3>3
  <2>6. Staged(p)'
    BY <1>0, <2>1, <2>2, <2>3, <2>4, <2>5 DEF Staged
  <2> QED
    BY <1>0, <2>1, <2>6 DEF AllStaged, OneWriter
<1> QED
  BY <1>1, <1>2, <1>3, <1>4, <1>5

-----------------------------------------------------------------------------
(* What the exchange of the copies publishes: the stamp in the fields that *)
(* were set, except a size without its value, and the old contents in the  *)
(* others.                                                                 *)
LEMMA FlipPublishes ==
    ASSUME SlotInv, NEW p \in Processes, Flip(p)
    PROVE  buffer'[buffer_state'] =
             [f \in Fields |-> IF f \in Published(p) THEN stamp[p] ELSE buffer[buffer_state][f]]
<1> USE SlotAssumption DEF SlotInv
<1>1. started[p] /\ Staged(p) /\ flags[p] \subseteq Fields /\ fill[p] # 0
  BY FieldFacts DEF Flip, FillStarted, AllStaged, SlotTypeOK
<1>2. Fields \subseteq flags[p]
  BY <1>1, FieldFacts DEF Staged, Flip
<1>3. SoFar(p) = Published(p)
  BY <1>1, <1>2 DEF SoFar, Published
<1>4. buffer'[buffer_state'] = buffer[Inactive] /\ buffer[Inactive] \in Record
  BY CopyFacts DEF Flip, SlotTypeOK
<1>5. \A f \in Fields : buffer[Inactive][f] = IF f \in Published(p) THEN stamp[p]
                                               ELSE buffer[Active][f]
  BY <1>1, <1>2, <1>3 DEF Staged
<1> QED
  BY <1>4, <1>5 DEF Record, Active

(* The exchange keeps the invariant. *)
LEMMA FlipKeeps ==
    ASSUME SlotInv, NEW p \in Processes, Alone(p), Flip(p)
    PROVE  SlotInv'
<1> USE SlotAssumption DEF SlotInv
<1>0. /\ Active' = Inactive /\ Inactive' = Active /\ pin' = pin /\ buffer' = buffer
      /\ \A q \in Processes : ~started'[q]
  BY CopyFacts DEF Flip, Active, Inactive, SlotTypeOK, Alone
<1>1. SlotTypeOK'
  BY CopyFacts, FieldFacts DEF SlotTypeOK, Flip
<1>2. FillStarted' /\ OneWriter' /\ AllStaged'
  BY <1>0 DEF FillStarted, OneWriter, AllStaged, Flip, SlotTypeOK, Alone
<1>3. PointerSeesRecord' /\ PinApart'
  BY <1>0 DEF PointerSeesRecord, PinApart
<1>4. StampIsNew'
  BY <1>0 DEF StampIsNew, Flip
<1> QED
  BY <1>1, <1>2, <1>3, <1>4

(* A getter takes its pointer into the current copy, which no transaction  *)
(* writes.                                                                 *)
LEMMA GetPointerKeeps ==
    ASSUME SlotInv, NEW p \in Processes, GetPointer(p)
    PROVE  SlotInv'
<1> USE SlotAssumption DEF SlotInv
<1>0. /\ Active' = Active /\ Inactive' = Inactive /\ buffer' = buffer /\ started' = started
      /\ pin'[p] = [held |-> TRUE, copy |-> Active, record |-> buffer[Active],
                    overtaken |-> FALSE]
      /\ \A q \in Processes \ {p} : pin'[q] = pin[q]
  BY DEF GetPointer, Active, Inactive, SlotTypeOK
<1>1. SlotTypeOK'
  BY CopyFacts DEF SlotTypeOK, GetPointer
<1>2. FillStarted' /\ OneWriter' /\ AllStaged' /\ StampIsNew'
  BY <1>0 DEF FillStarted, OneWriter, AllStaged, Staged, SoFar, StampIsNew, GetPointer
<1>3. PointerSeesRecord' /\ PinApart'
  <2>1. ASSUME NEW q \in Processes, pin'[q].held, ~pin'[q].overtaken
        PROVE  /\ buffer'[pin'[q].copy] = pin'[q].record
               /\ pin'[q].copy = Inactive' => \A r \in Processes : ~started'[r]
    <3>1. CASE q = p
      BY <3>1, <1>0, CopyFacts
    <3>2. CASE q # p
      BY <3>2, <2>1, <1>0 DEF PointerSeesRecord, PinApart
    <3> QED
      BY <3>1, <3>2
  <2> QED
    BY <2>1 DEF PointerSeesRecord, PinApart
<1> QED
  BY <1>1, <1>2, <1>3

(* A process that leaves the record, or dies, takes nothing with it but    *)
(* its own pointer and transaction.                                        *)
LEMMA LeaveKeeps ==
    ASSUME SlotInv, NEW p \in Processes, LeaveRecord(p) \/ Die(p)
    PROVE  SlotInv'
<1> USE SlotAssumption DEF SlotInv
<1>0. /\ Active' = Active /\ Inactive' = Inactive /\ buffer' = buffer
      /\ transactions' = transactions
      /\ pin' = [pin EXCEPT ![p] = NoPin]
      /\ ~started'[p]
      /\ fill'[p] # 0 => fill'[p] = fill[p]
      /\ \A q \in Processes \ {p} :
           /\ started'[q] <=> started[q]
           /\ fill'[q] = fill[q] /\ flags'[q] = flags[q] /\ asked'[q] = asked[q]
           /\ stamp'[q] = stamp[q]
  BY DEF LeaveRecord, Die, Active, Inactive, SlotTypeOK
<1>1. SlotTypeOK'
  <2>1. NoPin \in [held : BOOLEAN, copy : {0, 1}, record : Record, overtaken : BOOLEAN]
    BY DEF NoPin, Record
  <2>2. CASE LeaveRecord(p)
    BY <2>1, <2>2 DEF SlotTypeOK, LeaveRecord
  <2>3. CASE Die(p)
    BY <2>1, <2>3, FieldFacts DEF SlotTypeOK, Die
  <2> QED
    BY <2>2, <2>3
<1>2. FillStarted' /\ OneWriter'
  BY <1>0 DEF FillStarted, OneWriter, LeaveRecord, Die, SlotTypeOK
<1>3. PointerSeesRecord' /\ PinApart'
  <2>1. \A q \in Processes : pin'[q].held => pin'[q] = pin[q]
    BY <1>0 DEF NoPin, SlotTypeOK
  <2> QED
    BY <1>0, <2>1 DEF PointerSeesRecord, PinApart
<1>4. StampIsNew'
  BY <1>0 DEF StampIsNew
<1>5. AllStaged'
  BY <1>0 DEF AllStaged, Staged, SoFar
<1> QED
  BY <1>1, <1>2, <1>3, <1>4, <1>5

(* Every step on the record keeps the invariant. *)
LEMMA SlotNextKeeps == SlotInv /\ [SlotNext]_slotVars => SlotInv'
<1> SUFFICES ASSUME SlotInv, [SlotNext]_slotVars PROVE SlotInv'
  OBVIOUS
<1>1. CASE SlotNext
  BY <1>1, StartKeeps, SetKeeps, BeginCommitKeeps, FillKeeps, FlipKeeps, GetPointerKeeps,
     LeaveKeeps DEF SlotNext, WriteStep
<1>2. CASE UNCHANGED slotVars
  BY <1>2 DEF slotVars, SlotInv, SlotTypeOK, FillStarted, OneWriter, PointerSeesRecord,
     PinApart, StampIsNew, AllStaged, Staged, SoFar, Active, Inactive
<1> QED
  BY <1>1, <1>2

(* Behaviours of the record keep its invariant. *)
THEOREM SlotInvariance == SlotSpec => []SlotInv
BY SlotInitHolds, SlotNextKeeps, PTL DEF SlotSpec

(* Every variable of the record keeps to its range. *)
THEOREM SlotTypes == SlotSpec => []SlotTypeOK
<1>1. SlotInv => SlotTypeOK
  BY DEF SlotInv
<1> QED
  BY <1>1, SlotInvariance, PTL

(* A pointer that getData or getDataKey has returned shows the record as   *)
(* it was, until the second transaction after begins.                      *)
THEOREM SlotPointerSeesRecord == SlotSpec => []PointerSeesRecord
<1>1. SlotInv => PointerSeesRecord
  BY DEF SlotInv
<1> QED
  BY <1>1, SlotInvariance, PTL

-----------------------------------------------------------------------------
(* Only the exchange of the copies changes what is current. *)
LEMMA CurrentChanges ==
    ASSUME SlotInv, [SlotNext]_slotVars
    PROVE  \/ \E p \in Processes : Alone(p) /\ Flip(p)
           \/ buffer_state' = buffer_state /\ buffer'[buffer_state'] = buffer[buffer_state]
<1> USE SlotAssumption DEF SlotInv
<1>1. CASE UNCHANGED slotVars
  BY <1>1 DEF slotVars
<1>2. ASSUME NEW p \in Processes, GetPointer(p) \/ LeaveRecord(p) \/ Die(p)
      PROVE  buffer_state' = buffer_state /\ buffer' = buffer
  BY <1>2 DEF GetPointer, LeaveRecord, Die
<1>3. ASSUME NEW p \in Processes, Start(p) \/ BeginCommit(p)
      PROVE  buffer_state' = buffer_state /\ buffer' = buffer
  BY <1>3 DEF Start, BeginCommit
<1>4. ASSUME NEW p \in Processes, NEW f \in Fields, Set(p, f)
      PROVE  buffer_state' = buffer_state /\ buffer'[buffer_state'] = buffer[buffer_state]
  BY <1>4, CopyFacts DEF Set, SlotTypeOK, Active
<1>5. ASSUME NEW p \in Processes, Fill(p)
      PROVE  buffer_state' = buffer_state /\ buffer'[buffer_state'] = buffer[buffer_state]
  BY <1>5, CopyFacts DEF Fill, SlotTypeOK, Active
<1> QED
  BY <1>1, <1>2, <1>3, <1>4, <1>5 DEF SlotNext, WriteStep

(* A commit publishes what its transaction has set, and nothing else. *)
THEOREM SlotCommits == SlotSpec => CommitPublishesSetFields
<1>1. SlotInv /\ [SlotNext]_slotVars =>
        [\A p \in Processes : started[p] /\ buffer_state' # buffer_state =>
           buffer'[buffer_state'] = [f \in Fields |-> IF f \in Published(p) THEN stamp[p]
                                                      ELSE buffer[buffer_state][f]]]_slotVars
  <2> SUFFICES ASSUME SlotInv, [SlotNext]_slotVars, NEW p \in Processes, started[p],
                      buffer_state' # buffer_state
               PROVE  buffer'[buffer_state'] =
                        [f \in Fields |-> IF f \in Published(p) THEN stamp[p]
                                          ELSE buffer[buffer_state][f]]
    OBVIOUS
  <2>1. PICK q \in Processes : Alone(q) /\ Flip(q)
    BY CurrentChanges
  <2>2. q = p
    BY <2>1 DEF Alone
  <2> QED
    BY <2>1, <2>2, FlipPublishes
<1> QED
  BY <1>1, SlotInvariance, PTL DEF SlotSpec, CommitPublishesSetFields

(* The two copies and m_buffer_state implement a record whose fields       *)
(* change together, although every store is a step of its own and the      *)
(* process may die between any two.                                        *)
THEOREM SlotImplementsRecord == SlotSpec => ImplementsRecord
<1>1. SlotInit => Atomic!Init
  BY DEF SlotInit, Atomic!Init
<1>2. SlotInv /\ [SlotNext]_slotVars => [Atomic!Next]_(buffer[buffer_state])
  <2> SUFFICES ASSUME SlotInv, [SlotNext]_slotVars, NEW p \in Processes, Flip(p)
               PROVE  Atomic!Next
    BY CurrentChanges
  <2>1. /\ stamp[p] \in 1..MaxTransactions
        /\ \A f \in Fields : buffer[buffer_state][f] < stamp[p]
    BY FieldFacts DEF SlotInv, StampIsNew, SlotTypeOK, FillStarted, Flip, Active
  <2>2. Published(p) \in SUBSET Fields
    BY DEF SlotInv, SlotTypeOK, Published
  <2>3. Atomic!Update(Published(p), stamp[p])
    BY <2>1, FlipPublishes DEF Atomic!Update
  <2> QED
    BY <2>1, <2>2, <2>3 DEF Atomic!Next
<1> QED
  BY <1>1, <1>2, SlotInvariance, PTL DEF SlotSpec, ImplementsRecord, Atomic!Spec

-----------------------------------------------------------------------------
(* Of the store: only the process that is inside the lock to write is in a *)
(* transaction, and the others have left commit.                           *)
WritersInside ==
    \A a \in Agents : started[a] \/ fill[a] # 0 => phase[a] = "w_in"

StoreInv == IInv /\ SlotInv /\ WritersInside

(* A step of the store is a step of the lock and one of the record. *)
LEMMA StoreStep ==
    ASSUME StoreInv, [StoreNext]_storeVars
    PROVE  [Next]_vars /\ [SlotNext]_slotVars /\ WritersInside'
<1> USE StoreAssumption DEF StoreInv
<1>1. CASE UNCHANGED storeVars
  BY <1>1 DEF storeVars, vars, slotVars, WritersInside
<1>2. ASSUME NEW a \in Agents, LockStep(a)
      PROVE  [Next]_vars /\ [SlotNext]_slotVars /\ WritersInside'
  <2>1. Next /\ SlotNext
    BY <1>2 DEF LockStep, Next, SlotNext
  <2>2. ~started[a] /\ fill[a] = 0 /\ started' = started /\ fill' = fill
    BY <1>2 DEF LockStep, LeaveRecord, SlotInv, FillStarted, SlotTypeOK
  <2>3. \A b \in Agents \ {a} : phase'[b] = phase[b]
    BY <1>2 DEF LockStep, ReaderStep, WriterStep, OpenMutex, AcquireMutex, AcquireAbandoned,
       CreateSemaphoreToWrite, Drain, CreateSemaphoreToRead, TakePermit, ReleaseSemaphore,
       CloseSemaphore, ReleaseMutex, Goto, IInv, TypeOK
  <2> QED
    BY <2>1, <2>2, <2>3 DEF WritersInside
<1>3. ASSUME NEW a \in Agents, Write(a)
      PROVE  [Next]_vars /\ [SlotNext]_slotVars /\ WritersInside'
  <2>1. UNCHANGED vars /\ phase' = phase /\ phase[a] = "w_in"
    BY <1>3 DEF Write, vars
  <2>2. Alone(a)
    BY <2>1 DEF Alone, WritersInside, IInv, WriterOwnsMutex, OwnerPhases
  <2>3. SlotNext
    BY <1>3, <2>2 DEF Write, WriteStep, SlotNext
  <2>4. \A b \in Agents \ {a} : (started'[b] <=> started[b]) /\ fill'[b] = fill[b]
    BY <1>3 DEF Write, Start, Set, BeginCommit, Fill, Flip, SlotInv, SlotTypeOK
  <2> QED
    BY <2>1, <2>3, <2>4 DEF WritersInside
<1>4. ASSUME NEW a \in Agents, Read(a)
      PROVE  [Next]_vars /\ [SlotNext]_slotVars /\ WritersInside'
  BY <1>4 DEF Read, GetPointer, SlotNext, WritersInside, vars
<1>5. ASSUME NEW a \in Agents, ProcessDies(a)
      PROVE  [Next]_vars /\ [SlotNext]_slotVars /\ WritersInside'
  <2>1. Next /\ SlotNext
    BY <1>5 DEF ProcessDies, Next, SlotNext
  <2>2. ~started'[a] /\ fill'[a] = 0
    BY <1>5 DEF ProcessDies, Die, SlotInv, SlotTypeOK
  <2>3. \A b \in Agents \ {a} : /\ (started'[b] <=> started[b]) /\ fill'[b] = fill[b]
                                /\ phase'[b] = phase[b]
    BY <1>5 DEF ProcessDies, Die, Crash, Goto, SlotInv, SlotTypeOK, IInv, TypeOK
  <2> QED
    BY <2>1, <2>2, <2>3 DEF WritersInside
<1>6. ASSUME NEW a \in Agents, ThreadEnds(a)
      PROVE  [Next]_vars /\ [SlotNext]_slotVars /\ WritersInside'
  BY <1>6 DEF ThreadEnds, KeeperEnds, Next, slotVars, WritersInside
<1> QED
  BY <1>1, <1>2, <1>3, <1>4, <1>5, <1>6 DEF StoreNext

(* The invariant of the store holds throughout. *)
THEOREM StoreInvariance == StoreSpec => []StoreInv
<1>1. StoreInit => StoreInv
  BY InitHolds, SlotInitHolds, StoreAssumption
     DEF StoreInit, StoreInv, WritersInside, SlotInit
<1>2. StoreInv /\ [StoreNext]_storeVars => StoreInv'
  BY StoreStep, NextKeeps, SlotNextKeeps DEF StoreInv
<1> QED
  BY <1>1, <1>2, PTL DEF StoreSpec

(* IPC_Lock gives the record's transactions the exclusion they need,       *)
(* although it lets readers in beside a writer and processes die inside.   *)
THEOREM StoreImplementsSlot == StoreSpec => ImplementsSlot
<1>1. StoreInit => SlotInit
  BY DEF StoreInit
<1>2. StoreInv /\ [StoreNext]_storeVars => [SlotNext]_slotVars
  BY StoreStep
<1> QED
  BY <1>1, <1>2, StoreInvariance, PTL DEF StoreSpec, SlotSpec, ImplementsSlot

(* Together: whatever the processes do with the lock and the record, and   *)
(* wherever they die, the store is a record that changes atomically.       *)
THEOREM StoreImplementsRecord == StoreSpec => ImplementsRecord
BY StoreImplementsSlot, SlotImplementsRecord, PTL DEF ImplementsSlot
=============================================================================
