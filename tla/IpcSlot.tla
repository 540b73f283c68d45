------------------------------ MODULE IpcSlot -------------------------------
(***************************************************************************)
(* A record of the shared key-value store (IPC_KV_Info, IPC_KV_Data) and   *)
(* the transactions of IPC_KV_Controller on it (ipckv.h).  The record lies *)
(* in shared memory twice; m_buffer_state tells which copy is current.     *)
(* Setters write the other copy, commit fills in what was not set and then *)
(* exchanges the copies with one interlocked instruction.  Each store is a *)
(* step, and a process may die between any two.                            *)
(*                                                                         *)
(* The contents of a field are the number of the transaction that stored   *)
(* it.  IPC_KV, which decides which setters to call, is a binary library:  *)
(* here it calls any of them, in any order, inside a transaction.          *)
(***************************************************************************)
EXTENDS Naturals, Sequences

CONSTANTS Processes,
          FillOrder,        \* the fields in the order in which commit treats them:
                            \* <<resize_count, capacity, size>> for the info record,
                            \* <<size, state, value, key>> for a data record
          MaxTransactions   \* bound: how many transactions are started

Fields == {FillOrder[i] : i \in DOMAIN FillOrder}

ASSUME SlotAssumption ==
    /\ FillOrder \in Seq(STRING)
    /\ \A i, j \in DOMAIN FillOrder : FillOrder[i] = FillOrder[j] => i = j
    /\ "value" \in Fields => "size" \in Fields
    /\ MaxTransactions \in Nat

VARIABLES buffer,        \* buffer[b][f]: field f of copy b
          buffer_state,  \* m_buffer_state: the copy that readers use
          started,       \* m_has_started_..._transaction of each process
          flags,         \* m_..._transaction_flags of each process
          fill,          \* 0, or how far the process is in commit
          asked,         \* the flags as they were when commit was called
          stamp,         \* the number of the process's transaction
          transactions,  \* how many have been started so far
          pin            \* pin[p]: what a reader knows of the record, see GetPointer

slotVars == <<buffer, buffer_state, started, flags, fill, asked, stamp, transactions,
              pin>>

Active == buffer_state
Inactive == 1 - buffer_state

NoPin == [held |-> FALSE, copy |-> 0, record |-> [f \in Fields |-> 0], overtaken |-> FALSE]

SlotInit ==
    /\ buffer = [b \in {0, 1} |-> [f \in Fields |-> 0]]
    /\ buffer_state = 0
    /\ started = [p \in Processes |-> FALSE]
    /\ flags = [p \in Processes |-> {}]
    /\ fill = [p \in Processes |-> 0]
    /\ asked = [p \in Processes |-> {}]
    /\ stamp = [p \in Processes |-> 0]
    /\ transactions = 0
    /\ pin = [p \in Processes |-> NoPin]

(* A pointer into the copy that is about to be written is no longer good. *)
Overtake == pin' = [p \in Processes |->
                      IF pin[p].held /\ pin[p].copy = Inactive
                      THEN [pin[p] EXCEPT !.overtaken = TRUE]
                      ELSE pin[p]]

(* Seeded defect: the flags of the previous transaction stay set. *)
StartKeepsFlags(p) ==
    /\ ~started[p]
    /\ transactions < MaxTransactions
    /\ transactions' = transactions + 1
    /\ started' = [started EXCEPT ![p] = TRUE]
    /\ stamp' = [stamp EXCEPT ![p] = transactions + 1]
    /\ Overtake
    /\ UNCHANGED <<buffer, buffer_state, flags, fill, asked>>

(* startInfoTransaction, startDataTransaction *)
Start(p) ==
    /\ ~started[p]
    /\ transactions < MaxTransactions
    /\ transactions' = transactions + 1
    /\ started' = [started EXCEPT ![p] = TRUE]
    /\ flags' = [flags EXCEPT ![p] = {}]
    /\ stamp' = [stamp EXCEPT ![p] = transactions + 1]
    /\ Overtake
    /\ UNCHANGED <<buffer, buffer_state, fill, asked>>

(* setData stores the value together with its size; every other setter     *)
(* stores its field only.                                                  *)
Stores(f) == IF f = "value" THEN {"value", "size"} ELSE {f}

(* The setters set..., called between start and commit. *)
Set(p, f) ==
    /\ started[p]
    /\ fill[p] = 0
    /\ buffer' = [buffer EXCEPT ![Inactive] =
                    [g \in Fields |-> IF g \in Stores(f) THEN stamp[p] ELSE @[g]]]
    /\ flags' = [flags EXCEPT ![p] = @ \cup Stores(f)]
    /\ UNCHANGED <<buffer_state, started, fill, stamp, transactions, pin, asked>>

(* commitInfo, commitData: the call ... *)
BeginCommit(p) ==
    /\ started[p]
    /\ fill[p] = 0
    /\ fill' = [fill EXCEPT ![p] = 1]
    /\ asked' = [asked EXCEPT ![p] = flags[p]]
    /\ UNCHANGED <<buffer, buffer_state, started, flags, stamp, transactions, pin>>

(* ... which goes through the fields and copies those that are not flagged *)
(* from the current copy.  Copying the value copies its size once more,    *)
(* over one that setDataSize has stored in this transaction.               *)
Fill(p) ==
    /\ fill[p] \in DOMAIN FillOrder
    /\ fill' = [fill EXCEPT ![p] = @ + 1]
    /\ LET f == FillOrder[fill[p]]
       IN  IF f \in flags[p]
           THEN UNCHANGED <<buffer, flags>>
           ELSE /\ buffer' = [buffer EXCEPT ![Inactive] =
                     [g \in Fields |-> IF g \in Stores(f) THEN buffer[Active][g] ELSE @[g]]]
                /\ flags' = [flags EXCEPT ![p] = @ \cup Stores(f)]
    /\ UNCHANGED <<buffer_state, started, stamp, transactions, pin, asked>>

(* Seeded defect: the copies are exchanged one field too early. *)
FlipEarly(p) ==
    /\ fill[p] \in DOMAIN FillOrder
    /\ buffer_state' = Inactive
    /\ started' = [started EXCEPT ![p] = FALSE]
    /\ fill' = [fill EXCEPT ![p] = 0]
    /\ asked' = [asked EXCEPT ![p] = {}]
    /\ stamp' = [stamp EXCEPT ![p] = 0]
    /\ UNCHANGED <<buffer, flags, transactions, pin>>

(* ... and ends with InterlockedXor8.  The flags stay as they are. *)
Flip(p) ==
    /\ fill[p] = Len(FillOrder) + 1
    /\ buffer_state' = Inactive
    /\ started' = [started EXCEPT ![p] = FALSE]
    /\ fill' = [fill EXCEPT ![p] = 0]
    /\ asked' = [asked EXCEPT ![p] = {}]
    /\ stamp' = [stamp EXCEPT ![p] = 0]
    /\ UNCHANGED <<buffer, flags, transactions, pin>>

(* Seeded defect: the pointer is taken into the copy being written. *)
GetPointerToOther(p) ==
    /\ ~started[p]
    /\ ~pin[p].held
    /\ pin' = [pin EXCEPT ![p] = [held |-> TRUE, copy |-> Inactive, record |-> buffer[Active],
                                  overtaken |-> FALSE]]
    /\ UNCHANGED <<buffer, buffer_state, started, flags, fill, stamp, transactions, asked>>

(* getData and getDataKey return a pointer into the copy that is current   *)
(* at that moment.  The model remembers the record there was.              *)
GetPointer(p) ==
    /\ ~started[p]
    /\ ~pin[p].held
    /\ pin' = [pin EXCEPT ![p] = [held |-> TRUE, copy |-> Active, record |-> buffer[Active],
                                  overtaken |-> FALSE]]
    /\ UNCHANGED <<buffer, buffer_state, started, flags, fill, stamp, transactions, asked>>

(* The process leaves the record alone: no transaction, no pointer. *)
LeaveRecord(p) ==
    /\ ~started[p]
    /\ pin' = [pin EXCEPT ![p] = NoPin]
    /\ UNCHANGED <<buffer, buffer_state, started, flags, fill, stamp, transactions, asked>>

(* The death of the process, and a new one in its place. *)
Die(p) ==
    /\ started' = [started EXCEPT ![p] = FALSE]
    /\ flags' = [flags EXCEPT ![p] = {}]
    /\ fill' = [fill EXCEPT ![p] = 0]
    /\ asked' = [asked EXCEPT ![p] = {}]
    /\ stamp' = [stamp EXCEPT ![p] = 0]
    /\ pin' = [pin EXCEPT ![p] = NoPin]
    /\ UNCHANGED <<buffer, buffer_state, transactions>>

(* Transactions of different processes exclude one another. *)
Alone(p) == \A q \in Processes \ {p} : ~started[q]

WriteStep(p) ==
    /\ Alone(p)
    /\ Start(p) \/ (\E f \in Fields : Set(p, f)) \/ BeginCommit(p) \/ Fill(p) \/ Flip(p)

SlotNext == \E p \in Processes :
              WriteStep(p) \/ GetPointer(p) \/ LeaveRecord(p) \/ Die(p)

SlotSpec == SlotInit /\ [][SlotNext]_slotVars

-----------------------------------------------------------------------------
Record == [Fields -> 0..MaxTransactions]

(* The variables keep to their ranges. *)
SlotTypeOK ==
    /\ buffer \in [{0, 1} -> Record]
    /\ buffer_state \in {0, 1}
    /\ started \in [Processes -> BOOLEAN]
    /\ flags \in [Processes -> SUBSET Fields]
    /\ fill \in [Processes -> 0..(Len(FillOrder) + 1)]
    /\ asked \in [Processes -> SUBSET Fields]
    /\ stamp \in [Processes -> 0..MaxTransactions]
    /\ transactions \in 0..MaxTransactions
    /\ pin \in [Processes -> [held : BOOLEAN, copy : {0, 1}, record : Record,
                              overtaken : BOOLEAN]]

(* A reader that follows a pointer it got from getData or getDataKey finds *)
(* the record that was current when it got it, even if another transaction *)
(* has been committed meanwhile; only the start of the transaction after   *)
(* that one invalidates the pointer.                                       *)
PointerSeesRecord ==
    \A p \in Processes : pin[p].held /\ ~pin[p].overtaken => buffer[pin[p].copy] = pin[p].record

(* A commit publishes every field that its transaction has set, except a   *)
(* size that was set without a value, and leaves the others as they were.  *)
Published(p) == IF "value" \in Fields \ asked[p] THEN asked[p] \ {"size"} ELSE asked[p]

CommitPublishesSetFields ==
    [][\A p \in Processes : started[p] /\ buffer_state' # buffer_state =>
          buffer'[buffer_state'] = [f \in Fields |-> IF f \in Published(p) THEN stamp[p]
                                                     ELSE buffer[buffer_state][f]]]_slotVars

(* The current copy is a record that changes atomically. *)
Atomic == INSTANCE AtomicRecord WITH record <- buffer[buffer_state],
                                     Stamps <- 1..MaxTransactions

ImplementsRecord == Atomic!Spec
=============================================================================
