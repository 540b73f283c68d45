--------------------------- MODULE WatcherProofs ----------------------------
(***************************************************************************)
(* What TLAPS proves of Watcher, for every set of scripts and any number   *)
(* of saves, failures and loads: no change is missed.                      *)
(*                                                                         *)
(* NoMissedChange says that a stale script has a recorded time that        *)
(* differs from the one on disk.  It is kept because recorded times are    *)
(* never newer than what was run: versions only grow (VersionsGrow), the   *)
(* time of a file being executed was recorded before (BeingExecuted), and  *)
(* so each script that was run has a time no newer than it (RecordedFirst).*)
(***************************************************************************)
EXTENDS Watcher, TLAPS

(* What was run is not newer than what is on disk, and nothing is newer    *)
(* than the last save.                                                     *)
VersionsGrow ==
    \A f \in Files : /\ disk[f] <= edits
                     /\ ran[f] <= edits
                     /\ disk[f] # 0 => ran[f] <= disk[f]

(* Some recorded time of f is no newer than version v. *)
RecordedBy(f, v) ==
    \E s \in loaded_scripts : s.file = f /\ 1 <= s.time /\ s.time <= v

(* A script that has been run was recorded before it was read. *)
RecordedFirst == \A f \in Files : ran[f] # 0 => RecordedBy(f, ran[f])

(* The file that is about to be opened or read has been recorded, with a   *)
(* time that no later save can reach; one that is open is there.           *)
BeingExecuted ==
    /\ step \in {"open", "read"} =>
         /\ RecordedBy(file, edits)
         /\ disk[file] # 0 => RecordedBy(file, disk[file])
    /\ step = "read" => disk[file] # 0

IInv == TypeOK /\ VersionsGrow /\ RecordedFirst /\ BeingExecuted

-----------------------------------------------------------------------------
(* The invariant holds when the engine thread starts. *)
LEMMA InitHolds == Init => IInv
<1> SUFFICES ASSUME Init PROVE IInv
  OBVIOUS
<1> USE WatchAssumption DEF Init, Files
<1>1. TypeOK
  <2>1. loaded_scripts \subseteq Scripts /\ unscanned \subseteq Scripts
    BY DEF Scripts
  <2>2. started \in BOOLEAN
    OBVIOUS
  <2>3. /\ disk \in [Files -> 0..MaxEdits] /\ ran \in [Files -> 0..MaxEdits]
        /\ edits \in 0..MaxEdits
        /\ open_failures \in 0..MaxOpenFailures /\ async_loads \in 0..MaxAsyncLoads
    OBVIOUS
  <2>4. engine \in {"scan", "reset", "execute", "arm", "callback", "down"}
    OBVIOUS
  <2>5. /\ step \in {"idle", "record", "open", "read"} /\ caller \in {"engine", "async"}
        /\ file \in Files /\ todo \subseteq Libs
    OBVIOUS
  <2> QED
    BY <2>1, <2>2, <2>3, <2>4, <2>5 DEF TypeOK
<1>2. VersionsGrow
  BY DEF VersionsGrow
<1>3. RecordedFirst
  BY DEF RecordedFirst
<1>4. BeingExecuted
  BY DEF BeingExecuted
<1> QED
  BY <1>1, <1>2, <1>3, <1>4 DEF IInv

(* A save makes a file newer than anything before it. *)
LEMMA SaveKeeps == ASSUME IInv, NEW f \in Files, Save(f) PROVE IInv'
<1> USE WatchAssumption DEF IInv, Save, scriptVars, execVars, boundVars
<1>1. TypeOK'
  BY DEF TypeOK
<1>2. VersionsGrow'
  BY DEF VersionsGrow, TypeOK
<1>3. RecordedFirst'
  BY DEF RecordedFirst, RecordedBy, TypeOK
<1>4. BeingExecuted'
  <2>1. ASSUME step \in {"open", "read"} PROVE RecordedBy(file, edits)' /\ RecordedBy(file, edits + 1)
    <3>1. PICK s \in loaded_scripts : s.file = file /\ 1 <= s.time /\ s.time <= edits
      BY <2>1 DEF BeingExecuted, RecordedBy
    <3>2. s.time \in Nat /\ edits \in Nat
      BY DEF TypeOK, Scripts
    <3> QED
      BY <3>1, <3>2 DEF RecordedBy
  <2> QED
    BY <2>1 DEF BeingExecuted, RecordedBy, TypeOK
<1> QED
  BY <1>1, <1>2, <1>3, <1>4

(* A deleted file has no version that could be missed. *)
LEMMA DeleteKeeps == ASSUME IInv, NEW f \in Files, Delete(f) PROVE IInv'
<1> USE WatchAssumption DEF IInv, Delete, scriptVars, execVars, boundVars
<1>1. TypeOK'
  BY DEF TypeOK
<1>2. VersionsGrow'
  BY DEF VersionsGrow, TypeOK
<1>3. RecordedFirst'
  BY DEF RecordedFirst, RecordedBy, TypeOK
<1>4. BeingExecuted'
  <2>1. ASSUME step \in {"open", "read"} PROVE RecordedBy(file, edits)'
    <3>1. PICK s \in loaded_scripts : s.file = file /\ 1 <= s.time /\ s.time <= edits
      BY <2>1 DEF BeingExecuted, RecordedBy
    <3>2. s.time \in Nat /\ edits \in Nat
      BY DEF TypeOK, Scripts
    <3> QED
      BY <3>1, <3>2 DEF RecordedBy
  <2> QED
    BY <2>1 DEF BeingExecuted, RecordedBy, TypeOK
<1> QED
  BY <1>1, <1>2, <1>3, <1>4

(* The engine thread leaves the record of a running script alone; a reset  *)
(* forgets what was run together with the record of it.                    *)
LEMMA LoadAndWatchKeeps == ASSUME IInv, LoadAndWatch PROVE IInv'
<1> USE WatchAssumption DEF IInv, editorVars, scriptVars, execVars, boundVars
<1>1. CASE Scan
  BY <1>1 DEF Scan, TypeOK, VersionsGrow, RecordedFirst, RecordedBy, BeingExecuted
<1>2. CASE reset_engine
  BY <1>2 DEF reset_engine, TypeOK, VersionsGrow, RecordedFirst, BeingExecuted
<1>3. CASE ExecuteMain
  BY <1>3 DEF ExecuteMain, TypeOK, VersionsGrow, RecordedFirst, RecordedBy, BeingExecuted, Files
<1>4. CASE WaitForChange
  BY <1>4 DEF WaitForChange, TypeOK, VersionsGrow, RecordedFirst, RecordedBy, BeingExecuted
<1>5. CASE directory_change_callback
  BY <1>5 DEF directory_change_callback, TypeOK, VersionsGrow, RecordedFirst, RecordedBy,
              BeingExecuted
<1> QED
  BY <1>1, <1>2, <1>3, <1>4, <1>5 DEF LoadAndWatch

(* A load begins without touching what is recorded. *)
LEMMA AsyncLoadKeeps == ASSUME IInv, NEW f \in Files, AsyncLoad(f) PROVE IInv'
BY WatchAssumption DEF IInv, AsyncLoad, editorVars, scriptVars, TypeOK, VersionsGrow,
   RecordedFirst, RecordedBy, BeingExecuted

(* The time that is recorded is the one on disk, which what is read later  *)
(* can only exceed.                                                        *)
LEMMA RecordTimeKeeps == ASSUME IInv, RecordTime PROVE IInv'
<1> USE WatchAssumption DEF IInv, RecordTime, editorVars, boundVars
<1> DEFINE script == [file |-> file, time |-> disk[file]]
<1>1. script \in Scripts /\ script.file = file /\ script.time = disk[file]
      /\ disk[file] \in 1..MaxEdits
  BY DEF TypeOK, Scripts
<1>2. TypeOK'
  BY <1>1 DEF TypeOK
<1>3. VersionsGrow'
  BY DEF VersionsGrow
<1>4. RecordedFirst'
  BY DEF RecordedFirst, RecordedBy
<1>5. BeingExecuted'
  <2>1. script \in loaded_scripts'
    OBVIOUS
  <2>2. disk[file] <= edits /\ disk[file] <= disk[file]
    BY <1>1 DEF VersionsGrow, TypeOK
  <2>3. RecordedBy(file, edits)' /\ RecordedBy(file, disk[file])'
    BY <1>1, <2>1, <2>2 DEF RecordedBy
  <2> QED
    BY <2>3 DEF BeingExecuted
<1> QED
  BY <1>2, <1>3, <1>4, <1>5

(* A failure ends execute_file, with at most a time recorded in vain. *)
LEMMA FailureKeeps == ASSUME IInv, RecordTimeThrows \/ OpenFails PROVE IInv'
<1> USE WatchAssumption DEF IInv, Return, editorVars, scriptVars, boundVars
<1>1. CASE RecordTimeThrows
  BY <1>1 DEF RecordTimeThrows, TypeOK, VersionsGrow, RecordedFirst, RecordedBy, BeingExecuted
<1>2. CASE OpenFails
  BY <1>2 DEF OpenFails, TypeOK, VersionsGrow, RecordedFirst, RecordedBy, BeingExecuted
<1> QED
  BY <1>1, <1>2

(* A file that exists is opened. *)
LEMMA OpenFileKeeps == ASSUME IInv, OpenFile PROVE IInv'
BY DEF IInv, OpenFile, editorVars, scriptVars, boundVars, TypeOK, VersionsGrow,
   RecordedFirst, RecordedBy, BeingExecuted

(* What is run is the version on disk, which has been recorded before. *)
LEMMA ReadAndRunKeeps == ASSUME IInv, ReadAndRun PROVE IInv'
<1> USE WatchAssumption DEF IInv, ReadAndRun, editorVars, boundVars
<1>1. TypeOK'
  <2> PICK rest \in (IF file = Main THEN SUBSET Libs ELSE {todo}) :
        IF rest = {} THEN Return
        ELSE /\ file' \in rest
             /\ todo' = rest \ {file'}
             /\ step' = "record"
             /\ UNCHANGED <<engine, caller>>
    OBVIOUS
  <2>1. rest \subseteq Libs
    BY DEF TypeOK
  <2> QED
    BY <2>1 DEF TypeOK, Return, Files
<1>2. VersionsGrow'
  BY DEF VersionsGrow, TypeOK
<1>3. RecordedFirst'
  BY DEF RecordedFirst, RecordedBy, BeingExecuted, TypeOK
<1>4. BeingExecuted'
  BY DEF BeingExecuted, Return
<1> QED
  BY <1>1, <1>2, <1>3, <1>4

(* The invariant is inductive. *)
LEMMA NextKeeps == IInv /\ [Next]_vars => IInv'
<1> SUFFICES ASSUME IInv, [Next]_vars PROVE IInv'
  OBVIOUS
<1>1. CASE UNCHANGED vars
  BY <1>1 DEF IInv, vars, editorVars, scriptVars, execVars, boundVars, TypeOK, VersionsGrow,
              RecordedFirst, RecordedBy, BeingExecuted
<1>2. CASE Next
  BY <1>1, <1>2, SaveKeeps, DeleteKeeps, AsyncLoadKeeps, LoadAndWatchKeeps, RecordTimeKeeps,
     FailureKeeps, OpenFileKeeps, ReadAndRunKeeps DEF Next, ExecuteFile, Down
<1> QED
  BY <1>1, <1>2

(* Every reachable state satisfies the inductive invariant. *)
THEOREM Invariance == Spec => []IInv
BY InitHolds, NextKeeps, PTL DEF Spec

(* Versions, places and the entries of loaded_scripts keep to their        *)
(* ranges: a file that does not exist is never recorded.                   *)
THEOREM WatchTypeOK == Spec => []TypeOK
<1>1. IInv => TypeOK
  BY DEF IInv
<1> QED
  BY <1>1, Invariance, PTL

(* Whenever a script that was run differs from the one on disk, the next   *)
(* round of load_and_watch sees a time that differs.                       *)
THEOREM WatchMissesNothing == Spec => []NoMissedChange
<1>1. IInv => NoMissedChange
  <2> SUFFICES ASSUME IInv, NEW f \in Files, ran[f] # 0, disk[f] \notin {0, ran[f]}
               PROVE  \E s \in loaded_scripts : s.file = f /\ Modified(s)
    BY DEF NoMissedChange
  <2>1. PICK s \in loaded_scripts : s.file = f /\ 1 <= s.time /\ s.time <= ran[f]
    BY DEF IInv, RecordedFirst, RecordedBy
  <2>2. ran[f] <= disk[f] /\ ran[f] # disk[f]
    BY DEF IInv, VersionsGrow
  <2>3. s.time \in Nat /\ ran[f] \in Nat /\ disk[f] \in Nat
    BY DEF IInv, TypeOK, Scripts
  <2> QED
    BY <2>1, <2>2, <2>3 DEF Modified
<1> QED
  BY <1>1, Invariance, PTL
=============================================================================
