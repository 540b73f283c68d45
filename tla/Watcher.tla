------------------------------ MODULE Watcher -------------------------------
(***************************************************************************)
(* How scripts are loaded and reloaded (load_and_watch, reset_engine,      *)
(* execute_file and the script function load of v8_wrapper.cpp), while an  *)
(* editor writes and deletes the files underneath.                         *)
(*                                                                         *)
(* Every save gives a file a new version, which stands for its contents    *)
(* and for its time of last writing.  execute_file is three steps, under   *)
(* the isolate's lock but with the editor free to act in between: the time *)
(* is recorded in loaded_scripts, the file is opened, the file is read and *)
(* run.  The engine thread goes through loaded_scripts without the lock,   *)
(* so a load from asynchronous code may push to the vector meanwhile.      *)
(***************************************************************************)
EXTENDS Naturals

CONSTANTS Main, Libs,        \* Main.js, and the scripts that it may load
          MaxEdits,          \* bound: how often the editor saves or deletes
          MaxOpenFailures,   \* bound: how often an existing file fails to open
          MaxAsyncLoads      \* bound: calls of load from asynchronous code

Files == {Main} \cup Libs

ASSUME WatchAssumption ==
    /\ Main \notin Libs
    /\ MaxEdits \in Nat /\ MaxOpenFailures \in Nat /\ MaxAsyncLoads \in Nat

VARIABLES disk,            \* disk[f]: the version of f on disk, 0 if there is none
          edits,
          loaded_scripts,  \* the files that are watched, with the recorded time
          unscanned,       \* the part of loaded_scripts the engine has yet to compare
          ran,             \* ran[f]: the version of f that was run in this context
          engine,          \* where the engine thread is in load_and_watch
          step,            \* where execute_file is ("idle": not being called)
          caller,          \* who has called execute_file
          file,            \* the file it is about
          todo,            \* the scripts that Main.js, being run, has yet to load
          started,         \* some script has been run
          open_failures, async_loads

editorVars == <<disk, edits>>
scriptVars == <<loaded_scripts, ran>>
execVars   == <<step, caller, file, todo, started>>
boundVars  == <<open_failures, async_loads>>
vars == <<editorVars, scriptVars, unscanned, engine, execVars, boundVars>>

(* Main.js is watched from the start, with the least time there is; every  *)
(* other element has the time of a file that exists.                       *)
Scripts == {[file |-> Main, time |-> 0]} \cup [file : Files, time : 1..MaxEdits]

Init == /\ disk = [f \in Files |-> 0]
        /\ edits = 0
        /\ loaded_scripts = {[file |-> Main, time |-> 0]}
        /\ unscanned = loaded_scripts
        /\ ran = [f \in Files |-> 0]
        /\ engine = "scan"
        /\ step = "idle" /\ caller = "engine" /\ file = Main /\ todo = {}
        /\ started = FALSE
        /\ open_failures = 0 /\ async_loads = 0

-----------------------------------------------------------------------------
(* The editor saves a file, or deletes it; an open file cannot be deleted. *)
Save(f) == /\ edits < MaxEdits
           /\ edits' = edits + 1
           /\ disk' = [disk EXCEPT ![f] = edits + 1]
           /\ UNCHANGED <<scriptVars, unscanned, engine, execVars, boundVars>>

Delete(f) == /\ edits < MaxEdits
             /\ disk[f] # 0
             /\ ~(step = "read" /\ file = f)
             /\ edits' = edits + 1
             /\ disk' = [disk EXCEPT ![f] = 0]
             /\ UNCHANGED <<scriptVars, unscanned, engine, execVars, boundVars>>

(* A watched file is there and has another time than the recorded one. *)
Modified(s) == disk[s.file] # 0 /\ s.time # disk[s.file]

(* Seeded defect: the loop starts with the second element. *)
ScanSkipsMain ==
    /\ engine = "scan"
    /\ IF unscanned = {}
       THEN engine' = "arm" /\ unscanned' = {}
       ELSE \E s \in unscanned :
              IF Modified(s) /\ s.file # Main
              THEN engine' = "reset" /\ unscanned' = {}
              ELSE engine' = "scan" /\ unscanned' = unscanned \ {s}
    /\ UNCHANGED <<editorVars, scriptVars, execVars, boundVars>>

(* One round of the loop over loaded_scripts; the first modified script    *)
(* ends it.                                                                *)
Scan ==
    /\ engine = "scan"
    /\ IF unscanned = {}
       THEN engine' = "arm" /\ unscanned' = {}
       ELSE \E s \in unscanned :
              IF Modified(s)
              THEN engine' = "reset" /\ unscanned' = {}
              ELSE engine' = "scan" /\ unscanned' = unscanned \ {s}
    /\ UNCHANGED <<editorVars, scriptVars, execVars, boundVars>>

(* Seeded defect: loaded_scripts is not cleared. *)
ResetKeepsScripts ==
    /\ engine = "reset"
    /\ step = "idle"
    /\ ran' = [f \in Files |-> 0]
    /\ engine' = "execute"
    /\ UNCHANGED <<editorVars, loaded_scripts, unscanned, execVars, boundVars>>

(* A new context, in which nothing has been run and nothing is watched. *)
reset_engine ==
    /\ engine = "reset"
    /\ step = "idle"
    /\ loaded_scripts' = {}
    /\ ran' = [f \in Files |-> 0]
    /\ engine' = "execute"
    /\ UNCHANGED <<editorVars, unscanned, execVars, boundVars>>

(* The engine calls execute_file for Main.js, in another scope of the lock. *)
ExecuteMain ==
    /\ engine = "execute"
    /\ step = "idle"
    /\ step' = "record" /\ caller' = "engine" /\ file' = Main /\ todo' = {}
    /\ UNCHANGED <<editorVars, scriptVars, unscanned, engine, started, boundVars>>

(* load(f), called by asynchronous code: of this script, or of one whose   *)
(* context has been replaced (execute_string runs the file in the current  *)
(* one in either case).                                                    *)
AsyncLoad(f) ==
    /\ started
    /\ engine # "down"
    /\ step = "idle"
    /\ async_loads < MaxAsyncLoads
    /\ async_loads' = async_loads + 1
    /\ step' = "record" /\ caller' = "async" /\ file' = f /\ todo' = {}
    /\ UNCHANGED <<editorVars, scriptVars, unscanned, engine, started, open_failures>>

(* execute_file returns to the engine, or to the function load. *)
Return == /\ step' = "idle"
          /\ engine' = IF caller = "engine" THEN "arm" ELSE engine
          /\ todo' = {}
          /\ UNCHANGED <<caller, file>>

(* Seeded defect: a file that is watched already gets its new time at once. *)
RecordTimeReplaces ==
    /\ step = "record"
    /\ disk[file] # 0
    /\ engine' \in (IF engine = "scan" THEN {"scan", "down"} ELSE {engine})
    /\ step' = "open"
    /\ LET script == [file |-> file, time |-> disk[file]]
       IN  loaded_scripts' = {s \in loaded_scripts : s.file # file} \cup {script}
    /\ UNCHANGED <<editorVars, unscanned, ran, caller, file, todo, started, boundVars>>

(* execute_file pushes the file with its time of last writing.  If the     *)
(* engine is in the middle of loaded_scripts, its iterator survives the    *)
(* push (and will see the new element), or it does not and the process     *)
(* goes down.                                                              *)
RecordTime ==
    /\ step = "record"
    /\ disk[file] # 0
    /\ engine' \in (IF engine = "scan" THEN {"scan", "down"} ELSE {engine})
    /\ step' = "open"
    /\ LET script == [file |-> file, time |-> disk[file]]
       IN  /\ loaded_scripts' = loaded_scripts \cup {script}
           /\ unscanned' = IF engine = "scan" THEN unscanned \cup {script} ELSE unscanned
    /\ UNCHANGED <<editorVars, ran, caller, file, todo, started, boundVars>>

(* There is no such file: last_write_time throws.  For Main.js, on the     *)
(* engine thread, nothing catches the exception; a script that calls load  *)
(* gets it, and ends with it.                                              *)
RecordTimeThrows ==
    /\ step = "record"
    /\ disk[file] = 0
    /\ IF caller = "engine" /\ file = Main
       THEN engine' = "down" /\ UNCHANGED <<step, caller, file, todo>>
       ELSE Return
    /\ UNCHANGED <<editorVars, scriptVars, unscanned, started, boundVars>>

OpenFile ==
    /\ step = "open"
    /\ disk[file] # 0
    /\ step' = "read"
    /\ UNCHANGED <<editorVars, scriptVars, unscanned, engine, caller, file, todo,
                   started, boundVars>>

(* The file has been deleted, another process does not share it, or it     *)
(* cannot be read: an exception for whoever called, after the time has     *)
(* been recorded.                                                          *)
OpenFails ==
    /\ step = "open"
    /\ \/ disk[file] = 0 /\ UNCHANGED open_failures
       \/ /\ open_failures < MaxOpenFailures
          /\ open_failures' = open_failures + 1
    /\ Return
    /\ UNCHANGED <<editorVars, scriptVars, unscanned, started, async_loads>>

(* The file is read and run.  Main.js, or whatever part of it is run       *)
(* before it throws, loads some of the other scripts in turn.              *)
ReadAndRun ==
    /\ step = "read"
    /\ ran' = [ran EXCEPT ![file] = disk[file]]
    /\ started' = TRUE
    /\ \E rest \in IF file = Main THEN SUBSET Libs ELSE {todo} :
         IF rest = {} THEN Return
         ELSE /\ file' \in rest
              /\ todo' = rest \ {file'}
              /\ step' = "record"
              /\ UNCHANGED <<engine, caller>>
    /\ UNCHANGED <<editorVars, loaded_scripts, unscanned, boundVars>>

(* FindFirstChangeNotification and WaitForSingleObject, which reports a    *)
(* change of the file system directory or times out; then another round.   *)
WaitForChange ==
    /\ engine = "arm"
    /\ \/ engine' = "callback" /\ UNCHANGED unscanned
       \/ engine' = "scan" /\ unscanned' = loaded_scripts
    /\ UNCHANGED <<editorVars, scriptVars, execVars, boundVars>>

(* The script's function for changes is called, under the lock. *)
directory_change_callback ==
    /\ engine = "callback"
    /\ step = "idle"
    /\ engine' = "scan"
    /\ unscanned' = loaded_scripts
    /\ UNCHANGED <<editorVars, scriptVars, execVars, boundVars>>

Down == engine = "down" /\ UNCHANGED vars

LoadAndWatch == Scan \/ reset_engine \/ ExecuteMain \/ WaitForChange
                  \/ directory_change_callback

(* Nothing runs any more once the process is down. *)
ExecuteFile == engine # "down" /\ (RecordTime \/ RecordTimeThrows \/ OpenFile
                                     \/ OpenFails \/ ReadAndRun)

Next == \/ \E f \in Files : Save(f) \/ Delete(f) \/ AsyncLoad(f)
        \/ LoadAndWatch
        \/ ExecuteFile
        \/ Down

Spec == Init /\ [][Next]_vars

(* The engine thread is scheduled, and so is the thread inside             *)
(* execute_file; asynchronous code does not keep the lock for ever.        *)
FairSpec == Spec /\ WF_vars(LoadAndWatch) /\ WF_vars(ExecuteFile)

-----------------------------------------------------------------------------
(* Each variable keeps to the values the code can give it. *)
TypeOK ==
    /\ disk \in [Files -> 0..MaxEdits]
    /\ edits \in 0..MaxEdits
    /\ loaded_scripts \subseteq Scripts
    /\ unscanned \subseteq Scripts
    /\ ran \in [Files -> 0..MaxEdits]
    /\ engine \in {"scan", "reset", "execute", "arm", "callback", "down"}
    /\ step \in {"idle", "record", "open", "read"}
    /\ caller \in {"engine", "async"}
    /\ file \in Files
    /\ todo \subseteq Libs
    /\ started \in BOOLEAN
    /\ open_failures \in 0..MaxOpenFailures
    /\ async_loads \in 0..MaxAsyncLoads

(* No change is missed: if a script that has been run is not the one on    *)
(* disk, some recorded time differs from the one on disk, so the next      *)
(* round reloads it.  A file saved between any two steps of execute_file   *)
(* is no exception, because the time is taken before the contents are.     *)
NoMissedChange ==
    \A f \in Files :
        ran[f] # 0 /\ disk[f] \notin {0, ran[f]}
            => \E s \in loaded_scripts : s.file = f /\ Modified(s)

(* What is saved as Main.js is run in the end, unless it is saved or       *)
(* deleted once more, a file fails to open or the process is down.         *)
MainIsReloadedIfReadable ==
    \A v \in 1..MaxEdits :
        disk[Main] = v ~> \/ ran[Main] = v \/ disk[Main] # v
                          \/ open_failures > 0 \/ engine = "down"

(* Once nothing is saved any more the engine stops to replace the context: *)
(* no recorded time outlives the reload it has caused, whoever recorded it *)
(* and in whichever order.                                                 *)
ReloadsQuiesce == <>[](engine # "reset")
=============================================================================
