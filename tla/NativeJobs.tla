----------------------------- MODULE NativeJobs -----------------------------
(***************************************************************************)
(* Native memory behind script objects, and worker threads that use it     *)
(* without the isolate's lock (v8_wrapper.cpp): the DbContext (session,    *)
(* statement, result) of a db object, which exec, query and queryRow hand  *)
(* to a worker as a raw pointer, and the memory of an ArrayBuffer, which   *)
(* gzip.decompress hands to a worker.  Nothing in the code keeps a script  *)
(* from using, closing or losing the object meanwhile, nor the collector   *)
(* from freeing it (the weak callback of db.init deletes the DbContext).   *)
(*                                                                         *)
(* Script code runs under the isolate's lock: one operation is one step.   *)
(* A job runs from StartJob to EndJob off the lock, and SettleJob is under *)
(* it again.  The two ways to go wrong, an access that races with a job    *)
(* and an access to freed memory, leave the object torn: a job finds any   *)
(* contents in it from then on.  A race takes a script that uses an object *)
(* while a promise of it is pending; freed memory takes no more than a     *)
(* script that awaits the promise and does not mention the object again.   *)
(*                                                                         *)
(* A statement, with the values bound to it, and the contents of a buffer  *)
(* are version numbers; a result is the version of the statement it is     *)
(* the result of.                                                          *)
(***************************************************************************)
EXTENDS Naturals, FiniteSets

CONSTANTS Dbs, Buffers,    \* script objects
          Jobs,            \* the asynchronous calls a script may make
          MaxVersion       \* bound: how often an object is changed

Objects == Dbs \cup Buffers
None == 0

ASSUME NativeAssumption ==
    /\ Dbs \cap Buffers = {}
    /\ MaxVersion \in Nat

VARIABLES life,        \* life[o]: "unborn", "held" by the script, "dropped", "freed"
          version,     \* version[o]: the statement with its bindings, or the bytes
          counter,     \* how many versions object o has had
          result,      \* result[d]: the statement whose rows d.result holds
          session,     \* session[d]: whether the session is open
          job,         \* job[j]: what job j is and how far it is
          torn,        \* the objects raced for, or used after they were freed
          overlapped   \* the objects that script code used while a promise was pending

vars == <<life, version, counter, result, session, job, torn, overlapped>>

NoJob == [phase |-> "none", on |-> None, kind |-> "exec", input |-> None,
          used |-> None, failed |-> FALSE, answer |-> None]

Init ==
    /\ life = [o \in Objects |-> "unborn"]
    /\ version = [o \in Objects |-> None]
    /\ counter = [o \in Objects |-> 0]
    /\ result = [d \in Dbs |-> None]
    /\ session = [d \in Dbs |-> "none"]
    /\ job = [j \in Jobs |-> NoJob]
    /\ torn = {}
    /\ overlapped = {}

(* The jobs on an object whose promise is pending; those now at work. *)
Pending(o) == {j \in Jobs : job[j].phase \in {"called", "working", "ended"} /\ job[j].on = o}
Working(o) == {j \in Jobs : job[j].phase = "working" /\ job[j].on = o}

(* What is found in an object that holds v: anything, once it is torn. *)
Found(v, isTorn) == IF isTorn THEN 0..MaxVersion ELSE {v}

(* Script code uses a DbContext or changes a buffer: a race if a job is at *)
(* work on it, and more than a careful script would do if a promise is     *)
(* pending.                                                                *)
Use(o) ==
    /\ life[o] = "held"
    /\ torn' = IF Working(o) # {} THEN torn \cup {o} ELSE torn
    /\ overlapped' = IF Pending(o) # {} THEN overlapped \cup {o} ELSE overlapped

-----------------------------------------------------------------------------
(* db.init: a session that opens; one that does not throws, and nothing    *)
(* comes of it.  For a buffer: the script allocates it.                    *)
Create(o) ==
    /\ life[o] = "unborn"
    /\ life' = [life EXCEPT ![o] = "held"]
    /\ IF o \in Dbs THEN session' = [session EXCEPT ![o] = "open"] ELSE UNCHANGED session
    /\ UNCHANGED <<version, counter, result, job, torn, overlapped>>

NewVersion(o) ==
    /\ counter[o] < MaxVersion
    /\ counter' = [counter EXCEPT ![o] = @ + 1]
    /\ version' = [version EXCEPT ![o] = counter[o] + 1]

(* prepare on an open session *)
prepare(d) ==
    /\ session[d] = "open"
    /\ Use(d)
    /\ NewVersion(d)
    /\ UNCHANGED <<life, result, session, job>>

(* bind and reset change the statement there is. *)
bind(d) ==
    /\ version[d] # None
    /\ Use(d)
    /\ NewVersion(d)
    /\ UNCHANGED <<life, result, session, job>>

(* The script stores into the bytes of a buffer. *)
WriteBytes(b) ==
    /\ Use(b)
    /\ NewVersion(b)
    /\ UNCHANGED <<life, result, session, job>>

(* querySync and queryRowSync replace the result. *)
querySync(d) ==
    /\ version[d] # None
    /\ Use(d)
    /\ result' = [result EXCEPT ![d] = version[d]]
    /\ UNCHANGED <<life, version, counter, session, job>>

(* next and fetch read the result, execSync the statement; so does what    *)
(* ends in an exception of cppdb.                                          *)
fetch(d) ==
    /\ Use(d)
    /\ UNCHANGED <<life, version, counter, result, session, job>>

(* close gives up the session, the statement and the result. *)
close(d) ==
    /\ Use(d)
    /\ session' = [session EXCEPT ![d] = "closed"]
    /\ version' = [version EXCEPT ![d] = None]
    /\ result' = [result EXCEPT ![d] = None]
    /\ UNCHANGED <<life, counter, job>>

(* exec, query, queryRow and decompress: the worker gets the raw pointer.  *)
(* The call itself does not look into the object.  Two jobs may read the   *)
(* same buffer, but a DbContext is for one job at a time.                  *)
Kinds(o) == IF o \in Dbs THEN {"exec", "query", "queryRow"} ELSE {"decompress"}

Call(j, o, k) ==
    /\ job[j] = NoJob
    /\ k \in Kinds(o)
    /\ life[o] = "held"
    /\ overlapped' = IF o \in Dbs /\ Pending(o) # {} THEN overlapped \cup {o} ELSE overlapped
    /\ job' = [job EXCEPT ![j] =
                 [NoJob EXCEPT !.phase = "called", !.on = o, !.kind = k, !.input = version[o]]]
    /\ UNCHANGED <<life, version, counter, result, session, torn>>

(* The last reference to the object goes away: nothing in the code that    *)
(* awaits a promise of it, and nothing in the job, is one.                 *)
Drop(o) ==
    /\ life[o] = "held"
    /\ life' = [life EXCEPT ![o] = "dropped"]
    /\ UNCHANGED <<version, counter, result, session, job, torn, overlapped>>

(* The collector frees it, whatever a worker does with it. *)
Collect(o) ==
    /\ life[o] = "dropped"
    /\ life' = [life EXCEPT ![o] = "freed"]
    /\ torn' = IF Working(o) # {} THEN torn \cup {o} ELSE torn
    /\ UNCHANGED <<version, counter, result, session, job, overlapped>>

-----------------------------------------------------------------------------
(* The worker begins to work on the object. *)
StartJob(j) ==
    /\ job[j].phase = "called"
    /\ LET o == job[j].on
       IN  /\ torn' = IF (o \in Dbs /\ Working(o) # {}) \/ life[o] = "freed"
                      THEN torn \cup {o} ELSE torn
           /\ \E v \in Found(version[o], o \in torn') :
                job' = [job EXCEPT ![j] = [@ EXCEPT !.phase = "working", !.used = v]]
    /\ UNCHANGED <<life, version, counter, result, session, overlapped>>

(* Seeded defect: the result of queryRow is not stored. *)
EndJobKeepsResult(j) ==
    /\ job[j].phase = "working"
    /\ \E failed \in BOOLEAN :
         /\ job[j].used = None => failed
         /\ job' = [job EXCEPT ![j].phase = "ended", ![j].failed = failed]
         /\ result' = IF ~failed /\ job[j].kind = "query"
                      THEN [result EXCEPT ![job[j].on] = job[j].used] ELSE result
    /\ UNCHANGED <<life, version, counter, session, torn, overlapped>>

(* It ends: query and queryRow store their result in the DbContext.  An    *)
(* exception (there always is one without a statement, or for bytes nobody *)
(* wrote) leaves it as it was.                                             *)
EndJob(j) ==
    /\ job[j].phase = "working"
    /\ \E failed \in BOOLEAN :
         /\ job[j].used = None => failed
         /\ job' = [job EXCEPT ![j].phase = "ended", ![j].failed = failed]
         /\ result' = IF ~failed /\ job[j].kind \in {"query", "queryRow"}
                      THEN [result EXCEPT ![job[j].on] = job[j].used] ELSE result
    /\ UNCHANGED <<life, version, counter, session, torn, overlapped>>

(* queryRow looks at the result in the DbContext when it settles, under    *)
(* the isolate's lock; the others touch nothing.                           *)
Looks(j) == job[j].kind = "queryRow" /\ ~job[j].failed

(* Seeded defect: the promise is resolved as soon as the worker is started. *)
SettleJobEarly(j) ==
    /\ job[j].phase \in {"called", "ended"}
    /\ LET o == job[j].on
       IN  /\ torn' = IF Looks(j) /\ (Working(o) # {} \/ life[o] = "freed")
                      THEN torn \cup {o} ELSE torn
           /\ \E v \in IF Looks(j) THEN Found(result[o], o \in torn') ELSE {None} :
                job' = [job EXCEPT ![j] = [@ EXCEPT !.phase = "settled", !.answer = v]]
    /\ UNCHANGED <<life, version, counter, result, session, overlapped>>

SettleJob(j) ==
    /\ job[j].phase = "ended"
    /\ LET o == job[j].on
       IN  /\ torn' = IF Looks(j) /\ (Working(o) # {} \/ life[o] = "freed")
                      THEN torn \cup {o} ELSE torn
           /\ \E v \in IF Looks(j) THEN Found(result[o], o \in torn') ELSE {None} :
                job' = [job EXCEPT ![j] = [@ EXCEPT !.phase = "settled", !.answer = v]]
    /\ UNCHANGED <<life, version, counter, result, session, overlapped>>

Next ==
    \/ \E o \in Objects : Create(o) \/ Drop(o) \/ Collect(o)
    \/ \E d \in Dbs : prepare(d) \/ bind(d) \/ querySync(d) \/ fetch(d) \/ close(d)
    \/ \E b \in Buffers : WriteBytes(b)
    \/ \E j \in Jobs, o \in Objects : \E k \in Kinds(o) : Call(j, o, k)
    \/ \E j \in Jobs : StartJob(j) \/ EndJob(j) \/ SettleJob(j)

Spec == Init /\ [][Next]_vars

-----------------------------------------------------------------------------
JobRecord == [phase : {"none", "called", "working", "ended", "settled"},
              on : Objects \cup {None},
              kind : {"exec", "query", "queryRow", "decompress"},
              input : 0..MaxVersion, used : 0..MaxVersion, failed : BOOLEAN,
              answer : 0..MaxVersion]

(* The variables keep to their ranges. *)
TypeOK ==
    /\ life \in [Objects -> {"unborn", "held", "dropped", "freed"}]
    /\ version \in [Objects -> 0..MaxVersion]
    /\ counter \in [Objects -> 0..MaxVersion]
    /\ result \in [Dbs -> 0..MaxVersion]
    /\ session \in [Dbs -> {"none", "open", "closed"}]
    /\ job \in [Jobs -> JobRecord]
    /\ torn \in SUBSET Objects
    /\ overlapped \in SUBSET Objects

(* A script that leaves an object alone while a promise of it is pending,  *)
(* and whose object the collector leaves alone too, gets what it asked     *)
(* for: every job works on the statement, or on the bytes, that were there *)
(* when it was called, although it starts later and off the lock.  (That   *)
(* the collector does is up to the script: the code keeps no object alive  *)
(* for the jobs that use it.)                                              *)
Undisturbed(j) == job[j].on \notin overlapped \cup torn

JobUsesItsInput ==
    \A j \in Jobs : job[j].phase \in {"working", "ended", "settled"} /\ Undisturbed(j)
                      => job[j].used = job[j].input

(* Likewise, the truth value of queryRow is about its own result, although *)
(* it is looked up in the DbContext after the job has ended, when other    *)
(* script code may have run.                                               *)
RowAnswersForItself ==
    \A j \in Jobs : job[j].phase = "settled" /\ Looks(j) /\ Undisturbed(j)
                      => job[j].answer = job[j].input
=============================================================================
