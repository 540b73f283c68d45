-------------------------- MODULE NativeJobsProofs --------------------------
(***************************************************************************)
(* What TLAPS proves of the native objects and the jobs that use them, for *)
(* any number of objects, calls and versions: a script that leaves an      *)
(* object alone while a promise of it is pending gets the results it asked *)
(* for, unless the collector took the object away.  The argument: such an  *)
(* object is unchanged, and used by one job at most, as long as a promise  *)
(* of it is pending, and what a job stores in it stays until it is looked  *)
(* up.                                                                     *)
(***************************************************************************)
EXTENDS NativeJobs, TLAPS

IsPending(j) == job[j].phase \in {"called", "working", "ended"}

(* A job that was called has an object and a kind that fits it. *)
KindFits == \A j \in Jobs : job[j].phase # "none" =>
                              job[j].on \in Objects /\ job[j].kind \in Kinds(job[j].on)

(* Objects that script code left alone while a promise was pending: nobody  *)
(* has changed them since the call, ...                                     *)
UnchangedSinceCall ==
    \A j \in Jobs : IsPending(j) /\ job[j].on \notin overlapped =>
                      version[job[j].on] = job[j].input

(* ... and a DbContext serves one job.                                      *)
OneJobPerDb ==
    \A i, j \in Jobs : /\ IsPending(i) /\ IsPending(j) /\ job[i].on = job[j].on
                       /\ job[j].on \in Dbs \ overlapped
                       => i = j

(* The result of a queryRow that has ended is still there.                  *)
ResultIsThere ==
    \A j \in Jobs : job[j].phase = "ended" /\ Looks(j) /\ Undisturbed(j) =>
                      result[job[j].on] = job[j].input

NativeInv == /\ TypeOK /\ KindFits /\ UnchangedSinceCall /\ OneJobPerDb /\ ResultIsThere
             /\ JobUsesItsInput /\ RowAnswersForItself

-----------------------------------------------------------------------------
(* queryRow is an operation of db objects only.                             *)
LEMMA KindFacts ==
    ASSUME NEW o \in Objects, NEW k \in Kinds(o)
    PROVE  /\ k \in {"exec", "query", "queryRow", "decompress"}
           /\ k \in {"query", "queryRow"} => o \in Dbs
  BY DEF Kinds

(* No object has been created, no call been made.                           *)
LEMMA NativeInitHolds == Init => NativeInv
<1> SUFFICES ASSUME Init PROVE NativeInv
  OBVIOUS
<1>1. \A j \in Jobs : job[j] = NoJob
  BY DEF Init
<1>2. \A j \in Jobs : job[j].phase = "none"
  BY <1>1 DEF NoJob
<1>3. TypeOK
  <2>1. 0 \in 0..MaxVersion
    BY NativeAssumption
  <2>2. NoJob \in JobRecord
    BY <2>1 DEF NoJob, JobRecord, None
  <2>3. job \in [Jobs -> JobRecord]
    BY <2>2 DEF Init
  <2> QED
    BY <2>1, <2>3 DEF Init, TypeOK, None
<1>4. KindFits /\ UnchangedSinceCall /\ OneJobPerDb /\ ResultIsThere
  BY <1>2 DEF KindFits, UnchangedSinceCall, OneJobPerDb, ResultIsThere, IsPending
<1>5. JobUsesItsInput /\ RowAnswersForItself
  BY <1>2 DEF Init, JobUsesItsInput, RowAnswersForItself
<1> QED
  BY <1>3, <1>4, <1>5 DEF NativeInv

-----------------------------------------------------------------------------
(* A script's use of an object disturbs only that object, and a job that is *)
(* pending on it makes it overlapped.                                           *)
LEMMA UseKeeps ==
    ASSUME NativeInv, NEW o \in Objects, Use(o), UNCHANGED <<life, job>>,
           \A q \in Objects \ {o} : version'[q] = version[q],
           \A q \in Dbs \ {o} : result'[q] = result[q],
           TypeOK'
    PROVE  NativeInv'
<1>1. \A j \in Jobs : IsPending(j) /\ job[j].on = o => o \in overlapped'
  BY DEF Use, Pending, IsPending
<1>2. overlapped \subseteq overlapped' /\ torn \subseteq torn'
  BY DEF Use
<1>3. \A j \in Jobs : Undisturbed(j)' => Undisturbed(j) /\ job[j].on \notin overlapped'
  BY <1>2 DEF Undisturbed
<1>4. KindFits'
  BY DEF NativeInv, KindFits
<1>5. UnchangedSinceCall'
  BY <1>1, <1>2 DEF NativeInv, UnchangedSinceCall, IsPending, KindFits
<1>6. OneJobPerDb'
  BY <1>2 DEF NativeInv, OneJobPerDb, IsPending
<1>7. ResultIsThere'
  <2> SUFFICES ASSUME NEW j \in Jobs, job[j].phase = "ended", Looks(j), Undisturbed(j)'
               PROVE  result'[job[j].on] = job[j].input
    BY DEF ResultIsThere, Looks
  <2>1. job[j].on \in Dbs
    BY KindFacts DEF NativeInv, KindFits, Looks
  <2>2. job[j].on # o
    BY <1>1, <1>3 DEF IsPending
  <2> QED
    BY <2>1, <2>2, <1>3 DEF NativeInv, ResultIsThere
<1>8. JobUsesItsInput'
  BY <1>3 DEF NativeInv, JobUsesItsInput
<1>9. RowAnswersForItself'
  BY <1>3 DEF NativeInv, RowAnswersForItself, Looks
<1> QED
  BY <1>4, <1>5, <1>6, <1>7, <1>8, <1>9 DEF NativeInv

(* The operations of script code on an object.                              *)
LEMMA ScriptKeeps ==
    ASSUME NativeInv,
           \/ \E d \in Dbs : prepare(d) \/ bind(d) \/ querySync(d) \/ fetch(d) \/ close(d)
           \/ \E b \in Buffers : WriteBytes(b)
    PROVE  NativeInv'
<1>1. PICK o \in Objects : \/ o \in Dbs /\ (prepare(o) \/ bind(o) \/ querySync(o) \/ fetch(o) \/ close(o))
                           \/ o \in Buffers /\ WriteBytes(o)
  BY DEF Objects
<1>2. Use(o) /\ UNCHANGED <<life, job>>
  BY <1>1 DEF prepare, bind, querySync, fetch, close, WriteBytes
<1>3. torn' \in SUBSET Objects /\ overlapped' \in SUBSET Objects
  BY <1>2 DEF Use, NativeInv, TypeOK
<1>4. CASE prepare(o) \/ bind(o) \/ WriteBytes(o)
  <2>1. NewVersion(o) /\ UNCHANGED <<result, session>>
    BY <1>4 DEF prepare, bind, WriteBytes
  <2>2. counter[o] + 1 \in 0..MaxVersion
    BY <2>1, NativeAssumption DEF NewVersion, NativeInv, TypeOK
  <2>3. TypeOK'
    BY <2>1, <2>2, <1>2, <1>3 DEF NewVersion, NativeInv, TypeOK
  <2> QED
    BY <2>1, <2>3, <1>2, UseKeeps DEF NewVersion, NativeInv, TypeOK
<1>5. CASE o \in Dbs /\ querySync(o)
  <2>1. TypeOK'
    BY <1>5, <1>2, <1>3 DEF querySync, NativeInv, TypeOK
  <2> QED
    BY <1>5, <2>1, <1>2, UseKeeps DEF querySync, NativeInv, TypeOK
<1>6. CASE fetch(o)
  <2>1. TypeOK'
    BY <1>6, <1>2, <1>3 DEF fetch, NativeInv, TypeOK
  <2> QED
    BY <1>6, <2>1, <1>2, UseKeeps DEF fetch
<1>7. CASE o \in Dbs /\ close(o)
  <2>1. None \in 0..MaxVersion
    BY NativeAssumption DEF None
  <2>2. TypeOK'
    BY <1>7, <2>1, <1>2, <1>3 DEF close, NativeInv, TypeOK
  <2> QED
    BY <1>7, <2>2, <1>2, UseKeeps DEF close, NativeInv, TypeOK
<1> QED
  BY <1>1, <1>4, <1>5, <1>6, <1>7

(* An object is born, dropped and collected.                                *)
LEMMA LifeKeeps ==
    ASSUME NativeInv, NEW o \in Objects, Create(o) \/ Drop(o) \/ Collect(o)
    PROVE  NativeInv'
<1>1. UNCHANGED <<version, counter, result, job>>
  BY DEF Create, Drop, Collect
<1>2. overlapped' = overlapped /\ torn \subseteq torn'
  BY DEF Create, Drop, Collect
<1>3. TypeOK'
  BY <1>1 DEF NativeInv, TypeOK, Create, Drop, Collect
<1>4. \A j \in Jobs : Undisturbed(j)' => Undisturbed(j)
  BY <1>1, <1>2 DEF Undisturbed
<1>5. KindFits'
  BY <1>1 DEF NativeInv, KindFits
<1>6. UnchangedSinceCall'
  BY <1>1, <1>2 DEF NativeInv, UnchangedSinceCall, IsPending
<1>7. OneJobPerDb'
  BY <1>1, <1>2 DEF NativeInv, OneJobPerDb, IsPending
<1>8. ResultIsThere'
  BY <1>1, <1>4 DEF NativeInv, ResultIsThere, Looks
<1>9. JobUsesItsInput' /\ RowAnswersForItself'
  BY <1>1, <1>4 DEF NativeInv, JobUsesItsInput, RowAnswersForItself, Looks
<1> QED
  BY <1>3, <1>5, <1>6, <1>7, <1>8, <1>9 DEF NativeInv

-----------------------------------------------------------------------------
(* A script calls exec, query, queryRow or decompress.                      *)
LEMMA CallKeeps ==
    ASSUME NativeInv, NEW j \in Jobs, NEW o \in Objects, NEW k \in Kinds(o), Call(j, o, k)
    PROVE  NativeInv'
<1> DEFINE new == [NoJob EXCEPT !.phase = "called", !.on = o, !.kind = k, !.input = version[o]]
<1>1. job' = [job EXCEPT ![j] = new] /\ job[j] = NoJob
  BY DEF Call
<1>2. /\ new.phase = "called" /\ new.on = o /\ new.kind = k /\ new.input = version[o]
      /\ new \in JobRecord
  <2>1. None \in 0..MaxVersion /\ version[o] \in 0..MaxVersion
    BY NativeAssumption DEF None, NativeInv, TypeOK
  <2>2. k \in {"exec", "query", "queryRow", "decompress"}
    BY KindFacts
  <2> QED
    BY <2>1, <2>2 DEF NoJob, JobRecord
<1> HIDE DEF new
<1>3. job'[j] = new /\ \A i \in Jobs \ {j} : job'[i] = job[i]
  BY <1>1 DEF NativeInv, TypeOK
<1>4. UNCHANGED <<life, version, counter, result, session, torn>>
  BY DEF Call
<1>5. overlapped \subseteq overlapped' /\ overlapped' \subseteq Objects
  BY DEF Call, NativeInv, TypeOK
<1>6. TypeOK'
  <2>1. job' \in [Jobs -> JobRecord]
    BY <1>1, <1>2 DEF NativeInv, TypeOK
  <2> QED
    BY <2>1, <1>4, <1>5 DEF NativeInv, TypeOK
<1>7. \A i \in Jobs \ {j} : Undisturbed(i)' => Undisturbed(i)
  BY <1>3, <1>4, <1>5 DEF Undisturbed
<1>8. KindFits'
  BY <1>2, <1>3 DEF NativeInv, KindFits
<1>9. UnchangedSinceCall'
  <2> SUFFICES ASSUME NEW i \in Jobs, IsPending(i)', job'[i].on \notin overlapped'
               PROVE  version[job'[i].on] = job'[i].input
    BY <1>4 DEF UnchangedSinceCall
  <2>1. CASE i = j
    BY <2>1, <1>2, <1>3 DEF Call
  <2>2. CASE i # j
    BY <2>2, <1>3, <1>5 DEF NativeInv, UnchangedSinceCall, IsPending
  <2> QED
    BY <2>1, <2>2
<1>10. OneJobPerDb'
  <2> SUFFICES ASSUME NEW i \in Jobs, NEW l \in Jobs, IsPending(i)', IsPending(l)',
                      job'[i].on = job'[l].on, job'[l].on \in Dbs \ overlapped'
               PROVE  i = l
    BY DEF OneJobPerDb
  <2>1. ASSUME NEW m \in Jobs \ {j}, IsPending(m), job[m].on = o, o \in Dbs
        PROVE  o \in overlapped'
    BY <2>1 DEF Call, Pending, IsPending
  <2>2. CASE i # j /\ l # j
    BY <2>2, <1>3, <1>5 DEF NativeInv, OneJobPerDb, IsPending
  <2>3. CASE i = j /\ l # j
    BY <2>1, <2>3, <1>2, <1>3 DEF IsPending
  <2>4. CASE i # j /\ l = j
    BY <2>1, <2>4, <1>2, <1>3 DEF IsPending
  <2> QED
    BY <2>2, <2>3, <2>4
<1>11. ResultIsThere'
  BY <1>2, <1>3, <1>4, <1>7 DEF NativeInv, ResultIsThere, Looks
<1>12. JobUsesItsInput' /\ RowAnswersForItself'
  BY <1>2, <1>3, <1>7 DEF NativeInv, JobUsesItsInput, RowAnswersForItself, Looks
<1> QED
  BY <1>6, <1>8, <1>9, <1>10, <1>11, <1>12 DEF NativeInv

(* What the steps of a worker have in common: the job keeps its object, its *)
(* kind and its input, and was pending before the step.                     *)
LEMMA WorkerKeeps ==
    ASSUME NativeInv, NEW j \in Jobs, IsPending(j), job'[j].phase # "none",
           job'[j].on = job[j].on, job'[j].kind = job[j].kind, job'[j].input = job[j].input,
           \A i \in Jobs \ {j} : job'[i] = job[i],
           UNCHANGED <<version, overlapped>>, torn \subseteq torn'
    PROVE  /\ KindFits' /\ UnchangedSinceCall' /\ OneJobPerDb'
           /\ \A i \in Jobs \ {j} :
                /\ job'[i].phase \in {"working", "ended", "settled"} /\ Undisturbed(i)'
                     => job'[i].used = job'[i].input
                /\ job'[i].phase = "settled" /\ Looks(i)' /\ Undisturbed(i)'
                     => job'[i].answer = job'[i].input
<1>1. job[j].phase # "none"
  BY DEF IsPending
<1>2. KindFits'
  <2> SUFFICES ASSUME NEW i \in Jobs, job'[i].phase # "none"
               PROVE  job'[i].on \in Objects /\ job'[i].kind \in Kinds(job'[i].on)
    BY DEF KindFits
  <2>1. CASE i = j
    BY <2>1, <1>1 DEF NativeInv, KindFits
  <2>2. CASE i # j
    BY <2>2 DEF NativeInv, KindFits
  <2> QED
    BY <2>1, <2>2
<1>3. \A i \in Jobs : /\ IsPending(i)' => IsPending(i)
                      /\ job'[i].on = job[i].on /\ job'[i].input = job[i].input
  BY DEF IsPending
<1>4. UnchangedSinceCall'
  BY <1>3 DEF NativeInv, UnchangedSinceCall
<1>5. OneJobPerDb'
  <2> SUFFICES ASSUME NEW i \in Jobs, NEW l \in Jobs, IsPending(i)', IsPending(l)',
                      job'[i].on = job'[l].on, job'[l].on \in Dbs \ overlapped
               PROVE  i = l
    BY DEF OneJobPerDb
  <2> QED
    BY <1>3 DEF NativeInv, OneJobPerDb
<1>6. ASSUME NEW i \in Jobs \ {j}
      PROVE  /\ job'[i].phase \in {"working", "ended", "settled"} /\ Undisturbed(i)'
                  => job'[i].used = job'[i].input
             /\ job'[i].phase = "settled" /\ Looks(i)' /\ Undisturbed(i)'
                  => job'[i].answer = job'[i].input
  <2>1. Undisturbed(i)' => Undisturbed(i)
    BY DEF Undisturbed
  <2> QED
    BY <2>1 DEF NativeInv, JobUsesItsInput, RowAnswersForItself, Looks
<1> QED
  BY <1>2, <1>4, <1>5, <1>6

(* The worker begins.                                                       *)
LEMMA StartJobKeeps ==
    ASSUME NativeInv, NEW j \in Jobs, StartJob(j)
    PROVE  NativeInv'
<1> DEFINE o == job[j].on
<1>1. job[j] \in JobRecord /\ IsPending(j) /\ o \in Objects
  BY DEF NativeInv, TypeOK, StartJob, IsPending, KindFits
<1>2. PICK seen \in Found(version[o], o \in torn') :
        job' = [job EXCEPT ![j] = [job[j] EXCEPT !.phase = "working", !.used = seen]]
  BY DEF StartJob
<1>3. /\ job'[j] = [job[j] EXCEPT !.phase = "working", !.used = seen]
      /\ \A i \in Jobs \ {j} : job'[i] = job[i]
  BY <1>2 DEF NativeInv, TypeOK
<1>4. /\ job'[j].phase = "working" /\ job'[j].used = seen
      /\ job'[j].on = job[j].on /\ job'[j].kind = job[j].kind /\ job'[j].input = job[j].input
      /\ job'[j] \in JobRecord
  <2>1. seen \in 0..MaxVersion
    BY <1>1, <1>2 DEF NativeInv, TypeOK, Found
  <2> QED
    BY <2>1, <1>1, <1>3 DEF JobRecord
<1>5. UNCHANGED <<life, version, counter, result, session, overlapped>>
  BY DEF StartJob
<1>6. torn' \subseteq torn \cup {o} /\ torn \subseteq torn'
  BY DEF StartJob
<1>7. TypeOK'
  <2>1. job' \in [Jobs -> JobRecord]
    BY <1>2, <1>3, <1>4 DEF NativeInv, TypeOK
  <2> QED
    BY <2>1, <1>1, <1>5, <1>6 DEF NativeInv, TypeOK
<1>8. \A i \in Jobs : Undisturbed(i)' => Undisturbed(i)
  BY <1>3, <1>4, <1>5, <1>6 DEF Undisturbed
<1>9. /\ KindFits' /\ UnchangedSinceCall' /\ OneJobPerDb'
      /\ \A i \in Jobs \ {j} :
           /\ job'[i].phase \in {"working", "ended", "settled"} /\ Undisturbed(i)'
                => job'[i].used = job'[i].input
           /\ job'[i].phase = "settled" /\ Looks(i)' /\ Undisturbed(i)'
                => job'[i].answer = job'[i].input
  BY <1>1, <1>3, <1>4, <1>5, <1>6, WorkerKeeps
<1>10. ResultIsThere'
  BY <1>3, <1>4, <1>5, <1>8 DEF NativeInv, ResultIsThere, Looks
<1>11. JobUsesItsInput'
  <2>1. Undisturbed(j)' => seen = job[j].input
    <3>1. o \notin overlapped => version[o] = job[j].input
      BY <1>1 DEF NativeInv, UnchangedSinceCall
    <3> QED
      BY <3>1, <1>2, <1>4, <1>5 DEF Undisturbed, Found
  <2> QED
    BY <2>1, <1>4, <1>9 DEF JobUsesItsInput
<1>12. RowAnswersForItself'
  BY <1>4, <1>9 DEF RowAnswersForItself
<1> QED
  BY <1>7, <1>9, <1>10, <1>11, <1>12 DEF NativeInv

(* The worker's work ends; the result is stored.                            *)
LEMMA EndJobKeeps ==
    ASSUME NativeInv, NEW j \in Jobs, EndJob(j)
    PROVE  NativeInv'
<1> DEFINE o == job[j].on
<1>1. job[j] \in JobRecord /\ IsPending(j) /\ o \in Objects
  BY DEF NativeInv, TypeOK, EndJob, IsPending, KindFits
<1>2. PICK failed \in BOOLEAN :
        /\ job' = [job EXCEPT ![j] = [job[j] EXCEPT !.phase = "ended", !.failed = failed]]
        /\ result' = IF ~failed /\ job[j].kind \in {"query", "queryRow"}
                     THEN [result EXCEPT ![o] = job[j].used] ELSE result
  BY DEF EndJob
<1>3. /\ job'[j] = [job[j] EXCEPT !.phase = "ended", !.failed = failed]
      /\ \A i \in Jobs \ {j} : job'[i] = job[i]
  BY <1>2 DEF NativeInv, TypeOK
<1>4. /\ job'[j].phase = "ended" /\ job'[j].used = job[j].used
      /\ job'[j].on = job[j].on /\ job'[j].kind = job[j].kind /\ job'[j].input = job[j].input
      /\ job'[j] \in JobRecord
      /\ job'[j].failed <=> failed
  BY <1>1, <1>3 DEF JobRecord
<1>5. UNCHANGED <<life, version, counter, session, torn, overlapped>>
  BY DEF EndJob
<1>6. job[j].kind \in {"query", "queryRow"} => o \in Dbs
  BY <1>1, KindFacts DEF NativeInv, KindFits, EndJob
<1>7. TypeOK'
  <2>1. job' \in [Jobs -> JobRecord]
    BY <1>2, <1>3, <1>4 DEF NativeInv, TypeOK
  <2>2. job[j].used \in 0..MaxVersion
    BY <1>1 DEF JobRecord
  <2>3. result' \in [Dbs -> 0..MaxVersion]
    BY <2>2, <1>2, <1>6 DEF NativeInv, TypeOK
  <2> QED
    BY <2>1, <2>3, <1>5 DEF NativeInv, TypeOK
<1>8. \A i \in Jobs : Undisturbed(i)' => Undisturbed(i)
  BY <1>3, <1>4, <1>5 DEF Undisturbed
<1>9. /\ KindFits' /\ UnchangedSinceCall' /\ OneJobPerDb'
      /\ \A i \in Jobs \ {j} :
           /\ job'[i].phase \in {"working", "ended", "settled"} /\ Undisturbed(i)'
                => job'[i].used = job'[i].input
           /\ job'[i].phase = "settled" /\ Looks(i)' /\ Undisturbed(i)'
                => job'[i].answer = job'[i].input
  BY <1>1, <1>3, <1>4, <1>5, WorkerKeeps
<1>10. Undisturbed(j) => job[j].used = job[j].input
  BY DEF NativeInv, JobUsesItsInput, EndJob
<1>11. ResultIsThere'
  <2> SUFFICES ASSUME NEW i \in Jobs, job'[i].phase = "ended", Looks(i)', Undisturbed(i)'
               PROVE  result'[job'[i].on] = job'[i].input
    BY <1>5 DEF ResultIsThere
  <2>1. CASE i = j
    <3>1. ~failed /\ job[j].kind = "queryRow"
      BY <2>1, <1>4 DEF Looks
    <3>2. result' = [result EXCEPT ![o] = job[j].used] /\ o \in Dbs
      BY <3>1, <1>2, <1>6
    <3> QED
      BY <3>2, <2>1, <1>4, <1>8, <1>10 DEF NativeInv, TypeOK
  <2>2. CASE i # j
    <3>1. job'[i] = job[i] /\ Looks(i) /\ IsPending(i)
      BY <2>2, <1>3 DEF Looks, IsPending
    <3>2. job[i].on \in Dbs
      BY <3>1, KindFacts DEF NativeInv, KindFits, Looks, IsPending
    <3>3. job[i].on # o
      BY <3>1, <3>2, <2>2, <1>1, <1>8 DEF NativeInv, OneJobPerDb, Undisturbed
    <3>4. result'[job[i].on] = result[job[i].on]
      BY <3>2, <3>3, <1>2 DEF NativeInv, TypeOK
    <3> QED
      BY <3>1, <3>4, <2>2, <1>3, <1>8 DEF NativeInv, ResultIsThere
  <2> QED
    BY <2>1, <2>2
<1>12. JobUsesItsInput'
  BY <1>4, <1>8, <1>9, <1>10 DEF JobUsesItsInput
<1>13. RowAnswersForItself'
  BY <1>4, <1>9 DEF RowAnswersForItself
<1> QED
  BY <1>7, <1>9, <1>11, <1>12, <1>13 DEF NativeInv

(* The promise is settled under the isolate's lock.                         *)
LEMMA SettleJobKeeps ==
    ASSUME NativeInv, NEW j \in Jobs, SettleJob(j)
    PROVE  NativeInv'
<1> DEFINE o == job[j].on
<1>1. job[j] \in JobRecord /\ IsPending(j) /\ o \in Objects
  BY DEF NativeInv, TypeOK, SettleJob, IsPending, KindFits
<1>2. PICK row \in IF Looks(j) THEN Found(result[o], o \in torn') ELSE {None} :
        job' = [job EXCEPT ![j] = [job[j] EXCEPT !.phase = "settled", !.answer = row]]
  BY DEF SettleJob
<1>3. Looks(j) => o \in Dbs
  BY <1>1, KindFacts DEF NativeInv, KindFits, SettleJob, Looks
<1>4. row \in 0..MaxVersion
  BY <1>2, <1>3, NativeAssumption DEF NativeInv, TypeOK, None, Found
<1>5. Looks(j) /\ o \notin torn' => row = result[o]
  BY <1>2 DEF Found
<1>6. /\ job'[j] = [job[j] EXCEPT !.phase = "settled", !.answer = row]
      /\ \A i \in Jobs \ {j} : job'[i] = job[i]
  BY <1>2 DEF NativeInv, TypeOK
<1>7. /\ job'[j].phase = "settled" /\ job'[j].used = job[j].used /\ job'[j].answer = row
      /\ job'[j].on = job[j].on /\ job'[j].kind = job[j].kind /\ job'[j].input = job[j].input
      /\ job'[j].failed = job[j].failed
      /\ job'[j] \in JobRecord
  BY <1>1, <1>4, <1>6 DEF JobRecord
<1>8. UNCHANGED <<life, version, counter, result, session, overlapped>>
  BY DEF SettleJob
<1>9. torn' \subseteq torn \cup {o} /\ torn \subseteq torn'
  BY DEF SettleJob
<1>10. TypeOK'
  <2>1. job' \in [Jobs -> JobRecord]
    BY <1>2, <1>6, <1>7 DEF NativeInv, TypeOK
  <2> QED
    BY <2>1, <1>1, <1>8, <1>9 DEF NativeInv, TypeOK
<1>11. \A i \in Jobs : Undisturbed(i)' => Undisturbed(i)
  BY <1>6, <1>7, <1>8, <1>9 DEF Undisturbed
<1>12. /\ KindFits' /\ UnchangedSinceCall' /\ OneJobPerDb'
       /\ \A i \in Jobs \ {j} :
            /\ job'[i].phase \in {"working", "ended", "settled"} /\ Undisturbed(i)'
                 => job'[i].used = job'[i].input
            /\ job'[i].phase = "settled" /\ Looks(i)' /\ Undisturbed(i)'
                 => job'[i].answer = job'[i].input
  BY <1>1, <1>6, <1>7, <1>8, <1>9, WorkerKeeps
<1>13. ResultIsThere'
  <2> SUFFICES ASSUME NEW i \in Jobs, job'[i].phase = "ended", Looks(i)', Undisturbed(i)'
               PROVE  result[job'[i].on] = job'[i].input
    BY <1>8 DEF ResultIsThere
  <2>1. job'[i] = job[i] /\ Undisturbed(i)
    BY <1>6, <1>7, <1>11
  <2>2. Looks(i)
    BY <2>1 DEF Looks
  <2> QED
    BY <2>1, <2>2 DEF NativeInv, ResultIsThere
<1>14. JobUsesItsInput'
  <2>1. Undisturbed(j) => job[j].used = job[j].input
    BY DEF NativeInv, JobUsesItsInput, SettleJob
  <2> QED
    BY <2>1, <1>7, <1>11, <1>12 DEF JobUsesItsInput
<1>15. RowAnswersForItself'
  <2>1. Looks(j)' => Looks(j)
    BY <1>7 DEF Looks
  <2>2. Looks(j) /\ Undisturbed(j)' => row = job[j].input
    <3>1. Looks(j) /\ Undisturbed(j) => result[o] = job[j].input
      BY DEF NativeInv, ResultIsThere, SettleJob
    <3>2. Undisturbed(j)' => o \notin torn'
      BY <1>7 DEF Undisturbed
    <3> QED
      BY <3>1, <3>2, <1>5, <1>11
  <2> QED
    BY <2>1, <2>2, <1>7, <1>12 DEF RowAnswersForItself
<1> QED
  BY <1>10, <1>12, <1>13, <1>14, <1>15 DEF NativeInv

-----------------------------------------------------------------------------
(* One step of anybody.                                                     *)
LEMMA NativeNextKeeps == NativeInv /\ [Next]_vars => NativeInv'
<1> SUFFICES ASSUME NativeInv, [Next]_vars PROVE NativeInv'
  OBVIOUS
<1>1. CASE UNCHANGED vars
  BY <1>1 DEF NativeInv, TypeOK, KindFits, UnchangedSinceCall, OneJobPerDb, ResultIsThere,
              JobUsesItsInput, RowAnswersForItself, Undisturbed, IsPending, Looks, vars
<1>2. CASE Next
  BY <1>2, ScriptKeeps, LifeKeeps, CallKeeps, StartJobKeeps, EndJobKeeps, SettleJobKeeps
     DEF Next
<1> QED
  BY <1>1, <1>2

(* The invariant holds throughout.                                          *)
THEOREM NativeInvariance == Spec => []NativeInv
BY NativeInitHolds, NativeNextKeeps, PTL DEF Spec

(* The variables keep to their ranges, for every number of objects, calls   *)
(* and versions.                                                            *)
THEOREM NativeTypeOK == Spec => []TypeOK
<1>1. NativeInv => TypeOK
  BY DEF NativeInv
<1> QED
  BY <1>1, NativeInvariance, PTL

(* A job on an object that neither script nor collector touched meanwhile   *)
(* works on the statement or the bytes it was called with.                  *)
THEOREM NativeJobUsesItsInput == Spec => []JobUsesItsInput
<1>1. NativeInv => JobUsesItsInput
  BY DEF NativeInv
<1> QED
  BY <1>1, NativeInvariance, PTL

(* The truth value that queryRow's promise gets for such an object is about *)
(* its own statement.                                                       *)
THEOREM NativeRowAnswers == Spec => []RowAnswersForItself
<1>1. NativeInv => RowAnswersForItself
  BY DEF NativeInv
<1> QED
  BY <1>1, NativeInvariance, PTL
=============================================================================
