# Verification of IISModuleJS

IISModuleJS is a native module for IIS. It embeds V8, loads `Main.js` from
`%PUBLIC%`, and hands the notifications of the web server to functions the script
has registered. This directory holds TLA+ models of the module's own logic, TLC
configurations that check them on small instances, and proofs checked by TLAPS.
Line numbers refer to `src/IISModuleJS/v8_wrapper.cpp` unless another file is named.

## 1. Inventory

### Threads and locks

| thread | started by | runs script code |
|---|---|---|
| IIS request threads | IIS | `handle_callback` (3300), under the isolate's lock |
| engine thread | `start` (60) | `load_and_watch` (349): reload, directory callback |
| worker threads, detached | each asynchronous API function | to settle their promise, and whatever continues from it |

All of them share one V8 isolate, protected by `v8::Locker`, one context and one set of
function handles. Worker threads are counted in `thread_count`, with a mutex and a
condition variable of their own. Several worker *processes* of IIS share the key-value
store `ipc`, behind a named mutex and a named semaphore of Windows, and the files below
the script's directory, behind nothing.

### Components

| component | state | operations | what makes it correct | module |
|---|---|---|---|---|
| worker pool (583-897 and seven copies of it) | `thread_count`, `thread_count_cv`, the isolate's lock, one promise per call | call, wait for a slot, spawn, finish, notify, settle | slots are counted exactly; no wakeup is lost; waiting with the isolate locked never closes a cycle; each promise is settled once, and in the end | `WorkerPool`, `AsyncOps` |
| notification dispatch (3300-3532, `http_module.cpp`) | function handles, pending promises, what IIS was told | check, call, return, `IndicateCompletion` | one final answer per notification, the one the script gave; code that the answer waits for has its request | `Dispatch` |
| script loading and watching (94-145, 349-506, 3572-3721) | `loaded_scripts`, the context | scan, reset, execute, `load` | no change on disk is missed; reloading comes to rest | `Watcher`, `Dispatch` |
| response body (2481-2485, 2704-2932) | IIS's entity chunks; offset, length and flag of the chunk loop; the two loops of `read` | `response.write`, `read`, `clear` | the body arrives whole, in order, in legal chunks; what is read is what was written | `ResponseWrite`, `ResponseBody` |
| request reading (2982-3068) | what is left of the entity body | `request.read`, with and without rewrite | the text does not depend on the pieces; what is put back is what was read | `RequestRead` |
| IPC lock (`Include/ipckv/ipckv.h` 415-528) | named mutex and semaphore | constructor and destructor of `IPC_Lock`, process death | a readers-writer lock across processes | `IpcLock` |
| IPC slots (`ipckv.h` 78-413) | double-buffered records | transactions, getters | a crash leaves the old or the new record | `IpcSlot`, `AtomicRecord`, `IpcStore` |
| database contexts (1187-1244, 1829-2339) | session, statement, result of a `DbContext` | `prepare`, `bind`, `exec`, `query`, `queryRow`, `next`, `fetch`, `close` | an operation on an object left alone sees the statement it was called for | `NativeJobs` |
| garbage-collected handles | `DbContext`, memory of ArrayBuffers | weak callbacks, collection | no job on freed memory: the code does not see to it | `NativeJobs` |
| path normalisation (150-272) | `cached_paths`, two strings | `get_relative_file_path` | it ends, leaves no dot segment, leads where the name says | `PathNormalize`, `PathReference` |
| file functions (979-1181) | streams, and the files themselves | `fs.write`, `read`, `copy`, `delete` | a file holds, and a read returns, what was written | `FileStore` |
| accessors, registration | none of their own | single calls of IIS | - | - |

### Interaction

A request thread that calls into the script may, still under the isolate's lock, call an
asynchronous function and block for a slot of the pool; the worker that frees the slot
must not need that lock to do so. A worker settles the promise of an API function, which
runs the script's continuation on the worker's thread, which may settle the promise a
callback returned, which tells IIS that the notification is complete: the pool's
guarantee that promises are settled is what dispatch needs to answer every notification.
The engine thread replaces the context under both. While a job runs, off the lock, it uses
native memory that the script and the collector can reach as well. Processes that write
to the shared store take the IPC lock, and the records' transactions rely on it.

### What is hard here

Interleavings of the three kinds of threads (handles tested before the lock and used
under it, the window between `reset_engine` and `execute_file`, completions that overtake
the return value); waits with a lock held; a counter kept by eight hand-written copies of a
protocol; raw pointers in jobs; threads, files and reads that fail half-way; processes that
die between two system calls or two stores to shared memory; pieces and chunks of sizes
that somebody else chooses; lengths that pass through a 16-bit integer; a loop that
rewrites its own input. `PROJECT.json` lists each hazard at its line.

## 2. The modules

Every action is commented with the code it stands for. Operators whose comment begins
with "Seeded defect" are variants of an action with a plausible mistake; they are not
part of any specification and serve to show that each property can fail. The modules
`MC*` give the constants of an instance their values and define nothing else; `MCBodies`
also puts the two modules side by side that are about bodies, which share no variable.

### WorkerPool, with the abstract service AsyncOps

`AsyncOps` says what a script is promised: a successful call gives a pending promise, at
most `Limit` jobs run at a time, a promise is settled once and after its job.
`WorkerPool` is the protocol of `http.fetch` (583-897), of which `gzip.compress`,
`gzip.decompress`, `crypto.bcrypt.hash`, `crypto.bcrypt.check`, `db.exec`, `db.query` and
`db.queryRow` are copies. They differ in how the job's end settles the promise, which is
the set `Outcomes(t)`.

* `phase[a]` is the program counter of a thread: a call from outside (`EnterScript` ...
  `ScriptReturn`), or the worker of an operation. Both can be in `"script"`, call an
  asynchronous function, and be `"waiting"` in `thread_count_cv`.
* `ReserveSlot`, `WaitForSlot` are the wait with its predicate (716-722): one step each
  under `thread_count_lock`; `NotifyOne` is a step of its own, since the code notifies after
  it has left that region; `SpuriousWakeup` is what a condition variable may do.
* `Spawn` and `SpawnFails` are the construction of `std::thread`, which may throw.
* `Settle` takes the isolate's lock; `DisposeResolver` is the destruction of the closure's
  `v8::Global` after the lock is gone.

The abstract variable `running` is mapped to the workers in phase `"working"`.

### NativeJobs

What the jobs of the pool work on. A db object owns a `DbContext` with a session, a
statement and a result; `exec`, `query` and `queryRow` give the raw pointer to a worker, and
`gzip.decompress` gives it the memory of an ArrayBuffer. The code has no rule for what the
script, or the collector, may do meanwhile. Statements (with the values bound to them) and
the bytes of a buffer are version numbers, a result is the version it is the result of.

A race, and a use of freed memory, are undefined behaviour: the object becomes `torn`, and
a job finds any contents in it from then on (`Found`). Races take a script that uses an object
while a promise of it is pending, which `overlapped` remembers. Freed memory takes less: the
handle of a db object is weak (1210-1230), a job has a raw pointer (1424, 1897), and
`await db.exec()` does not keep `db` reachable if nothing mentions it later. `Drop` and
`Collect` therefore need nothing of the jobs, and the use of freed memory by a script that
awaits every promise is a behaviour of the model (section 5). What does hold is that a job on
an object that neither the script nor the collector has touched meanwhile (`Undisturbed`)
works on the input of its call (`JobUsesItsInput`), and that `queryRow`, which looks up its
result later, finds its own (`RowAnswersForItself`).

### Dispatch

`CheckRegistered` is `handle_callback` up to the lock, `CallFunction` (or
`CallEmptyHandle`) what it does under it, `SettlePromise` the handler attached by `Then`,
`FinishRequest` what IIS does with the answer. The engine's `reset_engine` and
`execute_file` are separate steps because each takes the lock for itself. `LateRegister`
is a call of `register` from asynchronous code.

`CodeRuns` is code of a callback that goes on later, while its promise is pending or without
anybody waiting for it; it reaches the request's `IHttpContext` through a pointer that nobody
resets. The notifications with code that the answer does not wait for are `loose`: those whose
script started something it does not await, and every PRE_BEGIN_REQUEST whose callback
returned a pending promise, since it is answered with CONTINUE and no handler is attached
(3395-3407). `dangling` are those whose context was used after IIS was done with it, and
`AwaitedCodeHasContext` says that they are among the loose ones.

Script values are abstracted to "converts
to 0", "converts to another number" and "not a number"; the statuses keep the numeric
values of `httpserv.h`, because 1 means FINISH to the script, HANDLED to a global
notification and PENDING to a request notification.

### Watcher

An editor saves and deletes files; every save gives a file a new version, which stands for
contents and time. Times of different saves are assumed to differ. `execute_file` is
`RecordTime`, `OpenFile`, `ReadAndRun` with the editor free in between, on behalf of the
engine (`ExecuteMain`) or of asynchronous code (`AsyncLoad`). `loaded_scripts` is a set:
duplicates in the vector change nothing. The engine goes through it one element at a
time (`Scan`), without the lock; when a load pushes to the vector meanwhile the process
may go down. Of the wait for directory changes only the possible callback is kept.

### ResponseWrite and ResponseBody

`ResponseWrite` is the conversion of the argument (`StrayPointer`, `BadArgument`,
`StartString`, `StartArray`) and the `do ... while` loop of `response.write`, one action per
round; `WriteFails` is a failing `WriteEntityChunks`. Bytes are positions. `USHORT` is a
remainder. For an argument that is not a string, `Utf8ValueScoped` reads an uninitialised
pointer (`v8_wrapper.h` 372): null, or `StrayPointer`, after which nothing is known. In a
body of several chunks the last one is announced with `has_more_data` still TRUE, since the
flag is computed before the chunk is sent; `LastMeansLast` therefore states one direction
only.

`ResponseBody` puts it on IIS's list of entity chunks, beside `response.clear`, chunks that
other modules add (in memory, empty, or in a file) and `response.read`, whose two loops
(`SumChunk`, `CopyChunk`) use different conditions. The buffer of a text is memory nobody
initialised (`Garbage`).

### RequestRead

The loop of `request.read`, one action per piece that IIS delivers, the rewrite option, and
the three places where it throws. Of a byte the model keeps whether it is a character,
begins one or continues one, because a piece may end inside a character; `Decode` is what
V8's UTF-8 decoding makes of a sequence of such bytes.

### IpcLock, IpcSlot with the abstract AtomicRecord, and IpcStore

Every system call of the constructor and destructor of `IPC_Lock` is an action of a
process. The semaphore and the mutex exist as long as there is a handle. `Crash` is the
death of a process between two calls: Windows closes its handles and abandons its mutex,
and the permits it took are gone. The next process to wait for the mutex gets it with
`WAIT_ABANDONED`, for which the constructor throws (`ipckv.h` 442-443). No destructor runs; the
exception reaches the script, and the process goes on (`AcquireAbandoned`): one of its threads
owns the mutex (`kept`) and a handle is never closed (`leaked`). It can read, and write
too, since a mutex of Windows is granted again to the thread that owns it, while other writers
wait until that thread (`KeeperEnds`) or its process ends and the mutex is abandoned once more.

`IpcSlot` is one record, in two copies. The setters write the copy that is not current
(`Set`), `commit` goes through the fields in the code's order and fills in those that were
not set (`Fill`), then exchanges the copies (`Flip`). A field's contents are the number of the
transaction that stored it. `FillOrder` is a constant, since the info record and the data
records differ in nothing else. `GetPointer` is a getter that returns an address in shared
memory; `pin` remembers the record there was. `AtomicRecord` is a record whose fields change
together; the refinement maps its `record` to the current copy.

`IpcStore` composes them: a process with the write lock runs transactions, one with the read
lock takes pointers, and either may die at any step (`ProcessDies` is `Crash` and `Die`
together). `ImplementsSlot` says that the lock gives `IpcSlot` the exclusion it asks for in
`Alone`. `IPC_KV`, which sits between the lock and the controller, is a binary library and
not part of the repository: it is taken to call any setters in any order between start
and commit.

### PathNormalize, with PathReference

A string is the sequence of its segments. Each rule of the loop (192-263) is an action;
`Hit` and `Miss` are the look-up in `cached_paths`. The name as given still has its
separators, so that the replacement of backslashes is part of the model. `PathReference`
says what a name means by RFC 3986, which the comments of the loop cite (181), as a walk along
its segments: "." stays, ".." goes back by one but not over the root, and a name that ends with
a dot segment ends with a slash. `FollowsRFC3986` says that the path is exactly that, which is
not so (section 5); `LeadsToNamedFile` says it of the names whose walk does not go back over
their first segment (`BacksOverFirst`).

### FileStore

Processes call `fs.write`, `read`, `copy` and `delete` on the same files; nothing but Windows
stands between them. A write opens (and empties) the file and stores it block by block, a
read takes the size, allocates and reads. `CopyFileW`, to which `fs.copy` is left, empties or
creates the copy (`CopyOpens`), moves blocks (`CopyBlock`) as long as the original has more, and
may fail on the way (`CopyFails`), with the beginning of a copy left behind or taken away again;
other calls may meet it, and its process may end inside it. Ignored results of `fwrite` and `fread` are
`WriteFailsUnseen` and the second case of `ReadCloses`. `excused` are the files on which calls
have met, failed unseen or been cut off by the end of their process: of these nothing is
said, of the others everything. External assumptions: Windows refuses to delete or to
overwrite by copy a file on which a stream is open or that is being copied, and closes the
streams of a process that ends. Whether a file that is being copied to can be opened is left
open: both happen.

## 3. The runs

| run | instance | result |
|---|---|---|
| `pool` | 2 calls, 3 operations (fetch, check, query), 2 slots, 1 failing thread | `SlotAccounting`, `WaiterOwnsIsolate`, `NoLostWakeup`, `SettledOnce`, `WaiterProceeds`, `EveryPromiseSettles`, `ImplementsService` hold |
| `native` | a db object, a buffer, 2 asynchronous calls, 2 versions of each | `JobUsesItsInput`, `RowAnswersForItself` hold |
| `dispatch` | a BEGIN_REQUEST, a PRE_BEGIN_REQUEST, 2 scripts, 1 late registration | `AnsweredOnce`, `PendingIsOwed`, `AnswerIsScripts`, `PreBeginIsSynchronous`, `AwaitedCodeHasContext`, `EveryNotificationAnswered`, `ServedByCurrentScript` hold |
| `dispatch_reset` | the same without late registration | `CallsRegisteredFunction` fails: the handle is tested before the lock is taken, and a reset may empty it in between |
| `watch` | `Main.js` and one more script, 4 saves or deletions, 1 failing open, 1 asynchronous load | `NoMissedChange`, `MainIsReloadedIfReadable`, `ReloadsQuiesce` hold |
| `ipc_store` | a reader, 2 writers, 2 permits, 3 transactions on 3 fields, 1 death | `WriterOwnsMutex`, `HandlesHeld`, `PointerSeesRecord`, `CommitPublishesSetFields`, `ImplementsRecord`, `ImplementsSlot` hold |
| `ipc_lock_readers` | 3 readers, 2 permits | `EmptyMeansReaderInside`, `ReaderGetsIn` hold |
| `ipc_lock_exclusion` | processes that read, write, or both | `ReadersExcludeWriter` fails: the release of all permits by one reader lets a writer in beside another |
| `bodies` | every request body of up to 5 bytes, pieces of 1 or 2, 3 reads; 2 response bodies of up to 7 bytes, chunks of 3, a foreign chunk, a clear, a read | `PipelineSeesBody`, `ReadsWholeBody`, `WholeBufferDelivered`, `BodyTypeOK`, `ChunksContiguous`, `LastMeansLast`, `ReadReturnsWritten` hold |
| `path` | every name of up to 5 segments over 2 names, "", "." and ".."; those of 2 segments with backslashes too | `NoDotSegments`, `LeadsToNamedFile`, `EveryNameResolves` hold |
| `path_rfc` | the same names | `FollowsRFC3986` fails: `a/..` becomes `a/`, because a segment without a slash before it is not removed |
| `files` | 2 processes with 1 stream each, 2 files, 4 calls of up to 2 blocks, 1 restart | `FileIsIntended`, `ReadIsWhole` hold |

`IpcLock`'s own invariants are checked in `ipc_store`, whose lock steps are all of its
actions, and are proved for every instance.

### Why the bounds are enough

* `pool`: two slots and three operations make a caller wait while two jobs run, and let a
  worker be the one that waits. With one failure one slot remains. All threads are alike.
* `native`: a wrong answer needs two jobs on one object, or one and a change of it; more
  objects do not interact. Once both calls are made and all versions used the script can
  only look and let go, so deadlock is not checked.
* `dispatch`: the two notifications do not touch each other's state; what they share is the
  engine, and two scripts give one reload at every point. A SEND_RESPONSE is treated as a
  BEGIN_REQUEST.
* `watch`: a missed change needs a save during one load and another later; four edits leave
  room for a deletion and for a second script.
* `ipc_store`, `ipc_lock_*`: the semaphore's count matters when it is zero, full or in
  between, so two permits. Three transactions are a committed one, one that dies half-way
  and one that begins over its remains; `size`, `value` and `key` are the field that is set
  together with another, that other, and one on its own. The two writers are symmetric.
  One death is enough to abandon the mutex, for somebody to keep it, and for it to be abandoned
  again when the keeper's thread ends. Transactions and deaths are used up in the end, with
  writers waiting for a mutex that is kept: so deadlock is not checked.
* `bodies`: a behaviour is about the request or about the response. Lengths 0 to 7 with chunks
  of 3 are empty, below, at, above one chunk and at multiples of it; one chunk of each foreign
  kind, before, between or after. Five bytes of a request in pieces of two give characters on
  every border, and three reads are the sequence of README.md 283-325 (rewrite, rewrite,
  plain) and all others.
* `path`: a rule looks at two segments of the input and one of the output; five segments
  give every pair of rules in succession, after something has been moved.
* `files`: two calls meet on a file, with one before and one after; a file of two blocks can
  be half written or half copied. One stream is enough for a call to fail because another has
  left its stream open.

The proofs of section 4 remove the bounds for all safety properties. They stay for the
liveness properties.

### Fairness

Weak fairness of the steps of running threads: they are scheduled, jobs end (the libraries
have time-outs), scripts return. For the isolate's lock weak fairness is enough because the
number of calls is bounded. The loop of `PathNormalize` is sequential code. In `IpcLock`
waits for the mutex and the semaphore are strongly fair: Windows queues waiters. Nothing is
assumed of what a script, an editor or IIS chooses to do, of failures, or of spurious
wakeups. `Dispatch` assumes that the promise of a callback is settled (`SettlePromise`); that
the promises it can await are settled is `EveryPromiseSettles` of `WorkerPool`.

## 4. What is proved

TLAPS checks the modules `*Proofs.tla`. The only assumptions are the named `ASSUME`s on
constants (finite sets of agents, a positive number of slots, permits or bytes,
`MAX_BYTES < USHORT_RANGE`), which the code's constants (24, 24, 65535, 65536) satisfy.

* **WorkerPoolProofs**: `TypeOK`, `SlotAccounting`, `WaiterOwnsIsolate`, `NoLostWakeup`,
  `SettledOnce`, and that `Spec` implements the safety part of `AsyncOps`. None of them is
  inductive alone. That the counter does not go below zero when a worker decrements it needs
  `SlotAccounting` (the worker itself is counted). That no wakeup is lost needs
  `WaiterOwnsIsolate`: the only waiter is the owner of the isolate, so the one
  notification reaches it. The refinement needs both, and `PromiseFollowsThread` (a promise is
  pending exactly until its worker takes the lock). `PoolWaiterIsServed` is the safety half of
  `WaiterProceeds`: from the three, while a thread waits with the isolate locked, and not
  every slot is lost, some worker is still working or about to notify, neither of which
  needs that lock.
* **WatcherProofs**: `TypeOK` and `NoMissedChange`. The inductive invariant says that
  versions only grow, that the file being executed was recorded with a time that is not
  newer than the one on disk, and hence that each script that was run has a recorded time
  no newer than what was run.
* **ResponseBodyProofs**: first `response.write` alone: `TypeOK`, `WholeBufferDelivered`,
  `ChunksContiguous`, `LastMeansLast` for bodies of every length and every chunk size.
  `LoopInvariant` is the invariant of the loop: what is delivered is what lies before
  `buffer_offset`, and a flag that is FALSE means that the next chunk is the last. Then the
  whole body: `BodySpec` implements `Spec` of `ResponseWrite` (`BodyImplementsWrite`), so the
  three properties hold beside `clear`, `read` and other modules as well; and `BodyTypeOK` and
  `ReadReturnsWritten`. The invariant for these (`BodyInv`) says that there is a table of where
  each chunk begins in the memory of the response (`Laid`), that this memory, with what a
  write still has to deliver, is what is due (`Owed`), and that the first loop of a read has
  summed up the entries of the table, and the second has copied the memory, as far as it has
  got (`Looping`). The table stands in for a recursive sum over the list.
* **RequestReadProofs**: `PipelineSeesBody` and `ReadsWholeBody` for bodies of every length,
  cut in any pieces, and any sequence of reads. In the loop what was read, followed by what
  is left, is the body (`Conserved`). The proof uses nothing of `Decode` but that it is a
  function of the bytes: the text is decoded once, when all pieces are there.
* **IpcStoreProofs**: the lock first: `TypeOK`, `WriterOwnsMutex`, `HandlesHeld` for every
  number of processes, permits and crashes. They hold each other up: an owner keeps the mutex
  through another process's death because it still has a handle, and so does a process that
  has kept it, since its handle was never closed. That handles are left over only after a death
  needs that a mutex is abandoned only then (`DeathFirst`). `ReadersNeverStuck` proves
  `EmptyMeansReaderInside` for `ReadersSpec`, the behaviours in which nobody writes or dies.
  Then the slots: for any fields, any processes and any number of transactions and
  deaths, `SlotSpec` keeps `SlotTypeOK`, `PointerSeesRecord` and `CommitPublishesSetFields`
  and implements `AtomicRecord`. The inductive invariant says what the copy that is being
  written holds at each step of a commit (`Staged`), that a stamp is newer than all that were
  published (`StampIsNew`), and that nobody writes to the copy a pointer lies in unless the
  pointer was overtaken (`PinApart`). Then `StoreSpec`, the slots under the lock, implements `SlotSpec`: a
  transaction of one process excludes those of the others because it owns the mutex
  (`WriterOwnsMutex`). With the two, `StoreSpec` implements
  `AtomicRecord`. `StoreAssumption` says that the processes of the lock are those of the slots.
* **FsProofs**, paths: `TypeOK`, `NoDotSegments`, `SlashBetween` and `LeadsToNamedFile` for
  names of any length. The first inductive invariant says that during the loop the output
  has no dot segment (`OutputClean`), that what is read next begins with a slash except before
  the first move (`SlashBetween`), and that a call of the loop has a name (`LoopHasName`). The
  second (`WalkInv`) says where the loop is on the name (`OnTheWay`): before the first segment
  that counts (`Leading`), behind segment k with the walk so far in the output (`Walking`),
  behind a dot segment at the end (`Trailing`), or done (`Ended`). The walk there is the one of
  the code, which stays where it is when it would leave the first segment (`StayWalk`); for names
  that do not go back over it this is the walk of RFC 3986 (`WalksAgree`). That the recursive
  functions `Walked` and `Stayed` are well defined is proved from the well-foundedness of the
  natural numbers (`WalksExist`). `LoopRunsDown` is the safety half of `EveryNameResolves`: each
  round makes `Weight(input)`, a natural number, smaller.
* **FsProofs**, files: `FileIsIntended` and `ReadIsWhole` for any number of processes, files,
  blocks, calls and restarts. Of a file that is not excused the invariant says (`InOrder`) that a
  writer is alone on it (`WriterAlone`), that it holds what was there before the write and the
  blocks written so far (`Growing`), that without a writer it is as intended (`AtRest`), and
  that a reader's buffer has its size and its contents up to the reader's position
  (`Reading`): the last needs the first, since nobody else may change the file. A copy holds the
  blocks copied so far (`CopyGrowing`) of an original that is as it was at the start (`Original`)
  and not excused either (`Linked`).
* **DispatchProofs**: `TypeOK`, `AnsweredOnce`, `PendingIsOwed`, `AnswerIsScripts`,
  `AwaitedCodeHasContext`, `PreBeginIsSynchronous` and `ServedByCurrentScript`. The inductive
  invariant is the life of one notification: unanswered, answered on the spot, owed by a
  worker, or completed (`Life`), each with what `returned`, `completions`, `promise` and
  `answer` are then; the properties are read off it. A notification that is owed is not finished,
  so code that runs while its promise is pending finds the context there. `HandlesAreCurrent` says that without late
  registrations a handle is empty or the current script's.
* **NativeJobsProofs**: `TypeOK`, `JobUsesItsInput` and `RowAnswersForItself`. As long as a
  promise of an object is pending that script code has left alone, the object is as it was at
  the call (`UnchangedSinceCall`), a DbContext has no second job (`OneJobPerDb`), and the result
  of a `queryRow` that has ended is still there unless the collector took it
  (`ResultIsThere`).

Only model-checked: the liveness properties `WaiterProceeds`, `EveryPromiseSettles`,
`EveryNotificationAnswered`, `ReaderGetsIn`, `MainIsReloadedIfReadable`, `ReloadsQuiesce` and
`EveryNameResolves`, and the liveness part of `ImplementsService`: liveness under fairness is
out of the prover's reach. Every invariant and every action property that a passing run
checks is proved.

## 5. What the models show to disagree with the code's documentation

Three runs end in a violation; `PROJECT.json` quotes the lines. Further observations made
while modelling, without a run of their own:

* worker pool: the limit counts running jobs, not threads: a worker gives its slot back
  before it waits for the isolate (827), so more than `MAX_THREADS` threads can exist.
  Giving it back later would deadlock (this is the seeded defect `FinishWorkLocked`).
  The slot of a thread that cannot be started is not given back (721); after
  `MAX_THREADS` such failures a caller waits for ever with the isolate locked. The
  `v8::Global` in a worker's closure (735) is destroyed outside the `v8::Locker`;
* `register` called by asynchronous code of a replaced script overwrites the function of
  the new one (526);
* `RESET_INTERNAL_POINTERS` expands to nothing (`v8_wrapper.h` 67), so objects a script
  keeps beyond its request reach a disposed `IHttpContext`. A PRE_BEGIN_REQUEST callback that
  returns a pending promise is answered with CONTINUE (3395-3407) and goes on when its promise
  is settled, with the same pointer; `AwaitedCodeHasContext` covers the code an answer waits for;
* a notification that arrives between `reset_engine` and `execute_file` (418, 424) finds no
  callback and is answered with CONTINUE, past the script;
* a db object, or the ArrayBuffer of `gzip.decompress`, is not kept alive by the job that
  uses it: awaiting the promise of the last operation on an object, as in
  `await gzip.decompress(temp)`, lets the collector free it under the worker. Calls that
  overlap on one db object race for its statement and result;
* a script is recorded before it is opened (3645): one that cannot be opened at the
  moment of its reload is not tried again until it changes once more, although README.md 21
  says that changes are picked up. The wait for directory changes creates a new
  notification handle in every round (439);
* a process that finds the mutex abandoned throws and keeps it, with a handle that is never
  closed (`ipckv.h` 442): until the thread or the process ends no other process can write. A
  pointer that `getData` returned is good until the second transaction after it starts
  (`ipckv.h` 370), and nothing tells its user;
* a reader's failing release in `IPC_Lock` loses its permit, for which a draining writer
  waits in vain;
* copying the value in `commitData` overwrites a size that `setDataSize` alone has set
  (`ipckv.h` 253). The setters of data records do not check that a transaction was started,
  and a process has one set of flags for all records;
* `response.write` of a `Uint8Array` writes the whole ArrayBuffer below it
  (`v8_wrapper.h` 387), for a view of a part of it too. `response.read` as text gives one
  character per byte, while `write` encodes a text as UTF-8;
* `gzip.decompress` of data that decompresses to nothing rejects;
* `request.read` that fails has consumed what it has read so far (3021), and all of the body if
  it cannot be put back; the rest of the pipeline sees the remainder;
* `cached_paths` (152) keeps an entry for every name ever used and is never emptied;
* calls of different processes that meet on a file mix their blocks (1062); a read that meets a
  write returns bytes nobody wrote where the file has become shorter (1133), and a copy that
  was cut off is a file like any other;
* `fs.write` with data that is neither text nor array empties the file and throws with the
  stream open (1086); until the process ends `fs.delete` of that file returns false.

## 6. Plan

All components that keep state of their own are modelled, and their safety properties
proved. What is left:

1. the safety halves of the other liveness properties, as `LoopRunsDown` is of
   `EveryNameResolves` and `PoolWaiterIsServed` of `WaiterProceeds`: that a notification without
   an answer always has a thread or a promise that owes it, that a reload brings the watch
   loop nearer to rest;
2. the composition of `WorkerPool` with `Dispatch`, in place of the assumption that promises
   are settled.

## 7. Not modelled

Accessors of headers, URLs and status (single calls of IIS without state between them),
module registration (start-up glue), the debug RPC server (only in debug builds), logging,
the texts of errors, and the libraries under `Include/` other than `ipckv.h`: V8, v8pp,
httplib, cppdb, OpenSSL, zlib, bcrypt and rpclib are used through their interfaces, and most
of the repository's lines are theirs. Of `http.fetch` the options and headers are left out, of
`db` the conversion of columns, of `ipc` the hash table inside the precompiled `IPC_KV`.
`GetRemainingEntityBytes` is taken to be exact, which IIS does not promise for requests in
chunked encoding.
