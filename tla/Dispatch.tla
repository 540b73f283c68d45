------------------------------ MODULE Dispatch ------------------------------
(***************************************************************************)
(* How a notification of IIS is answered by the script (handle_callback of *)
(* v8_wrapper.cpp, called by http_module.cpp), while the engine thread     *)
(* replaces the script (reset_engine, execute_file) and worker threads     *)
(* settle the promises that earlier callbacks have returned.               *)
(*                                                                         *)
(* Whatever a thread does inside one scope of v8::Locker is one step: the  *)
(* script never gives the isolate up, not even while it waits for a worker *)
(* slot (WorkerPool).  What handle_callback does before it asks for the    *)
(* lock, and what IIS does with the value it returns, are steps of their   *)
(* own.                                                                    *)
(***************************************************************************)
EXTENDS Naturals, Sequences

CONSTANTS Requests,          \* the notifications IIS raises
          TypeOf,            \* TypeOf[r]: the CALLBACK_TYPES value of r
          MaxScripts,        \* bound: how many scripts are loaded in turn
          MaxLateRegisters   \* bound: registrations made by asynchronous code

CALLBACK_TYPES == {"BEGIN_REQUEST", "SEND_RESPONSE", "PRE_BEGIN_REQUEST"}

ASSUME DispatchAssumption ==
    /\ TypeOf \in [Requests -> CALLBACK_TYPES]
    /\ MaxScripts \in Nat \ {0}
    /\ MaxLateRegisters \in Nat

(* The IIS interface (httpserv.h): two enumerations that share their values. *)
RQ_NOTIFICATION_CONTINUE       == 0
RQ_NOTIFICATION_PENDING        == 1
RQ_NOTIFICATION_FINISH_REQUEST == 2
GL_NOTIFICATION_HANDLED        == 1

VARIABLES isolate,      \* isolate has been created
          engine,       \* where the engine thread is in load_and_watch
          context,      \* which script the current context runs (0: none yet)
          functions,    \* functions[ty]: the script whose function is registered
                        \* for callback type ty, 0 if the handle is empty
          pc,           \* pc[r]: where the IIS thread is with notification r
          caller,       \* caller[r]: the script whose function was called for r
          promise,      \* promise[r]: the promise the callback returned for r
          answer,       \* answer[r]: the value the script answered with
          returned,     \* returned[r]: the values handle_callback returned for r
          completions,  \* completions[r]: the IndicateCompletion calls for r
          loose,        \* the notifications whose callback has started code that its
                        \* answer does not wait for
          dangling,     \* those whose IHttpContext was used after IIS was done with it
          late_registers,
          crashed       \* an empty function handle was called

vars == <<isolate, engine, context, functions, pc, caller, promise, answer,
          returned, completions, loose, dangling, late_registers, crashed>>

engineVars == <<isolate, engine, context, functions, late_registers>>

(* Values a script can hand back: a number that converts to zero, one that *)
(* does not, and everything that is not a number.                          *)
Values == {"zero", "nonzero", "other"}

(* v8pp::from_v8<int>(isolate, v, 0) *)
from_v8_int(v) == IF v = "nonzero" THEN 1 ELSE 0

(* What calling the script's function may lead to. *)
Results == [kind : {"throws", "pending"}]
             \cup [kind : {"value", "settled"}, value : Values]

(* Seeded defect: the value of the promise is ignored. *)
PromiseStatusContinues(v) == RQ_NOTIFICATION_CONTINUE

(* The value of handle_callback for a promise that is settled, at once or  *)
(* in the handler attached by Then.                                        *)
PromiseStatus(v) == IF from_v8_int(v) # 0 THEN RQ_NOTIFICATION_FINISH_REQUEST
                                          ELSE RQ_NOTIFICATION_CONTINUE

(* Seeded defect: FINISH is not told apart by the type of the callback. *)
ValueStatusSame(ty, v) ==
    IF from_v8_int(v) = 0 THEN RQ_NOTIFICATION_CONTINUE ELSE GL_NOTIFICATION_HANDLED

ValueStatus(ty, v) ==
    IF from_v8_int(v) = 0 THEN RQ_NOTIFICATION_CONTINUE
    ELSE IF ty = "PRE_BEGIN_REQUEST" THEN GL_NOTIFICATION_HANDLED
                                     ELSE RQ_NOTIFICATION_FINISH_REQUEST

(* The PRE_BEGIN_REQUEST callback must answer with a number: a promise,    *)
(* settled or not, counts as CONTINUE.                                     *)
Status(ty, res) ==
    LET isNumber == res.kind = "value" /\ res.value # "other"
    IN  IF res.kind = "throws" \/ (ty = "PRE_BEGIN_REQUEST" /\ ~isNumber)
        THEN RQ_NOTIFICATION_CONTINUE
        ELSE IF res.kind = "settled" THEN PromiseStatus(res.value)
        ELSE IF res.kind = "pending" THEN RQ_NOTIFICATION_PENDING
        ELSE ValueStatus(ty, res.value)

(* What the script meant: the value it answered with, if that is one a     *)
(* callback of this type may answer with.                                  *)
Answer(ty, res) ==
    IF res.kind = "value" THEN res.value
    ELSE IF res.kind = "throws" \/ ty = "PRE_BEGIN_REQUEST" THEN "other"
    ELSE IF res.kind = "pending" THEN "none"
    ELSE res.value

-----------------------------------------------------------------------------
Init == /\ isolate = FALSE
        /\ engine = "starting"
        /\ context = 0
        /\ functions = [ty \in CALLBACK_TYPES |-> 0]
        /\ pc = [r \in Requests |-> "new"]
        /\ caller = [r \in Requests |-> 0]
        /\ promise = [r \in Requests |-> "none"]
        /\ answer = [r \in Requests |-> "none"]
        /\ returned = [r \in Requests |-> <<>>]
        /\ completions = [r \in Requests |-> <<>>]
        /\ loose = {} /\ dangling = {}
        /\ late_registers = 0
        /\ crashed = FALSE

requestVars == <<pc, caller, promise, answer, returned, completions, loose, dangling>>

(* start: the engine thread creates the isolate. *)
CreateIsolate ==
    /\ ~crashed
    /\ ~isolate
    /\ isolate' = TRUE
    /\ engine' = "watching"
    /\ UNCHANGED <<context, functions, late_registers, requestVars, crashed>>

(* Seeded defect: one of the handles is not reset. *)
ResetForgetsPreBegin ==
    /\ ~crashed
    /\ engine = "watching"
    /\ context < MaxScripts
    /\ context' = context + 1
    /\ functions' = [ty \in CALLBACK_TYPES |->
                       IF ty = "PRE_BEGIN_REQUEST" THEN functions[ty] ELSE 0]
    /\ engine' = "reset"
    /\ UNCHANGED <<isolate, late_registers, requestVars, crashed>>

(* A script has changed, or is loaded for the first time: reset_engine     *)
(* empties every handle and creates a new context, in one scope of the     *)
(* lock, ...                                                               *)
reset_engine ==
    /\ ~crashed
    /\ engine = "watching"
    /\ context < MaxScripts
    /\ context' = context + 1
    /\ functions' = [ty \in CALLBACK_TYPES |-> 0]
    /\ engine' = "reset"
    /\ UNCHANGED <<isolate, late_registers, requestVars, crashed>>

(* ... and execute_file runs the script, which registers some callbacks,   *)
(* in another.                                                             *)
execute_file ==
    /\ ~crashed
    /\ engine = "reset"
    /\ \E registered \in SUBSET CALLBACK_TYPES :
         functions' = [ty \in CALLBACK_TYPES |->
                         IF ty \in registered THEN context ELSE functions[ty]]
    /\ engine' = "watching"
    /\ UNCHANGED <<isolate, context, late_registers, requestVars, crashed>>

(* Asynchronous code of a script, of the current one or of one whose       *)
(* context has been replaced meanwhile, calls register.                    *)
LateRegister(script, ty) ==
    /\ ~crashed
    /\ late_registers < MaxLateRegisters
    /\ script \in 1..context
    /\ engine = "reset" => script < context
    /\ functions' = [functions EXCEPT ![ty] = script]
    /\ late_registers' = late_registers + 1
    /\ UNCHANGED <<isolate, engine, context, requestVars, crashed>>

(* handle_callback up to the lock: without an isolate, or without a        *)
(* function for this type, the answer is CONTINUE.                         *)
CheckRegistered(r) ==
    /\ ~crashed
    /\ pc[r] = "new"
    /\ IF ~isolate \/ functions[TypeOf[r]] = 0
       THEN /\ returned' = [returned EXCEPT ![r] = Append(@, RQ_NOTIFICATION_CONTINUE)]
            /\ answer' = [answer EXCEPT ![r] = "other"]
            /\ pc' = [pc EXCEPT ![r] = "returned"]
       ELSE /\ pc' = [pc EXCEPT ![r] = "locking"]
            /\ UNCHANGED <<returned, answer>>
    /\ UNCHANGED <<engineVars, caller, promise, completions, loose, dangling, crashed>>

(* Seeded defect: the handler is attached for PRE_BEGIN_REQUEST, too. *)
CallFunctionAttaches(r) ==
    /\ ~crashed
    /\ pc[r] = "locking"
    /\ functions[TypeOf[r]] # 0
    /\ caller' = [caller EXCEPT ![r] = functions[TypeOf[r]]]
    /\ \E res \in Results :
         /\ returned' = [returned EXCEPT ![r] = Append(@, Status(TypeOf[r], res))]
         /\ answer' = [answer EXCEPT ![r] = Answer(TypeOf[r], res)]
         /\ promise' = IF res.kind = "pending" THEN [promise EXCEPT ![r] = "pending"]
                                               ELSE promise
    /\ pc' = [pc EXCEPT ![r] = "returned"]
    /\ UNCHANGED <<engineVars, completions, loose, dangling, crashed>>

(* handle_callback under the lock: the function is fetched from its handle *)
(* and called with fresh res and req objects.  Code that it starts may be  *)
(* code nobody waits for: the script may not await it, and the pending     *)
(* promise of a PRE_BEGIN_REQUEST callback gets no handler.                *)
CallFunction(r) ==
    /\ ~crashed
    /\ pc[r] = "locking"
    /\ functions[TypeOf[r]] # 0
    /\ caller' = [caller EXCEPT ![r] = functions[TypeOf[r]]]
    /\ \E res \in Results :
         LET status == Status(TypeOf[r], res)
         IN  /\ returned' = [returned EXCEPT ![r] = Append(@, status)]
             /\ answer' = [answer EXCEPT ![r] = Answer(TypeOf[r], res)]
             /\ promise' = IF res.kind = "pending" /\ status = RQ_NOTIFICATION_PENDING
                           THEN [promise EXCEPT ![r] = "pending"]
                           ELSE promise
             /\ loose' \in IF res.kind = "pending" /\ status # RQ_NOTIFICATION_PENDING
                           THEN {loose \cup {r}}
                           ELSE {loose, loose \cup {r}}
    /\ pc' = [pc EXCEPT ![r] = "returned"]
    /\ UNCHANGED <<engineVars, completions, dangling, crashed>>

(* The handle was emptied after the check: the call goes through a null    *)
(* handle and takes the worker process down.                               *)
CallEmptyHandle(r) ==
    /\ ~crashed
    /\ pc[r] = "locking"
    /\ functions[TypeOf[r]] = 0
    /\ crashed' = TRUE
    /\ UNCHANGED <<engineVars, requestVars>>

(* Seeded defect: the handler runs once for each of the two it was         *)
(* attached as.                                                            *)
SettlePromiseTwice(r) ==
    /\ ~crashed
    /\ promise[r] \in {"pending", "settled"}
    /\ Len(completions[r]) < 2
    /\ \E v \in Values :
         /\ answer' = [answer EXCEPT ![r] = v]
         /\ completions' = [completions EXCEPT ![r] = Append(@, PromiseStatus(v))]
    /\ promise' = [promise EXCEPT ![r] = "settled"]
    /\ UNCHANGED <<engineVars, pc, caller, returned, loose, dangling, crashed>>

(* Seeded defect: the handler does nothing once its script is replaced. *)
SettlePromiseOfCurrent(r) ==
    /\ ~crashed
    /\ promise[r] = "pending"
    /\ IF caller[r] # context
       THEN UNCHANGED vars
       ELSE /\ \E v \in Values :
                 /\ answer' = [answer EXCEPT ![r] = v]
                 /\ completions' = [completions EXCEPT ![r] = Append(@, PromiseStatus(v))]
            /\ promise' = [promise EXCEPT ![r] = "settled"]
            /\ UNCHANGED <<engineVars, pc, caller, returned, loose, dangling, crashed>>

(* Seeded defect: completion is indicated when the first of several awaits *)
(* is over.                                                                *)
SettlePromiseEarly(r) ==
    /\ ~crashed
    /\ promise[r] = "pending"
    /\ \E v \in Values :
         /\ answer' = [answer EXCEPT ![r] = v]
         /\ completions' = [completions EXCEPT ![r] = <<PromiseStatus(v)>>]
    /\ UNCHANGED <<engineVars, pc, caller, promise, returned, loose, dangling, crashed>>

(* A worker settles the promise; the handler attached for both outcomes    *)
(* indicates completion to IIS.                                            *)
SettlePromise(r) ==
    /\ ~crashed
    /\ promise[r] = "pending"
    /\ \E v \in Values :
         /\ answer' = [answer EXCEPT ![r] = v]
         /\ completions' = [completions EXCEPT ![r] = Append(@, PromiseStatus(v))]
    /\ promise' = [promise EXCEPT ![r] = "settled"]
    /\ UNCHANGED <<engineVars, pc, caller, returned, loose, dangling, crashed>>

(* Code that the callback has started goes on, under the lock, and uses    *)
(* its res and req objects, which reach the IHttpContext through a bare    *)
(* pointer that nothing ever resets.                                       *)
CodeRuns(r) ==
    /\ ~crashed
    /\ promise[r] = "pending" \/ r \in loose
    /\ dangling' = IF pc[r] = "finished" THEN dangling \cup {r} ELSE dangling
    /\ UNCHANGED <<engineVars, pc, caller, promise, answer, returned, completions,
                   loose, crashed>>

(* The status is one IIS acts upon without waiting for a completion. *)
Final(r, status) == \/ status # RQ_NOTIFICATION_PENDING
                    \/ TypeOf[r] = "PRE_BEGIN_REQUEST"

(* IIS goes on with the request, now or once completion is indicated, and  *)
(* is done with its context in the end.                                    *)
FinishRequest(r) ==
    /\ ~crashed
    /\ pc[r] = "returned"
    /\ Final(r, returned[r][1]) \/ completions[r] # <<>>
    /\ pc' = [pc EXCEPT ![r] = "finished"]
    /\ UNCHANGED <<engineVars, caller, promise, answer, returned, completions,
                   loose, dangling, crashed>>

(* Every notification is answered and the last script is loaded, or the    *)
(* process is gone.                                                        *)
Terminated ==
    /\ \/ crashed
       \/ /\ \A r \in Requests : pc[r] = "finished"
          /\ engine = "watching" /\ context = MaxScripts
    /\ UNCHANGED vars

Next ==
    \/ CreateIsolate \/ reset_engine \/ execute_file
    \/ \E script \in 1..MaxScripts, ty \in CALLBACK_TYPES : LateRegister(script, ty)
    \/ \E r \in Requests : \/ CheckRegistered(r) \/ CallFunction(r) \/ CallEmptyHandle(r)
                           \/ SettlePromise(r) \/ CodeRuns(r) \/ FinishRequest(r)
    \/ Terminated

Spec == Init /\ [][Next]_vars

(* A thread that asks for the isolate's lock gets it, and the promise a    *)
(* callback returns is settled once the operations it awaits are, which    *)
(* they all are (WorkerPool).  Notifications, reloads and registrations    *)
(* need not happen.                                                        *)
Fairness ==
    \A r \in Requests : /\ WF_vars(CallFunction(r))
                        /\ WF_vars(CallEmptyHandle(r))
                        /\ WF_vars(SettlePromise(r))
                        /\ WF_vars(FinishRequest(r))

FairSpec == Spec /\ Fairness

-----------------------------------------------------------------------------
Statuses == {RQ_NOTIFICATION_CONTINUE, RQ_NOTIFICATION_PENDING,
             RQ_NOTIFICATION_FINISH_REQUEST}

(* Each variable keeps to the values the code can give it; a notification  *)
(* makes handle_callback return once.                                      *)
TypeOK ==
    /\ isolate \in BOOLEAN
    /\ engine \in {"starting", "watching", "reset"}
    /\ context \in 0..MaxScripts
    /\ functions \in [CALLBACK_TYPES -> 0..MaxScripts]
    /\ pc \in [Requests -> {"new", "locking", "returned", "finished"}]
    /\ caller \in [Requests -> 0..MaxScripts]
    /\ promise \in [Requests -> {"none", "pending", "settled"}]
    /\ answer \in [Requests -> Values \cup {"none"}]
    /\ returned \in [Requests -> {<<>>} \cup {<<s>> : s \in Statuses}]
    /\ completions \in [Requests -> Seq(Statuses)]
    /\ loose \subseteq Requests /\ dangling \subseteq Requests
    /\ late_registers \in 0..MaxLateRegisters
    /\ crashed \in BOOLEAN

(* The answers for r that IIS acts upon, from handle_callback's value and  *)
(* from IndicateCompletion.                                                *)
FinalAnswers(r) ==
    (IF returned[r] # <<>> /\ Final(r, returned[r][1]) THEN returned[r] ELSE <<>>)
        \o completions[r]

(* IIS gets one final answer per notification, never two: a notification   *)
(* answered by handle_callback is not completed again by a worker, and the *)
(* other way round, in whatever order the two threads get there.           *)
AnsweredOnce == \A r \in Requests : Len(FinalAnswers(r)) <= 1

(* RQ_NOTIFICATION_PENDING is returned only if somebody still owes IIS the *)
(* completion or has paid it already: otherwise the request hangs.  The    *)
(* number 1 is the script's FINISH and GL_NOTIFICATION_HANDLED as well, so *)
(* an answer that is not normalised reads as "pending".                    *)
PendingIsOwed ==
    \A r \in Requests :
        returned[r] = <<RQ_NOTIFICATION_PENDING>> /\ TypeOf[r] # "PRE_BEGIN_REQUEST"
            => promise[r] = "pending" \/ Len(completions[r]) = 1

(* The request is finished exactly when the script answered with a number  *)
(* other than zero, whether it answered at once or through a promise, and  *)
(* in whichever of the two enumerations IIS reads the answer.              *)
Finishes(r) ==
    FinalAnswers(r)[1] = IF TypeOf[r] = "PRE_BEGIN_REQUEST"
                         THEN GL_NOTIFICATION_HANDLED
                         ELSE RQ_NOTIFICATION_FINISH_REQUEST

AnswerIsScripts ==
    \A r \in Requests :
        FinalAnswers(r) # <<>> => (Finishes(r) <=> answer[r] = "nonzero")

(* Code that a callback awaits never uses an IHttpContext IIS is done with *)
(* already, in whatever order worker, script and IIS get there: where one  *)
(* is used too late, the answer did not wait for the code.  That happens   *)
(* when the script does not await it, and to every PRE_BEGIN_REQUEST       *)
(* callback that returns a pending promise, which is answered with         *)
(* CONTINUE and goes on.                                                   *)
AwaitedCodeHasContext == dangling \subseteq loose

(* A notification of PRE_BEGIN_REQUEST is answered on the spot: it "CANNOT *)
(* be asynchronous" (README.md:61), so no worker ever completes it.        *)
PreBeginIsSynchronous ==
    \A r \in Requests : TypeOf[r] = "PRE_BEGIN_REQUEST" =>
        promise[r] = "none" /\ completions[r] = <<>>

(* A notification that has passed the check is answered in the end, even   *)
(* when the script that took it is replaced while its promise is pending,  *)
(* or the process goes down with an empty handle.                          *)
EveryNotificationAnswered ==
    \A r \in Requests : pc[r] = "locking" ~> pc[r] = "finished" \/ crashed

(* handle_callback "handles a callback that is registered in JS"           *)
(* (v8_wrapper.cpp:3298): it calls no function that is not there.          *)
CallsRegisteredFunction == ~crashed

(* After reset_engine notifications go to functions of the new script,     *)
(* unless asynchronous code has called register meanwhile: no handle of    *)
(* the old script survives the reset.                                      *)
ServedByCurrentScript ==
    [][\A r \in Requests : caller'[r] # caller[r]
          => caller'[r] = context \/ late_registers > 0]_vars
=============================================================================
