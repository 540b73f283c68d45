--------------------------- MODULE DispatchProofs ---------------------------
(***************************************************************************)
(* What TLAPS proves of handle_callback, for any number of notifications,  *)
(* scripts and late registrations.  Everything rests on the life of a      *)
(* single notification: it is unanswered, answered on the spot, owed, or   *)
(* completed by a worker.                                                  *)
(***************************************************************************)
EXTENDS Dispatch, TLAPS

Returned(r) == pc[r] \in {"returned", "finished"}

(* handle_callback has not returned yet. *)
Unanswered(r) ==
    /\ pc[r] \in {"new", "locking"}
    /\ returned[r] = <<>> /\ completions[r] = <<>> /\ promise[r] = "none"

(* The value that means "finish" to IIS for a callback of this type. *)
FinishStatus(ty) ==
    IF ty = "PRE_BEGIN_REQUEST" THEN GL_NOTIFICATION_HANDLED ELSE RQ_NOTIFICATION_FINISH_REQUEST

(* handle_callback has returned what the script answered. *)
OnTheSpot(r) ==
    /\ Returned(r)
    /\ completions[r] = <<>> /\ promise[r] = "none"
    /\ \E s \in Statuses :
         /\ returned[r] = <<s>>
         /\ Final(r, s)
         /\ s = FinishStatus(TypeOf[r]) <=> answer[r] = "nonzero"

(* A worker still owes IIS the completion. *)
Owed(r) ==
    /\ pc[r] = "returned"
    /\ TypeOf[r] # "PRE_BEGIN_REQUEST"
    /\ returned[r] = <<RQ_NOTIFICATION_PENDING>>
    /\ completions[r] = <<>> /\ promise[r] = "pending"

(* A worker has indicated completion with what the script answered. *)
Completed(r) ==
    /\ Returned(r)
    /\ TypeOf[r] # "PRE_BEGIN_REQUEST"
    /\ returned[r] = <<RQ_NOTIFICATION_PENDING>>
    /\ promise[r] = "settled"
    /\ \E s \in Statuses :
         /\ completions[r] = <<s>>
         /\ s = RQ_NOTIFICATION_FINISH_REQUEST <=> answer[r] = "nonzero"

Life == \A r \in Requests : Unanswered(r) \/ OnTheSpot(r) \/ Owed(r) \/ Completed(r)

(* Without late registrations every handle is empty or holds a function of *)
(* the current script.                                                     *)
HandlesAreCurrent ==
    late_registers = 0 => \A ty \in CALLBACK_TYPES : functions[ty] \in {0, context}

DispatchInv == TypeOK /\ Life /\ HandlesAreCurrent /\ AwaitedCodeHasContext

-----------------------------------------------------------------------------
(* The statuses are small numbers, and PENDING is none of the final ones. *)
LEMMA StatusFacts ==
    ASSUME NEW ty \in CALLBACK_TYPES, NEW res \in Results
    PROVE  /\ Status(ty, res) \in Statuses
           /\ Answer(ty, res) \in Values \cup {"none"}
           /\ Status(ty, res) = RQ_NOTIFICATION_PENDING /\ ty # "PRE_BEGIN_REQUEST"
                => res.kind = "pending"
           /\ ty = "PRE_BEGIN_REQUEST" /\ res.kind = "pending"
                => Status(ty, res) = RQ_NOTIFICATION_CONTINUE
           /\ ty # "PRE_BEGIN_REQUEST" /\ res.kind = "pending"
                => Status(ty, res) = RQ_NOTIFICATION_PENDING
           /\ ty = "PRE_BEGIN_REQUEST" \/ res.kind # "pending"
                => (Status(ty, res) = FinishStatus(ty) <=> Answer(ty, res) = "nonzero")
<1> USE DEF Status, Answer, FinishStatus, Statuses, PromiseStatus, ValueStatus,
            from_v8_int, Values, RQ_NOTIFICATION_CONTINUE, RQ_NOTIFICATION_PENDING,
            RQ_NOTIFICATION_FINISH_REQUEST, GL_NOTIFICATION_HANDLED
<1>1. CASE res.kind = "throws"
  BY <1>1
<1>2. CASE res.kind = "pending"
  BY <1>2
<1>3. CASE res.kind = "settled" /\ res.value \in Values
  BY <1>3
<1>4. CASE res.kind = "value" /\ res.value \in Values
  BY <1>4
<1>5. \/ res.kind \in {"throws", "pending"}
      \/ res.kind \in {"settled", "value"} /\ res.value \in Values
  BY DEF Results
<1> QED
  BY <1>1, <1>2, <1>3, <1>4, <1>5

(* The value of a settled promise. *)
LEMMA PromiseStatusFacts ==
    ASSUME NEW v \in Values
    PROVE  /\ PromiseStatus(v) \in Statuses
           /\ PromiseStatus(v) = RQ_NOTIFICATION_FINISH_REQUEST <=> v = "nonzero"
  BY DEF PromiseStatus, from_v8_int, Values, Statuses, RQ_NOTIFICATION_CONTINUE,
         RQ_NOTIFICATION_PENDING, RQ_NOTIFICATION_FINISH_REQUEST

(* The first element appended. *)
LEMMA AppendFirst ==
    ASSUME NEW x \in Statuses, NEW s, s = <<>>
    PROVE  Append(s, x) = <<x>> /\ <<x>> \in Seq(Statuses)
  OBVIOUS

(* Nothing has happened. *)
LEMMA DispatchInitHolds == Init => DispatchInv
<1> SUFFICES ASSUME Init PROVE DispatchInv
  OBVIOUS
<1>1. TypeOK
  <2>1. 0 \in 0..MaxScripts /\ 0 \in 0..MaxLateRegisters
    BY DispatchAssumption
  <2>2. /\ returned \in [Requests -> {<<>>} \cup {<<s>> : s \in Statuses}]
        /\ completions \in [Requests -> Seq(Statuses)]
    BY DEF Init
  <2>3. /\ functions \in [CALLBACK_TYPES -> 0..MaxScripts]
        /\ caller \in [Requests -> 0..MaxScripts]
    BY <2>1 DEF Init
  <2> QED
    BY <2>1, <2>2, <2>3 DEF Init, TypeOK
<1>2. Life
  BY DEF Init, Life, Unanswered
<1>3. HandlesAreCurrent
  BY DEF Init, HandlesAreCurrent
<1>4. AwaitedCodeHasContext
  BY DEF Init, AwaitedCodeHasContext
<1> QED
  BY <1>1, <1>2, <1>3, <1>4 DEF DispatchInv

-----------------------------------------------------------------------------
(* A step that leaves the notifications alone leaves their lives alone. *)
LEMMA LifeKept ==
    ASSUME Life, UNCHANGED requestVars
    PROVE  Life'
  BY DEF Life, Unanswered, OnTheSpot, Owed, Completed, Returned, requestVars, Final

(* The engine thread and the registrations of asynchronous code. *)
LEMMA EngineKeeps ==
    ASSUME DispatchInv,
           \/ CreateIsolate \/ reset_engine \/ execute_file
           \/ \E script \in 1..MaxScripts, ty \in CALLBACK_TYPES : LateRegister(script, ty)
    PROVE  DispatchInv'
<1>0. UNCHANGED requestVars /\ UNCHANGED crashed
  BY DEF CreateIsolate, reset_engine, execute_file, LateRegister
<1>1. Life'
  BY <1>0, LifeKept DEF DispatchInv
<1>6. AwaitedCodeHasContext'
  BY <1>0 DEF DispatchInv, AwaitedCodeHasContext, requestVars
<1>2. CASE CreateIsolate
  BY <1>0, <1>1, <1>6, <1>2 DEF DispatchInv, CreateIsolate, TypeOK, HandlesAreCurrent, requestVars
<1>3. CASE reset_engine
  BY <1>0, <1>1, <1>6, <1>3, DispatchAssumption
     DEF DispatchInv, reset_engine, TypeOK, HandlesAreCurrent, requestVars
<1>4. CASE execute_file
  BY <1>0, <1>1, <1>6, <1>4 DEF DispatchInv, execute_file, TypeOK, HandlesAreCurrent, requestVars
<1>5. ASSUME NEW script \in 1..MaxScripts, NEW ty \in CALLBACK_TYPES, LateRegister(script, ty)
      PROVE  DispatchInv'
  BY <1>0, <1>1, <1>6, <1>5, DispatchAssumption
     DEF DispatchInv, LateRegister, TypeOK, HandlesAreCurrent, requestVars
<1> QED
  BY <1>2, <1>3, <1>4, <1>5

(* A step for one notification: the others live on as before. *)
LEMMA OthersKept ==
    ASSUME DispatchInv, NEW r \in Requests,
           \A q \in Requests \ {r} :
               /\ pc'[q] = pc[q] /\ promise'[q] = promise[q] /\ answer'[q] = answer[q]
               /\ returned'[q] = returned[q] /\ completions'[q] = completions[q],
           (Unanswered(r) \/ OnTheSpot(r) \/ Owed(r) \/ Completed(r))'
    PROVE  Life'
  BY DEF DispatchInv, Life, Unanswered, OnTheSpot, Owed, Completed, Returned, Final

(* handle_callback before the lock. *)
LEMMA CheckRegisteredKeeps ==
    ASSUME DispatchInv, NEW r \in Requests, CheckRegistered(r)
    PROVE  DispatchInv'
<1>1. Unanswered(r) /\ pc[r] = "new"
  BY DEF DispatchInv, Life, CheckRegistered, OnTheSpot, Owed, Completed, Returned
<1>2. RQ_NOTIFICATION_CONTINUE \in Statuses
  BY DEF Statuses
<1>3. Append(returned[r], RQ_NOTIFICATION_CONTINUE) = <<RQ_NOTIFICATION_CONTINUE>>
  BY <1>1, <1>2, AppendFirst DEF Unanswered
<1>4. TypeOK'
  <2>1. /\ returned' \in [Requests -> {<<>>} \cup {<<x>> : x \in Statuses}]
        /\ answer' \in [Requests -> Values \cup {"none"}]
        /\ pc' \in [Requests -> {"new", "locking", "returned", "finished"}]
    <3>1. CASE ~isolate \/ functions[TypeOf[r]] = 0
      <4>1. returned' \in [Requests -> {<<>>} \cup {<<x>> : x \in Statuses}]
        <5> DEFINE t == <<RQ_NOTIFICATION_CONTINUE>>
        <5>1. returned' = [returned EXCEPT ![r] = t]
          BY <3>1, <1>3 DEF CheckRegistered
        <5>2. t \in {<<x>> : x \in Statuses}
          BY <1>2
        <5> HIDE DEF t
        <5> QED
          BY <5>1, <5>2 DEF DispatchInv, TypeOK
      <4>2. answer' \in [Requests -> Values \cup {"none"}]
        BY <3>1 DEF DispatchInv, CheckRegistered, TypeOK, Values
      <4>3. pc' \in [Requests -> {"new", "locking", "returned", "finished"}]
        BY <3>1 DEF DispatchInv, CheckRegistered, TypeOK
      <4> QED
        BY <4>1, <4>2, <4>3
    <3>2. CASE ~(~isolate \/ functions[TypeOf[r]] = 0)
      BY <3>2 DEF DispatchInv, CheckRegistered, TypeOK
    <3> QED
      BY <3>1, <3>2
  <2>2. UNCHANGED <<isolate, engine, context, functions, late_registers,
                    caller, promise, completions, loose, dangling, crashed>>
    BY DEF CheckRegistered, engineVars
  <2> QED
    BY <2>1, <2>2 DEF DispatchInv, TypeOK
<1>5. (Unanswered(r) \/ OnTheSpot(r))'
  <2>1. CASE ~isolate \/ functions[TypeOf[r]] = 0
    <3>1. /\ pc'[r] = "returned" /\ returned'[r] = <<RQ_NOTIFICATION_CONTINUE>>
          /\ answer'[r] = "other" /\ completions'[r] = <<>> /\ promise'[r] = "none"
      BY <2>1, <1>1, <1>3 DEF CheckRegistered, Unanswered, DispatchInv, TypeOK
    <3>2. /\ Final(r, RQ_NOTIFICATION_CONTINUE)
          /\ RQ_NOTIFICATION_CONTINUE # FinishStatus(TypeOf[r])
      BY DEF Final, FinishStatus, RQ_NOTIFICATION_CONTINUE, RQ_NOTIFICATION_PENDING,
             GL_NOTIFICATION_HANDLED, RQ_NOTIFICATION_FINISH_REQUEST
    <3> QED
      BY <3>1, <3>2, <1>2 DEF OnTheSpot, Returned
  <2>2. CASE ~(~isolate \/ functions[TypeOf[r]] = 0)
    BY <2>2, <1>1 DEF CheckRegistered, Unanswered, DispatchInv, TypeOK
  <2> QED
    BY <2>1, <2>2
<1>6. Life'
  BY <1>5, OthersKept DEF DispatchInv, CheckRegistered, TypeOK
<1>7. HandlesAreCurrent'
  BY DEF DispatchInv, HandlesAreCurrent, CheckRegistered, engineVars
<1>8. AwaitedCodeHasContext'
  BY DEF DispatchInv, AwaitedCodeHasContext, CheckRegistered
<1> QED
  BY <1>4, <1>6, <1>7, <1>8 DEF DispatchInv

(* handle_callback under the lock. *)
LEMMA CallFunctionKeeps ==
    ASSUME DispatchInv, NEW r \in Requests, CallFunction(r)
    PROVE  DispatchInv'
<1>1. Unanswered(r)
  BY DEF DispatchInv, Life, CallFunction, OnTheSpot, Owed, Completed, Returned
<1>2. TypeOf[r] \in CALLBACK_TYPES
  BY DispatchAssumption
<1>3. PICK res \in Results :
        /\ returned' = [returned EXCEPT ![r] = Append(@, Status(TypeOf[r], res))]
        /\ answer' = [answer EXCEPT ![r] = Answer(TypeOf[r], res)]
        /\ promise' = IF res.kind = "pending" /\ Status(TypeOf[r], res) = RQ_NOTIFICATION_PENDING
                      THEN [promise EXCEPT ![r] = "pending"]
                      ELSE promise
        /\ loose' \in {loose, loose \cup {r}}
  BY DEF CallFunction
<1> DEFINE s == Status(TypeOf[r], res)
           a == Answer(TypeOf[r], res)
<1>4. /\ s \in Statuses /\ a \in Values \cup {"none"}
      /\ s = RQ_NOTIFICATION_PENDING /\ TypeOf[r] # "PRE_BEGIN_REQUEST" => res.kind = "pending"
      /\ TypeOf[r] = "PRE_BEGIN_REQUEST" /\ res.kind = "pending" => s = RQ_NOTIFICATION_CONTINUE
      /\ TypeOf[r] # "PRE_BEGIN_REQUEST" /\ res.kind = "pending" => s = RQ_NOTIFICATION_PENDING
      /\ TypeOf[r] = "PRE_BEGIN_REQUEST" \/ res.kind # "pending"
           => (s = FinishStatus(TypeOf[r]) <=> a = "nonzero")
  BY <1>2, StatusFacts
<1>5. /\ returned' = [returned EXCEPT ![r] = Append(@, s)]
      /\ answer' = [answer EXCEPT ![r] = a]
      /\ promise' = IF res.kind = "pending" /\ s = RQ_NOTIFICATION_PENDING
                    THEN [promise EXCEPT ![r] = "pending"] ELSE promise
  BY <1>3
<1> HIDE DEF s, a
<1>6. Append(returned[r], s) = <<s>>
  BY <1>1, <1>4, AppendFirst DEF Unanswered
<1>7. TypeOK'
  <2>1. /\ isolate' \in BOOLEAN /\ engine' \in {"starting", "watching", "reset"}
        /\ context' \in 0..MaxScripts /\ functions' \in [CALLBACK_TYPES -> 0..MaxScripts]
        /\ pc' \in [Requests -> {"new", "locking", "returned", "finished"}]
        /\ completions' \in [Requests -> Seq(Statuses)]
        /\ late_registers' \in 0..MaxLateRegisters /\ crashed' \in BOOLEAN
    BY DEF DispatchInv, TypeOK, CallFunction, engineVars
  <2>2. caller' \in [Requests -> 0..MaxScripts]
    BY <1>2 DEF DispatchInv, TypeOK, CallFunction
  <2>3. promise' \in [Requests -> {"none", "pending", "settled"}]
    BY <1>5 DEF DispatchInv, TypeOK
  <2>4. answer' \in [Requests -> Values \cup {"none"}]
    BY <1>4, <1>5 DEF DispatchInv, TypeOK
  <2>5. returned' \in [Requests -> {<<>>} \cup {<<x>> : x \in Statuses}]
    BY <1>4, <1>5, <1>6 DEF DispatchInv, TypeOK
  <2>6. loose' \subseteq Requests /\ dangling' \subseteq Requests
    BY <1>3 DEF DispatchInv, TypeOK, CallFunction
  <2> QED
    BY <2>1, <2>2, <2>3, <2>4, <2>5, <2>6 DEF TypeOK
<1>8. /\ pc'[r] = "returned" /\ returned'[r] = <<s>> /\ answer'[r] = a
      /\ completions'[r] = <<>>
  BY <1>1, <1>5, <1>6 DEF CallFunction, Unanswered, DispatchInv, TypeOK
<1>9. ASSUME TypeOf[r] # "PRE_BEGIN_REQUEST" /\ res.kind = "pending" PROVE Owed(r)'
  <2>1. s = RQ_NOTIFICATION_PENDING /\ promise'[r] = "pending"
    BY <1>4, <1>5, <1>9 DEF DispatchInv, TypeOK
  <2> QED
    BY <2>1, <1>8, <1>9 DEF Owed
<1>10. ASSUME TypeOf[r] = "PRE_BEGIN_REQUEST" \/ res.kind # "pending" PROVE OnTheSpot(r)'
  <2>1. promise'[r] = "none"
    BY <1>1, <1>4, <1>5, <1>10
       DEF Unanswered, RQ_NOTIFICATION_PENDING, RQ_NOTIFICATION_CONTINUE
  <2>2. Final(r, s)
    BY <1>4, <1>10 DEF Final
  <2> QED
    BY <2>1, <2>2, <1>4, <1>8, <1>10 DEF OnTheSpot, Returned
<1>11. Life'
  <2>1. (OnTheSpot(r) \/ Owed(r))'
    BY <1>9, <1>10
  <2> QED
    BY <2>1, <1>5, OthersKept DEF DispatchInv, CallFunction, TypeOK
<1>12. HandlesAreCurrent'
  BY DEF DispatchInv, HandlesAreCurrent, CallFunction, engineVars
<1>13. AwaitedCodeHasContext'
  BY <1>3 DEF DispatchInv, AwaitedCodeHasContext, CallFunction
<1> QED
  BY <1>7, <1>11, <1>12, <1>13 DEF DispatchInv

(* The handler of a promise. *)
LEMMA SettlePromiseKeeps ==
    ASSUME DispatchInv, NEW r \in Requests, SettlePromise(r)
    PROVE  DispatchInv'
<1>1. Owed(r)
  BY DEF DispatchInv, Life, SettlePromise, Unanswered, OnTheSpot, Completed
<1>2. PICK v \in Values :
        /\ answer' = [answer EXCEPT ![r] = v]
        /\ completions' = [completions EXCEPT ![r] = Append(@, PromiseStatus(v))]
  BY DEF SettlePromise
<1> DEFINE s == PromiseStatus(v)
<1>3. s \in Statuses /\ (s = RQ_NOTIFICATION_FINISH_REQUEST <=> v = "nonzero")
  BY PromiseStatusFacts
<1>4. completions' = [completions EXCEPT ![r] = Append(@, s)]
  BY <1>2
<1> HIDE DEF s
<1>5. Append(completions[r], s) = <<s>> /\ <<s>> \in Seq(Statuses)
  BY <1>1, <1>3, AppendFirst DEF Owed
<1>6. TypeOK'
  <2>1. completions' \in [Requests -> Seq(Statuses)]
    BY <1>4, <1>5 DEF DispatchInv, TypeOK
  <2>2. answer' \in [Requests -> Values \cup {"none"}]
    BY <1>2 DEF DispatchInv, TypeOK
  <2> QED
    BY <2>1, <2>2 DEF DispatchInv, TypeOK, SettlePromise, engineVars
<1>7. Completed(r)'
  <2>1. /\ pc'[r] = "returned" /\ returned'[r] = <<RQ_NOTIFICATION_PENDING>>
        /\ promise'[r] = "settled" /\ completions'[r] = <<s>> /\ answer'[r] = v
        /\ TypeOf[r] # "PRE_BEGIN_REQUEST"
    BY <1>1, <1>2, <1>4, <1>5 DEF SettlePromise, Owed, DispatchInv, TypeOK
  <2> QED
    BY <2>1, <1>3 DEF Completed, Returned
<1>8. Life'
  BY <1>7, <1>2, OthersKept DEF DispatchInv, SettlePromise, TypeOK
<1>9. HandlesAreCurrent'
  BY DEF DispatchInv, HandlesAreCurrent, SettlePromise, engineVars
<1>10. AwaitedCodeHasContext'
  BY DEF DispatchInv, AwaitedCodeHasContext, SettlePromise
<1> QED
  BY <1>6, <1>8, <1>9, <1>10 DEF DispatchInv

(* Code of a callback runs: while its promise is pending IIS still has the *)
(* request, since the worker owes the completion.                          *)
LEMMA CodeRunsKeeps ==
    ASSUME DispatchInv, NEW r \in Requests, CodeRuns(r)
    PROVE  DispatchInv'
<1>1. pc[r] = "finished" => r \in loose
  BY DEF DispatchInv, Life, CodeRuns, Unanswered, OnTheSpot, Owed, Completed
<1>2. AwaitedCodeHasContext'
  BY <1>1 DEF DispatchInv, AwaitedCodeHasContext, CodeRuns
<1>3. TypeOK'
  BY DEF DispatchInv, TypeOK, CodeRuns, engineVars
<1>4. Life'
  BY DEF DispatchInv, Life, Unanswered, OnTheSpot, Owed, Completed, Returned, Final, CodeRuns
<1>5. HandlesAreCurrent'
  BY DEF DispatchInv, HandlesAreCurrent, CodeRuns, engineVars
<1> QED
  BY <1>2, <1>3, <1>4, <1>5 DEF DispatchInv

(* IIS is done with a request that was answered. *)
LEMMA FinishRequestKeeps ==
    ASSUME DispatchInv, NEW r \in Requests, FinishRequest(r)
    PROVE  DispatchInv'
<1>1. OnTheSpot(r) \/ Completed(r)
  <2>1. ~Unanswered(r)
    BY DEF FinishRequest, Unanswered
  <2>2. ASSUME Owed(r) PROVE FALSE
    <3>1. returned[r][1] = RQ_NOTIFICATION_PENDING
      BY <2>2 DEF Owed
    <3> QED
      BY <2>2, <3>1 DEF Owed, FinishRequest, Final
  <2> QED
    BY <2>1, <2>2 DEF DispatchInv, Life
<1>2. TypeOK'
  BY DEF DispatchInv, TypeOK, FinishRequest, engineVars
<1>3. (OnTheSpot(r) \/ Completed(r))'
  BY <1>1 DEF DispatchInv, TypeOK, FinishRequest, OnTheSpot, Completed, Returned, Final
<1>4. Life'
  BY <1>3, OthersKept DEF DispatchInv, FinishRequest, TypeOK
<1>5. HandlesAreCurrent'
  BY DEF DispatchInv, HandlesAreCurrent, FinishRequest, engineVars
<1>6. AwaitedCodeHasContext'
  BY DEF DispatchInv, AwaitedCodeHasContext, FinishRequest
<1> QED
  BY <1>2, <1>4, <1>5, <1>6 DEF DispatchInv

(* One step of anybody. *)
LEMMA DispatchNextKeeps == DispatchInv /\ [Next]_vars => DispatchInv'
<1> SUFFICES ASSUME DispatchInv, [Next]_vars PROVE DispatchInv'
  OBVIOUS
<1>1. CASE UNCHANGED vars
  <2>1. UNCHANGED requestVars
    BY <1>1 DEF vars, requestVars
  <2>2. Life'
    BY <2>1, LifeKept DEF DispatchInv
  <2> QED
    BY <1>1, <2>2 DEF DispatchInv, TypeOK, HandlesAreCurrent, AwaitedCodeHasContext, vars
<1>2. ASSUME NEW r \in Requests, CallEmptyHandle(r) PROVE DispatchInv'
  <2>1. Life'
    BY <1>2, LifeKept DEF DispatchInv, CallEmptyHandle
  <2> QED
    BY <1>2, <2>1 DEF DispatchInv, CallEmptyHandle, TypeOK, HandlesAreCurrent,
                      AwaitedCodeHasContext, requestVars, engineVars
<1>3. CASE Terminated
  BY <1>1, <1>3 DEF Terminated
<1> QED
  BY <1>1, <1>2, <1>3, EngineKeeps, CheckRegisteredKeeps, CallFunctionKeeps,
     SettlePromiseKeeps, CodeRunsKeeps, FinishRequestKeeps DEF Next

(* The invariant holds throughout. *)
THEOREM DispatchInvariance == Spec => []DispatchInv
BY DispatchInitHolds, DispatchNextKeeps, PTL DEF Spec

(* Every variable keeps to the values the code can give it, and             *)
(* handle_callback returns at most once for a notification.                 *)
THEOREM DispatchTypeOK == Spec => []TypeOK
<1>1. DispatchInv => TypeOK
  BY DEF DispatchInv
<1> QED
  BY <1>1, DispatchInvariance, PTL

(* What IIS has been told, in each of the four situations. *)
LEMMA FinalAnswersFacts ==
    ASSUME DispatchInv, NEW r \in Requests
    PROVE  /\ Unanswered(r) \/ Owed(r) => FinalAnswers(r) = <<>>
           /\ OnTheSpot(r) => FinalAnswers(r) = returned[r]
           /\ Completed(r) => FinalAnswers(r) = completions[r]
<1>1. ASSUME Unanswered(r) PROVE FinalAnswers(r) = <<>>
  BY <1>1 DEF FinalAnswers, Unanswered
<1>2. ASSUME Owed(r) PROVE FinalAnswers(r) = <<>>
  <2>1. returned[r][1] = RQ_NOTIFICATION_PENDING /\ ~Final(r, RQ_NOTIFICATION_PENDING)
    BY <1>2 DEF Owed, Final
  <2> QED
    BY <2>1, <1>2 DEF FinalAnswers, Owed
<1>3. ASSUME OnTheSpot(r) PROVE FinalAnswers(r) = returned[r]
  <2>1. PICK s \in Statuses : returned[r] = <<s>> /\ Final(r, s)
    BY <1>3 DEF OnTheSpot
  <2>2. returned[r] # <<>> /\ returned[r][1] = s /\ returned[r] \in Seq(Statuses)
    BY <2>1
  <2> QED
    BY <2>1, <2>2, <1>3 DEF FinalAnswers, OnTheSpot
<1>4. ASSUME Completed(r) PROVE FinalAnswers(r) = completions[r]
  <2>1. returned[r][1] = RQ_NOTIFICATION_PENDING /\ ~Final(r, RQ_NOTIFICATION_PENDING)
    BY <1>4 DEF Completed, Final
  <2>2. completions[r] \in Seq(Statuses)
    BY DEF DispatchInv, TypeOK
  <2> QED
    BY <2>1, <2>2 DEF FinalAnswers
<1> QED
  BY <1>1, <1>2, <1>3, <1>4

(* IIS never gets two final answers for a notification, however the return *)
(* of handle_callback and the completion by a worker interleave.           *)
THEOREM DispatchAnsweredOnce == Spec => []AnsweredOnce
<1>1. ASSUME DispatchInv, NEW r \in Requests PROVE Len(FinalAnswers(r)) <= 1
  <2>1. CASE Unanswered(r) \/ Owed(r)
    BY <1>1, <2>1, FinalAnswersFacts
  <2>2. CASE OnTheSpot(r)
    <3>1. PICK s \in Statuses : FinalAnswers(r) = <<s>>
      BY <1>1, <2>2, FinalAnswersFacts DEF OnTheSpot
    <3> QED
      BY <3>1
  <2>3. CASE Completed(r)
    <3>1. PICK s \in Statuses : FinalAnswers(r) = <<s>>
      BY <1>1, <2>3, FinalAnswersFacts DEF Completed
    <3> QED
      BY <3>1
  <2> QED
    BY <1>1, <2>1, <2>2, <2>3 DEF DispatchInv, Life
<1>2. DispatchInv => AnsweredOnce
  BY <1>1 DEF AnsweredOnce
<1> QED
  BY <1>2, DispatchInvariance, PTL

(* A notification for which handle_callback has returned PENDING is one a  *)
(* worker completes or has completed.                                      *)
THEOREM DispatchPendingIsOwed == Spec => []PendingIsOwed
<1>1. ASSUME DispatchInv, NEW r \in Requests,
             returned[r] = <<RQ_NOTIFICATION_PENDING>>, TypeOf[r] # "PRE_BEGIN_REQUEST"
      PROVE  promise[r] = "pending" \/ Len(completions[r]) = 1
  <2>1. returned[r][1] = RQ_NOTIFICATION_PENDING /\ returned[r] # <<>>
    BY <1>1
  <2>2. ASSUME OnTheSpot(r) PROVE FALSE
    <3>1. PICK s \in Statuses : returned[r] = <<s>> /\ Final(r, s)
      BY <2>2 DEF OnTheSpot
    <3>2. returned[r][1] = s
      BY <3>1
    <3> QED
      BY <2>1, <3>1, <3>2, <1>1 DEF Final
  <2>3. Owed(r) \/ Completed(r)
    BY <1>1, <2>1, <2>2 DEF DispatchInv, Life, Unanswered
  <2>4. Completed(r) => Len(completions[r]) = 1
    BY DEF Completed
  <2> QED
    BY <2>3, <2>4 DEF Owed
<1>2. DispatchInv => PendingIsOwed
  BY <1>1 DEF PendingIsOwed
<1> QED
  BY <1>2, DispatchInvariance, PTL

(* The answer IIS acts upon is the script's, in the enumeration in which   *)
(* IIS reads it.                                                           *)
THEOREM DispatchAnswerIsScripts == Spec => []AnswerIsScripts
<1>1. ASSUME DispatchInv, NEW r \in Requests, FinalAnswers(r) # <<>>
      PROVE  Finishes(r) <=> answer[r] = "nonzero"
  <2>1. Finishes(r) <=> FinalAnswers(r)[1] = FinishStatus(TypeOf[r])
    BY DEF Finishes, FinishStatus
  <2>2. CASE OnTheSpot(r)
    <3>1. PICK s \in Statuses : /\ returned[r] = <<s>>
                                /\ s = FinishStatus(TypeOf[r]) <=> answer[r] = "nonzero"
      BY <2>2 DEF OnTheSpot
    <3>2. FinalAnswers(r) = <<s>>
      BY <1>1, <2>2, <3>1, FinalAnswersFacts
    <3>3. FinalAnswers(r)[1] = s
      BY <3>2
    <3> QED
      BY <2>1, <3>1, <3>3
  <2>3. CASE Completed(r)
    <3>1. PICK s \in Statuses : /\ completions[r] = <<s>>
                                /\ s = RQ_NOTIFICATION_FINISH_REQUEST <=> answer[r] = "nonzero"
      BY <2>3 DEF Completed
    <3>2. FinalAnswers(r) = <<s>>
      BY <1>1, <2>3, <3>1, FinalAnswersFacts
    <3>3. FinalAnswers(r)[1] = s
      BY <3>2
    <3>4. FinishStatus(TypeOf[r]) = RQ_NOTIFICATION_FINISH_REQUEST
      BY <2>3 DEF Completed, FinishStatus
    <3> QED
      BY <2>1, <3>1, <3>3, <3>4
  <2> QED
    BY <1>1, <2>2, <2>3, FinalAnswersFacts DEF DispatchInv, Life
<1>2. DispatchInv => AnswerIsScripts
  BY <1>1 DEF AnswerIsScripts
<1> QED
  BY <1>2, DispatchInvariance, PTL

(* Code a callback awaits never uses an IHttpContext IIS is done with: only *)
(* code that the answer does not wait for does, the continuation of a      *)
(* PRE_BEGIN_REQUEST callback's pending promise among it.                  *)
THEOREM DispatchAwaitedCodeHasContext == Spec => []AwaitedCodeHasContext
<1>1. DispatchInv => AwaitedCodeHasContext
  BY DEF DispatchInv
<1> QED
  BY <1>1, DispatchInvariance, PTL

(* PRE_BEGIN_REQUEST never waits for a worker.                             *)
THEOREM DispatchPreBegin == Spec => []PreBeginIsSynchronous
<1>1. DispatchInv => PreBeginIsSynchronous
  BY DEF DispatchInv, Life, PreBeginIsSynchronous, Unanswered, OnTheSpot, Owed, Completed
<1> QED
  BY <1>1, DispatchInvariance, PTL

(* No function of a replaced script is called after reset_engine, unless   *)
(* asynchronous code has registered one.                                   *)
THEOREM DispatchServedByCurrent == Spec => ServedByCurrentScript
<1>1. ASSUME DispatchInv, [Next]_vars, NEW r \in Requests, caller'[r] # caller[r]
      PROVE  caller'[r] = context \/ late_registers > 0
  <2>1. PICK q \in Requests : CallFunction(q)
    BY <1>1 DEF Next, vars, engineVars, requestVars, CreateIsolate, reset_engine, execute_file,
            LateRegister, CheckRegistered, CallEmptyHandle, SettlePromise, CodeRuns,
            FinishRequest, Terminated
  <2>2. caller'[r] = functions[TypeOf[r]] /\ functions[TypeOf[r]] # 0
    BY <1>1, <2>1 DEF CallFunction, DispatchInv, TypeOK
  <2>3. TypeOf[r] \in CALLBACK_TYPES
    BY DispatchAssumption
  <2>4. late_registers \in Nat
    BY <1>1, DispatchAssumption DEF DispatchInv, TypeOK
  <2> QED
    BY <1>1, <2>2, <2>3, <2>4 DEF DispatchInv, HandlesAreCurrent
<1>2. DispatchInv /\ [Next]_vars
        => [\A r \in Requests : caller'[r] # caller[r]
               => caller'[r] = context \/ late_registers > 0]_vars
  BY <1>1
<1> QED
  BY <1>2, DispatchInvariance, PTL DEF Spec, ServedByCurrentScript
=============================================================================
