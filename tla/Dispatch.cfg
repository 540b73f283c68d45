SPECIFICATION FairSpec
CONSTANTS
    r1 = r1
    r2 = r2
    Requests <- MCRequests
    TypeOf <- MCTypeOf
    MaxScripts = 2
    MaxLateRegisters = 1
INVARIANTS AnsweredOnce PendingIsOwed AnswerIsScripts PreBeginIsSynchronous AwaitedCodeHasContext
PROPERTIES EveryNotificationAnswered ServedByCurrentScript
