SPECIFICATION FairSpec
CONSTANTS
    c1 = c1
    c2 = c2
    t1 = t1
    t2 = t2
    t3 = t3
    NoOwner = NoOwner
    Calls <- MCCalls
    Tasks <- MCTasks
    KindOf <- MCKindOf
    MAX_THREADS = 2
    MaxSpawnFailures = 1
INVARIANTS SlotAccounting WaiterOwnsIsolate NoLostWakeup
PROPERTIES SettledOnce WaiterProceeds EveryPromiseSettles ImplementsService
