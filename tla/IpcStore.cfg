SPECIFICATION StoreSpec
CONSTANTS
    p1 = p1
    p2 = p2
    p3 = p3
    NoOwner = NoOwner
    Abandoned = Abandoned
    Readers <- One
    Writers <- LastTwo
    Processes <- Three
    FillOrder <- DataFields
    IPCKV_MAX_LOCKS = 2
    MaxCrashes = 1
    MaxTransactions = 3
INVARIANTS WriterOwnsMutex  PointerSeesRecord
PROPERTIES CommitPublishesSetFields ImplementsRecord ImplementsSlot
SYMMETRY Symmetry
CHECK_DEADLOCK FALSE
