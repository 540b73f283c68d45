SPECIFICATION FairReadersSpec
CONSTANTS
    p1 = p1
    p2 = p2
    p3 = p3
    NoOwner = NoOwner
    Abandoned = Abandoned
    Readers <- Three
    Writers <- Nobody
    IPCKV_MAX_LOCKS = 2
    MaxCrashes = 0
INVARIANT EmptyMeansReaderInside
PROPERTY ReaderGetsIn
