SPECIFICATION FairSpec
CONSTANTS
    Names <- TwoNames
    RawInputs <- LongInputs
    MaxMisses = 1
    MaxLookups = 2
INVARIANTS NoDotSegments LeadsToNamedFile
PROPERTY EveryNameResolves
