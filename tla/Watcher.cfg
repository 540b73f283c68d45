SPECIFICATION FairSpec
CONSTANTS
    main = main
    lib = lib
    Main = main
    Libs <- MCLibs
    MaxEdits = 4
    MaxOpenFailures = 1
    MaxAsyncLoads = 1
INVARIANTS NoMissedChange
PROPERTIES MainIsReloadedIfReadable ReloadsQuiesce
