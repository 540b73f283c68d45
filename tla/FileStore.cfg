SPECIFICATION FileSpec
CONSTANTS
    p1 = p1
    p2 = p2
    f1 = f1
    f2 = f2
    Processes <- TwoProcesses
    Files <- TwoFiles
    MaxStreams = 1
    MaxBlocks = 2
    MaxCalls = 4
    MaxRestarts = 1
INVARIANTS FileIsIntended
PROPERTIES ReadIsWhole
SYMMETRY Symmetry
