SPECIFICATION Spec
CONSTANTS
    d1 = d1
    b1 = b1
    j1 = j1
    j2 = j2
    Dbs <- OneDb
    Buffers <- OneBuffer
    Jobs <- TwoJobs
    MaxVersion = 2
INVARIANTS JobUsesItsInput RowAnswersForItself
SYMMETRY Symmetry
CHECK_DEADLOCK FALSE
