SPECIFICATION BodiesSpec
CONSTANTS
    Bodies <- ShortBodies
    BUFFER_SIZE = 2
    MaxRequestReads = 3
    MAX_BYTES = 3
    USHORT_RANGE = 4
    MaxSize = 7
    MaxWrites = 2
    MaxReads = 1
    MaxForeign = 1
    MaxClears = 1
INVARIANTS PipelineSeesBody ReadsWholeBody WholeBufferDelivered BodyTypeOK
PROPERTIES ChunksContiguous LastMeansLast ReadReturnsWritten
