SPECIFICATION Spec
CONSTANTS
    Files <- SmallFiles
    DataBytes = 5
    MaxChunks = 3
INVARIANT WindowOK
INVARIANT ChunksInvisible
INVARIANT Reread
PROPERTY ScanEnds
CHECK_DEADLOCK FALSE
