SPECIFICATION Spec
CONSTANTS
    Files <- SmallFiles
    DataBytes = 5
    MaxChunks = 3
CHECK_DEADLOCK FALSE
INVARIANT CommentsRemoved
