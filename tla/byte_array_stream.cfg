\* Chunks of 1 and 2 bytes, writes of up to 3 bytes, at most one byte less
\* than the maximal size.
SPECIFICATION FairSpec
CONSTANTS
    InitialSize = 1
    MaxSize = 5
    MaxChunkSize = 2
    Bytes = {0, 1}
    Zero = 0
    Contents <- Some
    Lengths = {0, 1, 2, 4, 6}
    Offsets <- Around
    Limit = 4
    Careful = TRUE
INVARIANTS
    TypeOK
    CursorAgrees
    EndInLastChunk
PROPERTIES
    ImplementsArray
    CallsEnd
