\* As byte_array_stream, but callers write up to the maximal size.
SPECIFICATION FairSpec
CONSTANTS
    InitialSize = 1
    MaxSize = 3
    MaxChunkSize = 2
    Bytes = {0, 1}
    Zero = 0
    Contents <- Some
    Lengths = {0, 1, 2, 4}
    Offsets <- Around
    Limit = 3
    Careful = TRUE
PROPERTY FullCanBeOverridden
