\* Three volumes of 2, 1 and 3 bytes; the callback, every seek and every read of a volume
\* may fail and offsets may be negative, twice.
SPECIFICATION Spec
CONSTANTS
    Starts <- ThreeVolumes
    Offsets <- AllOffsets
    Sizes = {1, 2, 4}
    Faults = {"getStream", "measure", "rewind", "seek", "read", "negative"}
    MaxFaults = 2
    Lost = Lost
INVARIANTS
    PositionsFound
    KnownIsInSync
    CurrentVolumeAgrees
PROPERTIES
    ImplementsStream
