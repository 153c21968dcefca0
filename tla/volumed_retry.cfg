\* As volumed_stream, with a caller who seeks again after an exception.
SPECIFICATION Spec
CONSTANTS
    Starts <- ThreeVolumes
    Offsets <- AllOffsets
    Sizes = {1, 2, 4}
    Faults = {"getStream"}
    MaxFaults = 1
    Lost = Lost
PROPERTY SeekRecovers
