\* Two items, two items in the opened archive, one value for each setting.
SPECIFICATION Spec
CONSTANTS
    NumItems = 2
    OldItems = 1
    Levels = {9}
    ThreadCounts = {2}
    Blocks = {"files"}
INVARIANTS
    ReturnedMeansWritten
    ToldIsConsistent
    OneObjectPerItem
    ItemReleased
    NotSolidIsKept
