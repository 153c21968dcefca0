\* One item, with a level and a number of threads.
SPECIFICATION Spec
CONSTANTS
    NumItems = 1
    OldItems = 0
    Levels = {9}
    ThreadCounts = {2}
    Blocks = {"files"}
INVARIANT LevelInEffect
