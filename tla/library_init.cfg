\* Two threads in one JVM and one in another, a fault of any kind or a
\* crash; the hash of the second library is never matched.
SPECIFICATION Spec
CONSTANTS
    jvm1 = jvm1
    jvm2 = jvm2
    t1 = t1
    t2 = t2
    t3 = t3
    Processes = {jvm1, jvm2}
    Threads = {t1, t2, t3}
    ProcessOf <- TwoAndOne
    LibraryCount = 2
    ChunkCount = 2
    Faults = {"platform", "directory", "read", "copy", "load", "native"}
    MaxMishaps = 1
    Unmatched = {2}
    Nobody = Nobody
SYMMETRY Alike
INVARIANTS
    InitializedOnce
    LoadedComplete
    FailsForCause
    RefusedOnlyBefore
