\* Two threads of one JVM, and nothing fails.
SPECIFICATION Spec
CONSTANTS
    jvm1 = jvm1
    jvm2 = jvm2
    t1 = t1
    t2 = t2
    t3 = t3
    Processes = {jvm1}
    Threads = {t1, t2}
    ProcessOf <- TwoThreads
    LibraryCount = 1
    ChunkCount = 2
    Faults = {}
    MaxMishaps = 0
    Unmatched = {}
    Nobody = Nobody
INVARIANT RefusedOnlyAfterFailure
