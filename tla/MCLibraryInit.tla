----------------------------- MODULE MCLibraryInit -----------------------------
EXTENDS LibraryInit, TLC

CONSTANTS jvm1, jvm2, t1, t2, t3

\* Two threads in one JVM, one in another.
TwoAndOne == (t1 :> jvm1) @@ (t2 :> jvm1) @@ (t3 :> jvm2)
TwoThreads == (t1 :> jvm1) @@ (t2 :> jvm1)
\* The two threads of the first JVM are alike.
Alike == Permutations({t1, t2})
OneThread == t1 :> jvm1
=============================================================================
