------------------------------ MODULE LibraryInit ------------------------------
(***************************************************************************)
(* SevenZip.java: how the native libraries get into the JVM.  The threads  *)
(* of a JVM open archives, which initializes the libraries automatically   *)
(* once, or initialize them by hand.  The libraries are copied to a        *)
(* temporary directory that all JVMs of the machine share and that stays   *)
(* behind when one of them dies.                                           *)
(*                                                                         *)
(* A library is a file of some chunks; its hash matches when each chunk is *)
(* right at the moment when it is read.  byteArrayToHex drops the leading   *)
(* zero of a byte: a hash with a byte below 16 is never matched.           *)
(***************************************************************************)
EXTENDS Integers, FiniteSets

CONSTANTS
    Processes,    \* JVMs
    Threads,
    ProcessOf,    \* the JVM of a thread
    LibraryCount, \* libraries of the platform jar, loaded from the last to the first
    ChunkCount,   \* chunks of a library, as the copying writes them
    Unmatched,    \* libraries with such a hash
    Faults,       \* what may fail: a subset of KindsOfFault
    MaxMishaps,   \* bound: faults and JVMs that die
    Nobody        \* no thread

\* The jar of the platform is missing, the directory cannot be used, a file
\* cannot be read, written or loaded, the native initialization reports an error.
KindsOfFault == {"platform", "directory", "read", "copy", "load", "native"}

ASSUME JVMAssumption ==
    /\ ProcessOf \in [Threads -> Processes] /\ Nobody \notin Threads
    /\ LibraryCount \in Nat \ {0} /\ ChunkCount \in Nat \ {0}
    /\ Unmatched \subseteq 1..LibraryCount /\ Faults \subseteq KindsOfFault /\ MaxMishaps \in Nat

Libraries == 1..LibraryCount
Chunks == 1..ChunkCount

VARIABLES
    autoInitializationWillOccur, initializationSuccessful, \* statics of each JVM
    lastInitializationException,                           \* whether one is kept
    monitor,        \* of the class SevenZip: the thread that is in it
    loaded,         \* the libraries that a JVM has loaded
    directory,      \* whether the directory exists
    content,        \* the right chunks of each file (a missing file has none)
    pc, call,       \* what a thread does, and for which public method
    place,          \* the library and the chunk that a thread is at
    outcome,        \* how the last call of a thread ended
    failed,         \* history: an attempt of the JVM failed
    overlapped,     \* history: two JVMs were at the files at the same time
    ready,          \* history: the last call of a thread began in an initialized JVM
    faults, crashes

statics == <<autoInitializationWillOccur, initializationSuccessful,
             lastInitializationException>>
files == <<directory, content>>
control == <<pc, call, place, outcome>>
history == <<failed, overlapped, ready, faults, crashes>>
vars == <<statics, monitor, loaded, files, control, history>>

Calls == {"openInArchive", "initSevenZipFromPlatformJAR", "initLoadedLibraries"}

\* Steps inside the monitor.
FileSteps == {"directory", "mkdir", "check", "truncate", "copy", "load"}
InitSteps == FileSteps \cup {"native"}

JVM(t) == ProcessOf[t]
AtFiles(p) == \E t \in Threads : JVM(t) = p /\ pc[t] \in FileSteps
Complete(l) == content[l] = Chunks

Init ==
    /\ autoInitializationWillOccur = [p \in Processes |-> TRUE]
    /\ initializationSuccessful = [p \in Processes |-> FALSE]
    /\ lastInitializationException = [p \in Processes |-> FALSE]
    /\ monitor = [p \in Processes |-> Nobody]
    /\ loaded = [p \in Processes |-> {}]
    /\ directory = FALSE /\ content = [l \in Libraries |-> {}]
    /\ pc = [t \in Threads |-> "idle"] /\ call = [t \in Threads |-> "none"]
    /\ place = [t \in Threads |-> <<1, 1>>] /\ outcome = [t \in Threads |-> "none"]
    /\ failed = [p \in Processes |-> FALSE] /\ overlapped = FALSE
    /\ ready = [t \in Threads |-> FALSE]
    /\ faults = 0 /\ crashes = 0

-----------------------------------------------------------------------------
(* Steps of a thread.                                                      *)

Goto(t, from, to) == pc[t] = from /\ pc' = [pc EXCEPT ![t] = to]

GotoPlace(t, from, to, l, c) == Goto(t, from, to) /\ place' = [place EXCEPT ![t] = <<l, c>>]

End(t, how) == /\ pc' = [pc EXCEPT ![t] = "idle"]
               /\ outcome' = [outcome EXCEPT ![t] = how]
               /\ call' = [call EXCEPT ![t] = "none"]
               /\ place' = [place EXCEPT ![t] = <<1, 1>>]

Release(t) == monitor' = [monitor EXCEPT ![JVM(t)] = Nobody]

\* The attempt ends in an exception.  Only a SevenZipNativeInitializationException
\* is kept (for openInArchive a second time, outside of the monitor).
Fail(t, isKept) ==
    /\ lastInitializationException' = [lastInitializationException EXCEPT ![JVM(t)] = @ \/ isKept]
    /\ failed' = [failed EXCEPT ![JVM(t)] = TRUE]
    /\ End(t, "failed") /\ Release(t)
    /\ UNCHANGED <<autoInitializationWillOccur, initializationSuccessful, loaded, content,
                   overlapped, ready, crashes>>

Fault(t, kind, isKept) ==
    /\ kind \in Faults /\ faults + crashes < MaxMishaps /\ faults' = faults + 1
    /\ Fail(t, isKept)

Call(t) ==
    /\ pc[t] = "idle"
    /\ \E method \in Calls :
          /\ call' = [call EXCEPT ![t] = method]
          /\ pc' = [pc EXCEPT ![t] = IF method = "openInArchive" THEN "test" ELSE "enter"]
    /\ outcome' = [outcome EXCEPT ![t] = "none"]
    /\ ready' = [ready EXCEPT ![t] = initializationSuccessful[JVM(t)]]
    /\ UNCHANGED <<place, statics, monitor, loaded, files, failed, overlapped, faults, crashes>>

-----------------------------------------------------------------------------
(* ensureLibraryIsInitialized, which is not synchronized: its two reads     *)
(* are a data race, and initializationSuccessful may be read first (Peek).   *)

Peek(t) ==
    /\ ~initializationSuccessful[JVM(t)] /\ Goto(t, "test", "peeked")
    /\ UNCHANGED <<call, place, outcome, statics, monitor, loaded, files, history>>

Test(t) ==
    /\ \/ /\ autoInitializationWillOccur[JVM(t)]
          /\ Goto(t, "test", "clear") \/ Goto(t, "peeked", "clear")
          /\ UNCHANGED <<call, place, outcome>>
       \/ /\ ~autoInitializationWillOccur[JVM(t)]
          /\ Goto(t, "test", "decide") /\ UNCHANGED <<call, place, outcome>>
       \/ /\ ~autoInitializationWillOccur[JVM(t)]
          /\ pc[t] = "peeked" /\ End(t, "refused")
    /\ UNCHANGED <<statics, monitor, loaded, files, history>>

Clear(t) ==
    /\ Goto(t, "clear", "enter")
    /\ autoInitializationWillOccur' = [autoInitializationWillOccur EXCEPT ![JVM(t)] = FALSE]
    /\ UNCHANGED <<call, place, outcome, initializationSuccessful, lastInitializationException,
                   monitor, loaded, files, history>>

\* "SevenZipJBinding wasn't initialized successfully last time."
Decide(t) ==
    /\ pc[t] = "decide"
    /\ End(t, IF initializationSuccessful[JVM(t)] THEN "opened" ELSE "refused")
    /\ UNCHANGED <<statics, monitor, loaded, files, history>>

-----------------------------------------------------------------------------
(* The synchronized methods initSevenZipFromPlatformJARIntern and          *)
(* initLoadedLibraries                                                     *)

\* Where a thread goes on when it has left the monitor.
Done(t) ==
    /\ Release(t)
    /\ IF call[t] = "openInArchive"
       THEN pc' = [pc EXCEPT ![t] = "decide"] /\ UNCHANGED <<call, place, outcome>>
       ELSE End(t, "initialized")

\* Whether another JVM is at the files already.
Meet(t) == overlapped' = (overlapped \/ /\ pc'[t] = "directory"
                                        /\ \E p \in Processes \ {JVM(t)} : AtFiles(p))

\* Mutant: the libraries are initialized again.
Enter_again(t) ==
    /\ pc[t] = "enter" /\ monitor[JVM(t)] = Nobody
    /\ monitor' = [monitor EXCEPT ![JVM(t)] = t]
    /\ autoInitializationWillOccur' = [autoInitializationWillOccur EXCEPT ![JVM(t)] = FALSE]
    /\ pc' = [pc EXCEPT ![t] = IF call[t] = "initLoadedLibraries" THEN "native" ELSE "directory"]
    /\ UNCHANGED <<call, place, outcome, initializationSuccessful, lastInitializationException>>
    /\ Meet(t)
    /\ UNCHANGED <<loaded, files, failed, ready, faults, crashes>>

\* Mutant: a further initialization begins with resetting the success.
Enter_resets(t) ==
    /\ pc[t] = "enter" /\ monitor[JVM(t)] = Nobody
    /\ monitor' = [monitor EXCEPT ![JVM(t)] = t]
    /\ autoInitializationWillOccur' = [autoInitializationWillOccur EXCEPT ![JVM(t)] = FALSE]
    /\ initializationSuccessful' = [initializationSuccessful EXCEPT ![JVM(t)] = FALSE]
    /\ pc' = [pc EXCEPT ![t] = IF call[t] = "initLoadedLibraries" THEN "native" ELSE "directory"]
    /\ Meet(t)
    /\ UNCHANGED <<call, place, outcome, lastInitializationException, loaded, files,
                   failed, ready, faults, crashes>>

Enter(t) ==
    /\ pc[t] = "enter" /\ monitor[JVM(t)] = Nobody
    /\ IF initializationSuccessful[JVM(t)]
       THEN /\ Done(t)
            /\ autoInitializationWillOccur' =
                  [autoInitializationWillOccur EXCEPT ![JVM(t)] =
                      @ /\ call[t] = "initLoadedLibraries"]
       ELSE /\ monitor' = [monitor EXCEPT ![JVM(t)] = t]
            /\ autoInitializationWillOccur' =
                  [autoInitializationWillOccur EXCEPT ![JVM(t)] = FALSE]
            /\ pc' = [pc EXCEPT ![t] =
                        IF call[t] = "initLoadedLibraries" THEN "native" ELSE "directory"]
            /\ UNCHANGED <<call, place, outcome>>
    /\ Meet(t)
    /\ UNCHANGED <<initializationSuccessful, lastInitializationException, loaded, files,
                   failed, ready, faults, crashes>>

\* Mutant: the directory is made without looking for it.
FindDirectory_always(t) ==
    /\ pc[t] = "directory"
    /\ \/ /\ GotoPlace(t, "directory", "mkdir", 1, 1)
          /\ UNCHANGED <<call, outcome, statics, monitor, loaded, files, history>>
       \/ Fault(t, "platform", TRUE) /\ UNCHANGED directory

\* The platform is determined and its properties are read, then the directory
\* for this build is looked for.
FindDirectory(t) ==
    /\ pc[t] = "directory"
    /\ \/ /\ GotoPlace(t, "directory", IF directory THEN "check" ELSE "mkdir", 1, 1)
          /\ UNCHANGED <<call, outcome, statics, monitor, loaded, files, history>>
       \/ Fault(t, "platform", TRUE) /\ UNCHANGED directory

\* mkdir reports a failure when another JVM was faster.
MakeDirectory(t) ==
    /\ pc[t] = "mkdir"
    /\ \/ /\ ~directory /\ directory' = TRUE
          /\ GotoPlace(t, "mkdir", "check", 1, 1)
          /\ UNCHANGED <<call, outcome, statics, monitor, loaded, content, history>>
       \/ directory /\ Fail(t, TRUE) /\ UNCHANGED <<directory, faults>>
       \/ Fault(t, "directory", TRUE) /\ UNCHANGED directory

\* The next library is checked, or the libraries are loaded.
NextLibrary(t, from) ==
    IF place[t][1] < LibraryCount
    THEN GotoPlace(t, from, "check", place[t][1] + 1, 1)
    ELSE GotoPlace(t, from, "load", LibraryCount, 1)

\* Mutant: a file that exists is used as it is.
Check_exists(t) ==
    LET l == place[t][1] IN
    /\ pc[t] = "check"
    /\ IF content[l] # {} THEN NextLibrary(t, "check")
       ELSE GotoPlace(t, "check", "truncate", l, 1)
    /\ UNCHANGED <<call, outcome, statics, monitor, loaded, files, history>>

\* hashMatched reads the file chunk by chunk.
Check(t) ==
    LET l == place[t][1]
        c == place[t][2]
    IN
    /\ pc[t] = "check"
    /\ \/ /\ IF \/ c \notin content[l]
                \/ c = ChunkCount /\ l \in Unmatched THEN GotoPlace(t, "check", "truncate", l, 1)
             ELSE IF c < ChunkCount THEN GotoPlace(t, "check", "check", l, c + 1)
             ELSE NextLibrary(t, "check")
          /\ UNCHANGED <<call, outcome, statics, monitor, loaded, files, history>>
       \/ Fault(t, "read", TRUE) /\ UNCHANGED directory

\* copyLibraryToFS opens the file, which empties it, and writes it.
Truncate(t) ==
    LET l == place[t][1] IN
    /\ pc[t] = "truncate"
    /\ \/ /\ content' = [content EXCEPT ![l] = {}]
          /\ GotoPlace(t, "truncate", "copy", l, 1)
          /\ UNCHANGED <<call, outcome, statics, monitor, loaded, directory, history>>
       \/ Fault(t, "copy", FALSE) /\ UNCHANGED directory

Copy(t) ==
    LET l == place[t][1]
        c == place[t][2]
    IN
    /\ pc[t] = "copy"
    /\ \/ /\ content' = [content EXCEPT ![l] = @ \cup {c}]
          /\ IF c < ChunkCount THEN GotoPlace(t, "copy", "copy", l, c + 1)
             ELSE NextLibrary(t, "copy")
          /\ UNCHANGED <<call, outcome, statics, monitor, loaded, directory, history>>
       \/ Fault(t, "copy", FALSE) /\ UNCHANGED directory

\* A file that is not complete is refused or loaded.
Load(t) ==
    LET l == place[t][1] IN
    /\ pc[t] = "load"
    /\ \/ /\ loaded' = [loaded EXCEPT ![JVM(t)] = @ \cup {l}]
          /\ IF l > 1 THEN GotoPlace(t, "load", "load", l - 1, 1)
             ELSE GotoPlace(t, "load", "native", 1, 1)
          /\ UNCHANGED <<call, outcome, statics, monitor, files, history>>
       \/ ~Complete(l) /\ Fail(t, TRUE) /\ UNCHANGED <<directory, faults>>
       \/ Fault(t, "load", TRUE) /\ UNCHANGED directory

NativeInitialization(t) ==
    /\ pc[t] = "native"
    /\ \/ /\ initializationSuccessful' = [initializationSuccessful EXCEPT ![JVM(t)] = TRUE]
          /\ Done(t)
          /\ UNCHANGED <<autoInitializationWillOccur, lastInitializationException, loaded, files,
                         history>>
       \/ Fault(t, "native", TRUE) /\ UNCHANGED directory

-----------------------------------------------------------------------------
\* A JVM dies and is started again; the files stay as they are.
Crash(p) ==
    /\ faults + crashes < MaxMishaps /\ crashes' = crashes + 1
    /\ autoInitializationWillOccur' = [autoInitializationWillOccur EXCEPT ![p] = TRUE]
    /\ initializationSuccessful' = [initializationSuccessful EXCEPT ![p] = FALSE]
    /\ lastInitializationException' = [lastInitializationException EXCEPT ![p] = FALSE]
    /\ monitor' = [monitor EXCEPT ![p] = Nobody] /\ loaded' = [loaded EXCEPT ![p] = {}]
    /\ failed' = [failed EXCEPT ![p] = FALSE]
    /\ ready' = [t \in Threads |-> IF JVM(t) = p THEN FALSE ELSE ready[t]]
    /\ pc' = [t \in Threads |-> IF JVM(t) = p THEN "idle" ELSE pc[t]]
    /\ call' = [t \in Threads |-> IF JVM(t) = p THEN "none" ELSE call[t]]
    /\ place' = [t \in Threads |-> IF JVM(t) = p THEN <<1, 1>> ELSE place[t]]
    /\ outcome' = [t \in Threads |-> IF JVM(t) = p THEN "none" ELSE outcome[t]]
    /\ UNCHANGED <<files, overlapped, faults>>

Initialize(t) == \/ FindDirectory(t) \/ MakeDirectory(t) \/ Check(t) \/ Truncate(t)
                 \/ Copy(t) \/ Load(t) \/ NativeInitialization(t)

Next == \/ \E t \in Threads : \/ Call(t) \/ Peek(t) \/ Test(t) \/ Clear(t) \/ Decide(t)
                              \/ Enter(t) \/ Initialize(t)
        \/ \E p \in Processes : Crash(p)

Spec == Init /\ [][Next]_vars

-----------------------------------------------------------------------------
(* Properties.                                                             *)

Outcomes == {"none", "opened", "initialized", "failed", "refused"}

\* The statics, the monitor and the files have their types.
TypeOK ==
    /\ autoInitializationWillOccur \in [Processes -> BOOLEAN]
    /\ initializationSuccessful \in [Processes -> BOOLEAN]
    /\ lastInitializationException \in [Processes -> BOOLEAN]
    /\ monitor \in [Processes -> Threads \cup {Nobody}]
    /\ loaded \in [Processes -> SUBSET Libraries]
    /\ directory \in BOOLEAN /\ content \in [Libraries -> SUBSET Chunks]
    /\ pc \in [Threads -> {"idle", "test", "peeked", "clear", "enter", "decide"} \cup InitSteps]
    /\ call \in [Threads -> Calls \cup {"none"}]
    /\ place \in [Threads -> Libraries \X Chunks]
    /\ outcome \in [Threads -> Outcomes]
    /\ failed \in [Processes -> BOOLEAN] /\ overlapped \in BOOLEAN
    /\ ready \in [Threads -> BOOLEAN]
    /\ faults \in Nat /\ crashes \in Nat

\* Whichever threads initialize and open archives at the same time, the native
\* initialization is never called when it has succeeded before, and a thread in
\* it holds the monitor of the class.
InitializedOnce ==
    \A t \in Threads : pc[t] \in InitSteps =>
        monitor[JVM(t)] = t /\ ~initializationSuccessful[JVM(t)]

\* Whatever a JVM that died left behind in the directory, the libraries that
\* are loaded are complete, unless two JVMs were at the files at the same time
\* or the hash is one that is never matched.
LoadedComplete ==
    ~overlapped => \A p \in Processes : \A l \in loaded[p] \ Unmatched : Complete(l)

\* Leftovers and other threads never make an initialization fail: it fails for
\* a fault of its surroundings, or because two JVMs met.
FailsForCause == \A p \in Processes : failed[p] => faults > 0 \/ overlapped

\* How a thread at the files and the files agree, as long as no two JVMs met.
Agrees(t) ==
    LET l == place[t][1]
        c == place[t][2]
    IN
    /\ pc[t] \in FileSteps => \A u \in Threads \ {t} : pc[u] \notin FileSteps
    /\ pc[t] = "mkdir" => ~directory
    /\ pc[t] \in {"check", "truncate", "copy"} => \A k \in 1..(l - 1) : Complete(k)
    /\ pc[t] \in {"check", "copy"} => 1..(c - 1) \subseteq content[l]
    /\ pc[t] \in {"truncate", "copy"} => \A p \in Processes : l \notin loaded[p] \ Unmatched
    /\ pc[t] = "load" => \A k \in Libraries : Complete(k)
FilesAgree == ~overlapped => \A t \in Threads : Agrees(t)

\* An archive is refused only in a call that began before the JVM was
\* initialized: once it is, the races of ensureLibraryIsInitialized and further
\* initializations never refuse one.
RefusedOnlyBefore == \A t \in Threads : outcome[t] = "refused" => ~ready[t]

\* A call that began in an initialized JVM finds it initialized.
ReadyAgrees == \A t \in Threads : ready[t] =>
                   initializationSuccessful[JVM(t)] /\ pc[t] # "peeked"

\* The inductive invariant.
IInv == /\ TypeOK /\ InitializedOnce /\ FilesAgree /\ LoadedComplete /\ FailsForCause
        /\ ReadyAgrees /\ RefusedOnlyBefore

-----------------------------------------------------------------------------
(* What the documentation says and the code does not keep.                 *)

\* SevenZip.java:242 "Automatic initialization starts before opening an
\* archive": an archive is refused only after an attempt that failed.
RefusedOnlyAfterFailure ==
    \A t \in Threads : outcome[t] = "refused" => failed[JVM(t)]
=============================================================================
