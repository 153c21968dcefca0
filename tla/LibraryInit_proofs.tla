---------------------------- MODULE LibraryInit_proofs ----------------------------
(***************************************************************************)
(* The initialization of the native libraries, for any number of JVMs,     *)
(* threads, libraries and chunks, whatever fails and dies: the inductive   *)
(* invariant of LibraryInit and what follows from it.                      *)
(***************************************************************************)
EXTENDS LibraryInit, TLAPS

-----------------------------------------------------------------------------
(* Types                                                                   *)

LEMMA ThreadStep ==
    ASSUME TypeOK, NEW t \in Threads
    PROVE  /\ JVM(t) \in Processes
           /\ place[t] \in Libraries \X Chunks /\ place[t][1] \in Libraries
           /\ place[t][2] \in Chunks /\ 1 \in Libraries /\ 1 \in Chunks
           /\ LibraryCount \in Libraries
<1>1. place[t] \in Libraries \X Chunks BY DEF TypeOK
<1>2. JVM(t) \in Processes BY JVMAssumption DEF JVM
<1>3. 1 \in Libraries /\ 1 \in Chunks /\ LibraryCount \in Libraries
  BY JVMAssumption DEF Libraries, Chunks
<1> QED BY <1>1, <1>2, <1>3

\* The steps by which threads move on keep the types of the control.
LEMMA GotoPlaceType ==
    ASSUME TypeOK, NEW t \in Threads, NEW from,
           NEW to \in {"idle", "test", "peeked", "clear", "enter", "decide"} \cup InitSteps,
           NEW l \in Libraries, NEW c \in Chunks, GotoPlace(t, from, to, l, c)
    PROVE  /\ pc' \in [Threads -> {"idle", "test", "peeked", "clear", "enter", "decide"} \cup InitSteps]
           /\ place' \in [Threads -> Libraries \X Chunks]
  BY DEF TypeOK, Goto, GotoPlace

LEMMA NextLibraryType ==
    ASSUME TypeOK, NEW t \in Threads, NEW from, NextLibrary(t, from)
    PROVE  /\ pc' \in [Threads -> {"idle", "test", "peeked", "clear", "enter", "decide"} \cup InitSteps]
           /\ place' \in [Threads -> Libraries \X Chunks]
<1>1. {"check", "load"} \subseteq InitSteps BY DEF InitSteps, FileSteps
<1>2. CASE place[t][1] < LibraryCount
  <2>1. place[t][1] + 1 \in Libraries BY <1>2, ThreadStep, JVMAssumption DEF Libraries
  <2> QED BY <1>1, <1>2, <2>1, ThreadStep, GotoPlaceType DEF NextLibrary
<1>3. CASE ~(place[t][1] < LibraryCount)
  BY <1>1, <1>3, ThreadStep, GotoPlaceType DEF NextLibrary
<1> QED BY <1>2, <1>3

LEMMA FailType ==
    ASSUME TypeOK, NEW t \in Threads, NEW isKept \in BOOLEAN, Fail(t, isKept),
           directory' \in BOOLEAN, faults' \in Nat
    PROVE  TypeOK'
<1> DEFINE p == JVM(t)
<1>1. /\ lastInitializationException' = [lastInitializationException EXCEPT ![p] = @ \/ isKept]
      /\ failed' = [failed EXCEPT ![p] = TRUE]
      /\ pc' = [pc EXCEPT ![t] = "idle"] /\ outcome' = [outcome EXCEPT ![t] = "failed"]
      /\ call' = [call EXCEPT ![t] = "none"] /\ place' = [place EXCEPT ![t] = <<1, 1>>]
      /\ monitor' = [monitor EXCEPT ![p] = Nobody]
      /\ UNCHANGED <<autoInitializationWillOccur, initializationSuccessful, loaded, content,
                     overlapped, ready, crashes>>
  BY DEF Fail, End, Release
<1>2. p \in Processes /\ 1 \in Libraries /\ 1 \in Chunks BY ThreadStep
<1> HIDE DEF p
<1>3. /\ lastInitializationException' \in [Processes -> BOOLEAN]
      /\ failed' \in [Processes -> BOOLEAN]
      /\ monitor' \in [Processes -> Threads \cup {Nobody}]
  BY <1>1, <1>2 DEF TypeOK
<1>4. /\ pc' \in [Threads -> {"idle", "test", "peeked", "clear", "enter", "decide"} \cup InitSteps]
      /\ outcome' \in [Threads -> Outcomes] /\ call' \in [Threads -> Calls \cup {"none"}]
      /\ place' \in [Threads -> Libraries \X Chunks]
  BY <1>1, <1>2 DEF TypeOK, Outcomes
<1> QED BY <1>1, <1>3, <1>4 DEF TypeOK

LEMMA FaultType ==
    ASSUME TypeOK, NEW t \in Threads, NEW kind, NEW isKept \in BOOLEAN,
           Fault(t, kind, isKept), UNCHANGED directory
    PROVE  TypeOK'
<1>1. faults' \in Nat /\ directory' \in BOOLEAN BY DEF Fault, TypeOK
<1> QED BY <1>1, FailType DEF Fault

LEMMA OutsideType ==
    ASSUME TypeOK, NEW t \in Threads, Call(t) \/ Peek(t) \/ Test(t) \/ Clear(t) \/ Decide(t)
    PROVE  TypeOK'
<1>1. CASE Call(t)
  <2>1. ready' \in [Threads -> BOOLEAN] BY <1>1, ThreadStep DEF Call, TypeOK
  <2> QED BY <1>1, <2>1 DEF Call, TypeOK, Calls, statics, files, Outcomes
<1>5. CASE Peek(t) BY <1>5 DEF Peek, Goto, TypeOK, statics, files, history
<1>2. CASE Test(t)
  <2>1. 1 \in Libraries /\ 1 \in Chunks BY ThreadStep
  <2>2. CASE End(t, "refused")
    BY <1>2, <2>1, <2>2 DEF Test, End, TypeOK, statics, files, history, Outcomes
  <2>3. CASE UNCHANGED <<call, place, outcome>>
    BY <1>2, <2>3 DEF Test, Goto, End, TypeOK, statics, files, history
  <2> QED BY <1>2, <2>2, <2>3 DEF Test
<1>3. CASE Clear(t)
  BY <1>3, ThreadStep DEF Clear, Goto, TypeOK, statics, files, history
<1>4. CASE Decide(t)
  <2>1. 1 \in Libraries /\ 1 \in Chunks BY ThreadStep
  <2> QED BY <1>4, <2>1 DEF Decide, End, TypeOK, statics, files, history, Outcomes
<1> QED BY <1>1, <1>2, <1>3, <1>4, <1>5

LEMMA DoneType ==
    ASSUME TypeOK, NEW t \in Threads, Done(t)
    PROVE  /\ monitor' \in [Processes -> Threads \cup {Nobody}]
           /\ pc' \in [Threads -> {"idle", "test", "peeked", "clear", "enter", "decide"} \cup InitSteps]
           /\ call' \in [Threads -> Calls \cup {"none"}]
           /\ place' \in [Threads -> Libraries \X Chunks]
           /\ outcome' \in [Threads -> Outcomes]
<1>1. JVM(t) \in Processes /\ 1 \in Libraries /\ 1 \in Chunks BY ThreadStep
<1>2. monitor' \in [Processes -> Threads \cup {Nobody}] BY <1>1 DEF Done, Release, TypeOK
<1>3. CASE call[t] = "openInArchive"
  BY <1>2, <1>3 DEF Done, TypeOK
<1>4. CASE call[t] # "openInArchive"
  <2>1. End(t, "initialized") BY <1>4 DEF Done
  <2> QED BY <1>1, <1>2, <2>1 DEF End, TypeOK, Outcomes
<1> QED BY <1>3, <1>4

LEMMA EnterType == ASSUME TypeOK, NEW t \in Threads, Enter(t) PROVE TypeOK'
<1>1. JVM(t) \in Processes BY ThreadStep
<1>2. overlapped' \in BOOLEAN BY DEF Enter, Meet, TypeOK
<1>3. /\ UNCHANGED <<initializationSuccessful, lastInitializationException, loaded, files,
                     failed, ready, faults, crashes>>
  BY DEF Enter
<1>4. CASE initializationSuccessful[JVM(t)]
  <2>1. Done(t) BY <1>4 DEF Enter
  <2>2. autoInitializationWillOccur' \in [Processes -> BOOLEAN]
    BY <1>1, <1>4 DEF Enter, TypeOK
  <2> QED BY <1>2, <1>3, <2>1, <2>2, DoneType DEF TypeOK, files
<1>5. CASE ~initializationSuccessful[JVM(t)]
  <2>1. /\ monitor' = [monitor EXCEPT ![JVM(t)] = t]
        /\ autoInitializationWillOccur' = [autoInitializationWillOccur EXCEPT ![JVM(t)] = FALSE]
        /\ pc' = [pc EXCEPT ![t] =
                    IF call[t] = "initLoadedLibraries" THEN "native" ELSE "directory"]
        /\ UNCHANGED <<call, place, outcome>>
    BY <1>5 DEF Enter
  <2>2. {"native", "directory"} \subseteq InitSteps BY DEF InitSteps, FileSteps
  <2> QED BY <1>1, <1>2, <1>3, <2>1, <2>2 DEF TypeOK, files
<1> QED BY <1>4, <1>5

LEMMA InitializeType == ASSUME TypeOK, NEW t \in Threads, Initialize(t) PROVE TypeOK'
<1>1. {"directory", "mkdir", "check", "truncate", "copy", "load", "native"} \subseteq InitSteps
  BY DEF InitSteps, FileSteps
<1>2. ASSUME NEW kind, NEW isKept \in BOOLEAN, Fault(t, kind, isKept), UNCHANGED directory
      PROVE  TypeOK'
  BY <1>2, FaultType
<1>3. CASE FindDirectory(t)
  <2>1. CASE Fault(t, "platform", TRUE) /\ UNCHANGED directory BY <1>2, <2>1
  <2>2. CASE /\ GotoPlace(t, "directory", IF directory THEN "check" ELSE "mkdir", 1, 1)
             /\ UNCHANGED <<call, outcome, statics, monitor, loaded, files, history>>
    BY <1>1, <2>2, ThreadStep, GotoPlaceType DEF TypeOK, statics, files, history
  <2> QED BY <1>3, <2>1, <2>2 DEF FindDirectory
<1>4. CASE MakeDirectory(t)
  <2>1. CASE Fault(t, "directory", TRUE) /\ UNCHANGED directory BY <1>2, <2>1
  <2>2. CASE directory /\ Fail(t, TRUE) /\ UNCHANGED <<directory, faults>>
    BY <2>2, FailType DEF TypeOK
  <2>3. CASE /\ ~directory /\ directory' = TRUE /\ GotoPlace(t, "mkdir", "check", 1, 1)
             /\ UNCHANGED <<call, outcome, statics, monitor, loaded, content, history>>
    BY <1>1, <2>3, ThreadStep, GotoPlaceType DEF TypeOK, statics, history
  <2> QED BY <1>4, <2>1, <2>2, <2>3 DEF MakeDirectory
<1>5. CASE Check(t)
  <2> DEFINE l == place[t][1]
             c == place[t][2]
  <2>1. CASE Fault(t, "read", TRUE) /\ UNCHANGED directory BY <1>2, <2>1
  <2>2. CASE /\ IF c \notin content[l] \/ (c = ChunkCount /\ l \in Unmatched)
                THEN GotoPlace(t, "check", "truncate", l, 1)
                ELSE IF c < ChunkCount THEN GotoPlace(t, "check", "check", l, c + 1)
                ELSE NextLibrary(t, "check")
             /\ UNCHANGED <<call, outcome, statics, monitor, loaded, files, history>>
    <3>1. c < ChunkCount => c + 1 \in Chunks BY ThreadStep, JVMAssumption DEF Chunks
    <3>2. /\ pc' \in [Threads -> {"idle", "test", "peeked", "clear", "enter", "decide"} \cup InitSteps]
          /\ place' \in [Threads -> Libraries \X Chunks]
      BY <1>1, <2>2, <3>1, ThreadStep, GotoPlaceType, NextLibraryType
    <3> QED BY <2>2, <3>2 DEF TypeOK, statics, files, history
  <2> QED BY <1>5, <2>1, <2>2 DEF Check
<1>6. CASE Truncate(t)
  <2> DEFINE l == place[t][1]
  <2>1. CASE Fault(t, "copy", FALSE) /\ UNCHANGED directory BY <1>2, <2>1
  <2>2. CASE /\ content' = [content EXCEPT ![l] = {}]
             /\ GotoPlace(t, "truncate", "copy", l, 1)
             /\ UNCHANGED <<call, outcome, statics, monitor, loaded, directory, history>>
    <3>1. content' \in [Libraries -> SUBSET Chunks] BY <2>2, ThreadStep DEF TypeOK
    <3>2. /\ pc' \in [Threads -> {"idle", "test", "peeked", "clear", "enter", "decide"} \cup InitSteps]
          /\ place' \in [Threads -> Libraries \X Chunks]
      BY <1>1, <2>2, ThreadStep, GotoPlaceType
    <3> QED BY <2>2, <3>1, <3>2 DEF TypeOK, statics, history
  <2> QED BY <1>6, <2>1, <2>2 DEF Truncate
<1>7. CASE Copy(t)
  <2> DEFINE l == place[t][1]
             c == place[t][2]
  <2>1. CASE Fault(t, "copy", FALSE) /\ UNCHANGED directory BY <1>2, <2>1
  <2>2. CASE /\ content' = [content EXCEPT ![l] = @ \cup {c}]
             /\ IF c < ChunkCount THEN GotoPlace(t, "copy", "copy", l, c + 1)
                ELSE NextLibrary(t, "copy")
             /\ UNCHANGED <<call, outcome, statics, monitor, loaded, directory, history>>
    <3>1. content' \in [Libraries -> SUBSET Chunks] BY <2>2, ThreadStep DEF TypeOK
    <3>2. c < ChunkCount => c + 1 \in Chunks BY ThreadStep, JVMAssumption DEF Chunks
    <3>3. /\ pc' \in [Threads -> {"idle", "test", "peeked", "clear", "enter", "decide"} \cup InitSteps]
          /\ place' \in [Threads -> Libraries \X Chunks]
      BY <1>1, <2>2, <3>2, ThreadStep, GotoPlaceType, NextLibraryType
    <3> QED BY <2>2, <3>1, <3>3 DEF TypeOK, statics, history
  <2> QED BY <1>7, <2>1, <2>2 DEF Copy
<1>8. CASE Load(t)
  <2> DEFINE l == place[t][1]
  <2>1. CASE Fault(t, "load", TRUE) /\ UNCHANGED directory BY <1>2, <2>1
  <2>2. CASE ~Complete(l) /\ Fail(t, TRUE) /\ UNCHANGED <<directory, faults>>
    BY <2>2, FailType DEF TypeOK
  <2>3. CASE /\ loaded' = [loaded EXCEPT ![JVM(t)] = @ \cup {l}]
             /\ IF l > 1 THEN GotoPlace(t, "load", "load", l - 1, 1)
                ELSE GotoPlace(t, "load", "native", 1, 1)
             /\ UNCHANGED <<call, outcome, statics, monitor, files, history>>
    <3>1. loaded' \in [Processes -> SUBSET Libraries] BY <2>3, ThreadStep DEF TypeOK
    <3>2. l > 1 => l - 1 \in Libraries BY ThreadStep, JVMAssumption DEF Libraries
    <3>3. /\ pc' \in [Threads -> {"idle", "test", "peeked", "clear", "enter", "decide"} \cup InitSteps]
          /\ place' \in [Threads -> Libraries \X Chunks]
      BY <1>1, <2>3, <3>2, ThreadStep, GotoPlaceType
    <3> QED BY <2>3, <3>1, <3>3 DEF TypeOK, statics, files, history
  <2> QED BY <1>8, <2>1, <2>2, <2>3 DEF Load
<1>9. CASE NativeInitialization(t)
  <2>1. CASE Fault(t, "native", TRUE) /\ UNCHANGED directory BY <1>2, <2>1
  <2>2. CASE /\ initializationSuccessful' = [initializationSuccessful EXCEPT ![JVM(t)] = TRUE]
             /\ Done(t)
             /\ UNCHANGED <<autoInitializationWillOccur, lastInitializationException, loaded,
                            files, history>>
    <3>1. initializationSuccessful' \in [Processes -> BOOLEAN]
      BY <2>2, ThreadStep DEF TypeOK
    <3> QED BY <2>2, <3>1, DoneType DEF TypeOK, files, history
  <2> QED BY <1>9, <2>1, <2>2 DEF NativeInitialization
<1> QED BY <1>3, <1>4, <1>5, <1>6, <1>7, <1>8, <1>9 DEF Initialize

LEMMA CrashType == ASSUME TypeOK, NEW p \in Processes, Crash(p) PROVE TypeOK'
<1>1. /\ autoInitializationWillOccur' \in [Processes -> BOOLEAN]
      /\ initializationSuccessful' \in [Processes -> BOOLEAN]
      /\ lastInitializationException' \in [Processes -> BOOLEAN]
      /\ monitor' \in [Processes -> Threads \cup {Nobody}]
      /\ loaded' \in [Processes -> SUBSET Libraries] /\ failed' \in [Processes -> BOOLEAN]
  BY DEF Crash, TypeOK
<1>2. /\ 1 \in Libraries /\ 1 \in Chunks BY JVMAssumption DEF Libraries, Chunks
<1>3. /\ pc' \in [Threads -> {"idle", "test", "peeked", "clear", "enter", "decide"} \cup InitSteps]
      /\ call' \in [Threads -> Calls \cup {"none"}]
      /\ place' \in [Threads -> Libraries \X Chunks] /\ outcome' \in [Threads -> Outcomes]
  BY <1>2 DEF Crash, TypeOK, Outcomes
<1>4. /\ directory' \in BOOLEAN /\ content' \in [Libraries -> SUBSET Chunks]
      /\ overlapped' \in BOOLEAN /\ faults' \in Nat /\ crashes' \in Nat
  BY DEF Crash, TypeOK, files
<1>5. ready' \in [Threads -> BOOLEAN] BY DEF Crash, TypeOK
<1> QED BY <1>1, <1>3, <1>4, <1>5 DEF TypeOK

LEMMA TypeStep == TypeOK /\ [Next]_vars => TypeOK'
<1> SUFFICES ASSUME TypeOK, [Next]_vars PROVE TypeOK' OBVIOUS
<1>1. CASE UNCHANGED vars
  BY <1>1 DEF vars, TypeOK, statics, files, control, history
<1> QED BY <1>1, OutsideType, EnterType, InitializeType, CrashType DEF Next
-----------------------------------------------------------------------------
(* The monitor: who initializes, and that nobody does it again             *)

\* A step that moves no thread into the monitor and changes nothing it guards.
LEMMA StayOK ==
    ASSUME InitializedOnce, UNCHANGED <<monitor, initializationSuccessful>>,
           \A u \in Threads : pc'[u] \in InitSteps => pc[u] \in InitSteps
    PROVE  InitializedOnce'
  BY DEF InitializedOnce, JVM

\* A thread that held the monitor, or found it free, leaves it free.
LEMMA LeaveOK ==
    ASSUME TypeOK, InitializedOnce, NEW t \in Threads,
           pc[t] \in InitSteps \/ monitor[JVM(t)] = Nobody,
           \A u \in Threads : pc'[u] \in InitSteps => pc[u] \in InitSteps /\ u # t,
           monitor' = [monitor EXCEPT ![JVM(t)] = Nobody],
           \A p \in Processes : p # JVM(t) =>
               initializationSuccessful'[p] = initializationSuccessful[p]
    PROVE  InitializedOnce'
<1> SUFFICES ASSUME NEW u \in Threads, pc'[u] \in InitSteps
             PROVE  monitor'[JVM(u)] = u /\ ~initializationSuccessful'[JVM(u)]
  BY DEF InitializedOnce, JVM
<1>1. pc[u] \in InitSteps /\ u # t OBVIOUS
<1>2. monitor[JVM(u)] = u /\ ~initializationSuccessful[JVM(u)] BY <1>1 DEF InitializedOnce
<1>3. pc[t] \in InitSteps => monitor[JVM(t)] = t BY DEF InitializedOnce
<1>4. u # Nobody BY JVMAssumption
<1>5. JVM(u) # JVM(t) BY <1>1, <1>2, <1>3, <1>4
<1>6. JVM(u) \in Processes /\ JVM(t) \in Processes BY JVMAssumption DEF JVM
<1>7. monitor'[JVM(u)] = monitor[JVM(u)] BY <1>5, <1>6 DEF TypeOK
<1> QED BY <1>2, <1>5, <1>6, <1>7

LEMMA FailLeaves ==
    ASSUME TypeOK, InitializedOnce, NEW t \in Threads, NEW isKept, pc[t] \in InitSteps,
           Fail(t, isKept)
    PROVE  InitializedOnce'
<1>1. /\ pc' = [pc EXCEPT ![t] = "idle"] /\ monitor' = [monitor EXCEPT ![JVM(t)] = Nobody]
      /\ UNCHANGED initializationSuccessful
  BY DEF Fail, End, Release
<1>2. "idle" \notin InitSteps BY DEF InitSteps, FileSteps
<1>3. \A u \in Threads : pc'[u] \in InitSteps => pc[u] \in InitSteps /\ u # t
  BY <1>1, <1>2 DEF TypeOK
<1> QED BY <1>1, <1>3, LeaveOK

LEMMA DoneLeaves ==
    ASSUME TypeOK, InitializedOnce, NEW t \in Threads,
           pc[t] \in InitSteps \/ monitor[JVM(t)] = Nobody, Done(t),
           \A p \in Processes : p # JVM(t) =>
               initializationSuccessful'[p] = initializationSuccessful[p]
    PROVE  InitializedOnce'
<1>1. monitor' = [monitor EXCEPT ![JVM(t)] = Nobody] BY DEF Done, Release
<1>2. pc' = [pc EXCEPT ![t] = "decide"] \/ pc' = [pc EXCEPT ![t] = "idle"] BY DEF Done, End
<1>3. "idle" \notin InitSteps /\ "decide" \notin InitSteps BY DEF InitSteps, FileSteps
<1>4. \A u \in Threads : pc'[u] \in InitSteps => pc[u] \in InitSteps /\ u # t
  BY <1>2, <1>3 DEF TypeOK
<1> QED BY <1>1, <1>4, LeaveOK

\* A thread in the monitor moves on.
LEMMA GotoStays ==
    ASSUME TypeOK, InitializedOnce, NEW t \in Threads, NEW from, NEW to,
           from \in InitSteps \/ to \notin InitSteps, Goto(t, from, to),
           UNCHANGED <<monitor, initializationSuccessful>>
    PROVE  InitializedOnce'
<1>1. \A u \in Threads : pc'[u] \in InitSteps => pc[u] \in InitSteps BY DEF Goto, TypeOK
<1> QED BY <1>1, StayOK

LEMMA OnceStep ==
    ASSUME TypeOK, InitializedOnce, [Next]_vars PROVE InitializedOnce'
<1>1. /\ {"directory", "mkdir", "check", "truncate", "copy", "load", "native"} \subseteq InitSteps
      /\ {"idle", "test", "peeked", "clear", "enter", "decide"} \cap InitSteps = {}
  BY DEF InitSteps, FileSteps
<1>2. CASE UNCHANGED vars BY <1>2, StayOK DEF vars, statics, control
<1>3. ASSUME NEW p \in Processes, Crash(p) PROVE InitializedOnce'
  <2> SUFFICES ASSUME NEW u \in Threads, pc'[u] \in InitSteps
               PROVE  monitor'[JVM(u)] = u /\ ~initializationSuccessful'[JVM(u)]
    BY DEF InitializedOnce, JVM
  <2>1. pc'[u] = IF JVM(u) = p THEN "idle" ELSE pc[u] BY <1>3 DEF Crash
  <2>2. JVM(u) # p /\ pc[u] \in InitSteps BY <1>1, <2>1
  <2>3. JVM(u) \in Processes BY JVMAssumption DEF JVM
  <2>4. /\ monitor'[JVM(u)] = monitor[JVM(u)]
        /\ initializationSuccessful'[JVM(u)] = initializationSuccessful[JVM(u)]
    BY <1>3, <2>2, <2>3 DEF Crash, TypeOK
  <2> QED BY <2>2, <2>4 DEF InitializedOnce
<1>4. ASSUME NEW t \in Threads, Call(t) \/ Peek(t) \/ Test(t) \/ Clear(t) \/ Decide(t)
      PROVE  InitializedOnce'
  <2>1. UNCHANGED <<monitor, initializationSuccessful>>
    BY <1>4 DEF Call, Peek, Test, Clear, Decide, statics
  <2>2. PICK x \in {"idle", "test", "peeked", "clear", "enter", "decide"} : pc' = [pc EXCEPT ![t] = x]
    BY <1>4 DEF Call, Peek, Test, Clear, Decide, Goto, End
  <2>3. \A u \in Threads : pc'[u] \in InitSteps => pc[u] \in InitSteps
    BY <1>1, <2>2 DEF TypeOK
  <2> QED BY <2>1, <2>3, StayOK
<1>5. ASSUME NEW t \in Threads, Enter(t) PROVE InitializedOnce'
  <2>1. monitor[JVM(t)] = Nobody /\ UNCHANGED initializationSuccessful BY <1>5 DEF Enter
  <2>2. CASE initializationSuccessful[JVM(t)]
    <3>1. Done(t) BY <1>5, <2>2 DEF Enter
    <3> QED BY <2>1, <3>1, DoneLeaves
  <2>3. CASE ~initializationSuccessful[JVM(t)]
    <3> SUFFICES ASSUME NEW u \in Threads, pc'[u] \in InitSteps
                 PROVE  monitor'[JVM(u)] = u /\ ~initializationSuccessful'[JVM(u)]
      BY DEF InitializedOnce, JVM
    <3>1. /\ monitor' = [monitor EXCEPT ![JVM(t)] = t]
          /\ pc' = [pc EXCEPT ![t] =
                      IF call[t] = "initLoadedLibraries" THEN "native" ELSE "directory"]
      BY <1>5, <2>3 DEF Enter
    <3>2. JVM(t) \in Processes /\ JVM(u) \in Processes BY JVMAssumption DEF JVM
    <3>3. CASE u = t BY <2>1, <2>3, <3>1, <3>2, <3>3 DEF TypeOK
    <3>4. CASE u # t
      <4>1. pc[u] \in InitSteps BY <3>1, <3>4 DEF TypeOK
      <4>2. monitor[JVM(u)] = u /\ ~initializationSuccessful[JVM(u)] /\ u # Nobody
        BY <4>1, JVMAssumption DEF InitializedOnce
      <4>3. JVM(u) # JVM(t) BY <2>1, <4>2
      <4> QED BY <2>1, <3>1, <3>2, <4>2, <4>3 DEF TypeOK
    <3> QED BY <3>3, <3>4
  <2> QED BY <2>2, <2>3
<1>6. ASSUME NEW t \in Threads, Initialize(t) PROVE InitializedOnce'
  <2>1. pc[t] \in InitSteps
    BY <1>1, <1>6 DEF Initialize, FindDirectory, MakeDirectory, Check, Truncate, Copy, Load,
                     NativeInitialization
  <2>2. ASSUME NEW isKept, Fail(t, isKept) PROVE InitializedOnce' BY <2>1, <2>2, FailLeaves
  <2>3. ASSUME NEW kind, NEW isKept, Fault(t, kind, isKept) PROVE InitializedOnce'
    BY <2>2, <2>3 DEF Fault
  <2>4. ASSUME NEW from \in InitSteps, NEW to, Goto(t, from, to), UNCHANGED <<monitor, statics>>
        PROVE  InitializedOnce'
    BY <2>4, GotoStays DEF statics
  <2>5. CASE FindDirectory(t) BY <1>1, <2>3, <2>4, <2>5 DEF FindDirectory, GotoPlace
  <2>6. CASE MakeDirectory(t) BY <1>1, <2>2, <2>3, <2>4, <2>6 DEF MakeDirectory, GotoPlace
  <2>7. CASE Check(t) BY <1>1, <2>3, <2>4, <2>7 DEF Check, GotoPlace, NextLibrary
  <2>8. CASE Truncate(t) BY <1>1, <2>3, <2>4, <2>8 DEF Truncate, GotoPlace
  <2>9. CASE Copy(t) BY <1>1, <2>3, <2>4, <2>9 DEF Copy, GotoPlace, NextLibrary
  <2>10. CASE Load(t) BY <1>1, <2>2, <2>3, <2>4, <2>10 DEF Load, GotoPlace
  <2>11. CASE NativeInitialization(t)
    <3>1. CASE Fault(t, "native", TRUE) BY <2>3, <3>1
    <3>2. CASE /\ initializationSuccessful' = [initializationSuccessful EXCEPT ![JVM(t)] = TRUE]
               /\ Done(t)
      <4>1. \A p \in Processes : p # JVM(t) =>
                initializationSuccessful'[p] = initializationSuccessful[p]
        BY <3>2 DEF TypeOK
      <4> QED BY <2>1, <3>2, <4>1, DoneLeaves
    <3> QED BY <2>11, <3>1, <3>2 DEF NativeInitialization
  <2> QED BY <1>6, <2>5, <2>6, <2>7, <2>8, <2>9, <2>10, <2>11 DEF Initialize
<1> QED BY <1>2, <1>3, <1>4, <1>5, <1>6 DEF Next

-----------------------------------------------------------------------------
(* The files                                                               *)

FilesInv == FilesAgree /\ LoadedComplete

\* A step that touches no file and brings no thread to the files.
LEMMA QuietOK ==
    ASSUME FilesInv, UNCHANGED <<directory, content, overlapped>>,
           \A p \in Processes : loaded'[p] \subseteq loaded[p],
           \A u \in Threads : pc'[u] \in FileSteps => pc'[u] = pc[u] /\ place'[u] = place[u]
    PROVE  FilesInv'
<1>1. LoadedComplete' BY DEF FilesInv, LoadedComplete, Complete
<1>2. ASSUME ~overlapped', NEW u \in Threads PROVE Agrees(u)'
  <2>1. Agrees(u) BY <1>2 DEF FilesInv, FilesAgree
  <2>2. CASE pc'[u] \notin FileSteps BY <2>2 DEF Agrees, FileSteps
  <2>3. CASE pc'[u] \in FileSteps
    <3>1. pc'[u] = pc[u] /\ place'[u] = place[u] BY <2>3
    <3>2. \A v \in Threads \ {u} : pc'[v] \notin FileSteps BY <2>1, <2>3, <3>1 DEF Agrees
    <3> QED BY <2>1, <3>1, <3>2 DEF Agrees, Complete
  <2> QED BY <2>2, <2>3
<1> QED BY <1>1, <1>2 DEF FilesInv, FilesAgree

\* The steps that leave the files and the libraries alone.
LEMMA OutsideQuiet ==
    ASSUME TypeOK, FilesInv, NEW t \in Threads,
           NEW x \in {"idle", "test", "peeked", "clear", "enter", "decide", "native"},
           pc' = [pc EXCEPT ![t] = x],
           \A u \in Threads : u # t => place'[u] = place[u],
           UNCHANGED <<directory, content, overlapped, loaded>>
    PROVE  FilesInv'
<1>1. x \notin FileSteps BY DEF FileSteps
<1>2. ASSUME NEW u \in Threads, pc'[u] \in FileSteps
      PROVE  pc'[u] = pc[u] /\ place'[u] = place[u]
  <2>1. u # t BY <1>1, <1>2 DEF TypeOK
  <2> QED BY <2>1 DEF TypeOK
<1> QED BY <1>2, QuietOK

LEMMA EndQuiet ==
    ASSUME TypeOK, FilesInv, NEW t \in Threads, NEW how, End(t, how),
           UNCHANGED <<directory, content, overlapped, loaded>>
    PROVE  FilesInv'
<1>1. pc' = [pc EXCEPT ![t] = "idle"] /\ place' = [place EXCEPT ![t] = <<1, 1>>] BY DEF End
<1>2. \A u \in Threads : u # t => place'[u] = place[u] BY <1>1 DEF TypeOK
<1> QED BY <1>1, <1>2, OutsideQuiet

LEMMA DoneQuiet ==
    ASSUME TypeOK, FilesInv, NEW t \in Threads, Done(t),
           UNCHANGED <<directory, content, overlapped, loaded>>
    PROVE  FilesInv'
<1>1. CASE call[t] = "openInArchive" BY <1>1, OutsideQuiet DEF Done
<1>2. CASE call[t] # "openInArchive" BY <1>2, EndQuiet DEF Done
<1> QED BY <1>1, <1>2

\* The thread that is alone at the files goes on.
LEMMA AloneOK ==
    ASSUME TypeOK, FilesInv, NEW t \in Threads, pc[t] \in FileSteps, UNCHANGED overlapped,
           \A u \in Threads : u # t => pc'[u] = pc[u],
           ~overlapped => Agrees(t)' \/ pc'[t] \notin FileSteps,
           LoadedComplete'
    PROVE  FilesInv'
<1> SUFFICES ASSUME ~overlapped', NEW u \in Threads PROVE Agrees(u)'
  BY DEF FilesInv, FilesAgree
<1>1. \A v \in Threads \ {t} : pc[v] \notin FileSteps
  <2>1. Agrees(t) BY DEF FilesInv, FilesAgree
  <2> QED BY <2>1 DEF Agrees
<1>2. pc'[u] \notin FileSteps => Agrees(u)' BY DEF Agrees, FileSteps
<1>3. CASE u = t BY <1>2, <1>3
<1>4. CASE u # t BY <1>1, <1>2, <1>4
<1> QED BY <1>3, <1>4

\* Where the thread t has arrived, everything else being as it was.
LEMMA ArrivedOK ==
    ASSUME TypeOK, FilesInv, NEW t \in Threads, pc[t] \in FileSteps, UNCHANGED overlapped,
           NEW to, NEW l \in Libraries, NEW c \in Chunks,
           pc' = [pc EXCEPT ![t] = to], place'[t] = <<l, c>>, LoadedComplete',
           ~overlapped =>
              /\ to = "mkdir" => ~directory'
              /\ to \in {"check", "truncate", "copy"} => \A k \in 1..(l - 1) : content'[k] = Chunks
              /\ to \in {"check", "copy"} => 1..(c - 1) \subseteq content'[l]
              /\ to \in {"truncate", "copy"} => \A p \in Processes : l \notin loaded'[p] \ Unmatched
              /\ to = "load" => \A k \in Libraries : content'[k] = Chunks
    PROVE  FilesInv'
<1>1. pc'[t] = to /\ \A u \in Threads : u # t => pc'[u] = pc[u] BY DEF TypeOK
<1>2. place'[t][1] = l /\ place'[t][2] = c OBVIOUS
<1>3. ASSUME ~overlapped PROVE Agrees(t)'
  <2>1. Agrees(t) BY <1>3 DEF FilesInv, FilesAgree
  <2>2. \A v \in Threads \ {t} : pc'[v] \notin FileSteps BY <1>1, <2>1 DEF Agrees
  <2> QED BY <1>1, <1>2, <1>3, <2>2 DEF Agrees, Complete
<1> QED BY <1>1, <1>3, AloneOK

LEMMA GoneOK ==
    ASSUME TypeOK, FilesInv, NEW t \in Threads, NEW isKept, Fail(t, isKept), UNCHANGED directory
    PROVE  FilesInv'
  BY EndQuiet DEF Fail

\* What the thread knows of the files when it has come to the next library.
LEMMA NextLibraryOK ==
    ASSUME TypeOK, FilesInv, NEW t \in Threads, NEW from, pc[t] \in FileSteps,
           NextLibrary(t, from), LoadedComplete', UNCHANGED overlapped,
           ~overlapped => \A k \in 1..place[t][1] : content'[k] = Chunks
    PROVE  FilesInv'
<1>1. /\ place[t][1] \in Libraries /\ 1 \in Chunks /\ LibraryCount \in Libraries
      /\ LibraryCount \in Nat
  BY ThreadStep, JVMAssumption
<1>2. CASE place[t][1] < LibraryCount
  <2> DEFINE l == place[t][1] + 1
  <2>1. l \in Libraries /\ l - 1 = place[t][1] BY <1>1, <1>2 DEF Libraries
  <2>4. GotoPlace(t, from, "check", l, 1) BY <1>2 DEF NextLibrary
  <2> HIDE DEF l
  <2>5. place \in [Threads -> Libraries \X Chunks] BY DEF TypeOK
  <2>6. pc' = [pc EXCEPT ![t] = "check"] /\ place' = [place EXCEPT ![t] = <<l, 1>>]
    BY <2>4 DEF GotoPlace, Goto
  <2>2. pc' = [pc EXCEPT ![t] = "check"] /\ place'[t] = <<l, 1>> BY <2>5, <2>6
  <2>3. 1..(1 - 1) \subseteq content'[l] OBVIOUS
  <2>7. ~overlapped => \A k \in 1..(l - 1) : content'[k] = Chunks BY <2>1
  <2> QED BY <1>1, <2>1, <2>2, <2>3, <2>7, ArrivedOK
<1>3. CASE ~(place[t][1] < LibraryCount)
  <2>1. place[t][1] = LibraryCount BY <1>1, <1>3 DEF Libraries
  <2>2. pc' = [pc EXCEPT ![t] = "load"] /\ place'[t] = <<LibraryCount, 1>>
    BY <1>3 DEF NextLibrary, GotoPlace, Goto, TypeOK
  <2>3. ~overlapped => \A k \in Libraries : content'[k] = Chunks BY <2>1 DEF Libraries
  <2> QED BY <1>1, <2>2, <2>3, ArrivedOK
<1> QED BY <1>2, <1>3

LEMMA SameLoaded ==
    ASSUME FilesInv, UNCHANGED <<content, loaded, overlapped>> PROVE LoadedComplete'
  BY DEF FilesInv, LoadedComplete, Complete

LEMMA EnterFiles ==
    ASSUME TypeOK, InitializedOnce, FilesInv, NEW t \in Threads, Enter(t)
    PROVE  FilesInv'
<1>1. monitor[JVM(t)] = Nobody /\ UNCHANGED <<loaded, directory, content>>
  BY DEF Enter, files
<1>2. LoadedComplete' BY <1>1 DEF FilesInv, LoadedComplete, Complete, Enter, Meet
<1>3. CASE pc'[t] # "directory"
  <2>2. UNCHANGED overlapped BY <1>3 DEF Enter, Meet, TypeOK
  <2>3. CASE initializationSuccessful[JVM(t)]
    BY <1>1, <2>2, <2>3, DoneQuiet DEF Enter
  <2>4. CASE ~initializationSuccessful[JVM(t)]
    <3>1. /\ UNCHANGED place
          /\ pc' = [pc EXCEPT ![t] =
                      IF call[t] = "initLoadedLibraries" THEN "native" ELSE "directory"]
      BY <2>4 DEF Enter
    <3>2. pc' = [pc EXCEPT ![t] = "native"] BY <1>3, <3>1 DEF TypeOK
    <3> QED BY <1>1, <2>2, <3>1, <3>2, OutsideQuiet
  <2> QED BY <2>3, <2>4
<1>4. CASE pc'[t] = "directory"
  <2> SUFFICES ASSUME ~overlapped', NEW u \in Threads PROVE Agrees(u)'
    BY <1>2 DEF FilesInv, FilesAgree
  <2>1. ~initializationSuccessful[JVM(t)]
    BY <1>4 DEF Enter, Done, End, TypeOK
  <2>2. \A v \in Threads : v # t => pc'[v] = pc[v]
    BY <2>1 DEF Enter, TypeOK
  <2>3. \A v \in Threads \ {t} : pc[v] \notin FileSteps
    <3> SUFFICES ASSUME NEW v \in Threads \ {t}, pc[v] \in FileSteps PROVE FALSE OBVIOUS
    <3>1. monitor[JVM(v)] = v /\ v # Nobody
      BY JVMAssumption DEF InitializedOnce, InitSteps
    <3>2. JVM(v) # JVM(t) /\ JVM(v) \in Processes BY <1>1, <3>1, JVMAssumption DEF JVM
    <3>3. AtFiles(JVM(v)) BY DEF AtFiles
    <3> QED BY <1>4, <3>2, <3>3 DEF Enter, Meet
  <2>4. CASE u = t BY <1>4, <2>2, <2>3, <2>4 DEF Agrees
  <2>5. CASE u # t BY <2>2, <2>3, <2>5 DEF Agrees, FileSteps
  <2> QED BY <2>4, <2>5
<1> QED BY <1>3, <1>4

LEMMA LoadFiles ==
    ASSUME TypeOK, FilesInv, NEW t \in Threads, Load(t) PROVE FilesInv'
<1> DEFINE l == place[t][1]
<1>1. pc[t] = "load" /\ l \in Libraries /\ pc[t] \in FileSteps /\ JVM(t) \in Processes
      /\ 1 \in Chunks /\ 1 \in Libraries
  BY ThreadStep DEF Load, FileSteps
<1>2. ~overlapped => \A k \in Libraries : Complete(k)
  BY <1>1 DEF FilesInv, FilesAgree, Agrees
<1>3. CASE Fault(t, "load", TRUE) /\ UNCHANGED directory BY <1>3, GoneOK DEF Fault
<1>4. CASE ~Complete(l) /\ Fail(t, TRUE) /\ UNCHANGED <<directory, faults>> BY <1>4, GoneOK
<1>5. CASE /\ loaded' = [loaded EXCEPT ![JVM(t)] = @ \cup {l}]
           /\ IF l > 1 THEN GotoPlace(t, "load", "load", l - 1, 1)
              ELSE GotoPlace(t, "load", "native", 1, 1)
           /\ UNCHANGED <<call, outcome, statics, monitor, files, history>>
  <2>1. UNCHANGED <<directory, content, overlapped>> BY <1>5 DEF files, history
  <2>2. LoadedComplete'
    <3> SUFFICES ASSUME ~overlapped', NEW p \in Processes, NEW k \in loaded'[p] \ Unmatched
                 PROVE  Complete(k)'
      BY DEF LoadedComplete
    <3>1. k \in loaded[p] \/ k = l BY <1>1, <1>5 DEF TypeOK
    <3>2. k \in Libraries BY <1>1, <3>1 DEF TypeOK
    <3> QED BY <1>2, <2>1, <3>2 DEF Complete
  <2>3. CASE l > 1
    <3>1. l - 1 \in Libraries BY <1>1, <2>3, JVMAssumption DEF Libraries
    <3>2. pc' = [pc EXCEPT ![t] = "load"] /\ place'[t] = <<l - 1, 1>>
      BY <1>5, <2>3 DEF GotoPlace, Goto, TypeOK
    <3>3. ~overlapped => \A k \in Libraries : content'[k] = Chunks BY <1>2, <2>1 DEF Complete
    <3> QED BY <1>1, <2>1, <2>2, <3>1, <3>2, <3>3, ArrivedOK
  <2>4. CASE ~(l > 1)
    <3>1. pc' = [pc EXCEPT ![t] = "native"] /\ place'[t] = <<1, 1>>
      BY <1>5, <2>4 DEF GotoPlace, Goto, TypeOK
    <3> QED BY <1>1, <2>1, <2>2, <3>1, ArrivedOK
  <2> QED BY <2>3, <2>4
<1> QED BY <1>3, <1>4, <1>5 DEF Load

LEMMA DirectoryFiles ==
    ASSUME TypeOK, FilesInv, NEW t \in Threads, FindDirectory(t) \/ MakeDirectory(t)
    PROVE  FilesInv'
<1>1. 1 \in Libraries /\ 1 \in Chunks /\ 1..(1 - 1) = {} BY ThreadStep
<1>2. pc[t] \in FileSteps BY DEF FindDirectory, MakeDirectory, FileSteps
<1>3. ASSUME NEW kind, NEW isKept, Fault(t, kind, isKept), UNCHANGED directory
      PROVE  FilesInv'
  BY <1>3, GoneOK DEF Fault
<1>4. CASE FindDirectory(t)
  <2>1. CASE Fault(t, "platform", TRUE) /\ UNCHANGED directory BY <1>3, <2>1
  <2>2. CASE /\ GotoPlace(t, "directory", IF directory THEN "check" ELSE "mkdir", 1, 1)
             /\ UNCHANGED <<call, outcome, statics, monitor, loaded, files, history>>
    <3>1. UNCHANGED <<directory, content, loaded, overlapped>> BY <2>2 DEF files, history
    <3>2. LoadedComplete' BY <3>1, SameLoaded
    <3>3. CASE directory
      <4>1. pc' = [pc EXCEPT ![t] = "check"] /\ place'[t] = <<1, 1>>
        BY <2>2, <3>3 DEF GotoPlace, Goto, TypeOK
      <4> QED BY <1>1, <1>2, <3>1, <3>2, <4>1, ArrivedOK
    <3>4. CASE ~directory
      <4>1. pc' = [pc EXCEPT ![t] = "mkdir"] /\ place'[t] = <<1, 1>> /\ ~directory'
        BY <2>2, <3>1, <3>4 DEF GotoPlace, Goto, TypeOK
      <4> QED BY <1>1, <1>2, <3>1, <3>2, <4>1, ArrivedOK
    <3> QED BY <3>3, <3>4
  <2> QED BY <1>4, <2>1, <2>2 DEF FindDirectory
<1>5. CASE MakeDirectory(t)
  <2>1. CASE Fault(t, "directory", TRUE) /\ UNCHANGED directory BY <1>3, <2>1
  <2>2. CASE directory /\ Fail(t, TRUE) /\ UNCHANGED <<directory, faults>> BY <2>2, GoneOK
  <2>3. CASE /\ ~directory /\ directory' = TRUE /\ GotoPlace(t, "mkdir", "check", 1, 1)
             /\ UNCHANGED <<call, outcome, statics, monitor, loaded, content, history>>
    <3>1. UNCHANGED <<content, loaded, overlapped>> BY <2>3 DEF history
    <3>2. LoadedComplete' BY <3>1, SameLoaded
    <3>3. pc[t] = "mkdir" /\ pc' = [pc EXCEPT ![t] = "check"] /\ place'[t] = <<1, 1>>
      BY <2>3 DEF GotoPlace, Goto, TypeOK
    <3> QED BY <1>1, <1>2, <3>1, <3>2, <3>3, ArrivedOK
  <2> QED BY <1>5, <2>1, <2>2, <2>3 DEF MakeDirectory
<1> QED BY <1>4, <1>5

LEMMA CheckFiles ==
    ASSUME TypeOK, FilesInv, NEW t \in Threads, Check(t) PROVE FilesInv'
<1> DEFINE l == place[t][1]
           c == place[t][2]
<1>1. /\ pc[t] = "check" /\ l \in Libraries /\ c \in Chunks /\ pc[t] \in FileSteps
      /\ 1 \in Chunks
  BY ThreadStep DEF Check, FileSteps
<1>2. ~overlapped => /\ \A k \in 1..(l - 1) : content[k] = Chunks
                     /\ 1..(c - 1) \subseteq content[l]
  BY <1>1 DEF FilesInv, FilesAgree, Agrees, Complete
<1>3. CASE Fault(t, "read", TRUE) /\ UNCHANGED directory BY <1>3, GoneOK DEF Fault
<1>4. CASE /\ IF c \notin content[l] \/ (c = ChunkCount /\ l \in Unmatched)
              THEN GotoPlace(t, "check", "truncate", l, 1)
              ELSE IF c < ChunkCount THEN GotoPlace(t, "check", "check", l, c + 1)
              ELSE NextLibrary(t, "check")
           /\ UNCHANGED <<call, outcome, statics, monitor, loaded, files, history>>
  <2>1. UNCHANGED <<directory, content, overlapped, loaded>> BY <1>4 DEF files, history
  <2>2. LoadedComplete' BY <2>1, SameLoaded
  <2>3. CASE c \notin content[l] \/ (c = ChunkCount /\ l \in Unmatched)
    <3>1. pc' = [pc EXCEPT ![t] = "truncate"] /\ place'[t] = <<l, 1>>
      BY <1>4, <2>3 DEF GotoPlace, Goto, TypeOK
    <3>2. ~Complete(l) \/ l \in Unmatched BY <1>1, <2>3 DEF Complete
    <3>3. ~overlapped => \A p \in Processes : l \notin loaded'[p] \ Unmatched
      BY <2>1, <3>2 DEF FilesInv, LoadedComplete
    <3> HIDE DEF l
    <3> QED BY <1>1, <1>2, <2>1, <2>2, <3>1, <3>3, ArrivedOK
  <2>4. CASE c \in content[l] /\ ~(c = ChunkCount /\ l \in Unmatched) /\ c < ChunkCount
    <3>1. c + 1 \in Chunks /\ 1..((c + 1) - 1) = 1..(c - 1) \cup {c}
      BY <1>1, <2>4, JVMAssumption DEF Chunks
    <3>2. pc' = [pc EXCEPT ![t] = "check"] /\ place'[t] = <<l, c + 1>>
      BY <1>4, <2>4 DEF GotoPlace, Goto, TypeOK
    <3>3. ~overlapped => 1..((c + 1) - 1) \subseteq content'[l] BY <1>2, <2>1, <2>4, <3>1
    <3>4. ~overlapped => \A k \in 1..(l - 1) : content'[k] = Chunks BY <1>2, <2>1
    <3> DEFINE d == c + 1
    <3> HIDE DEF l, c, d
    <3>5. /\ d \in Chunks /\ place'[t] = <<l, d>>
          /\ ~overlapped => 1..(d - 1) \subseteq content'[l]
      BY <3>1, <3>2, <3>3 DEF d
    <3> QED BY <1>1, <2>1, <2>2, <3>2, <3>4, <3>5, ArrivedOK
  <2>5. CASE c \in content[l] /\ ~(c = ChunkCount /\ l \in Unmatched) /\ ~(c < ChunkCount)
    <3>1. NextLibrary(t, "check") BY <1>4, <2>5
    <3>2. Chunks = 1..(c - 1) \cup {c} BY <1>1, <2>5, JVMAssumption DEF Chunks
    <3>3. ~overlapped => content[l] = Chunks BY <1>1, <1>2, <2>5, <3>2 DEF TypeOK
    <3>4. 1..l = 1..(l - 1) \cup {l} BY <1>1 DEF Libraries
    <3>5. ~overlapped => \A k \in 1..l : content'[k] = Chunks BY <1>2, <2>1, <3>3, <3>4
    <3> QED BY <1>1, <2>1, <2>2, <3>1, <3>5, NextLibraryOK
  <2> QED BY <2>3, <2>4, <2>5
<1> QED BY <1>3, <1>4 DEF Check

LEMMA TruncateFiles ==
    ASSUME TypeOK, FilesInv, NEW t \in Threads, Truncate(t) PROVE FilesInv'
<1> DEFINE l == place[t][1]
<1>1. pc[t] = "truncate" /\ l \in Libraries /\ pc[t] \in FileSteps /\ 1 \in Chunks
  BY ThreadStep DEF Truncate, FileSteps
<1>2. ~overlapped => /\ \A k \in 1..(l - 1) : content[k] = Chunks
                     /\ \A p \in Processes : l \notin loaded[p] \ Unmatched
  BY <1>1 DEF FilesInv, FilesAgree, Agrees, Complete
<1>3. CASE Fault(t, "copy", FALSE) /\ UNCHANGED directory BY <1>3, GoneOK DEF Fault
<1>4. CASE /\ content' = [content EXCEPT ![l] = {}]
           /\ GotoPlace(t, "truncate", "copy", l, 1)
           /\ UNCHANGED <<call, outcome, statics, monitor, loaded, directory, history>>
  <2>1. UNCHANGED <<directory, overlapped, loaded>> BY <1>4 DEF history
  <2>2. \A k \in Libraries : k # l => content'[k] = content[k] BY <1>4 DEF TypeOK
  <2>3. LoadedComplete'
    <3> SUFFICES ASSUME ~overlapped', NEW p \in Processes, NEW k \in loaded'[p] \ Unmatched
                 PROVE  Complete(k)'
      BY DEF LoadedComplete
    <3>1. k # l /\ k \in Libraries BY <1>2, <2>1 DEF TypeOK
    <3>2. Complete(k) BY <2>1 DEF FilesInv, LoadedComplete
    <3> QED BY <2>2, <3>1, <3>2 DEF Complete
  <2>4. ~overlapped => \A k \in 1..(l - 1) : content'[k] = Chunks
    <3>1. \A k \in 1..(l - 1) : k \in Libraries /\ k # l
      BY <1>1, JVMAssumption DEF Libraries
    <3> QED BY <1>2, <2>2, <3>1
  <2>5. pc' = [pc EXCEPT ![t] = "copy"] /\ place'[t] = <<l, 1>>
    BY <1>4 DEF GotoPlace, Goto, TypeOK
  <2>6. 1..(1 - 1) = {} OBVIOUS
  <2> HIDE DEF l
  <2> QED BY <1>1, <1>2, <2>1, <2>3, <2>4, <2>5, <2>6, ArrivedOK
<1> QED BY <1>3, <1>4 DEF Truncate

LEMMA CopyFiles ==
    ASSUME TypeOK, FilesInv, NEW t \in Threads, Copy(t) PROVE FilesInv'
<1> DEFINE l == place[t][1]
           c == place[t][2]
<1>1. /\ pc[t] = "copy" /\ l \in Libraries /\ c \in Chunks /\ pc[t] \in FileSteps
  BY ThreadStep DEF Copy, FileSteps
<1>2. ~overlapped => /\ \A k \in 1..(l - 1) : content[k] = Chunks
                     /\ 1..(c - 1) \subseteq content[l]
                     /\ \A p \in Processes : l \notin loaded[p] \ Unmatched
  BY <1>1 DEF FilesInv, FilesAgree, Agrees, Complete
<1>3. CASE Fault(t, "copy", FALSE) /\ UNCHANGED directory BY <1>3, GoneOK DEF Fault
<1>4. CASE /\ content' = [content EXCEPT ![l] = @ \cup {c}]
           /\ IF c < ChunkCount THEN GotoPlace(t, "copy", "copy", l, c + 1)
              ELSE NextLibrary(t, "copy")
           /\ UNCHANGED <<call, outcome, statics, monitor, loaded, directory, history>>
  <2>1. UNCHANGED <<directory, overlapped, loaded>> BY <1>4 DEF history
  <2>2. /\ \A k \in Libraries : k # l => content'[k] = content[k]
        /\ content'[l] = content[l] \cup {c}
    BY <1>1, <1>4 DEF TypeOK
  <2>3. LoadedComplete'
    <3> SUFFICES ASSUME ~overlapped', NEW p \in Processes, NEW k \in loaded'[p] \ Unmatched
                 PROVE  Complete(k)'
      BY DEF LoadedComplete
    <3>1. k # l /\ k \in Libraries BY <1>2, <2>1 DEF TypeOK
    <3>2. Complete(k) BY <2>1 DEF FilesInv, LoadedComplete
    <3> QED BY <2>2, <3>1, <3>2 DEF Complete
  <2>4. ~overlapped => \A k \in 1..(l - 1) : content'[k] = Chunks
    <3>1. \A k \in 1..(l - 1) : k \in Libraries /\ k # l
      BY <1>1, JVMAssumption DEF Libraries
    <3> QED BY <1>2, <2>2, <3>1
  <2>5. CASE c < ChunkCount
    <3>1. c + 1 \in Chunks /\ 1..((c + 1) - 1) = 1..(c - 1) \cup {c}
      BY <1>1, <2>5, JVMAssumption DEF Chunks
    <3>2. pc' = [pc EXCEPT ![t] = "copy"] /\ place'[t] = <<l, c + 1>>
      BY <1>4, <2>5 DEF GotoPlace, Goto, TypeOK
    <3>3. ~overlapped => 1..((c + 1) - 1) \subseteq content'[l] BY <1>2, <2>2, <3>1
    <3>4. ~overlapped => \A p \in Processes : l \notin loaded'[p] \ Unmatched BY <1>2, <2>1
    <3> DEFINE d == c + 1
    <3> HIDE DEF l, c, d
    <3>5. /\ d \in Chunks /\ place'[t] = <<l, d>>
          /\ ~overlapped => 1..(d - 1) \subseteq content'[l]
      BY <3>1, <3>2, <3>3 DEF d
    <3> QED BY <1>1, <2>1, <2>3, <2>4, <3>2, <3>4, <3>5, ArrivedOK
  <2>6. CASE ~(c < ChunkCount)
    <3>1. NextLibrary(t, "copy") BY <1>4, <2>6
    <3>2. Chunks = 1..(c - 1) \cup {c} BY <1>1, <2>6, JVMAssumption DEF Chunks
    <3>3. content'[l] \subseteq Chunks BY <1>1, <2>2 DEF TypeOK
    <3>4. ~overlapped => content'[l] = Chunks BY <1>2, <2>2, <3>2, <3>3
    <3>5. 1..l = 1..(l - 1) \cup {l} BY <1>1 DEF Libraries
    <3>6. ~overlapped => \A k \in 1..l : content'[k] = Chunks BY <2>4, <3>4, <3>5
    <3> QED BY <1>1, <2>1, <2>3, <3>1, <3>6, NextLibraryOK
  <2> QED BY <2>5, <2>6
<1> QED BY <1>3, <1>4 DEF Copy

LEMMA FilesStep ==
    ASSUME TypeOK, InitializedOnce, FilesInv, [Next]_vars PROVE FilesInv'
<1>1. CASE UNCHANGED vars
  BY <1>1, QuietOK DEF vars, files, control, history
<1>2. ASSUME NEW p \in Processes, Crash(p) PROVE FilesInv'
  <2>1. UNCHANGED <<directory, content, overlapped>> BY <1>2 DEF Crash, files
  <2>2. \A q \in Processes : loaded'[q] \subseteq loaded[q] BY <1>2 DEF Crash, TypeOK
  <2>3. \A u \in Threads : pc'[u] \in FileSteps => pc'[u] = pc[u] /\ place'[u] = place[u]
    BY <1>2 DEF Crash, FileSteps
  <2> QED BY <2>1, <2>2, <2>3, QuietOK
<1>6. ASSUME NEW t \in Threads, Test(t) PROVE FilesInv'
  <2>1. UNCHANGED <<directory, content, overlapped, loaded>> BY <1>6 DEF Test, files, history
  <2>2. CASE End(t, "refused") BY <2>1, <2>2, EndQuiet
  <2>3. CASE ~End(t, "refused")
    <3>1. UNCHANGED place BY <1>6, <2>3 DEF Test
    <3>2. PICK x \in {"idle", "test", "peeked", "clear", "enter", "decide"} :
              pc' = [pc EXCEPT ![t] = x]
      BY <1>6, <2>3 DEF Test, Goto
    <3> QED BY <2>1, <3>1, <3>2, OutsideQuiet
  <2> QED BY <2>2, <2>3
<1>3. ASSUME NEW t \in Threads, Call(t) \/ Peek(t) \/ Clear(t) PROVE FilesInv'
  <2>1. UNCHANGED <<directory, content, overlapped, loaded, place>>
    BY <1>3 DEF Call, Peek, Clear, files, history
  <2>2. PICK x \in {"idle", "test", "peeked", "clear", "enter", "decide"} : pc' = [pc EXCEPT ![t] = x]
    BY <1>3 DEF Call, Peek, Clear, Goto
  <2> QED BY <2>1, <2>2, OutsideQuiet
<1>4. ASSUME NEW t \in Threads, Decide(t) PROVE FilesInv'
  <2>1. UNCHANGED <<directory, content, overlapped, loaded>>
    BY <1>4 DEF Decide, files, history
  <2>2. PICK how : End(t, how) BY <1>4 DEF Decide
  <2> QED BY <2>1, <2>2, EndQuiet
<1>5. ASSUME NEW t \in Threads, NativeInitialization(t) PROVE FilesInv'
  <2>1. CASE Fault(t, "native", TRUE) /\ UNCHANGED directory BY <2>1, GoneOK DEF Fault
  <2>2. CASE /\ initializationSuccessful' = [initializationSuccessful EXCEPT ![JVM(t)] = TRUE]
             /\ Done(t)
             /\ UNCHANGED <<autoInitializationWillOccur, lastInitializationException, loaded,
                            files, history>>
    BY <2>2, DoneQuiet DEF files, history
  <2> QED BY <1>5, <2>1, <2>2 DEF NativeInitialization
<1> QED BY <1>1, <1>2, <1>3, <1>4, <1>5, <1>6, EnterFiles, DirectoryFiles, CheckFiles,
           TruncateFiles, CopyFiles, LoadFiles DEF Next, Initialize

-----------------------------------------------------------------------------
(* The causes of failures                                                  *)

\* A step after which no more JVMs have a failed attempt than before.
LEMMA NoFailureOK ==
    ASSUME TypeOK, FailsForCause, \A p \in Processes : failed'[p] => failed[p],
           faults' = faults, overlapped => overlapped'
    PROVE  FailsForCause'
  BY DEF FailsForCause, TypeOK

LEMMA FaultHasCause ==
    ASSUME TypeOK, NEW t \in Threads, NEW kind, NEW isKept, Fault(t, kind, isKept)
    PROVE  FailsForCause'
<1>1. faults' > 0 BY DEF Fault, TypeOK
<1> QED BY <1>1 DEF FailsForCause

LEMMA CauseStep ==
    ASSUME TypeOK, FilesInv, FailsForCause, [Next]_vars PROVE FailsForCause'
<1>1. CASE UNCHANGED vars BY <1>1 DEF vars, history, FailsForCause
<1>2. ASSUME NEW p \in Processes, Crash(p) PROVE FailsForCause'
  <2>1. \A q \in Processes : failed'[q] => failed[q] BY <1>2 DEF Crash, TypeOK
  <2> QED BY <1>2, <2>1, NoFailureOK DEF Crash
<1>3. ASSUME UNCHANGED <<failed, faults>>, overlapped => overlapped' PROVE FailsForCause'
  BY <1>3, NoFailureOK
<1>4. ASSUME overlapped, UNCHANGED overlapped PROVE FailsForCause'
  BY <1>4 DEF FailsForCause
<1>5. ASSUME NEW t \in Threads, Call(t) \/ Peek(t) \/ Test(t) \/ Clear(t) \/ Decide(t) \/ Enter(t)
      PROVE  FailsForCause'
  BY <1>3, <1>5 DEF Call, Peek, Test, Clear, Decide, Enter, Meet, history
<1>6. ASSUME NEW t \in Threads, Initialize(t) PROVE FailsForCause'
  <2>1. Agrees(t) \/ overlapped BY DEF FilesInv, FilesAgree
  <2>2. CASE FindDirectory(t) BY <1>3, <2>2, FaultHasCause DEF FindDirectory, history
  <2>3. CASE MakeDirectory(t)
    <3>1. CASE directory /\ Fail(t, TRUE)
      <4>1. overlapped BY <2>1, <2>3, <3>1 DEF MakeDirectory, Agrees
      <4> QED BY <1>4, <3>1, <4>1 DEF Fail
    <3> QED BY <1>3, <2>3, <3>1, FaultHasCause DEF MakeDirectory, history
  <2>4. CASE Check(t) BY <1>3, <2>4, FaultHasCause DEF Check, history
  <2>5. CASE Truncate(t) BY <1>3, <2>5, FaultHasCause DEF Truncate, history
  <2>6. CASE Copy(t) BY <1>3, <2>6, FaultHasCause DEF Copy, history
  <2>7. CASE Load(t)
    <3>1. CASE ~Complete(place[t][1]) /\ Fail(t, TRUE)
      <4>1. overlapped BY <2>1, <2>7, <3>1, ThreadStep DEF Load, Agrees
      <4> QED BY <1>4, <3>1, <4>1 DEF Fail
    <3> QED BY <1>3, <2>7, <3>1, FaultHasCause DEF Load, history
  <2>8. CASE NativeInitialization(t)
    BY <1>3, <2>8, FaultHasCause DEF NativeInitialization, history
  <2> QED BY <1>6, <2>2, <2>3, <2>4, <2>5, <2>6, <2>7, <2>8 DEF Initialize
<1> QED BY <1>1, <1>2, <1>5, <1>6 DEF Next

-----------------------------------------------------------------------------
(* Refused archives                                                        *)

RefusalInv == ReadyAgrees /\ RefusedOnlyBefore

\* A step that ends no call and takes no success back.
LEMMA NoRefusalOK ==
    ASSUME TypeOK, RefusalInv, UNCHANGED ready,
           \A p \in Processes : initializationSuccessful[p] => initializationSuccessful'[p],
           \A u \in Threads : pc'[u] = "peeked" => pc[u] = "peeked",
           \A u \in Threads : outcome'[u] = "refused" => outcome[u] = "refused"
    PROVE  RefusalInv'
<1>1. \A u \in Threads : JVM(u) \in Processes BY JVMAssumption DEF JVM
<1> QED BY <1>1 DEF RefusalInv, ReadyAgrees, RefusedOnlyBefore, JVM

LEMMA FailRefusal ==
    ASSUME TypeOK, RefusalInv, NEW t \in Threads, NEW isKept, Fail(t, isKept)
    PROVE  RefusalInv'
  BY NoRefusalOK DEF Fail, End, TypeOK

LEMMA DoneRefusal ==
    ASSUME TypeOK, RefusalInv, NEW t \in Threads, Done(t), UNCHANGED ready,
           \A p \in Processes : initializationSuccessful[p] => initializationSuccessful'[p]
    PROVE  RefusalInv'
<1>1. CASE call[t] = "openInArchive" BY <1>1, NoRefusalOK DEF Done, TypeOK
<1>2. CASE call[t] # "openInArchive" BY <1>2, NoRefusalOK DEF Done, End, TypeOK
<1> QED BY <1>1, <1>2

LEMMA RefusalStep == ASSUME TypeOK, RefusalInv, [Next]_vars PROVE RefusalInv'
<1>1. CASE UNCHANGED vars
  BY <1>1 DEF vars, statics, control, history, RefusalInv, ReadyAgrees, RefusedOnlyBefore, JVM
<1>2. ASSUME NEW p \in Processes, Crash(p) PROVE RefusalInv'
  <2>1. \A u \in Threads : JVM(u) \in Processes BY JVMAssumption DEF JVM
  <2> SUFFICES ASSUME NEW u \in Threads
               PROVE  /\ ready'[u] => initializationSuccessful'[JVM(u)] /\ pc'[u] # "peeked"
                      /\ outcome'[u] = "refused" => ~ready'[u]
    BY DEF RefusalInv, ReadyAgrees, RefusedOnlyBefore, JVM
  <2>2. CASE JVM(u) = p BY <1>2, <2>2 DEF Crash
  <2>3. CASE JVM(u) # p
    BY <1>2, <2>1, <2>3 DEF Crash, RefusalInv, ReadyAgrees, RefusedOnlyBefore, TypeOK
  <2> QED BY <2>2, <2>3
<1>3. ASSUME NEW t \in Threads, Call(t) PROVE RefusalInv'
  <2> SUFFICES ASSUME NEW u \in Threads
               PROVE  /\ ready'[u] => initializationSuccessful'[JVM(u)] /\ pc'[u] # "peeked"
                      /\ outcome'[u] = "refused" => ~ready'[u]
    BY DEF RefusalInv, ReadyAgrees, RefusedOnlyBefore, JVM
  <2>1. CASE u = t BY <1>3, <2>1 DEF Call, statics, TypeOK
  <2>2. CASE u # t
    BY <1>3, <2>2 DEF Call, statics, TypeOK, RefusalInv, ReadyAgrees, RefusedOnlyBefore
  <2> QED BY <2>1, <2>2
<1>4. ASSUME NEW t \in Threads, Peek(t) \/ Test(t) \/ Clear(t) \/ Decide(t) PROVE RefusalInv'
  <2> SUFFICES ASSUME NEW u \in Threads
               PROVE  /\ ready'[u] => initializationSuccessful'[JVM(u)] /\ pc'[u] # "peeked"
                      /\ outcome'[u] = "refused" => ~ready'[u]
    BY DEF RefusalInv, ReadyAgrees, RefusedOnlyBefore, JVM
  <2>1. UNCHANGED <<ready, initializationSuccessful>>
    BY <1>4 DEF Peek, Test, Clear, Decide, statics, history
  <2>2. /\ ready[u] => initializationSuccessful[JVM(u)] /\ pc[u] # "peeked"
        /\ outcome[u] = "refused" => ~ready[u]
    BY DEF RefusalInv, ReadyAgrees, RefusedOnlyBefore
  <2>3. CASE u # t
    BY <1>4, <2>1, <2>2, <2>3 DEF Peek, Test, Clear, Decide, Goto, End, TypeOK
  <2>4. CASE u = t
    BY <1>4, <2>1, <2>2, <2>4 DEF Peek, Test, Clear, Decide, Goto, End, TypeOK
  <2> QED BY <2>3, <2>4
<1>5. ASSUME NEW t \in Threads, Enter(t) PROVE RefusalInv'
  <2>1. UNCHANGED <<ready, initializationSuccessful>> BY <1>5 DEF Enter
  <2>2. CASE initializationSuccessful[JVM(t)] BY <1>5, <2>1, <2>2, DoneRefusal DEF Enter
  <2>3. CASE ~initializationSuccessful[JVM(t)]
    BY <1>5, <2>1, <2>3, NoRefusalOK DEF Enter, TypeOK
  <2> QED BY <2>2, <2>3
<1>6. ASSUME NEW t \in Threads, Initialize(t) PROVE RefusalInv'
  <2>1. ASSUME NEW kind, NEW isKept, Fault(t, kind, isKept) PROVE RefusalInv'
    BY <2>1, FailRefusal DEF Fault
  <2>2. ASSUME NEW from, NEW to \in InitSteps, Goto(t, from, to),
               UNCHANGED <<ready, initializationSuccessful, outcome>>
        PROVE  RefusalInv'
    <3>1. to # "peeked" BY DEF InitSteps, FileSteps
    <3>2. \A u \in Threads : pc'[u] = "peeked" => pc[u] = "peeked"
      BY <2>2, <3>1 DEF Goto, TypeOK
    <3> QED BY <2>2, <3>2, NoRefusalOK
  <2>3. {"directory", "mkdir", "check", "truncate", "copy", "load", "native"} \subseteq InitSteps
    BY DEF InitSteps, FileSteps
  <2>4. CASE FindDirectory(t)
    BY <2>1, <2>2, <2>3, <2>4 DEF FindDirectory, GotoPlace, statics, history
  <2>5. CASE MakeDirectory(t)
    BY <2>1, <2>2, <2>3, <2>5, FailRefusal DEF MakeDirectory, GotoPlace, statics, history
  <2>6. CASE Check(t)
    BY <2>1, <2>2, <2>3, <2>6 DEF Check, GotoPlace, NextLibrary, statics, history
  <2>7. CASE Truncate(t)
    BY <2>1, <2>2, <2>3, <2>7 DEF Truncate, GotoPlace, statics, history
  <2>8. CASE Copy(t)
    BY <2>1, <2>2, <2>3, <2>8 DEF Copy, GotoPlace, NextLibrary, statics, history
  <2>9. CASE Load(t)
    BY <2>1, <2>2, <2>3, <2>9, FailRefusal DEF Load, GotoPlace, statics, history
  <2>10. CASE NativeInitialization(t)
    <3>1. CASE Fault(t, "native", TRUE) BY <2>1, <3>1
    <3>2. CASE /\ initializationSuccessful' = [initializationSuccessful EXCEPT ![JVM(t)] = TRUE]
               /\ Done(t) /\ UNCHANGED history
      <4>1. \A p \in Processes : initializationSuccessful[p] => initializationSuccessful'[p]
        BY <3>2 DEF TypeOK
      <4> QED BY <3>2, <4>1, DoneRefusal DEF history
    <3> QED BY <2>10, <3>1, <3>2 DEF NativeInitialization
  <2> QED BY <1>6, <2>4, <2>5, <2>6, <2>7, <2>8, <2>9, <2>10 DEF Initialize
<1> QED BY <1>1, <1>2, <1>3, <1>4, <1>5, <1>6 DEF Next

-----------------------------------------------------------------------------
(* The theorems                                                            *)

LEMMA InitInv == Init => IInv
<1> SUFFICES ASSUME Init PROVE IInv OBVIOUS
<1>1. TypeOK
  <2>1. 1 \in Libraries /\ 1 \in Chunks BY JVMAssumption DEF Libraries, Chunks
  <2>2. /\ autoInitializationWillOccur \in [Processes -> BOOLEAN]
        /\ initializationSuccessful \in [Processes -> BOOLEAN]
        /\ lastInitializationException \in [Processes -> BOOLEAN]
        /\ monitor \in [Processes -> Threads \cup {Nobody}]
        /\ loaded \in [Processes -> SUBSET Libraries]
        /\ directory \in BOOLEAN /\ content \in [Libraries -> SUBSET Chunks]
    BY DEF Init
  <2>3. /\ pc \in [Threads -> {"idle", "test", "peeked", "clear", "enter", "decide"} \cup InitSteps]
        /\ call \in [Threads -> Calls \cup {"none"}]
        /\ place \in [Threads -> Libraries \X Chunks]
        /\ outcome \in [Threads -> Outcomes]
    BY <2>1 DEF Init, Outcomes
  <2>4. failed \in [Processes -> BOOLEAN] /\ ready \in [Threads -> BOOLEAN] /\ overlapped \in BOOLEAN /\ faults \in Nat
        /\ crashes \in Nat
    BY DEF Init
  <2> QED BY <2>2, <2>3, <2>4 DEF TypeOK
<1>2. InitializedOnce BY DEF Init, InitializedOnce, InitSteps, FileSteps
<1>3. \A t \in Threads : Agrees(t) BY DEF Init, Agrees, FileSteps
<1>4. /\ LoadedComplete /\ FailsForCause /\ ReadyAgrees /\ RefusedOnlyBefore
  BY DEF Init, LoadedComplete, FailsForCause, ReadyAgrees, RefusedOnlyBefore
<1> QED BY <1>1, <1>2, <1>3, <1>4 DEF IInv, FilesAgree

LEMMA InvStep == IInv /\ [Next]_vars => IInv'
  BY TypeStep, OnceStep, FilesStep, CauseStep, RefusalStep DEF IInv, FilesInv, RefusalInv

\* The inductive invariant holds whatever the threads do, fails or dies: it
\* joins the monitor, the place of the thread that copies and checks, and the
\* content of the files.
THEOREM InitInvariance == Spec => []IInv
  BY InitInv, InvStep, PTL DEF Spec

\* Whichever threads call openInArchive, initSevenZipFromPlatformJAR and
\* initLoadedLibraries, the native initialization is not called again after it
\* has succeeded, and only by the thread in the monitor.
THEOREM InitializesOnce == Spec => []InitializedOnce
<1>1. IInv => InitializedOnce BY DEF IInv
<1> QED BY <1>1, InitInvariance, PTL

\* The libraries a JVM has loaded are complete, whatever a JVM that died while
\* copying left in the directory, unless two JVMs were at the files together.
THEOREM LoadedAreComplete == Spec => []LoadedComplete
<1>1. IInv => LoadedComplete BY DEF IInv
<1> QED BY <1>1, InitInvariance, PTL

\* The initialization fails only for a fault of its surroundings, or because
\* two JVMs were at the files together.
THEOREM FailuresHaveCauses == Spec => []FailsForCause
<1>1. IInv => FailsForCause BY DEF IInv
<1> QED BY <1>1, InitInvariance, PTL

\* A call of openInArchive that begins in an initialized JVM is not refused,
\* whichever other threads initialize and in whatever order the statics are read.
THEOREM InitializedOpens == Spec => []RefusedOnlyBefore
<1>1. IInv => RefusedOnlyBefore BY DEF IInv
<1> QED BY <1>1, InitInvariance, PTL


=============================================================================
