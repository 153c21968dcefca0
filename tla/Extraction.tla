------------------------------ MODULE Extraction ------------------------------
(***************************************************************************)
(* An extraction from a 7z archive: nativeExtract, the handler's Extract   *)
(* with the stream that cuts a folder (a solid block) into its items, and  *)
(* the adapters that pass its calls to the IArchiveExtractCallback and the *)
(* output streams of the user.                                             *)
(*                                                                         *)
(* An exception of Java reaches the handler as S_FALSE, which it takes for *)
(* damaged data: it reports the rest of the folder as damaged and goes on  *)
(* with the next folder.  Only what the session has recorded makes         *)
(* nativeExtract throw in the end (NativeCallReport).                      *)
(*                                                                         *)
(* Items are counted from 1.  A byte of a folder stands for its place in   *)
(* the folder.  Granularity: one action per call of Java.                  *)
(***************************************************************************)
EXTENDS Integers, Sequences, FiniteSets

CONSTANTS
    Layout,    \* the items of the archive: folder, first byte in it, size
    Unchecked, \* items whose CRC is not defined
    Encrypted, \* folders that need a password
    Requests,  \* the arrays of indices that callers pass
    Faults,    \* what may fail: a subset of KindsOfFault
    MaxFaults, \* bound: failures in one extraction
    NoFolder   \* kNumNoIndex: a directory or an empty file between folders

\* The callbacks that throw, a write of no byte; then what the decoder does:
\* wrong bytes, damaged data, too few bytes, an unknown method, another error.
KindsOfFault == {"progress", "getStream", "prepareOperation", "setOperationResult", "write",
                 "password", "noByte", "wrong", "damaged", "short", "unsupported", "fatal"}

Items == 1..Len(Layout)
Folder(i) == Layout[i].folder
Size(i) == Layout[i].size
BytesOf(i) == [k \in 1..Size(i) |-> Layout[i].first + k]

\* FillFolderStartFileIndex: the items of a folder are consecutive, begin with
\* one that has bytes, and divide the folder; the others have no bytes.
ASSUME LayoutAssumption ==
    /\ Layout \in Seq([folder : Nat \cup {NoFolder}, first : Nat, size : Nat])
    /\ \A i \in Items :
          IF Folder(i) = NoFolder THEN Size(i) = 0
          ELSE IF i > 1 /\ Folder(i - 1) = Folder(i)
               THEN Layout[i].first = Layout[i - 1].first + Size(i - 1)
               ELSE /\ Layout[i].first = 0 /\ Size(i) > 0
                    /\ \A j \in 1..(i - 1) : Folder(j) # Folder(i)
ASSUME CallerAssumption ==
    /\ Requests \subseteq Seq(Int) /\ Faults \subseteq KindsOfFault /\ MaxFaults \in Nat

Modes == {"EXTRACT", "TEST"}
Wrong == 0   \* a byte that is not the one of its place

VARIABLES
    pc,        \* where the call is
    phase,     \* in the loop of Init, of the decoder's writes, of FlushCorrupted
    todo,      \* sorted indices that are in no entry yet
    mode,      \* testMode
    entry,     \* the CExtractFolderInfo at hand: startIndex, ExtractStatuses
    at,        \* _currentIndex, from 1
    file,      \* _fileIsOpen, _rem, its stream, and whether its CRC is right so far
    made,      \* bytes of the folder that the decoder has made
    verdict,   \* what FlushCorrupted reports
    hresult,   \* what Extract returns
    recorded,  \* whether the session has an exception or a message to throw
    faults

\* History: what the user of the callback saw during this extraction.
VARIABLES
    request,   \* the items asked for
    asked,     \* the item of the last getStream that returned, 0: none
    ready,     \* whether prepareOperation was called for it
    sinks,     \* items whose getStream returned a stream
    stored,    \* the bytes written to these streams
    results,   \* the first two results set after getStream of an item
    outcome    \* how the last native call ended

control == <<pc, phase, todo, mode, entry, at, file, made, verdict, hresult>>
seen == <<asked, ready, sinks, stored, results>>
vars == <<control, seen, recorded, faults, request, outcome>>

-----------------------------------------------------------------------------
(* Which items an entry has.                                               *)

Sorted_asPassed(indices) == indices

\* qsort with CompareIndicies: the k-th element has less than k before it, and at
\* least k that are not after it.
Sorted(indices) ==
    LET Below(x) == {j \in DOMAIN indices : indices[j] < x}
        UpTo(x) == {j \in DOMAIN indices : indices[j] <= x}
    IN [k \in 1..Len(indices) |->
           CHOOSE x \in {indices[j] : j \in DOMAIN indices} :
               Cardinality(Below(x)) < k /\ k <= Cardinality(UpTo(x))]

FolderStart(folder) ==
    CHOOSE i \in Items : Folder(i) = folder /\ \A j \in 1..(i - 1) : Folder(j) # folder

\* How many of the first indices go into one entry: those of one folder.
Together(s) ==
    CHOOSE n \in 1..Len(s) :
        /\ n > 1 => Folder(s[1]) # NoFolder
        /\ \A k \in 1..n : Folder(s[k]) = Folder(s[1])
        /\ n < Len(s) /\ Folder(s[1]) # NoFolder => Folder(s[n + 1]) # Folder(s[1])

EntryStart(s) == IF Folder(s[1]) = NoFolder THEN s[1] ELSE FolderStart(Folder(s[1]))

\* Faulty: a status for every item of the folder.
EntryEnd_ofFolder(s) ==
    CHOOSE i \in Items : i >= s[Together(s)] /\ Folder(i) = Folder(s[1])
                         /\ (i < Len(Layout) => Folder(i + 1) # Folder(i))
EntryEnd(s) == s[Together(s)]

\* Faulty: the items before a wanted one are marked like it.
Chosen_allBefore(s) == EntryStart(s)..EntryEnd(s)
Chosen(s) == {s[k] : k \in 1..Together(s)}

\* Of a folder, the items up to the last one wanted.
EntryOf(s) ==
    [start |-> EntryStart(s),
     wanted |-> [k \in 1..(EntryEnd(s) - EntryStart(s) + 1) |->
                    EntryStart(s) + k - 1 \in Chosen(s)]]

NoEntry == [start |-> 1, wanted |-> <<>>]
NoFile == [open |-> FALSE, rem |-> 0, sink |-> FALSE, intact |-> TRUE]

Item == entry.start + at - 1
More == at <= Len(entry.wanted)
AskMode == IF entry.wanted[at] THEN mode ELSE "SKIP"

\* WasWritingFinished.  Faulty: it is not asked.
Finished_assumed == TRUE
Finished == ~More

EmptyNext == ~file.open /\ More /\ Size(Item) = 0

-----------------------------------------------------------------------------
Init ==
    /\ pc = "idle" /\ phase = "init" /\ todo = <<>> /\ mode = "EXTRACT"
    /\ entry = NoEntry /\ at = 1 /\ file = NoFile /\ made = 0
    /\ verdict = "OK" /\ hresult = "S_OK" /\ recorded = FALSE /\ faults = 0
    /\ request = {} /\ asked = 0 /\ ready = FALSE /\ sinks = {}
    /\ stored = [i \in Items |-> <<>>] /\ results = [i \in Items |-> <<>>]
    /\ outcome = "none"

Fault(kind) ==
    /\ kind \in Faults /\ faults < MaxFaults /\ faults' = faults + 1

NoFault == UNCHANGED <<faults, recorded>>

\* Java throws, or a message is reported to the session.
Recorded(kind) == Fault(kind) /\ recorded' = TRUE

\* A call of Java came back with S_FALSE.
Failed ==
    /\ IF pc \in {"file", "prepare"} /\ phase = "decode"
       THEN pc' = "file" /\ phase' = "flush" /\ verdict' = "DATAERROR" /\ UNCHANGED hresult
       ELSE pc' = "ending" /\ hresult' = "S_FALSE" /\ UNCHANGED <<phase, verdict>>

-----------------------------------------------------------------------------
(* nativeExtract                                                           *)

\* The indices are null (all items), refused, or sorted.
Extract(indices, askMode) ==
    /\ pc = "idle"
    /\ faults' = 0 /\ mode' = askMode
    /\ asked' = 0 /\ ready' = FALSE /\ sinks' = {}
    /\ stored' = [i \in Items |-> <<>>] /\ results' = [i \in Items |-> <<>>]
    /\ request' = {indices[k] : k \in 1..Len(indices)}
    /\ IF request' \subseteq Items
       THEN /\ todo' = Sorted(indices) /\ recorded' = FALSE
            /\ pc' = IF indices = <<>> THEN "ending" ELSE "total"
       ELSE /\ UNCHANGED todo /\ recorded' = TRUE /\ pc' = "ending"
    /\ hresult' = "S_OK" /\ outcome' = "none"
    /\ UNCHANGED <<phase, entry, at, file, made, verdict>>

\* A failure of Extract is reported; what is recorded is thrown.
Return ==
    /\ pc = "ending"
    /\ outcome' = IF recorded \/ hresult # "S_OK" THEN "thrown" ELSE "returned"
    /\ pc' = "idle" /\ phase' = "init" /\ todo' = <<>> /\ entry' = NoEntry /\ at' = 1
    /\ file' = NoFile /\ made' = 0 /\ verdict' = "OK" /\ recorded' = FALSE
    /\ UNCHANGED <<mode, hresult, seen, faults, request>>

-----------------------------------------------------------------------------
(* CHandler::Extract                                                       *)

SetTotal ==
    /\ pc = "total"
    /\ \/ pc' = "next" /\ NoFault /\ UNCHANGED <<phase, verdict, hresult>>
       \/ Recorded("progress") /\ Failed
    /\ UNCHANGED <<todo, mode, entry, at, file, made, seen, request, outcome>>

\* SetCompleted, then the next entry.
NextEntry ==
    /\ pc = "next"
    /\ \/ /\ todo # <<>>
          /\ entry' = EntryOf(todo) /\ todo' = SubSeq(todo, Together(todo) + 1, Len(todo))
          /\ pc' = "file" /\ phase' = "init" /\ at' = 1 /\ file' = NoFile /\ made' = 0
          /\ NoFault /\ UNCHANGED <<verdict, hresult>>
       \/ /\ todo = <<>> /\ pc' = "ending"
          /\ NoFault /\ UNCHANGED <<phase, todo, entry, at, file, made, verdict, hresult>>
       \/ /\ Recorded("progress") /\ Failed
          /\ UNCHANGED <<todo, entry, at, file, made>>
    /\ UNCHANGED <<mode, seen, request, outcome>>

\* No empty item is next: the decoder is started, unless there is no folder.
BeginDecode ==
    /\ pc = "file" /\ phase = "init" /\ ~file.open /\ ~EmptyNext
    /\ IF Folder(entry.start) = NoFolder
       THEN pc' = "next" /\ NoFault /\ UNCHANGED <<phase, verdict, hresult>>
       ELSE \/ /\ phase' = "decode" /\ NoFault /\ UNCHANGED <<pc, verdict, hresult>>
            \/ /\ Folder(entry.start) \in Encrypted /\ Recorded("password")
               /\ phase' = "flush" /\ verdict' = "DATAERROR" /\ UNCHANGED <<pc, hresult>>
            \/ /\ Fault("unsupported") /\ UNCHANGED <<recorded, pc, hresult>>
               /\ phase' = "flush" /\ verdict' = "UNSUPPORTEDMETHOD"
            \/ /\ Fault("fatal") /\ UNCHANGED <<recorded, phase, verdict>>
               /\ pc' = "ending" /\ hresult' = "E_FAIL"
    /\ UNCHANGED <<todo, mode, entry, at, file, made, seen, request, outcome>>

\* The decoder is between two writes.
Decoding == pc = "file" /\ phase = "decode" /\ ~EmptyNext /\ (file.open => file.rem > 0)

\* Decode returns: with S_OK when the folder or all that is wanted of it is made,
\* with S_FALSE also when setCompleted, which it calls too, threw.
EndDecode ==
    /\ Decoding
    /\ \/ /\ Finished /\ pc' = "next" /\ NoFault
          /\ UNCHANGED <<phase, verdict, hresult>>
       \/ /\ \/ Recorded("progress")
             \/ Fault("damaged") /\ UNCHANGED recorded
             \/ ~Finished /\ Fault("short") /\ UNCHANGED recorded
          /\ phase' = "flush" /\ verdict' = "DATAERROR" /\ UNCHANGED <<pc, hresult>>
       \/ /\ Fault("fatal")
          /\ pc' = "ending" /\ hresult' = "E_FAIL"
          /\ UNCHANGED <<recorded, phase, verdict>>
    /\ UNCHANGED <<todo, mode, entry, at, file, made, seen, request, outcome>>

EndFlush ==
    /\ pc = "file" /\ phase = "flush" /\ ~file.open /\ ~More
    /\ pc' = "next"
    /\ UNCHANGED <<phase, todo, mode, entry, at, file, made, verdict, hresult,
                   seen, recorded, faults, request, outcome>>

-----------------------------------------------------------------------------
(* CFolderOutStream                                                        *)

\* OpenFile: getStream returns a stream or null, or throws.
GetStream ==
    /\ pc = "file" /\ ~file.open /\ More /\ (phase = "init" => Size(Item) = 0)
    /\ \/ \E sink \in IF AskMode = "EXTRACT" THEN BOOLEAN ELSE {FALSE} :
             /\ file' = [open |-> TRUE, rem |-> Size(Item), sink |-> sink, intact |-> TRUE]
             /\ sinks' = IF sink THEN sinks \cup {Item} ELSE sinks
             /\ asked' = Item /\ ready' = FALSE /\ pc' = "prepare"
             /\ NoFault /\ UNCHANGED <<phase, verdict, hresult>>
       \/ Recorded("getStream") /\ Failed /\ UNCHANGED <<file, sinks, asked, ready>>
    /\ UNCHANGED <<todo, mode, entry, at, made, stored, results, request, outcome>>

\* The end of OpenFile: a prepareOperation that throws leaves the file open.
Prepare ==
    /\ pc = "prepare"
    /\ \/ pc' = "file" /\ ready' = TRUE /\ NoFault /\ UNCHANGED <<phase, verdict, hresult>>
       \/ Recorded("prepareOperation") /\ Failed /\ UNCHANGED ready
    /\ UNCHANGED <<todo, mode, entry, at, file, made, asked, sinks, stored, results,
                   request, outcome>>

\* How many bytes a write to the stream of the open file may take: not more than
\* the file lacks, and maybe less.  Faulty: the decoder's chunk is not cut.
Takes_uncut == 1..(file.rem + 1)
Takes == 1..file.rem

\* The next n bytes of the folder.  Faulty: a short write is not seen.
Accepted_onlyFirst(n) == [k \in 1..1 |-> made + k]
Accepted(n) == [k \in 1..n |-> made + k]

\* A write of the decoder to the open file, right or with a wrong byte.
Deliver ==
    /\ Decoding /\ file.open
    /\ \/ \E n \in Takes, right \in BOOLEAN :
             /\ IF right THEN NoFault ELSE Fault("wrong") /\ UNCHANGED recorded
             /\ made' = made + n
             /\ file' = [file EXCEPT !.rem = @ - n, !.intact = @ /\ right]
             /\ stored' = IF file.sink
                          THEN [stored EXCEPT ![Item] = @ \o
                                  IF right THEN Accepted(n) ELSE [k \in 1..n |-> Wrong]]
                          ELSE stored
             /\ UNCHANGED <<pc, phase, verdict, hresult>>
       \/ /\ file.sink /\ (Recorded("write") \/ Recorded("noByte")) /\ Failed
          /\ UNCHANGED <<made, file, stored>>
    /\ UNCHANGED <<todo, mode, entry, at, asked, ready, sinks, results, request, outcome>>

\* Faulty: only the variant that compares the CRC counts.
NextIndex_notWhenCorrupted == IF phase = "flush" THEN at ELSE at + 1
NextIndex == at + 1

\* CloseFileAndSetResult; Java may have kept the result before it throws.
SetResult ==
    /\ pc = "file" /\ file.open /\ (phase = "flush" \/ file.rem = 0)
    /\ LET res == IF phase = "flush" THEN verdict
                  ELSE IF file.intact \/ Item \in Unchecked THEN "OK" ELSE "CRCERROR"
       IN  results' = [results EXCEPT ![asked] = IF Len(@) < 2 THEN Append(@, res) ELSE @]
    /\ file' = NoFile /\ at' = NextIndex
    /\ \/ NoFault /\ UNCHANGED <<pc, phase, verdict, hresult>>
       \/ Recorded("setOperationResult") /\ Failed
    /\ UNCHANGED <<todo, mode, entry, made, asked, ready, sinks, stored, request, outcome>>

-----------------------------------------------------------------------------
InCall ==
    \/ SetTotal \/ NextEntry \/ BeginDecode \/ EndDecode \/ EndFlush \/ Return
    \/ GetStream \/ Prepare \/ Deliver \/ SetResult

Next ==
    \/ InCall
    \/ \E indices \in Requests \cup {[i \in Items |-> i]}, askMode \in Modes :
          Extract(indices, askMode)

Spec == Init /\ [][Next]_vars

\* The handler, its decoder and the callbacks go on; nobody has to extract.
FairSpec == Spec /\ WF_vars(InCall)

-----------------------------------------------------------------------------
Results == {"OK", "DATAERROR", "CRCERROR", "UNSUPPORTEDMETHOD"}

\* The types of the variables.  No file is owed less than nothing, and the
\* handler does not go beyond the items of its entry.
TypeOK ==
    /\ pc \in {"idle", "total", "next", "file", "prepare", "ending"}
    /\ phase \in {"init", "decode", "flush"} /\ mode \in Modes
    /\ todo \in Seq(Items)
    /\ entry \in [start : Nat \ {0}, wanted : Seq(BOOLEAN)]
    /\ at \in 1..(Len(entry.wanted) + 1)
    /\ file \in [open : BOOLEAN, rem : Nat, sink : BOOLEAN, intact : BOOLEAN]
    /\ made \in Nat /\ verdict \in Results \ {"CRCERROR"}
    /\ hresult \in {"S_OK", "S_FALSE", "E_FAIL"}
    /\ recorded \in BOOLEAN /\ faults \in 0..MaxFaults
    /\ request \subseteq Int /\ asked \in {0} \cup Items /\ ready \in BOOLEAN
    /\ sinks \subseteq Items /\ stored \in [Items -> Seq(Nat)]
    /\ results \in [Items -> Seq(Results)] /\ outcome \in {"none", "returned", "thrown"}

\* An item that is reported as OK has given its stream as many bytes as it has,
\* and with a CRC exactly its bytes, however the writes were cut and whatever
\* failed before it in its folder.  (7zFolderOutStream.cpp:84-122)
OkMeansStored ==
    \A i \in sinks : (\E k \in DOMAIN results[i] : results[i][k] = "OK") =>
        /\ Len(stored[i]) = Size(i)
        /\ i \notin Unchecked => stored[i] = BytesOf(i)

\* An extraction that returns without an exception has told Java a result for
\* every item asked for, once for one that is in a folder, even when the data
\* of a folder was damaged or ended early.  (7zExtract.cpp:205-258)
ReturnedMeansExtracted ==
    outcome = "returned" =>
        \A i \in request :
            /\ results[i] # <<>>
            /\ Folder(i) # NoFolder => Len(results[i]) = 1

\* A setOperationResult is about the item of the last getStream, as
\* IArchiveExtractCallback.java says, also after calls that threw; a stream to
\* write to is asked for items of the request only, though the items before
\* them in the folder are decoded too.
CallbacksAgree ==
    /\ file.open => asked = Item
    /\ sinks \subseteq request

\* extractSlow keeps the last result that it is told and returns it: when the
\* extraction of one item returns, that is a result of this item and not of
\* another one of its folder.  (InArchiveImpl.java:51-53, 109-133)
SlowResult ==
    \A i \in Items : outcome = "returned" /\ request = {i} =>
        asked = i /\ results[i] # <<>>

\* During an extraction the items are asked for in ascending order, whatever
\* the order of the indices passed, and an item gets no result before
\* prepareOperation unless an exception is waiting to be thrown.
CallbackProtocol ==
    [][pc # "idle" => /\ asked' >= asked
                      /\ results' # results => ready \/ recorded]_vars

\* Every extraction comes to its end, whatever throws and however short the
\* decoder's output is: no loop over the items of a folder is endless.
ExtractionEnds == pc # "idle" ~> pc = "idle"

-----------------------------------------------------------------------------
(* The inductive invariant: how far the loops over the sorted indices, over  *)
(* the items of an entry and over the bytes of a file have come.            *)

Last == entry.start + Len(entry.wanted) - 1
InEntry == pc \in {"file", "prepare"}
InHandler == pc \in {"total", "next"} \/ InEntry

\* Between the loops nothing is open, and no entry is left half done.
ControlAgrees ==
    /\ pc \in {"idle", "total"} => entry = NoEntry /\ at = 1 /\ file = NoFile
    /\ pc = "idle" => todo = <<>>
    /\ pc = "total" => todo # <<>> /\ asked = 0
    /\ pc = "next" => ~file.open /\ ~More /\ (entry.wanted = <<>> => todo # <<>> /\ asked = 0)
    /\ InEntry => entry.wanted # <<>>
    /\ file.open => More /\ file.rem <= Size(Item)
    /\ pc = "prepare" => file.open
    /\ pc = "file" /\ file.open => ready \/ recorded
    /\ phase = "flush" => verdict # "OK"
    /\ outcome = "returned" => pc = "idle"

\* An entry is a directory or the beginning of a folder, up to an item asked for.
EntryAgrees ==
    /\ \A k \in DOMAIN entry.wanted : entry.wanted[k] => entry.start + k - 1 \in request
    /\ entry.wanted # <<>> =>
          /\ Last \in Items \cap request
          /\ IF Folder(entry.start) = NoFolder THEN Last = entry.start
             ELSE /\ Layout[entry.start].first = 0 /\ Size(entry.start) > 0
                  /\ \A i \in entry.start..Last : Folder(i) = Folder(entry.start)

\* What is still to do comes after the entry: in later folders, and in order.
TodoAgrees ==
    /\ \A j, k \in DOMAIN todo : j <= k => todo[j] <= todo[k]
    /\ \A k \in DOMAIN todo :
          /\ todo[k] \in request /\ todo[k] >= Last
          /\ Folder(todo[k]) # NoFolder => FolderStart(Folder(todo[k])) > Last

\* The item of the last getStream is the one at hand or the one before it.
AskedAgrees ==
    /\ file.open => asked = Item
    /\ (pc = "next" \/ InEntry) /\ ~file.open => IF at > 1 THEN asked = Item - 1 ELSE asked <= Item

\* The items from the one at hand on have got nothing yet.
Untouched ==
    /\ \A i \in Items : Folder(i) = NoFolder => stored[i] = <<>>
    /\ pc # "idle" => \A i \in Items : i >= Item /\ Folder(i) # NoFolder =>
          /\ results[i] = <<>>
          /\ i > Item \/ ~file.open => stored[i] = <<>> /\ i \notin sinks

\* The folder is decoded up to the byte that the open file lacks, and an open file
\* with a stream has stored just what it got.
BytesAgree ==
    /\ InEntry /\ phase = "init" /\ Folder(entry.start) # NoFolder =>
          at = 1 /\ made = 0 /\ ~file.open
    /\ InEntry /\ phase = "decode" =>
          /\ Folder(entry.start) # NoFolder
          /\ More => made = Layout[Item].first + (IF file.open THEN Size(Item) - file.rem ELSE 0)
    /\ file.open /\ Item \in sinks =>
          /\ file.sink \/ Folder(Item) = NoFolder
          /\ Len(stored[Item]) = Size(Item) - file.rem
          /\ file.intact => stored[Item] = [k \in 1..(Size(Item) - file.rem) |-> Layout[Item].first + k]

\* An item asked for is still to come, or it has its results.
Done(i) == results[i] # <<>> /\ (Folder(i) # NoFolder => Len(results[i]) = 1)
AllDone == request \subseteq Items /\ (\A i \in request : Done(i)) /\ (request # {} => asked \in request)
RequestAgrees ==
    /\ InHandler =>
          /\ request \subseteq Items
          /\ \A i \in request : (\E k \in DOMAIN todo : todo[k] = i) \/ i \in Item..Last \/ Done(i)
    /\ pc = "ending" /\ hresult = "S_OK" /\ ~recorded => AllDone
    /\ outcome = "returned" => AllDone

IInv == /\ TypeOK /\ ControlAgrees /\ EntryAgrees /\ TodoAgrees /\ AskedAgrees /\ Untouched
        /\ BytesAgree /\ RequestAgrees /\ OkMeansStored /\ sinks \subseteq request
=============================================================================
