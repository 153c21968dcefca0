------------------------------ MODULE OutArchive ------------------------------
(***************************************************************************)
(* Writing a 7z archive: the settings of OutArchive7zImpl, updateItems,    *)
(* and the update callback through which the handler asks Java for the     *)
(* items.  The archive is a new one or, when it is connected to an opened  *)
(* archive, a changed copy of that.                                        *)
(*                                                                         *)
(* The handler asks for the information of every item first, in order, and *)
(* then for the streams, in an order of its own.  It takes S_FALSE of      *)
(* GetStream for a file to leave out, not for a failure.                   *)
(*                                                                         *)
(* Granularity: one action per call between Java, the binding and the      *)
(* handler.  One thread; the codecs' threads only read streams.            *)
(***************************************************************************)
EXTENDS Integers, Sequences, FiniteSets

CONSTANTS
    NumItems,     \* items of the new archive
    OldItems,     \* items of the opened archive
    Levels,       \* compression levels to choose from
    ThreadCounts, \* numbers of threads to choose from
    Blocks        \* limits of a solid block: so many files, so many bytes

Unset == -1        \* a level or a number of threads that was not chosen
Processors == 0    \* as many threads as there are processors
Default == "default"

ASSUME OutArchiveAssumption ==
    /\ NumItems \in Nat /\ OldItems \in Nat
    /\ Levels \subseteq Nat /\ ThreadCounts \subseteq Nat /\ Default \notin Blocks /\ "off" \notin Blocks

Indices == 0..(NumItems - 1)

\* OutItem, as OutItemFactory and the setters may fill it: whether data and
\* properties are new, the item of the opened archive (-1: none), and whether
\* there is content.  Each of the first three may be null.
Null == -2
Items == [data : {"new", "old", "null"}, props : {"new", "old", "null"},
          old : {Null} \cup (-1)..OldItems, content : BOOLEAN]
OutItem == {<< >>} \cup {<<item>> : item \in Items}    \* none or one

VARIABLES
    connected,        \* whether there is a connected in-archive
    handle,           \* the native pointers: "none", "open", "closed"
    features,         \* what was set in Java
    settings,         \* what the handler works with
    pc,
    pending,          \* the calls of SetProperties that are left
    at,               \* the item that the handler is at
    outItem,          \* _outItem: at most one
    outItemLastIndex,
    told,             \* what the handler knows of the items
    left,             \* items whose stream the handler has not asked for
    skipped,          \* items that the handler leaves out
    noted,            \* the native call knows of an exception or an error
    outcome,          \* of the last updateItems
    references,       \* history: global references to items
    asked,            \* history: how often Java was asked for each item
    noStream          \* history: items for which getStream returned null

callback == <<outItem, outItemLastIndex, references, asked>>
update == <<at, told, left, skipped, noStream>>
java == <<connected, handle, features>>
vars == <<java, settings, pc, pending, callback, update, noted, outcome>>

NoFeatures == [level |-> Unset, threads |-> Unset, solid |-> TRUE, block |-> Default]
DefaultSettings == [level |-> 5, threads |-> Processors, block |-> Default]
Unknown == [known |-> FALSE, data |-> FALSE, props |-> FALSE, old |-> -1, content |-> FALSE]

Init ==
    /\ connected \in BOOLEAN
    /\ handle = IF connected THEN "open" ELSE "none"
    /\ features = NoFeatures /\ settings = DefaultSettings
    /\ pc = "idle" /\ pending = << >>
    /\ outItem = << >> /\ outItemLastIndex = -1 /\ references = 0
    /\ at = 0 /\ told = [i \in Indices |-> Unknown] /\ left = {} /\ skipped = {} /\ noStream = {}
    /\ asked = [i \in Indices |-> 0]
    /\ noted = FALSE /\ outcome = "none"

-----------------------------------------------------------------------------
(* The life of an out-archive, and its settings                            *)

Create ==
    /\ handle = "none"
    /\ handle' \in {"none", "open"}
    /\ UNCHANGED <<connected, features, settings, pc, pending, callback, update, noted, outcome>>

\* A connected out-archive is not closed by itself.
Close ==
    /\ pc = "idle" /\ handle = "open" /\ ~connected
    /\ handle' = "closed"
    /\ UNCHANGED <<connected, features, settings, pc, pending, callback, update, noted, outcome>>

\* setLevel, setThreadCount, setSolid, and setSolidFiles and the like: kept in
\* Java until an update.
SetFeature(name, value) ==
    /\ pc = "idle" /\ handle = "open"
    /\ features' = [features EXCEPT ![name] = value]
    /\ UNCHANGED <<connected, handle, settings, pc, pending, callback, update, noted, outcome>>

\* Faulty: the block is set last.
Pending_blockLast(f) ==
    (IF f.level # Unset THEN <<"level">> ELSE << >>)
    \o (IF f.threads # Unset THEN <<"threads">> ELSE << >>)
    \o (IF ~f.solid THEN <<"off">> ELSE << >>)
    \o (IF f.block # Default THEN <<"block">> ELSE << >>)

\* applyFeatures: one call of SetProperties for each.
Pending(f) ==
    (IF f.level # Unset THEN <<"level">> ELSE << >>)
    \o (IF f.threads # Unset THEN <<"threads">> ELSE << >>)
    \o (IF f.block # Default THEN <<"block">> ELSE << >>)
    \o (IF ~f.solid THEN <<"off">> ELSE << >>)

\* BeforeSetProperty takes back all that was set before.
SetProperties(call) ==
    IF call = "off" THEN [DefaultSettings EXCEPT !.block = "off"]
    ELSE [DefaultSettings EXCEPT ![call] = features[call]]

BeginUpdate ==
    /\ pc = "idle" /\ handle = "open"
    /\ pc' = "apply" /\ pending' = Pending(features)
    /\ UNCHANGED <<java, settings, callback, update, noted, outcome>>

\* An error ends updateItems before the update begins.
Apply ==
    /\ pc = "apply" /\ pending # << >>
    /\ \/ /\ settings' = SetProperties(Head(pending))
          /\ pending' = Tail(pending)
          /\ UNCHANGED <<pc, outcome>>
       \/ /\ settings' \in {settings, DefaultSettings}
          /\ pending' = << >> /\ pc' = "idle" /\ outcome' = "thrown"
    /\ UNCHANGED <<java, callback, update, noted>>

\* A callback is created, and the handler begins.
Start ==
    /\ pc = "apply" /\ pending = << >>
    /\ pc' = (IF NumItems = 0 THEN "streams" ELSE "info") /\ at' = 0
    /\ told' = [i \in Indices |-> Unknown] /\ left' = {} /\ skipped' = {} /\ noStream' = {}
    /\ outItem' = << >> /\ outItemLastIndex' = -1 /\ asked' = [i \in Indices |-> 0]
    /\ noted' = FALSE
    /\ UNCHANGED <<java, settings, pending, outcome, references>>

-----------------------------------------------------------------------------
(* The update callback                                                     *)

\* Faulty: an item may be without an old one although its data stay.
Verify_withoutOld(item) ==
    connected => /\ item.data # "null" /\ item.props # "null" /\ item.old # Null
                 /\ item.data = "new" => item.props = "new"

Verify(item) ==
    connected => /\ item.data # "null" /\ item.props # "null" /\ item.old # Null
                 /\ item.old = -1 => item.data = "new" /\ item.props = "new"
                 /\ item.data = "new" => item.props = "new"

IsCached(i) == outItemLastIndex = i /\ outItem # << >>

\* Faulty: the item before is not freed.
GetOrUpdateOutItem_keepsRef(i, result) ==
    IF IsCached(i) THEN result = outItem /\ UNCHANGED callback
    ELSE /\ result # << >> => Verify(result[1])
         /\ asked' = [asked EXCEPT ![i] = @ + 1]
         /\ outItem' = result
         /\ references' = references + Len(result)
         /\ outItemLastIndex' = IF result = << >> THEN outItemLastIndex ELSE i

\* Faulty: the index is not kept.
GetOrUpdateOutItem_keepsIndex(i, result) ==
    IF IsCached(i) THEN result = outItem /\ UNCHANGED callback
    ELSE /\ result # << >> => Verify(result[1])
         /\ asked' = [asked EXCEPT ![i] = @ + 1]
         /\ outItem' = result
         /\ references' = references - Len(outItem) + Len(result)
         /\ UNCHANGED outItemLastIndex

\* result is the item or, when Java throws, has none or has one that is not
\* verified, the empty sequence.
GetOrUpdateOutItem(i, result) ==
    IF IsCached(i) THEN result = outItem /\ UNCHANGED callback
    ELSE /\ result # << >> => Verify(result[1])
         /\ asked' = [asked EXCEPT ![i] = @ + 1]
         /\ outItem' = result
         /\ references' = references - Len(outItem) + Len(result)
         /\ outItemLastIndex' = IF result = << >> THEN outItemLastIndex ELSE i

\* What GetUpdateItemInfo tells of an item.
Info(item) ==
    [known |-> TRUE, content |-> FALSE,
     data |-> connected => item.data = "new",
     props |-> connected => item.props = "new",
     old |-> IF connected THEN item.old ELSE -1]

\* UpdateItems of the handler returns; hresult is not S_OK.
HandlerFails == pc' = "failed"

\* The handler has all it needs of the item that it is at: the next one, or
\* the streams of those that have content.
NextItem(known) ==
    /\ told' = known
    /\ at' = at + 1
    /\ IF at + 1 < NumItems
       THEN pc' = "info" /\ UNCHANGED left
       ELSE pc' = "streams" /\ left' = {i \in Indices : known[i].data /\ known[i].content}

GetUpdateItemInfo ==
    /\ pc = "info"
    /\ \E result \in OutItem :
        /\ GetOrUpdateOutItem(at, result)
        /\ noted' = (noted \/ result = << >>)
        /\ IF result = << >> THEN HandlerFails /\ UNCHANGED <<at, told, left>>
           ELSE LET info == Info(result[1])
                    known == [told EXCEPT ![at] = info]
                IN \/ info.old >= OldItems /\ HandlerFails /\ told' = known /\ UNCHANGED <<at, left>>
                   \/ /\ info.old < OldItems /\ (info.props \/ info.data)
                      /\ pc' = "property" /\ told' = known /\ UNCHANGED <<at, left>>
                   \/ info.old < OldItems /\ ~info.props /\ ~info.data /\ NextItem(known)
    /\ UNCHANGED <<java, settings, pending, skipped, noStream, outcome>>

\* The properties and the size of the item.  A value may fail to be converted,
\* or the handler refuses it.
GetProperty ==
    /\ pc = "property"
    /\ \E result \in OutItem :
        /\ GetOrUpdateOutItem(at, result)
        /\ \/ /\ result # << >> /\ UNCHANGED noted
              /\ NextItem([told EXCEPT ![at].content = result[1].content])
           \/ /\ HandlerFails /\ noted' \in {noted \/ result = << >>, TRUE}
              /\ UNCHANGED <<at, told, left>>
    /\ UNCHANGED <<java, settings, pending, skipped, noStream, outcome>>

\* getStream throws, returns null or returns a stream.  S_FALSE makes the
\* handler leave the item out.
GetStream(i) ==
    /\ pc = "streams" /\ i \in left
    /\ at' = i /\ left' = left \ {i}
    /\ \/ pc' = "read" /\ UNCHANGED <<skipped, noted, noStream>>
       \/ /\ pc' = "result" /\ skipped' = skipped \cup {i}
          /\ noted' = TRUE /\ UNCHANGED noStream
       \/ /\ pc' = "result" /\ skipped' = skipped \cup {i}
          /\ noStream' = noStream \cup {i} /\ UNCHANGED noted
    /\ UNCHANGED <<java, settings, pending, callback, told, outcome>>

\* The stream is read to its end, or a read throws.
ReadStream ==
    /\ pc = "read"
    /\ \/ pc' = "result" /\ UNCHANGED noted
       \/ HandlerFails /\ noted' = TRUE
    /\ UNCHANGED <<java, settings, pending, callback, update, outcome>>

SetOperationResult ==
    /\ pc = "result"
    /\ \/ pc' = "streams" /\ UNCHANGED noted
       \/ HandlerFails /\ noted' = TRUE
    /\ UNCHANGED <<java, settings, pending, callback, update, outcome>>

\* The archive is written, which may fail, also by an exception of the stream.
Finish ==
    /\ pc = "streams" /\ left = {}
    /\ \/ pc' = "written" /\ UNCHANGED noted
       \/ HandlerFails /\ noted' \in {noted, TRUE}
    /\ UNCHANGED <<java, settings, pending, callback, update, outcome>>

\* Faulty: an exception is only thrown when the handler has failed.
EndUpdate_byResult ==
    /\ pc \in {"written", "failed"}
    /\ outcome' = IF pc = "failed" THEN "thrown" ELSE "returned"
    /\ outItem' = << >> /\ references' = references - Len(outItem)
    /\ pc' = "idle"
    /\ UNCHANGED <<java, settings, pending, outItemLastIndex, asked, update, noted>>

\* The rest of nativeUpdateItems: the error is reported, the item is freed, and
\* what was noted is thrown in Java.
EndUpdate ==
    /\ pc \in {"written", "failed"}
    /\ outcome' = IF noted \/ pc = "failed" THEN "thrown" ELSE "returned"
    /\ outItem' = << >> /\ references' = references - Len(outItem)
    /\ pc' = "idle"
    /\ UNCHANGED <<java, settings, pending, outItemLastIndex, asked, update, noted>>

-----------------------------------------------------------------------------
\* After close no method is called.
Closed == handle = "closed" /\ UNCHANGED vars

Next ==
    \/ Create \/ Close \/ Closed
    \/ \E l \in Levels \cup {Unset} : SetFeature("level", l)
    \/ \E n \in ThreadCounts \cup {Unset} : SetFeature("threads", n)
    \/ \E solid \in BOOLEAN : SetFeature("solid", solid)
    \/ \E b \in Blocks \cup {Default} : SetFeature("block", b)
    \/ BeginUpdate \/ Apply \/ Start
    \/ GetUpdateItemInfo \/ GetProperty
    \/ \E i \in Indices : GetStream(i)
    \/ ReadStream \/ SetOperationResult \/ Finish \/ EndUpdate

Spec == Init /\ [][Next]_vars

-----------------------------------------------------------------------------
(* Properties                                                              *)

Told == [known : BOOLEAN, data : BOOLEAN, props : BOOLEAN, old : (-1)..OldItems, content : BOOLEAN]
Block == Blocks \cup {Default, "off"}

\* The settings, the callback and what the handler knows have their types.
TypeOK ==
    /\ connected \in BOOLEAN /\ handle \in {"none", "open", "closed"}
    /\ features \in [level : Levels \cup {Unset}, threads : ThreadCounts \cup {Unset},
                     solid : BOOLEAN, block : Block]
    /\ settings \in [level : Levels \cup {5}, threads : ThreadCounts \cup {Processors}, block : Block]
    /\ pc \in {"idle", "apply", "info", "property", "streams", "read", "result", "written", "failed"}
    /\ pending \in Seq({"level", "threads", "block", "off"})
    /\ outItem \in OutItem
    /\ outItemLastIndex \in Indices \cup {-1}
    /\ at \in 0..NumItems /\ told \in [Indices -> Told]
    /\ left \subseteq Indices /\ skipped \subseteq Indices /\ noStream \subseteq skipped
    /\ noted \in BOOLEAN /\ outcome \in {"none", "returned", "thrown"}
    /\ references \in Nat /\ asked \in [Indices -> Nat]

\* When updateItems returns, every item is in the archive, save for those whose
\* stream was null: an exception is thrown in Java even if the handler took it
\* for a file to leave out and finished the archive without.
ReturnedMeansWritten ==
    pc = "idle" /\ outcome = "returned" => skipped = noStream

\* The handler is never told to take over data or properties of an item of the
\* opened archive without being given one, and a new archive is made of new
\* items only, however the items are filled.
ToldIsConsistent ==
    \A i \in Indices : told[i].known =>
        /\ told[i].old = -1 => told[i].data /\ told[i].props
        /\ told[i].data => told[i].props
        /\ ~connected => told[i].data /\ told[i].old = -1

\* In one update Java is asked at most once for each item: all that the handler
\* learns of it comes from one and the same object.
OneObjectPerItem == \A i \in Indices : asked[i] <= 1

\* There is a global reference to the item in use and to no other, and none
\* when the update is over, however it ended.
ItemReleased ==
    /\ references = Len(outItem)
    /\ pc = "idle" => references = 0

\* Whatever else is set, and was set in updates before, an archive that is not
\* to be solid is not (IOutFeatureSetSolid.java:14).
NotSolidIsKept ==
    pc \in {"info", "property", "streams", "read", "result"} /\ ~features.solid =>
        settings.block = "off"

\* The item at hand is verified.  While the handler asks for the information of
\* the items, the item is the one that it is at or one before, and Java was not
\* asked for later ones.
CacheAgrees ==
    /\ outItem # << >> => Verify(outItem[1])
    /\ pc = "info" => /\ at < NumItems /\ outItemLastIndex < at
                      /\ \A i \in Indices : i >= at => asked[i] = 0
    /\ pc = "property" => /\ at < NumItems /\ IsCached(at)
                          /\ \A i \in Indices : i > at => asked[i] = 0
    /\ pc \in {"idle", "apply"} => outItem = << >>

\* An item that is left out for an exception has left a note of it.
SkipsNoted ==
    IF pc \in {"idle", "apply"} THEN outcome = "returned" => skipped = noStream
    ELSE skipped # noStream => noted

\* Only what was set is applied, and that it is not to be solid comes last.
PendingAgrees ==
    /\ pc # "apply" => pending = << >>
    /\ \A k \in 1..Len(pending) : /\ pending[k] = "level" => features.level # Unset
                                  /\ pending[k] = "threads" => features.threads # Unset
    /\ ~features.solid /\ pc # "idle" =>
          IF pending = << >> THEN settings.block = "off" ELSE pending[Len(pending)] = "off"

\* The inductive invariant.
IInv == /\ TypeOK /\ OneObjectPerItem /\ ItemReleased /\ ToldIsConsistent
        /\ CacheAgrees /\ SkipsNoted /\ PendingAgrees

-----------------------------------------------------------------------------
(* What the documentation says and the code does not keep.                 *)

\* IOutFeatureSetLevel.java:16 "Set compression level": the handler compresses
\* with the level that was set.
LevelInEffect ==
    pc = "streams" /\ features.level # Unset => settings.level = features.level
=============================================================================
