# A verification development for 7-Zip-JBinding

7-Zip-JBinding lets Java programs open, extract, create and change archives
with the C++ code of 7-Zip. Java calls native methods; 7-Zip, inside such a
call, calls back into Java for streams, volumes, passwords, items and progress,
often from threads that its codecs started. What is hard in this code is not
compression, which is 7-Zip's, but the binding: who may call whom from which
thread, who owns what when something throws half way, what an exception does
that happens on a thread whose Java caller is elsewhere, and what state is left
behind for the next call.

This directory holds TLA+ modules of the binding, TLC configurations that check
them on small instances, and proofs checked by TLAPS.

    tlasany M.tla                       parse a module
    tlc -workers 2 -config X.cfg M      check a model
    tlapm M.tla                         check the proofs of a module

`PROJECT.json` lists the components, the runs, for every definition the lines
of code it models, for every property a faulty variant of a definition that
breaks it, the hazards with the properties that watch them, the disagreements
between code and documentation, and the theorems.

## 1. The system

| component | state | operations | talks to | what is hard |
|---|---|---|---|---|
| session (`JBindingTools.h/.cpp`) | map thread -> context: JNI environment, open callbacks, list of native calls; per native call first and last exception, first and last of other threads, message | begin and end of a native call, begin and end of a callback, exception, error message | every native method and every callback | codec threads attached on demand; nested calls; exceptions of one thread delivered to another; assertions in destructors |
| opening, using, closing (`JavaToCPPSevenZip.cpp`, `JavaToCPPInArchiveImpl.cpp`, `InArchiveImpl`, `SimpleInArchiveImpl`, `UniversalArchiveOpenCallback`) | pointers kept in Java fields as `long`, reference counts of handler and adapters, the session, flags | open with a format or with all codecs in turn, the native calls of an archive, connected out-archive, close | session, stream adapters, handlers | many early returns, each with something to release; destructors that need the session; a callback that throws while a later codec succeeds |
| writing (`OutArchiveImpl`, `OutArchive7zImpl`, `JavaToCPPOutArchiveImpl.cpp`, `CPPToJavaArchiveUpdateCallback`, `OutItem`, `OutItemFactory`) | settings in Java and in the handler, the item being asked for, its global reference | set a feature, update, the callback's questions, close | session, handler, the user's `IOutCreateCallback` | settings applied one by one; an item cached between questions; `S_FALSE` that means "skip" to 7-Zip and "exception" to the binding |
| volumed stream (`VolumedArchiveInStream`) | volumes found, offsets, the current volume and its stream | seek, read, open a volume | the user's `IArchiveOpenVolumeCallback` | lengths that become known late; state changed before a callback that may throw; borders of volumes |
| library initialization (`SevenZip.java`) | three statics per JVM, the class monitor, files in a shared temporary directory | automatic and manual initialization, copy, hash check, load | file system, other threads and JVMs | a double check without lock; files left by a JVM that died; two JVMs writing the same file |
| extraction (`nativeExtract`, `CPPToJavaArchiveExtractCallback.cpp`, `InArchiveImpl.extractSlow`, the 7z handler's `Extract`) | the sorted indices; in the handler the item at hand, what it still lacks, the folder | extract and test, GetStream, PrepareOperation, SetOperationResult, writes | session, handler, the user's `IArchiveExtractCallback` | solid folders, where items before a wanted one are decoded too; an exception that looks like damaged data; results without the name of their item |
| stream adapters (`CPPToJava*Stream.cpp`, `CPPToJavaProgress.cpp`) | a global reference | read, write, seek, setSize, progress | session | short reads, results of Java that are not checked |
| in-memory stream (`ByteArrayStream`) | list of chunks, position, cursor, delayed seek, size | read, write, copying from an `InputStream`, seek, setSize, setBytes, truncate | the user | boundaries of chunks, the maximal size, shrinking and growing |
| JNI class and method cache (`JavaStaticInfo.h`) | class, method and field ids looked up on first use | lookup | every callback | double check of the class, ids cached without lock |
| JNI conversions, codec list, password callback, enumerations, platform, trace | little or none | conversions, lookups | all of the above | wide integers, time stamps |
| 7-Zip and p7zip | vendored | handlers and codecs | the binding | modelled only as environment |

What makes each part correct, in one sentence each: a native method tells its
caller of everything that was thrown or reported while it ran, and threads are
attached to the VM exactly while they need it (session); no object is used
after it is destroyed, none is left behind, and an archive is handed out only if
nothing failed (life of an archive); an update that returns has written every
item it was given, with the settings that were made (writing); an extraction
that returns has told a result for every item asked for, and "OK" only for bytes
that were stored (extraction); the volumes are one stream (volumed stream); the
chunks are one array (in-memory stream); the library is initialized once, from
complete files (initialization).

## 2. The modules

Properties are at the end of each module, those that the code breaks in a
section of their own. The theorems about a module `X` and their proofs are in
`X_proofs` (those about the session also in `JBindingSession_theorems`), the
constants of its runs in `MCX` where a configuration cannot hold them. Definitions named `X_something` are faulty variants of
`X`, which show that a property can fail.

### Session: `NativeCallReport`, `JBindingSession`

`NativeCallReport` is the promise to the Java caller: while a native call is
open, exceptions of its own callbacks, exceptions of other threads and messages
are reported to it, and it returns one summary of all of them: the exception
itself when there was exactly one and nothing else, otherwise a
`SevenZipException` with a message and up to four causes (first and last of
each kind).

`JBindingSession` is the code. `known`, `env`, `wasAttached`, `open` and
`contexts` are the fields of `_threadContextMap`; `frames` is the C++ stack of
each thread, on which `JNINativeCallContext` and `JNIEnvInstance` objects live;
`lock` is `_threadContextMapCriticalSection`; `pc` and `job` say what a thread
does between two steps; `log` and `result` are history variables. Actions:

| action | code |
|---|---|
| `RegisterLookup`, `RegisterPush` | `registerNativeContext`: the entry is made under the lock, the context pushed after it |
| `Unregister` | `~JNINativeCallContext`, `unregisterNativeContext` |
| `BeginCallback`, `EndCallback` | `JNIEnvInstance`, `beginCallback`, `endCallback` with attach and detach |
| `Throw`, `VisitException` | `exceptionCheck`, `handleThrownException`, one thread of the map per step |
| `ReportError`, `VisitMessage`, `StoreMessage`, `VisitDone` | `reportError`, both `vReportError`; the test and the store of the message are two steps |

Refinement: `calls <- log`, so that a step of the abstract specification is
taken when a context is pushed, an exception recorded, a message stored or a
context destroyed.

### Volumed stream: `SeekableStream`, `VolumedArchiveInStream`

`SeekableStream` is what 7-Zip may expect of an input stream: a byte stands for
its position, a read delivers an interval that begins at the position of the
caller. `VolumedArchiveInStream` follows the Java class: `Seek`, `SeekEnd`,
`MeasureNext`, `MeasureEnd` (looking for the last volume), `LocateKnown`,
`LocateNext`, `LocateNegative`, `ClampToEnd`, `Reposition` (looking for the
volume of a position), `Read`, `ReadAtEnd`, `ReadFails`, `Advance` (the next
volume after a read that reached a border) and `VolumeFails` (the callback throws
at any of these places, or one of the two seeks that `openVolume` makes in a new
volume does: the one to its end that measures it, the one back to its beginning).
When a seek of `openVolume` throws, the new stream is in use already, and the
other fields are those of the volume before, some of them or all; the history
variable `torn` says that this happened and that no volume was opened since.
One action per call of `getStream`.

### Library initialization: `LibraryInit`

JVMs with threads, a shared directory, libraries of some chunks. `Call` to
`Enter` are the steps of `openInArchive`, `ensureLibraryIsInitialized` and the
manual initialization up to the class monitor; `FindDirectory`, `MakeDirectory`,
`Check`, `Truncate`, `Copy`, `Load`, `NativeInitialization` are the steps inside.
`Crash` ends a JVM anywhere and starts it again, with the files as they are.

### Life of an archive: `ArchiveLifecycle`

The heap is a set of reference counts: handlers (one per format), the adapters
of the input stream, the open callback and a volume, and the session that is
deleted by hand. `Open`, `CreateHandler`/`NextCodec`/`GivenCodec`, `TryOpen`,
`RefuseOpened`, `HandOut`, `DestroyCallback`, `DestroyStream`, `DestroyArchive`,
`Return` are `nativeOpenArchive` and its destructors in their order; `BeginCall`,
`EndCall`, `BeginUpdate`, `Connect`, `UpdateUnconnected` are the native calls on
an open archive, nested in callbacks; `Close`, `CloseHandler`, `ReleaseFields`
are `nativeClose`; `SimpleAfterClose` and `ItemAfterClose` are the simple
interface after a close. A handler may keep any of the adapters it is given and lets go of all of
them when it is closed.

### Writing an archive: `OutArchive`

`SetFeature` keeps a setting in Java; `BeginUpdate` and `Apply` send the
settings that were made to the handler, one call of `SetProperties` each;
`Start` to `EndUpdate` are `nativeUpdateItems`: `GetUpdateItemInfo` and
`GetProperty` for each item in order, then `GetStream`, `ReadStream` and
`SetOperationResult` for the items with content in any order, `Finish`, and the
report of the error and the release of the item. `settings` are those of the
vendored 7z handler, whose `SetProperties` and order of questions are mapped to
its source. Items may be filled in any way, also with nulls and with indices
that the opened archive does not have.

### Extraction: `Extraction`

`Extract` is the beginning of `nativeExtract` with the check and the sorting of
the indices, `Return` its end. `NextEntry` is the handler's choice of a folder
and of the items to decode in it (`EntryOf`), `BeginDecode` and `EndDecode` the
call of the decoder, which is the environment: it makes the bytes of the folder
in pieces of any size (`Deliver`), right or wrong, stops early, reports damage,
an unknown method or another error. `CFolderOutStream` cuts these bytes into
items: `GetStream` and `Prepare` are `OpenFile`, `SetResult` is
`CloseFileAndSetResult`, `EndFlush` the end of `FlushCorrupted`, `EmptyNext` the
condition of `ProcessEmptyFiles`. Every one of these calls reaches Java, which may
throw; the adapters then answer `S_FALSE`, and `Failed` is what the handler makes
of it: inside the decoder it is damaged data, elsewhere the end of the
extraction. A byte of a folder stands for its place, so `stored` says which bytes
of the item the user's stream got; `asked`, `sinks`, `stored` and `results` are
what the user of the callback sees.

### In-memory stream: `WritableStream`, `ByteArrayStream`

`WritableStream` is what a user expects of a stream to read and to write: a
sequence of bytes, a position, a maximal size; where nothing was written any byte
may be.

`ByteArrayStream` is the Java class. The list of chunks is represented by its
bytes one after another (`bytes`) and the places where chunks end (`ends`); the
other fields have their names, `-1` of the chunk index is 0. `DelayedSeek`,
`StartedWriting`, `EndedWriting`, `Allocated`, `Sized` are the private methods as
functions from fields to fields, with `thrown` for an exception. The public
methods are actions; those with a loop take one turn per step (`ReadChunk`,
`WriteChunk`, `FillChunk`, `CopyNext`), so that the invariants hold in the middle
of a call as well. Refinement: the content is that of the moment before a call
that is under way, and changes when the call returns.

## 3. What the runs check

| run | instance | shows |
|---|---|---|
| `session` | 1 Java thread, 1 worker, stacks of 3 frames, 3 reports | a thread is attached exactly while a worker is in a callback; no dangling context; the assertions of `handleThrownException` and `~JBindingSession`; exceptions of workers arrive; the refinement of `NativeCallReport`; the lock is given back |
| `volumed_stream` | volumes of 2, 1 and 3 bytes, seeks from -6 to 8, buffers of 1, 2, 4, two failures of the callback, of any seek or of a read | the refinement of `SeekableStream`; volumes found at their places; in sync between calls, also after failures; the stream in use is that of the current volume unless `torn` |
| `volumed_retry` | as above, one failure of the callback | violated: a seek repeated after an exception does nothing |
| `library_init` | 2 JVMs, 3 threads, 2 libraries of 2 chunks, one of them with a hash that never matches, one fault or crash | initialized once; loaded files complete; failures have causes; no refusal once initialized |
| `library_init_race` | 1 JVM, 2 threads, no failure | violated: an open is refused while another thread initializes |
| `archive_lifecycle` | 3 codecs, 2 of them for updates, calls nested 3 deep | all counts agree with the holders; nothing left; destructors have the session; a failed callback fails the open; codecs start at the beginning; native calls return |
| `archive_connected` | 2 codecs, 1 call | violated: the handler of a connected out-archive outlives the close |
| `out_archive` | 2 items, opened archive with 1, one value per setting | an update that returns has every item; consistent answers; one object per item; its reference freed; not solid stays not solid |
| `out_archive_level` | 1 item | violated: the compression level is lost |
| `extraction` | a folder of 3 items with an empty one, a directory, an encrypted folder of one item; 9 lists of indices; 3 failures of 12 kinds | results belong to the item of the last `getStream`; OK only for stored bytes; an extraction that returns has a result for every item; `extractSlow` returns the result of its item; ascending order; every extraction ends |
| `byte_array_stream` | chunks of 1 and 2 bytes, maximal size 5, writes up to place 4 | the cursor agrees with the position, in the loop of `read` with the bytes delivered so far; the last chunk holds the last byte; the refinement of `WritableStream`; calls end |
| `byte_array_limit` | maximal size 3, writes up to place 3 | violated: overriding the content of a full stream throws |

Bounds, and why they are enough. Session: three frames are a native call, a
callback in it and a native call in that, the deepest pattern that the code
distinguishes (an entry made by either, ended by the other); three reports fill
"first" and "last" and overwrite "last" once. The Java thread and the worker
already race for the lock and on a message. The proofs lift all of these bounds. Volumes: one
volume of a single byte has both borders at once, offsets reach before the
beginning and behind the end, the largest buffer spans a whole volume, and two
failures allow one during the recovery from another. Library: two threads in one
JVM and one in another give every pair; a library of two chunks can be half
written. Lifecycle: three codecs give a first, a middle and a last one; two
nested calls distinguish "a call" from "the outermost call", the third is one to
spare. Writing: two items
are one that changes the cached item and one that finds it; an index equal to
`OldItems` is the first that does not exist. Extraction: the first folder has an
item before, an empty one between and one after; a request may want any of them;
three failures are one that flushes a folder, one during the flush and one in the
next folder. In-memory stream: chunks of length 1 and 2 make every border; five
bytes are three chunks, the last one cut by the maximal size.

Symmetry is used in `library_init` only: the two threads of the first JVM are
interchangeable and only invariants are checked.

States without a next step do not occur: the environment can
always make a further call, or the module has an explicit action for the end
(`Closed`, `Ended`).

### Fairness

Safety needs none. `session` uses weak fairness of `RegisterPush` and of
`Visit`: a thread that goes through the map or pushes its context waits for
nobody, so it goes on as long as the process runs. `archive_lifecycle` uses weak
fairness of the steps inside `nativeOpenArchive` and `nativeClose` for the same
reason: a handler is supposed to return from the calls it is given.
`byte_array_stream` and `extraction` use weak fairness of the steps inside a call:
the thread that made the call goes on, an `InputStream` and a callback answer, and
the decoder does not stop without making a byte or failing. No fairness
is assumed of applications, of codecs or of callbacks elsewhere.

### Disagreements found

With a run that shows them:

1. `VolumedArchiveInStream.seek` stores its target before it opens the volume. If
   the callback throws, the same seek later returns without moving
   (`volumed_retry`).
2. `SevenZip.ensureLibraryIsInitialized` refuses an archive while another thread
   is about to initialize the library (`library_init_race`).
3. A connected out-archive holds a reference to the handler that nobody releases
   (`archive_connected`).
4. Each setting of a 7z out-archive is applied by a call that resets the others,
   so a level is lost when a number of threads or a solid setting follows
   (`out_archive_level`). For the same reason a setting that is taken back stays
   in effect when no other is made.
5. Overriding the last byte of a `ByteArrayStream` that has its maximal size
   throws, although the documentation says that overriding is still possible
   (`byte_array_limit`).

Met while modelling, without a run of their own:

6. `JBindingTools.cpp:57` says that all active native calls are notified of an
   exception on another thread; only the innermost of each thread is.
7. The hash of a library with a byte below 16 is formatted with too few digits
   (`SevenZip.java:633`), never matches, and the complete file is copied again
   (the constant `Unmatched` of `LibraryInit`).
8. `ByteArrayStream`: the chunk made in advance is sized before the size is
   updated, so a long write near the maximal size may exceed it; a shrinking that
   removes the chunk of the cursor makes the next write fail with an index error
   (`setSize` puts a noted seek right and not the cursor); with an initial size
   of 0 a write never ends, since chunks double; an `InputStream` that throws while
   an empty stream is filled leaves the size behind the position.
9. `VolumedArchiveInStream.openVolume` puts the stream of a new volume to use before
   it measures and rewinds it. When one of these seeks throws, `currentIndex` still
   names the volume before; a later seek into that volume returns early from
   `openVolume` (92), moves the new stream and returns, and the reads after it
   deliver the bytes of the wrong volume.
10. `ByteArrayStream.write(data, startPosition, length)` returns `data.length`
   (374), documented as "count of written bytes" (333): another number when a part
   of the array is written.
11. `CPPToJavaSequentialOutStream::Write` stores the result of the user's `write`
   as the processed size (30) before it refuses a result that is not positive. A
   negative one is then a huge size, over which `COutStreamWithCRC` computes its CRC
   (`OutStreamWithCRC.cpp:11-13`), although the user broke the contract, not the data.
12. `SimpleInArchiveImpl.getArchiveItem` does not look whether the archive is
   closed (`ItemAfterClose`).

## 4. What is proved

For every value of the constants, from the named assumptions of the modules.

**Session** (`JBindingSession_proofs`, `JBindingSession_theorems`). `IInv` adds
to the types: `FramesLinked` and `EntryMirrorsStack` (an entry of the map has as
many contexts and open callbacks as the stack of its thread, without which no
erasure of an entry can be shown to be right), `BossIsOpen` (the call that a
worker runs for is still there), `JobsConsistent` (who holds the lock and which
context it is about to write) and `RecordsFirstAndLast` (what a context holds is
the first and the last of its log). One lemma per action shows that it keeps
`IInv` (`Invariance`). From it follow `TypeCorrect`, `Attachment`,
`ContextPointers`, `SessionReporters`, `EmptyWhenIdle`. `WorkerExceptions` needs
an induction of its own, with `IInv`: what the holder of the lock has still to
visit, and that nobody removes the context of the worker's boss meanwhile.
`Refinement` shows that `JBindingSession` implements `NativeCallReport`: the
destructor's summary is one of the abstract summaries because of
`RecordsFirstAndLast`.

**Volumed stream** (`VolumedArchiveInStream_proofs`). `IInv` says where the
stream stands between calls and what a seek or a read under way has still to
do, and that a position that is known is one in a volume that was opened completely
(`KnownIsWhole`). The theorems have no hypothesis: the callback, the two seeks of
`openVolume`, the seeks and reads of the caller may throw, in any order. What a
failure costs is in the properties. After one of the callback, or of a seek or a read
of the caller, the position is known again from the next seek that moved. After a
failure to measure or to rewind a new volume the stream in use may be that of
another volume than `currentIndex` names, and a seek that moves does not repair that
while it finds `currentIndex` right (`VolumedArchiveInStream.java:92`): such a seek
makes the position `assumed` only, and it is known again from the first seek that
moved after a volume was opened. Until then the code delivers bytes of the wrong
volume (disagreement 9), and the properties promise nothing of them.
Theorems: `VolumesInvariance`, `VolumesFound`, `VolumesInSync`, `VolumeInUse` (the
stream in use is that of the current volume unless `torn`) and
`VolumesAreOneStream`, the refinement of `SeekableStream`.

**Library initialization** (`LibraryInit_proofs`). `IInv` joins the types, the
monitor (`InitializedOnce`), how far the thread at the files has come
(`FilesAgree`) and what a call that began after the initialization finds
(`ReadyAgrees`). Theorems: `InitInvariance`, `InitializesOnce`,
`LoadedAreComplete`, `FailuresHaveCauses`, `InitializedOpens`.

**Writing an archive** (`OutArchive_proofs`). `IInv` adds to the types and the
checked invariants what holds in the middle of an update: the item at hand is
verified and belongs to the item the handler is at or to one before, and Java was
not asked for later ones (`CacheAgrees`); an item left out for an exception has
left a note of it (`SkipsNoted`); the settings still to be sent were set, and
"not solid" comes last (`PendingAgrees`). The lemmas under it are about the
helpers: what `Info` tells of a verified item (`InfoFacts`), what
`GetOrUpdateOutItem` does to the reference and the count (`ItemStep`), what
`Pending` consists of (`PendingFacts`). Theorems: `OutArchiveInvariant`,
`OutArchiveTypes`, `NothingLostSilently`, `HandlerToldConsistently`,
`ItemsAskedForOnce`, `ItemsAreReleased`, `NotSolidStays`.

**Life of an archive** (`ArchiveLifecycle_proofs`). The proof is about counting. A
count is compared with the holders of an object: locals of the native method,
fields, the handlers that keep an adapter, the calls on the stack. The lemmas of
the first part say by how much the number of holders changes when a set or the
stack changes by one (`KeptChange`, `StreamCallsAppend`, `StreamCallsFront`),
those of the second that an action changes the count by the same. `CountsAgree` is
not inductive without knowing where a method stands: `OpenAgrees`, `CloseAgrees`
and `IdleAgrees` say what its locals, the fields and the session are at each step,
`FieldsAgree` that calls are under way on an open archive only. Theorems:
`Invariance`, `TypeCorrect`, `ReferencesCounted`, `HandedOut`, `StartAtZero`,
`NothingIsLeft` (no holder means a count of 0), and the action
properties `DestructorsCanCall` and `FailedCallbackFails`. They hold for any number
of codecs and any depth of calls; no assumption is added to that of the module.

**Extraction** (`Extraction_proofs`). The first lemmas show that `Sorted` gives the
indices in ascending order (the k-th element is the one with fewer than k
elements below it and k up to it, `SortedProperties`) and that an entry is the
beginning of a folder up to the last index wanted of it (`EntryMade`). `IInv` then says how far three nested
loops have come: over the indices (`TodoAgrees`: what is still to do lies in later
folders), over the items of an entry (`AskedAgrees`, `Untouched`: the item at hand is
that of the last `getStream` or the next one, those behind it have got nothing) and
over the bytes (`BytesAgree`: the decoder has made the bytes up to the one the open
file lacks, and an intact file has stored just what it got). `RequestAgrees` says
that an item asked for is still to come, is in the entry, or has its result; from it
follows what a successful return means. Theorems: `Invariance`, `TypeCorrect`,
`OkIsStored`, `ReturnedIsExtracted`, `CallbacksPaired`, `SlowResultIsItems`, and the
action property `CallbackOrder`, for every layout of folders, all lists of indices
and any number of failures.

**In-memory stream** (`ByteArrayStream_proofs`). The hypothesis of its theorems,
`BelowMaximum`, is `Careful = TRUE /\ Limit < MaxSize`: callers write at most up to
one byte less than the maximal size and do not shrink the stream below its cursor.
Without the first the chunk made in advance may fail or exceed the maximal size
(`byte_array_limit`), without the second the cursor may be left in a chunk that was
removed; both are disagreements found, and the run `byte_array_stream` makes the same
choice. `IInv` adds to the checked invariants `CursorInFront` (at a border between
two chunks the cursor is in the second one, on which reads and writes rely) and
`LoopAgrees` (during a write the size is out of date, but the last chunk is needed
for it or for the cursor; what is still to be written stays in the limit; reading
never goes behind the size). In the loop of `read` only the cursor moves, and
`currentPosition` follows after it: `Reached` is the place that the read has come to,
and what holds of the cursor and the position elsewhere holds of that place
(`ReadingFacts`). One lemma per private method says what it does to the
bytes, the ends of the chunks and the cursor (`AllocatedFacts`, `GrownFacts`,
`ShrunkFacts`, `CursorAtFacts`, `DelayedSeekFacts`, `StartedFacts`, `StoredFacts`,
`AdvancedFacts`, `EndedFacts`); one per turn of a loop combines them (`ReadTurn`,
`WriteTurn`, `FillTurn`, `CopyTurn`). Theorems: `Invariance`, `TypeCorrect`,
`CursorStaysInList`, `EndStaysInLastChunk`.

`Refinement` shows that the stream implements `WritableStream`, by a second
invariant, `CallAgrees`: what a read has delivered is what stands between the
position at its beginning and the place it has come to (`Delivering`); what a write has
stored is the first part of its data, at the position at which the call began, and
every other byte is that of before the call (`Storing`). `StoringBegins`,
`StoringMore`, `StoringKept` are the beginning, a turn, and a step that only
allocates or frees chunks; `WrittenFollows`, `ReadSeen` and `CopyInterruptedFollows`
turn what is known at the end of a call into the one step of the abstract stream.
The theorem needs the same hypothesis and holds for all lengths of chunks,
all contents and all buffers.

Every invariant, every action property and every refinement that a passing run
checks is a theorem, so what the runs show on a small instance holds for every value
of the constants that the hypotheses above admit. The inductive invariants are proved and were
checked with TLC before; since they are proved, the runs do not repeat them. They are
`IInv` of each module (with `CallAgrees` for `ByteArrayStream`) and can be added to a
configuration.

Only model-checked: `LockIsReleased`, `NativeCallsReturn`, `CallsEnd` and
`ExtractionEnds`, since liveness under fairness is out of the prover's reach. The
properties that the code breaks have counterexamples instead.

## 5. What is assumed, and what is not modelled

- Session: a worker runs for one native call and is joined before that call
  returns, as 7-Zip's codecs do. The number of attached threads, which exists
  only with `USE_MY_ASSERTS`, is left out. The text that a second use of a
  `va_list` formats is `GarbledMessage`, one of the messages.
- Volumed stream: volumes are not empty (an empty one is reported as an error
  when it is opened), a stream from `getStream` is at its beginning, a volume
  that was returned once is returned again, buffers are not empty.
- Library: which platform is chosen is left out. Another JVM may die, but files
  are not changed by anybody else.
- Life of an archive: one thread uses an archive; `close` is the last call and is
  not made inside a callback, as `IInArchive` demands; a handler's successful
  `Close` releases what it keeps; one handler per format at a time. What stops the
  JVM is described, and no property is about it: the simple interface after a close
  and an update of an out-archive that is not connected. Native calls of
  `InArchiveImpl` made directly after its `close`, which end in a `FATALIF` too, are
  not modelled.
- Writing: the 7z handler only. One thread makes the update; the codecs' threads
  read streams, which is the session's business. No call after `close`. Values
  of properties, progress and the out-stream are left out.
- Extraction: the 7z handler. The decoder passes on a failure of the stream that
  it writes to, its CRCs have no collisions, anti-items and the packed streams are
  left out. A stream is returned by `getStream` only when data is to be extracted.
  A user's stream that claims more bytes than it was offered is left out, and so
  is a null password. One that claims a negative number is treated like one that
  claims none, as a write refused with `S_FALSE`; what the wrong size does to the CRC
  before that (disagreement 11) is not modelled. That a message in the session becomes an exception is
  `NativeCallReport`.
- In-memory stream: `Limit` keeps callers away from the maximal size, where
  a write may throw or exceed it, and `Careful` from a shrinking that takes the
  chunk of the cursor away (both in the list of hazards). Both are constants: the
  module also describes what happens without them, and with `Careful = FALSE`
  TLC finds `EndInLastChunk` violated by a copy, a seek and a `setSize`. The first chunk and
  contents have at least one byte; arrays are copied, as is the default, and written as a whole; the number that `write`
  returns is not modelled (disagreement 10). The
  methods are synchronized, so one call runs at a time. The detached `InputStream`
  is left out.
- Class and method cache: two threads that look a class up store the same
  value, so what may go wrong there is a matter of memory order, which steps of
  an interleaving do not show; the maps of classes and the call of `FindClass` are
  guarded by locks of their own.
- Conversions of `PROPVARIANT`, time stamps and strings are pure functions without
  state, and left out so far.
- Not modelled: the components with that status in `PROJECT.json`, with the
  reason there.

## 6. Plan

Done, in the order of importance: `JBindingSession` (every other part relies on
it), `VolumedArchiveInStream`, `LibraryInit`, `ArchiveLifecycle`, `OutArchive`,
`ByteArrayStream`, `Extraction`.

Next:

1. Proofs: the in-memory stream for callers who reach the maximal size (`TypeOK` and
   what of `CursorAgrees` is left), and the steps that liveness rests on as action
   properties (what each turn of a loop makes smaller).
2. Conversions of time stamps and sizes as operators with their widths, checked
   against a reference definition.
3. Composition: `Extraction` and `OutArchive` over `NativeCallReport`, so that
   `recorded` and `noted` are what the session has in the context of the call.
