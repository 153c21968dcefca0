--------------------------- MODULE ArchiveLifecycle ---------------------------
(***************************************************************************)
(* The life of one opened archive: nativeOpenArchive with a given codec or *)
(* with every codec in turn, native calls on the archive, the out-archive  *)
(* connected to it, and nativeClose.  What can go wrong is ownership: the  *)
(* Java objects hold pointers into a heap of reference counted objects,    *)
(* and all of those that call back into Java need the session, which is    *)
(* not counted but deleted by hand.                                        *)
(*                                                                         *)
(* Formats stand for the archive handlers of 7-Zip, one of each at a time. *)
(* Adapters are the C++ objects that wrap a Java object: the stream of the *)
(* archive, the open callback and a stream that the open callback returned *)
(* for a further volume.                                                   *)
(*                                                                         *)
(* Granularity: one action per call of 7-Zip, of the callbacks it makes,   *)
(* and per destructor.  One thread; calls may be nested in callbacks.      *)
(***************************************************************************)
EXTENDS Integers, Sequences, FiniteSets

CONSTANTS
    NumFormats, \* how many codecs are registered
    Updatable,  \* formats that can also be written
    MaxDepth    \* bound: calls nested in callbacks of calls

Formats == 1..NumFormats
Adapters == {"stream", "callback", "volume"}

ASSUME FormatsAssumption == NumFormats \in Nat \ {0} /\ Updatable \subseteq Formats /\ MaxDepth \in Nat

AnyFormat == 0   \* no format was given: try all of them
Unknown == -1    \* the given format has no codec
Null == 0        \* a native pointer in a field
NoObject == -1   \* a field without Java object

VARIABLES
    session,    \* the JBindingSession of the archive
    handler,    \* reference counts of the handlers
    opened,     \* the handlers that have an archive open
    keeps,      \* the adapters that a handler refers to
    adapter,    \* reference counts of the adapters
    position,   \* of the input stream while the archive is opened: at its start or not
    inArchive,  \* InArchiveImpl: its native pointers
    outArchive, \* InArchiveImpl.outArchiveImpl: its native pointers
    counted,    \* InArchiveImpl.numberOfItems is known
    wasClosed,  \* SimpleInArchiveImpl.wasClosed
    op,         \* the open or close under way
    calls,      \* the other native calls under way, the innermost last
    crashed,    \* FATALIF has stopped the process
    simpleClose \* history: how SimpleInArchiveImpl.close ended

heap == <<session, handler, opened, keeps, adapter>>
java == <<inArchive, outArchive, counted, wasClosed>>
vars == <<heap, position, java, op, calls, crashed, simpleClose>>

\* locals: the smart pointers on the native stack; current: the format of the
\* local pointer archive; delete: the session goes with the call; simple: the
\* call was made by SimpleInArchiveImpl; failed: history, a callback has thrown.
Idle == [pc |-> "idle", asked |-> AnyFormat, current |-> Null, locals |-> {}, thrown |-> FALSE,
         delete |-> FALSE, simple |-> FALSE, failed |-> FALSE]

Calls == {"items", "property", "extract", "update"}
\* The calls that also hold the stream while they run.
HoldsStream(c) == c \in {"items", "property"}

CanCall == ~crashed /\ op.pc = "idle"

-----------------------------------------------------------------------------
\* AddRef and Release of a set of adapters.
Plus(counts, S) == [x \in Adapters |-> IF x \in S THEN counts[x] + 1 ELSE counts[x]]
Minus(counts, S) == [x \in Adapters |-> IF x \in S THEN counts[x] - 1 ELSE counts[x]]

\* IInArchive::Close: the handler lets go of what it refers to, save for rest.
HandlerLetsGo(f, rest) ==
    /\ opened' = opened \ {f}
    /\ keeps' = [keeps EXCEPT ![f] = rest]
    /\ adapter' = Minus(adapter, keeps[f] \ rest)

\* Release of a handler; the last one destroys it.
ReleaseHandler(f) ==
    /\ handler' = [handler EXCEPT ![f] = @ - 1]
    /\ IF handler[f] = 1 THEN HandlerLetsGo(f, {}) ELSE UNCHANGED <<opened, keeps, adapter>>

-----------------------------------------------------------------------------
Init ==
    /\ session = "none"
    /\ handler = [f \in Formats |-> 0] /\ opened = {}
    /\ keeps = [f \in Formats |-> {}] /\ adapter = [x \in Adapters |-> 0]
    /\ position = "start"
    /\ inArchive = Null /\ outArchive = NoObject /\ counted = FALSE /\ wasClosed = FALSE
    /\ op = Idle /\ calls = << >> /\ crashed = FALSE /\ simpleClose = "none"

(* nativeOpenArchive *)

\* The session and the adapters are made.  A format without codec is an error
\* before there are any.
Open(asked) ==
    /\ CanCall /\ inArchive = Null /\ outArchive \notin Formats
    /\ session' = "live"
    /\ IF asked = Unknown
       THEN /\ op' = [Idle EXCEPT !.pc = "leave", !.thrown = TRUE, !.delete = TRUE]
            /\ UNCHANGED adapter
       ELSE /\ op' = [Idle EXCEPT !.pc = "codec", !.asked = asked,
                                  !.locals = {"stream", "callback"}]
            /\ adapter' = Plus(adapter, {"stream", "callback"})
    /\ position' = "start" /\ outArchive' = NoObject
    /\ counted' = FALSE /\ wasClosed' = FALSE /\ simpleClose' = "none"
    /\ UNCHANGED <<handler, opened, keeps, inArchive, calls, crashed>>

\* The next handler takes the place of the one that did not open the archive.
CreateHandler(f) ==
    /\ handler' = [g \in Formats |-> IF g = f THEN 1 ELSE IF g = op.current THEN 0 ELSE handler[g]]
    /\ IF op.current = Null
       THEN UNCHANGED <<opened, keeps, adapter>>
       ELSE HandlerLetsGo(op.current, {})

\* Faulty: without the Seek before each codec.
NextCodec_withoutSeek ==
    /\ op.pc = "codec" /\ op.asked = AnyFormat
    /\ CreateHandler(op.current + 1)
    /\ op' = [op EXCEPT !.pc = "created", !.current = @ + 1, !.locals = @ \cup {"archive"}]
    /\ UNCHANGED <<session, position, java, calls, crashed, simpleClose>>

\* Faulty: the loop does not come to the second codec.
NextCodec_sameAgain ==
    /\ op.pc = "codec" /\ op.asked = AnyFormat
    /\ CreateHandler(1)
    /\ position' = "start"
    /\ op' = [op EXCEPT !.pc = "created", !.current = 1, !.locals = @ \cup {"archive"}]
    /\ UNCHANGED <<session, java, calls, crashed, simpleClose>>

\* One round of the loop over all codecs begins: the result of Seek is not
\* looked at, but an exception of the Java stream is remembered.
NextCodec ==
    /\ op.pc = "codec" /\ op.asked = AnyFormat
    /\ CreateHandler(op.current + 1)
    /\ \E threw \in BOOLEAN :
          /\ position' = IF threw THEN position ELSE "start"
          /\ op' = [op EXCEPT !.pc = "created", !.current = @ + 1, !.locals = @ \cup {"archive"},
                              !.thrown = @ \/ threw, !.failed = @ \/ threw]
    /\ UNCHANGED <<session, java, calls, crashed, simpleClose>>

GivenCodec ==
    /\ op.pc = "codec" /\ op.asked # AnyFormat
    /\ CreateHandler(op.asked)
    /\ op' = [op EXCEPT !.pc = "created", !.current = op.asked, !.locals = @ \cup {"archive"}]
    /\ UNCHANGED <<session, position, java, calls, crashed, simpleClose>>

\* Faulty: a codec begins without the exceptions of the ones before.
TryOpen_forgets ==
    /\ op.pc = "created"
    /\ position' = "moved"
    /\ \E accepted, threw \in BOOLEAN :
          LET next == IF accepted THEN "opened"
                      ELSE IF op.asked = AnyFormat /\ op.current < NumFormats THEN "codec" ELSE "leave"
          IN /\ opened' = IF accepted THEN opened \cup {op.current} ELSE opened
             /\ op' = [op EXCEPT !.pc = next, !.thrown = threw \/ next = "leave",
                                 !.failed = @ \/ threw, !.delete = (next = "leave")]
    /\ UNCHANGED <<session, handler, keeps, adapter, java, calls, crashed, simpleClose>>

\* Faulty: setErrorCase is not called when no codec has accepted the archive.
TryOpen_keepsSession ==
    /\ op.pc = "created"
    /\ position' = "moved"
    /\ \E accepted \in BOOLEAN :
          LET next == IF accepted THEN "opened"
                      ELSE IF op.asked = AnyFormat /\ op.current < NumFormats THEN "codec" ELSE "leave"
          IN /\ opened' = IF accepted THEN opened \cup {op.current} ELSE opened
             /\ op' = [op EXCEPT !.pc = next, !.thrown = @ \/ next = "leave"]
    /\ UNCHANGED <<session, handler, keeps, adapter, java, calls, crashed, simpleClose>>

\* archive->Open: reads the stream, calls the callbacks, any of which may
\* throw, and may keep any adapter whether it succeeds or not.
TryOpen ==
    /\ op.pc = "created"
    /\ position' = "moved"
    /\ \E accepted, threw \in BOOLEAN, kept \in SUBSET Adapters :
          LET next == IF accepted THEN "opened"
                      ELSE IF op.asked = AnyFormat /\ op.current < NumFormats THEN "codec" ELSE "leave"
          IN /\ keeps' = [keeps EXCEPT ![op.current] = kept]
             /\ adapter' = Plus(adapter, kept)
             /\ opened' = IF accepted THEN opened \cup {op.current} ELSE opened
             /\ op' = [op EXCEPT !.pc = next, !.thrown = @ \/ threw \/ next = "leave",
                                 !.failed = @ \/ threw, !.delete = (next = "leave")]
    /\ UNCHANGED <<session, handler, java, calls, crashed, simpleClose>>

\* An exception of any callback, even of a codec given up since, or of the
\* creation of the Java object.
RefuseOpened ==
    /\ op.pc = "opened"
    /\ \E rest \in SUBSET keeps[op.current] : HandlerLetsGo(op.current, rest)
    /\ op' = [op EXCEPT !.pc = "leave", !.thrown = TRUE, !.delete = TRUE]
    /\ UNCHANGED <<session, handler, position, java, calls, crashed, simpleClose>>

\* Faulty: the stream is put into the field and not detached.
HandOut_keepsLocal ==
    /\ op.pc = "opened" /\ ~op.thrown
    /\ inArchive' = op.current
    /\ op' = [op EXCEPT !.pc = "leave", !.current = Null, !.locals = {"callback", "stream"}]
    /\ UNCHANGED <<heap, position, outArchive, counted, wasClosed, calls, crashed, simpleClose>>

\* The fields take over the references to the handler and to the stream.
HandOut ==
    /\ op.pc = "opened" /\ ~op.thrown
    /\ inArchive' = op.current
    /\ op' = [op EXCEPT !.pc = "leave", !.current = Null, !.locals = {"callback"}]
    /\ UNCHANGED <<heap, position, outArchive, counted, wasClosed, calls, crashed, simpleClose>>

(* Leaving nativeOpenArchive and nativeClose: the destructors of the locals,
   then of the session if it is to go, and the exception is thrown in Java. *)
DestroyCallback ==
    /\ op.pc = "leave" /\ "callback" \in op.locals
    /\ adapter' = Minus(adapter, {"callback"})
    /\ op' = [op EXCEPT !.locals = @ \ {"callback"}]
    /\ UNCHANGED <<session, handler, opened, keeps, position, java, calls, crashed, simpleClose>>

DestroyStream ==
    /\ op.pc = "leave" /\ "callback" \notin op.locals /\ "stream" \in op.locals
    /\ adapter' = Minus(adapter, {"stream"})
    /\ op' = [op EXCEPT !.locals = @ \ {"stream"}]
    /\ UNCHANGED <<session, handler, opened, keeps, position, java, calls, crashed, simpleClose>>

DestroyArchive ==
    /\ op.pc = "leave" /\ op.locals = {"archive"}
    /\ ReleaseHandler(op.current)
    /\ op' = [op EXCEPT !.locals = {}, !.current = Null]
    /\ UNCHANGED <<session, position, java, calls, crashed, simpleClose>>

Return ==
    /\ op.pc = "leave" /\ op.locals = {}
    /\ session' = IF op.delete THEN "deleted" ELSE session
    /\ wasClosed' = (wasClosed \/ (op.simple /\ ~op.thrown))
    /\ simpleClose' = IF ~op.simple THEN simpleClose ELSE IF op.thrown THEN "thrown" ELSE "returned"
    /\ op' = Idle
    /\ UNCHANGED <<handler, opened, keeps, adapter, position, inArchive, outArchive, counted, calls, crashed>>

-----------------------------------------------------------------------------
(* Calls on the open archive, also from the callbacks of other calls *)

BeginCall(c) ==
    /\ CanCall /\ inArchive # Null /\ Len(calls) < MaxDepth
    /\ c = "items" => ~counted      \* getNumberOfItems asks once
    /\ c = "property" => counted    \* the index is checked against the count
    /\ handler' = [handler EXCEPT ![inArchive] = @ + 1]
    /\ adapter' = IF HoldsStream(c) THEN Plus(adapter, {"stream"}) ELSE adapter
    /\ calls' = Append(calls, c)
    /\ UNCHANGED <<session, opened, keeps, position, java, op, crashed, simpleClose>>

\* updateItems of the connected out-archive.
BeginUpdate ==
    /\ CanCall /\ inArchive # Null /\ outArchive \in Formats /\ Len(calls) < MaxDepth
    /\ handler' = [handler EXCEPT ![outArchive] = @ + 1]
    /\ calls' = Append(calls, "update")
    /\ UNCHANGED <<session, opened, keeps, adapter, position, java, op, crashed, simpleClose>>

\* Faulty: every call gives back a reference to the stream.
EndCall_alwaysStream ==
    /\ CanCall /\ calls # << >>
    /\ handler' = [handler EXCEPT ![inArchive] = @ - 1]
    /\ adapter' = Minus(adapter, {"stream"})
    /\ counted' \in {counted, TRUE}
    /\ calls' = SubSeq(calls, 1, Len(calls) - 1)
    /\ UNCHANGED <<session, opened, keeps, position, inArchive, outArchive, wasClosed, op, crashed, simpleClose>>

\* The innermost call returns, with an exception or without.
EndCall ==
    /\ CanCall /\ calls # << >>
    /\ LET c == calls[Len(calls)]
       IN /\ handler' = [handler EXCEPT ![inArchive] = @ - 1]
          /\ adapter' = IF HoldsStream(c) THEN Minus(adapter, {"stream"}) ELSE adapter
          /\ counted' \in IF c = "items" THEN {counted, TRUE} ELSE {counted}
    /\ calls' = SubSeq(calls, 1, Len(calls) - 1)
    /\ UNCHANGED <<session, opened, keeps, position, inArchive, outArchive, wasClosed, op, crashed, simpleClose>>

\* getConnectedOutArchive: the Java object is stored before the native part
\* is known to succeed.  Later calls return the stored object.
Connect ==
    /\ CanCall /\ inArchive \in Updatable /\ outArchive = NoObject
    /\ \/ /\ outArchive' = inArchive
          /\ handler' = [handler EXCEPT ![inArchive] = @ + 1]
       \/ outArchive' = Null /\ UNCHANGED handler
    /\ UNCHANGED <<session, opened, keeps, adapter, position, inArchive, counted, wasClosed, op, calls,
                   crashed, simpleClose>>

\* updateItems on a connected out-archive that was not connected: GetJBindingSession
\* finds no pointer.
UpdateUnconnected ==
    /\ CanCall /\ inArchive # Null /\ outArchive = Null
    /\ crashed' = TRUE
    /\ UNCHANGED <<heap, position, java, op, calls, simpleClose>>

\* A call of the simple interface when the archive is gone: it throws if it
\* knows, or else the native call finds no pointer.
SimpleAfterClose ==
    /\ CanCall /\ inArchive = Null /\ simpleClose # "none"
    /\ crashed' = ~wasClosed
    /\ UNCHANGED <<heap, position, java, op, calls, simpleClose>>

\* getArchiveItem does not ask whether the archive was closed: it goes well
\* when the number of items is known and no native call is needed.
ItemAfterClose ==
    /\ CanCall /\ inArchive = Null /\ simpleClose # "none"
    /\ crashed' = ~counted
    /\ UNCHANGED <<heap, position, java, op, calls, simpleClose>>

-----------------------------------------------------------------------------
(* nativeClose, through InArchiveImpl or SimpleInArchiveImpl *)

\* close is the last call: none is under way.
Close(simple) ==
    /\ CanCall /\ inArchive # Null /\ calls = << >>
    /\ handler' = [handler EXCEPT ![inArchive] = @ + 1]
    /\ adapter' = Plus(adapter, {"stream"})
    /\ op' = [Idle EXCEPT !.pc = "close", !.current = inArchive, !.locals = {"archive", "stream"},
                          !.delete = TRUE, !.simple = simple]
    /\ UNCHANGED <<session, opened, keeps, position, java, calls, crashed, simpleClose>>

\* archive->Close, which may fail: the error is reported, and close goes on.
CloseHandler ==
    /\ op.pc = "close"
    /\ \E ok \in BOOLEAN, rest \in SUBSET keeps[op.current] :
          /\ ok => rest = {}
          /\ HandlerLetsGo(op.current, rest)
          /\ op' = [op EXCEPT !.pc = "closed", !.thrown = ~ok]
    /\ UNCHANGED <<session, handler, position, java, calls, crashed, simpleClose>>

\* Faulty: the reference of the field to the stream is not released.
ReleaseFields_keepsStream ==
    /\ op.pc = "closed"
    /\ handler' = [handler EXCEPT ![op.current] = @ - 1]
    /\ inArchive' = Null
    /\ op' = [op EXCEPT !.pc = "leave"]
    /\ UNCHANGED <<session, opened, keeps, adapter, position, outArchive, counted, wasClosed, calls, crashed,
                   simpleClose>>

\* Faulty: the session is deleted inside the block, before the locals go.
ReleaseFields_deletesSession ==
    /\ op.pc = "closed"
    /\ handler' = [handler EXCEPT ![op.current] = @ - 1]
    /\ adapter' = Minus(adapter, {"stream"})
    /\ inArchive' = Null /\ session' = "deleted"
    /\ op' = [op EXCEPT !.pc = "leave"]
    /\ UNCHANGED <<opened, keeps, position, outArchive, counted, wasClosed, calls, crashed, simpleClose>>

\* The references of the fields are released; the locals still hold their own.
ReleaseFields ==
    /\ op.pc = "closed"
    /\ handler' = [handler EXCEPT ![op.current] = @ - 1]
    /\ adapter' = Minus(adapter, {"stream"})
    /\ inArchive' = Null
    /\ op' = [op EXCEPT !.pc = "leave"]
    /\ UNCHANGED <<session, opened, keeps, position, outArchive, counted, wasClosed, calls, crashed, simpleClose>>

-----------------------------------------------------------------------------
\* The process has stopped, or the archive is closed and has left its handler:
\* handlers are told apart by their format, so no further archive is opened.
Ended ==
    /\ crashed \/ (CanCall /\ inArchive = Null /\ outArchive \in Formats)
    /\ UNCHANGED vars

InNative ==
    \/ NextCodec \/ GivenCodec \/ TryOpen \/ RefuseOpened \/ HandOut
    \/ DestroyCallback \/ DestroyStream \/ DestroyArchive \/ Return
    \/ CloseHandler \/ ReleaseFields

Next ==
    \/ \E asked \in Formats \cup {AnyFormat, Unknown} : Open(asked)
    \/ InNative
    \/ \E c \in Calls \ {"update"} : BeginCall(c)
    \/ BeginUpdate \/ EndCall
    \/ Connect \/ UpdateUnconnected \/ SimpleAfterClose \/ ItemAfterClose
    \/ \E simple \in BOOLEAN : Close(simple)
    \/ Ended

Spec == Init /\ [][Next]_vars

\* The native code of a call runs on.
FairSpec == Spec /\ WF_vars(InNative)

-----------------------------------------------------------------------------
(* Properties                                                              *)

\* The reference counts, the fields of the Java objects and the native calls
\* under way have their types.
TypeOK ==
    /\ session \in {"none", "live", "deleted"}
    /\ handler \in [Formats -> Nat] /\ adapter \in [Adapters -> Nat]
    /\ opened \subseteq Formats /\ keeps \in [Formats -> SUBSET Adapters]
    /\ position \in {"start", "moved"}
    /\ inArchive \in Formats \cup {Null} /\ outArchive \in Formats \cup {Null, NoObject}
    /\ op \in [pc : {"idle", "codec", "created", "opened", "leave", "close", "closed"},
               asked : Formats \cup {AnyFormat, Unknown}, current : Formats \cup {Null},
               locals : SUBSET {"archive", "stream", "callback"},
               thrown : BOOLEAN, delete : BOOLEAN, simple : BOOLEAN, failed : BOOLEAN]
    /\ calls \in Seq(Calls)
    /\ {counted, wasClosed, crashed} \subseteq BOOLEAN
    /\ simpleClose \in {"none", "returned", "thrown"}

\* Who refers to a handler: a local pointer, the field of the in-archive, the
\* field of the connected out-archive, and each call under way.
One(condition) == IF condition THEN 1 ELSE 0
HandlerHolders(f) ==
    One("archive" \in op.locals /\ op.current = f) + One(inArchive = f) + One(outArchive = f)
    + (IF inArchive = f THEN Len(calls) ELSE 0)

\* Who refers to an adapter: a local pointer, the field of the in-archive,
\* the calls that hold the stream, and the handlers that keep it.
AdapterHolders(x) ==
    One(x \in op.locals) + One(x = "stream" /\ inArchive # Null)
    + (IF x = "stream" THEN Cardinality({k \in DOMAIN calls : HoldsStream(calls[k])}) ELSE 0)
    + Cardinality({f \in Formats : x \in keeps[f]})

\* Every reference is counted and every count is of a reference: no object is
\* destroyed while it is referred to, none stays when nobody refers to it.
CountsAgree ==
    /\ \A f \in Formats : handler[f] = HandlerHolders(f)
    /\ \A x \in Adapters : adapter[x] = AdapterHolders(x)
    /\ \A f \in Formats : handler[f] = 0 => keeps[f] = {} /\ f \notin opened

\* The destructors of the adapters call Java through the session: no adapter is
\* destroyed when the session is gone, or in the step that deletes it.
DestructorsHaveSession ==
    [][\A x \in Adapters : adapter[x] > 0 /\ adapter'[x] = 0 => session = "live" /\ session' = "live"]_vars

\* After close, and after an open that failed, nothing is left of an archive
\* without connected out-archive (JUnitNativeTestBase counts the adapters).
NothingLeft ==
    op.pc = "idle" /\ inArchive = Null /\ outArchive \notin Formats =>
        /\ session # "live"
        /\ \A f \in Formats : handler[f] = 0
        /\ \A x \in Adapters : adapter[x] = 0

\* What the application holds is an archive that a codec accepted, with its
\* session and stream, until close has begun.
HandedOutIsOpen ==
    inArchive # Null => /\ session = "live" /\ adapter["stream"] > 0
                        /\ op.pc # "closed" => inArchive \in opened

\* When a callback has thrown while the codecs were tried, openInArchive throws
\* even if a later codec has accepted the archive.
FailedCallbackFailsOpen ==
    [][inArchive = Null /\ inArchive' # Null => ~op.failed]_vars

\* Every codec of the auto-detection finds the stream at its start, unless the
\* stream has thrown.
CodecsStartAtZero ==
    op.pc = "created" /\ op.asked = AnyFormat /\ position = "moved" => op.thrown

\* A native open or close comes to its end.
NativeCallsReturn == op.pc # "idle" ~> op.pc = "idle"

-----------------------------------------------------------------------------
(* The inductive invariant: what the step that an open or a close has       *)
(* reached says of its locals, of the fields and of the session.           *)

\* Between two calls the session is that of the archive at hand.  A pointer to
\* a handler is among the locals exactly when there is a current format.
IdleAgrees ==
    /\ op.pc = "idle" => op = Idle /\ (session = "live" <=> inArchive # Null)
    /\ op.pc # "idle" => session = "live" /\ calls = << >> /\ ~crashed
    /\ "archive" \in op.locals <=> op.current # Null

\* While codecs are tried nothing is in the fields yet, the handler at hand
\* keeps nothing before it is asked to open, and what a callback has thrown is
\* remembered.
OpenAgrees ==
    /\ op.pc \in {"codec", "created", "opened"} =>
          /\ inArchive = Null /\ outArchive = NoObject /\ ~op.delete
          /\ op.asked # Unknown /\ {"stream", "callback"} \subseteq op.locals
          /\ op.failed => op.thrown
    /\ op.pc = "codec" => IF op.asked = AnyFormat THEN op.current < NumFormats
                          ELSE op.current = Null
    /\ op.pc = "created" => op.current # Null /\ keeps[op.current] = {}
    /\ op.pc = "opened" => op.current \in opened

\* A close works on the archive in the fields.  On the way out the archive is
\* in the fields, or the session goes.
CloseAgrees ==
    /\ op.pc \in {"close", "closed"} =>
          /\ inArchive # Null /\ op.current = inArchive /\ op.delete
          /\ op.locals = {"archive", "stream"}
    /\ op.pc = "leave" => IF inArchive = Null THEN op.delete
                          ELSE ~op.delete /\ op.locals \subseteq {"callback"}

\* Calls are under way only on an open archive; a connected out-archive is that of
\* the in-archive as long as there is one; a close that returned was noted.
FieldsAgree ==
    /\ inArchive = Null => calls = << >>
    /\ inArchive # Null /\ outArchive \in Formats => outArchive = inArchive
    /\ simpleClose = "returned" => wasClosed

IInv == /\ TypeOK /\ CountsAgree /\ IdleAgrees /\ OpenAgrees /\ CloseAgrees /\ FieldsAgree
        /\ HandedOutIsOpen /\ CodecsStartAtZero

-----------------------------------------------------------------------------
(* What the documentation promises and the code does not do.               *)

\* IOutUpdateArchive.java:23: "Connected out-archive get closed automatically when
\* corresponding in-archive get closed": its handler goes with the in-archive.
ConnectedIsClosed ==
    op.pc = "idle" /\ inArchive = Null => \A f \in Formats : handler[f] = 0
=============================================================================
