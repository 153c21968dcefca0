--------------------------- MODULE ByteArrayStream ---------------------------
(***************************************************************************)
(* ByteArrayStream.java: a readable and writable stream in memory.  The    *)
(* bytes are in a list of chunks, each twice as long as the one before; a  *)
(* cursor (a chunk and a place in it) follows the position; a seek is only *)
(* noted and done by the next read or write.                               *)
(*                                                                         *)
(* The list of chunks is represented by its bytes one after another and by *)
(* the places where the chunks end.  Chunks are counted from 1, so the     *)
(* index 0 stands for -1, "no chunk".                                      *)
(*                                                                         *)
(* Granularity: one action per turn of a loop over chunks.  The methods    *)
(* are synchronized, so a call begins only when no other is under way.     *)
(***************************************************************************)
EXTENDS Integers, Sequences

CONSTANTS
    InitialSize,  \* initialSize: the length of the first chunk
    MaxSize,      \* maxSize
    MaxChunkSize, \* MAX_CHUNK_SIZE
    Bytes,        \* the values of a byte
    Zero,         \* the byte that new arrays are filled with
    Contents,     \* what callers write at once
    Lengths,      \* lengths of their buffers and sizes they set
    Offsets,      \* offsets they seek to
    Limit,        \* environment: how far callers write
    Careful       \* environment: callers do not shrink the stream below its cursor

ASSUME SizesAssumption ==
    /\ InitialSize \in Nat \ {0} /\ MaxChunkSize \in Nat \ {0}
    /\ MaxSize \in Nat /\ Limit \in Nat
ASSUME CallersAssumption ==
    /\ Zero \in Bytes /\ Contents \subseteq Seq(Bytes) \ {<<>>}
    /\ Lengths \subseteq Nat /\ Offsets \subseteq Int /\ Careful \in BOOLEAN

VARIABLES
    stream, \* the fields of the object
    pc,     \* the loop that the current call is in
    job,    \* what the current call has still to do
    before, \* history: content and position when the current call began
    answer  \* history: what the last call handed out

vars == <<stream, pc, job, before, answer>>

Smaller(a, b) == IF a < b THEN a ELSE b
Larger(a, b) == IF a > b THEN a ELSE b

-----------------------------------------------------------------------------
(* The fields.                                                             *)

\* init
Empty == [bytes |-> <<>>, ends |-> <<>>, currentPosition |-> 0,
          currentPositionInChunk |-> 0, currentChunkIndex |-> 0, size |-> 0,
          seekToPosition |-> -1, thrown |-> FALSE]

Count(s) == Len(s.ends)                          \* chunkList.size()
EntireSize(s) == Len(s.bytes)
Start(s, i) == IF i = 1 THEN 0 ELSE s.ends[i - 1]
ChunkLength(s, i) == s.ends[i] - Start(s, i)     \* chunkList.get(i).length
LastLength(s) == ChunkLength(s, Count(s))

\* An exception is on its way to the caller, who finds the fields as they are.
Throw(s) == [s EXCEPT !.thrown = TRUE]

WithChunk(s, length) ==
    [s EXCEPT !.bytes = @ \o [i \in 1..length |-> Zero], !.ends = Append(@, EntireSize(s) + length)]

Content(s) == SubSeq(s.bytes, 1, s.size)
Position(s) == IF s.seekToPosition = -1 THEN s.currentPosition ELSE s.seekToPosition

-----------------------------------------------------------------------------
(* allocateNextChunk                                                       *)

\* The cursor behind the last chunk goes to the one that is about to be made.
ToNextChunk(s) ==
    IF \/ s.currentChunkIndex = 0
       \/ s.currentChunkIndex = Count(s) /\ LastLength(s) = s.currentPositionInChunk
    THEN [s EXCEPT !.currentPositionInChunk = 0, !.currentChunkIndex = @ + 1]
    ELSE s

\* Mutant: the last byte is never given to a chunk.
NextChunkSize_offByOne(s) ==
    LET doubled == IF Count(s) = 0 THEN InitialSize ELSE 2 * LastLength(s)
    IN  Smaller(Smaller(doubled, MaxChunkSize), MaxSize - s.size - 1)

NextChunkSize(s) ==
    LET doubled == IF Count(s) = 0 THEN InitialSize ELSE 2 * LastLength(s)
    IN  Smaller(Smaller(doubled, MaxChunkSize), MaxSize - s.size)

\* atLeast is 0 when the caller does not care (-1 in the code).
Allocated(s, atLeast) ==
    LET t == ToNextChunk(s)
    IN  IF \/ s.size >= MaxSize
           \/ NextChunkSize(s) < atLeast /\ s.size + atLeast >= MaxSize
        THEN Throw(t)
        ELSE WithChunk(t, Larger(NextChunkSize(s), atLeast))

-----------------------------------------------------------------------------
(* setSize                                                                 *)

AtEnd(s, newSize, inChunk) ==
    [s EXCEPT !.currentChunkIndex = Count(s), !.currentPositionInChunk = inChunk,
              !.currentPosition = newSize]

\* toEnd: the cursor goes to the new end.
Grown(s, newSize, toEnd) ==
    LET t == IF s.size > 0 THEN s
             ELSE [WithChunk(s, newSize) EXCEPT !.currentChunkIndex = 1, !.size = newSize]
        free == EntireSize(t) - t.size
        missing == newSize - t.size - free
        u == IF missing > 0 THEN Allocated([t EXCEPT !.size = @ + free], missing) ELSE t
        inLast == IF missing > 0 THEN missing ELSE LastLength(t) + missing
    IN  IF u.thrown THEN u
        ELSE [(IF toEnd THEN AtEnd(u, newSize, inLast) ELSE u) EXCEPT !.size = newSize]

\* Mutant: a seek that is noted only may stay behind the end.
Shrunk_ignoresDelayedSeek(s, newSize) ==
    LET i == CHOOSE i \in 1..Count(s) : s.ends[i] >= newSize /\ Start(s, i) < newSize
        cut == [s EXCEPT !.bytes = SubSeq(@, 1, s.ends[i]), !.ends = SubSeq(@, 1, i),
                         !.size = newSize]
    IN  IF s.currentPosition > newSize THEN AtEnd(cut, newSize, newSize - Start(s, i)) ELSE cut

Shrunk(s, newSize) ==
    LET i == CHOOSE i \in 1..Count(s) : s.ends[i] >= newSize /\ Start(s, i) < newSize
        cut == [s EXCEPT !.bytes = SubSeq(@, 1, s.ends[i]), !.ends = SubSeq(@, 1, i),
                         !.size = newSize]
    IN  IF s.seekToPosition > newSize THEN [cut EXCEPT !.seekToPosition = newSize]
        ELSE IF s.currentPosition > newSize THEN AtEnd(cut, newSize, newSize - Start(s, i))
        ELSE cut

Sized(s, newSize, toEnd) ==
    CASE newSize = 0 -> Empty
      [] newSize > s.size -> Grown(s, newSize, toEnd)
      [] newSize \in 1..(s.size - 1) -> Shrunk(s, newSize)
      [] OTHER -> s

-----------------------------------------------------------------------------
(* performDelayedSeek                                                      *)

\* The first chunk that ends behind the position, or the end of the last one.
CursorAt(s, p) ==
    LET i == CHOOSE i \in 1..Count(s) : s.ends[i] > p /\ Start(s, i) <= p
    IN  IF p < EntireSize(s)
        THEN [s EXCEPT !.currentChunkIndex = i, !.currentPositionInChunk = p - Start(s, i),
                       !.currentPosition = p]
        ELSE AtEnd(s, s.size, LastLength(s))

DelayedSeek(s) ==
    LET t == IF s.seekToPosition \in {-1, s.currentPosition} THEN s
             ELSE IF s.seekToPosition > s.size THEN Sized(s, s.seekToPosition, TRUE)
             ELSE CursorAt(s, s.seekToPosition)
    IN  IF t.thrown THEN t ELSE [t EXCEPT !.seekToPosition = -1]

-----------------------------------------------------------------------------
(* startWriting and endWriting                                             *)

CursorInList(s) == s.currentChunkIndex \in 1..Count(s)

StartedWriting(s) ==
    CASE s.currentChunkIndex = 0 -> Allocated(s, 0)
      [] s.currentChunkIndex > Count(s) -> Throw(s)
      [] OTHER -> IF s.currentPositionInChunk >= ChunkLength(s, s.currentChunkIndex)
                  THEN Allocated(s, 0) ELSE s

\* Mutant: it is kept.
EndedWriting_keepsChunk(s) == s

\* A chunk made in advance, the last one, is given back.
EndedWriting(s) ==
    LET i == s.currentChunkIndex
    IN  IF s.size # s.currentPosition \/ s.currentPositionInChunk # 0 THEN s
        ELSE IF i = 1 THEN Empty
        ELSE [s EXCEPT !.bytes = SubSeq(@, 1, Start(s, i)), !.ends = SubSeq(@, 1, i - 1),
                       !.currentChunkIndex = i - 1,
                       !.currentPositionInChunk = ChunkLength(s, i - 1)]

-----------------------------------------------------------------------------
(* Calls                                                                   *)

Array == INSTANCE WritableStream
         WITH content <- IF pc = "idle" THEN Content(stream) ELSE before.content,
              position <- IF pc = "idle" THEN Position(stream) ELSE before.position,
              Contents <- Contents \cup {<<>>}

Thrown == [call |-> "thrown"]
NoCall == [content |-> <<>>, position |-> 0]

\* rest: what write has still to store; source: what the InputStream has still
\* to deliver; toRead, got: what read has still to deliver, and has delivered.
NoJob == [rest |-> <<>>, source |-> <<>>, toRead |-> 0, got |-> <<>>]

Init == /\ stream = Empty /\ pc = "idle" /\ job = NoJob
        /\ before = NoCall /\ answer = Array!Nothing

\* The call ends and leaves the fields s, by an exception or with a value.
Return(s, value) ==
    /\ stream' = [s EXCEPT !.thrown = FALSE]
    /\ answer' = IF s.thrown THEN Thrown ELSE value
    /\ pc' = "idle" /\ job' = NoJob /\ before' = NoCall

GoOn(s, next, todo) ==
    IF s.thrown THEN Return(s, Thrown)
    ELSE stream' = s /\ pc' = next /\ job' = todo /\ UNCHANGED answer

Begin(s, next, todo) ==
    /\ pc = "idle" /\ GoOn(s, next, todo)
    /\ ~s.thrown => before' = [content |-> Content(stream), position |-> Position(stream)]

Continue(s, next, todo) == GoOn(s, next, todo) /\ (~s.thrown => UNCHANGED before)

\* Environment: how far callers write, and that those who are careful do not take
\* the chunk of the cursor away by a smaller size, after which nothing is right.
Within(position) == position <= Limit
CursorStays(s) == CursorInList(s) /\ s.currentPosition <= s.size

-----------------------------------------------------------------------------
(* seek, rewind, setSize, truncate, setBytes                               *)

Seek(origin, offset) ==
    LET newOffset == Array!Target(origin, offset)
    IN  /\ pc = "idle" /\ newOffset >= 0
        /\ IF newOffset > MaxSize THEN Return(stream, Array!Refused(newOffset))
           ELSE Return([stream EXCEPT !.seekToPosition = newOffset],
                       Array!Moved(origin, offset, newOffset))

Rewind ==
    /\ pc = "idle"
    /\ Return([stream EXCEPT !.seekToPosition = 0], Array!Moved("SEEK_SET", 0, 0))

\* setSize; setSize(0) is truncate.
SetSize(newSize) ==
    /\ pc = "idle" /\ newSize <= MaxSize
    /\ newSize > stream.size => Within(newSize)
    /\ LET s == Sized(stream, newSize, FALSE)
       IN  /\ Careful /\ newSize \in 1..(stream.size - 1) => CursorStays(s)
           /\ Return(s, Array!Nothing)

SetSizeTooFar(newSize) ==
    pc = "idle" /\ newSize > MaxSize /\ Return(stream, Array!Refused(newSize))

SetBytes(data) ==
    /\ pc = "idle" /\ Within(Len(data))
    /\ Return([Empty EXCEPT !.bytes = data, !.ends = <<Len(data)>>, !.currentChunkIndex = 1,
                            !.size = Len(data)], Array!Nothing)

\* getBytes and writeToOutputStream, getSize, getCurrentPosition, isEOF.
Inspect ==
    /\ pc = "idle"
    /\ Return(IF Count(stream) > 0 /\ Start(stream, Count(stream)) > stream.size
              THEN Throw(stream) ELSE stream,
              Array!Shown(Content(stream), Position(stream)))

-----------------------------------------------------------------------------
(* read                                                                    *)

Read(length) ==
    /\ pc = "idle"
    /\ IF stream.seekToPosition > stream.size THEN Return(stream, Array!Delivered(<<>>))
       ELSE LET s == DelayedSeek(stream)
            IN  Begin(s, "reading",
                      [NoJob EXCEPT !.toRead = Smaller(length, s.size - s.currentPosition)])

\* Where read has come to: its loop moves the cursor, and the position follows
\* when the loop is over.
Reached(s, todo) == [s EXCEPT !.currentPosition = @ + Len(todo.got)]

\* Mutant: the cursor leaves the last chunk, too.
ReadChunk_pastLast ==
    LET s == stream
        i == s.currentChunkIndex
        n == Smaller(job.toRead, ChunkLength(s, i) - s.currentPositionInChunk)
        from == Start(s, i) + s.currentPositionInChunk
        filled == s.currentPositionInChunk + n >= ChunkLength(s, i)
    IN  /\ pc = "reading" /\ job.toRead > 0
        /\ Continue([s EXCEPT !.currentPositionInChunk = IF filled THEN 0 ELSE @ + n,
                              !.currentChunkIndex = IF filled THEN @ + 1 ELSE @],
                    "reading",
                    [job EXCEPT !.toRead = @ - n,
                                !.got = @ \o SubSeq(s.bytes, from + 1, from + n)])

ReadChunk ==
    LET s == stream
        i == s.currentChunkIndex
        n == Smaller(job.toRead, ChunkLength(s, i) - s.currentPositionInChunk)
        from == Start(s, i) + s.currentPositionInChunk
        filled == s.currentPositionInChunk + n >= ChunkLength(s, i) /\ i < Count(s)
    IN  /\ pc = "reading" /\ job.toRead > 0
        /\ IF ~CursorInList(s) THEN Return(Throw(s), Thrown)
           ELSE Continue([s EXCEPT !.currentPositionInChunk = IF filled THEN 0 ELSE @ + n,
                                   !.currentChunkIndex = IF filled THEN @ + 1 ELSE @],
                         "reading",
                         [job EXCEPT !.toRead = @ - n,
                                     !.got = @ \o SubSeq(s.bytes, from + 1, from + n)])

\* The position is moved by the number of bytes that were to be read.
ReadReturn ==
    /\ pc = "reading" /\ job.toRead <= 0
    /\ Return([stream EXCEPT !.currentPosition = @ + Len(job.got) + job.toRead],
              Array!Delivered(job.got))

-----------------------------------------------------------------------------
(* write                                                                   *)

Write(data) ==
    /\ data # <<>> /\ Within(Position(stream) + Len(data))
    /\ Begin(DelayedSeek(stream), "starting", [NoJob EXCEPT !.rest = data])

StartWriting ==
    /\ pc = "starting"
    /\ Continue(StartedWriting(stream), IF job.rest # <<>> THEN "writing" ELSE "filling", job)

\* What fits into the chunk; the chunk after a full one is made at once.
Stored(s, data) ==
    LET i == s.currentChunkIndex
        from == Start(s, i) + s.currentPositionInChunk
    IN  [s EXCEPT !.bytes = [k \in DOMAIN @ |-> IF k - from \in DOMAIN data
                                                 THEN data[k - from] ELSE @[k]],
                  !.currentPosition = @ + Len(data),
                  !.currentPositionInChunk = @ + Len(data)]

\* Mutant: a full chunk is not left.
Advanced_staysInChunk(s) == s

Advanced(s) ==
    LET i == s.currentChunkIndex
        t == [s EXCEPT !.currentPositionInChunk = 0, !.currentChunkIndex = @ + 1]
    IN  IF s.currentPositionInChunk < ChunkLength(s, i) THEN s
        ELSE IF i = Count(s) THEN Allocated(t, 0) ELSE t

WriteChunk ==
    LET s == stream
        n == Smaller(Len(job.rest),
                     ChunkLength(s, s.currentChunkIndex) - s.currentPositionInChunk)
    IN  /\ pc = "writing" /\ job.rest # <<>>
        /\ IF ~CursorInList(s) THEN Return(Throw(s), Thrown)
           ELSE Continue(Advanced(Stored(s, SubSeq(job.rest, 1, n))), "writing",
                         [job EXCEPT !.rest = SubSeq(@, n + 1, Len(@))])

\* The size is updated at the end only.  Arrays are written as a whole: the
\* number that write returns, the length of the array, is not modelled.
WriteReturn ==
    /\ pc = "writing" /\ job.rest = <<>>
    /\ LET s == EndedWriting([stream EXCEPT !.size = Larger(@, stream.currentPosition)])
       IN  IF job.source # <<>> THEN Continue(s, "copying", job) ELSE Return(s, Array!Nothing)

-----------------------------------------------------------------------------
(* writeFromInputStream                                                    *)

\* An InputStream that can tell enough of its bytes is read into one chunk.
FilledAtOnce(data, available) ==
    [Empty EXCEPT !.bytes = data \o [i \in 1..(available - Len(data)) |-> Zero],
                  !.ends = <<available>>, !.currentChunkIndex = 1, !.size = Len(data),
                  !.currentPosition = Len(data), !.currentPositionInChunk = Len(data)]

\* Into a stream that holds nothing: chunk after chunk.
FillEmpty(source) ==
    /\ DelayedSeek(stream).size = 0
    /\ \E available \in 0..Len(source) :
          IF available > InitialSize
          THEN \E n \in 1..available :
                  Begin(FilledAtOnce(SubSeq(source, 1, n), available), "starting",
                        [NoJob EXCEPT !.source = SubSeq(source, n + 1, Len(source))])
          ELSE Begin(Empty, "starting", [NoJob EXCEPT !.source = source])

\* Into other streams: by writes of what a buffer takes.
CopyFrom(source) ==
    /\ DelayedSeek(stream).size > 0
    /\ Begin(DelayedSeek(stream), "copying", [NoJob EXCEPT !.source = source])

WriteFromInputStream(source) ==
    /\ Within(Position(stream) + Len(source))
    /\ FillEmpty(source) \/ CopyFrom(source)

FillChunk ==
    /\ pc = "filling" /\ job.source # <<>>
    /\ \E n \in 1..Smaller(Len(job.source), LastLength(stream) - stream.currentPositionInChunk) :
          LET s == Stored(stream, SubSeq(job.source, 1, n))
          IN  Continue(IF s.currentPositionInChunk < LastLength(s) THEN s ELSE Allocated(s, 0),
                       "filling", [job EXCEPT !.source = SubSeq(@, n + 1, Len(@))])

FillReturn ==
    /\ pc = "filling" /\ job.source = <<>>
    /\ Return(EndedWriting([stream EXCEPT !.size = stream.currentPosition]), Array!Nothing)

CopyNext ==
    /\ pc = "copying"
    /\ \E n \in 1..Len(job.source) :
          Continue(DelayedSeek(stream), "starting",
                   [job EXCEPT !.rest = SubSeq(job.source, 1, n),
                               !.source = SubSeq(@, n + 1, Len(@))])

CopyReturn ==
    /\ pc = "copying" /\ job.source = <<>>
    /\ Return(stream, Array!Nothing)

\* The InputStream throws: what was written before stays.
CopyInterrupted ==
    /\ pc = "copying" /\ Return(stream, Array!Interrupted)

-----------------------------------------------------------------------------
Loop == \/ ReadChunk \/ ReadReturn
        \/ StartWriting \/ WriteChunk \/ WriteReturn
        \/ FillChunk \/ FillReturn
        \/ CopyNext \/ CopyReturn \/ CopyInterrupted

Next ==
    \/ \E origin \in Array!Origins, offset \in Offsets : Seek(origin, offset)
    \/ \E length \in Lengths : Read(length) \/ SetSize(length) \/ SetSizeTooFar(length)
    \/ \E data \in Contents : SetBytes(data) \/ Write(data)
    \/ \E source \in Contents \cup {<<>>} : WriteFromInputStream(source)
    \/ Rewind \/ Inspect
    \/ Loop

Spec == Init /\ [][Next]_vars

\* The thread of a call goes on, and an InputStream answers.
FairSpec == Spec /\ WF_vars(Loop)
-----------------------------------------------------------------------------
(* Properties.                                                             *)

Fields == [bytes : Seq(Bytes), ends : Seq(Nat \ {0}), currentPosition : Nat,
           currentPositionInChunk : Nat, currentChunkIndex : Nat, size : Nat,
           seekToPosition : {-1} \cup Nat, thrown : {FALSE}]

\* Chunks are not empty, and the last one ends where the bytes end.
ChunksInOrder(s) ==
    /\ \A i, j \in 1..Count(s) : i < j => s.ends[i] < s.ends[j]
    /\ EntireSize(s) = IF Count(s) = 0 THEN 0 ELSE s.ends[Count(s)]

\* The cursor is in the list, where the position says, or nothing is there.
CursorIn(s) ==
    LET i == s.currentChunkIndex
    IN  \/ i = 0 /\ Count(s) = 0 /\ s.currentPosition = 0
        \/ /\ i \in 1..Count(s)
           /\ s.currentPositionInChunk <= ChunkLength(s, i)
           /\ s.currentPosition = Start(s, i) + s.currentPositionInChunk

\* The position is in the stream, and the last chunk holds the last byte.
Settled(s) ==
    /\ s.currentPosition <= s.size /\ s.size <= EntireSize(s)
    /\ Count(s) > 0 => Start(s, Count(s)) < s.size

\* The fields have their types, and the chunks are a list of arrays.
TypeOK ==
    /\ stream \in Fields
    /\ pc \in {"idle", "reading", "starting", "writing", "copying", "filling"}
    /\ job \in [rest : Seq(Bytes), source : Seq(Bytes), toRead : Int, got : Seq(Bytes)]
    /\ before \in [content : Seq(Bytes), position : Nat]
    /\ ChunksInOrder(stream)

\* The cursor is in the list and where the position says, in every turn of the
\* loops of write, which move both, and between the loops; in the loop of read,
\* where the position stays behind, it is as many bytes further as were delivered.
CursorAgrees == CursorIn(IF pc = "reading" THEN Reached(stream, job) ELSE stream)

\* Between two calls the last chunk holds the last byte, on which growing,
\* getBytes and the end of a write rely, and the position is in the stream.
EndInLastChunk == pc = "idle" => Settled(stream)

\* The chunks are one array: what is read or shown is what was written last
\* at these places, however writes, seeks, growing and shrinking were mixed;
\* a write stores all its bytes at the position that the seeks before it gave.
ImplementsArray == Array!Spec

\* A call ends, however chunks and the pieces of an InputStream meet.
CallsEnd == pc # "idle" ~> pc = "idle"

-----------------------------------------------------------------------------
(* The inductive invariant, when callers are careful and stay below the    *)
(* maximal size.                                                           *)

\* Between two chunks the cursor is in the second one.
CursorInFront(s) ==
    LET i == s.currentChunkIndex
    IN  /\ i = 0 => s.currentPositionInChunk = 0
        /\ i \in 1..(Count(s) - 1) => s.currentPositionInChunk < ChunkLength(s, i)

\* No write is under way, or none has begun; a stream is filled from its beginning.
Between == pc \in {"idle", "reading", "copying"} \/ (pc = "starting" /\ job.rest # <<>>)
Filling == pc = "filling" \/ (pc = "starting" /\ job.rest = <<>>)

\* While a write is under way the size is not up to date, but the last chunk is
\* needed for it or for the cursor, and what is still to be written stays in the limit.
LoopAgrees ==
    /\ stream.size <= Limit /\ stream.size <= EntireSize(stream)
    /\ pc # "idle" => stream.seekToPosition = -1
    /\ Between => Settled(stream)
    /\ pc = "writing" => stream.currentChunkIndex = Count(stream)
                         \/ Start(stream, Count(stream)) < stream.size
    /\ pc \in {"writing", "filling"} => Count(stream) > 0
    /\ Filling => /\ stream.currentChunkIndex = Count(stream)
                  /\ stream.size <= stream.currentPosition /\ job.rest = <<>>
    /\ pc = "reading" => job.toRead \in 0..(stream.size - stream.currentPosition - Len(job.got))
    /\ pc \in {"starting", "writing", "copying", "filling"} =>
          stream.currentPosition + Len(job.rest) + Len(job.source) <= Limit

IInv == TypeOK /\ CursorAgrees /\ CursorInFront(stream) /\ LoopAgrees

\* What read has delivered is what stands between the position at its beginning
\* and the place where it has come to, and it goes on to the end of the buffer or of the bytes.
Delivering(s, todo, call) ==
    /\ Content(s) = call.content /\ call.position <= s.currentPosition /\ todo.toRead >= 0
    /\ todo.got = SubSeq(call.content, call.position + 1, s.currentPosition)
    /\ \E length \in Lengths :
          s.currentPosition + todo.toRead = Smaller(call.position + length, Len(call.content))

\* The first bytes of data are stored from the position on at which the call began,
\* the other ones are left, and the bytes around them are those of before.
Storing(s, left, call, data) ==
    LET done == s.currentPosition - call.position
    IN  /\ done >= 0 /\ Len(data) = done + Len(left)
        /\ \A k \in 1..Len(left) : left[k] = data[done + k]
        /\ \A k \in 1..done : s.bytes[call.position + k] = data[k]
        /\ \A k \in 1..Len(call.content) :
              k \notin (call.position + 1)..s.currentPosition => s.bytes[k] = call.content[k]
        /\ s.currentPosition <= EntireSize(s) /\ Len(call.content) <= s.size
        /\ Larger(s.size, s.currentPosition) = Larger(Len(call.content), s.currentPosition)

\* What a call that is under way has done so far.
CallAgrees ==
    /\ pc = "reading" => Delivering(Reached(stream, job), job, before)
    /\ pc \in {"starting", "writing", "copying", "filling"} =>
          \E data \in Contents \cup {<<>>} :
             Storing(stream, job.rest \o job.source, before, data)
    /\ pc = "copying" => job.rest = <<>>

-----------------------------------------------------------------------------
(* What the documentation promises and the code does not do.               *)

\* ByteArrayStream.java:74 "no more data can be added [...] However it's still
\* possible to override or truncate existing data": in a stream that has its
\* maximal size, a call that does not write behind it does not throw.
FullCanBeOverridden ==
    [][pc # "idle" /\ pc' = "idle" /\ answer' = Thrown => Len(before.content) < MaxSize]_vars
=============================================================================
