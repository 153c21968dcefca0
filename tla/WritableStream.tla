--------------------------- MODULE WritableStream ---------------------------
(***************************************************************************)
(* What a caller may expect of a stream that can be read, written, sought  *)
(* and resized (IInStream and IOutStream) and that keeps at most MaxSize   *)
(* bytes: a sequence of bytes and a position.  Places that were never      *)
(* written may hold any byte.                                              *)
(*                                                                         *)
(* This is the abstract specification that ByteArrayStream implements.     *)
(***************************************************************************)
EXTENDS Integers, Sequences

CONSTANTS
    Contents, \* what callers write at once
    Lengths,  \* lengths of their buffers and sizes they set
    Offsets,  \* offsets they seek to
    MaxSize   \* the maximal size of the stream

VARIABLES
    content,  \* the bytes of the stream
    position, \* where the next call reads or writes; may be behind the end
    answer    \* what the last call handed out

streamVars == <<content, position, answer>>

Origins == {"SEEK_SET", "SEEK_CUR", "SEEK_END"}

Nothing == [call |-> "none"]
Moved(origin, offset, p) == [call |-> origin, offset |-> offset, at |-> p]
Delivered(data) == [call |-> "read", data |-> data]
Shown(data, p) == [call |-> "inspect", data |-> data, at |-> p, eof |-> p >= Len(data)]
Interrupted == [call |-> "interrupted"]
Refused(target) == [call |-> "refused", target |-> target]

Smaller(a, b) == IF a < b THEN a ELSE b
Larger(a, b) == IF a > b THEN a ELSE b

Init == content = <<>> /\ position = 0 /\ answer = Nothing

\* The bytes that both sequences have are the same, except in the places.
SameOutside(old, new, places) ==
    \A i \in (1..Smaller(Len(old), Len(new))) \ places : new[i] = old[i]

Target(origin, offset) ==
    offset + CASE origin = "SEEK_SET" -> 0
               [] origin = "SEEK_CUR" -> position
               [] origin = "SEEK_END" -> Len(content)

Seek(origin, offset) ==
    /\ Target(origin, offset) \in 0..MaxSize
    /\ position' = Target(origin, offset)
    /\ answer' = Moved(origin, offset, position')
    /\ UNCHANGED content

Rewind == Seek("SEEK_SET", 0)

\* As many bytes as there are, up to the length of the buffer.
Read(length) ==
    /\ answer' = Delivered(SubSeq(content, position + 1, Smaller(position + length, Len(content))))
    /\ position' = Larger(position, Smaller(position + length, Len(content)))
    /\ UNCHANGED content

Stores(data) ==
    /\ Len(content') = Larger(Len(content), position + Len(data))
    /\ Len(content') <= MaxSize
    /\ \A i \in 1..Len(data) : content'[position + i] = data[i]
    /\ SameOutside(content, content', (position + 1)..(position + Len(data)))
    /\ position' = position + Len(data)

Write(data) == Stores(data) /\ answer' = Nothing

\* The source of the data throws half way.
Interrupt(data) ==
    /\ \E n \in 0..Len(data) : Stores(SubSeq(data, 1, n))
    /\ answer' = Interrupted

\* A position behind the new end is moved there.
SetSize(newSize) ==
    /\ newSize <= MaxSize
    /\ Len(content') = newSize /\ SameOutside(content, content', {})
    /\ position' = IF newSize = 0 \/ newSize < Len(content)
                   THEN Smaller(position, newSize) ELSE position
    /\ answer' = Nothing

\* setBytes: the position is the beginning again.
Replace(data) == content' = data /\ position' = 0 /\ answer' = Nothing

Inspect ==
    /\ answer' = Shown(content, position)
    /\ UNCHANGED <<content, position>>

\* A seek, a size or a write behind the maximal size.
Refuse ==
    /\ answer'.call = "refused" /\ answer'.target > MaxSize
    /\ UNCHANGED <<content, position>>

Next == \/ \E origin \in Origins, offset \in Offsets : Seek(origin, offset)
        \/ \E length \in Lengths : Read(length) \/ SetSize(length)
        \/ \E data \in Contents : Write(data) \/ Interrupt(data) \/ Replace(data)
        \/ Rewind \/ Inspect \/ Refuse

Spec == Init /\ [][Next]_streamVars
=============================================================================
