--------------------------- MODULE SeekableStream ---------------------------
(***************************************************************************)
(* What 7-Zip may expect of an input stream (IInStream: ISeekableStream    *)
(* and ISequentialInStream).  A byte stands for its position, so a read    *)
(* delivers an interval.  When a call throws, the position is lost until a *)
(* seek that does not depend on it returns.                                *)
(*                                                                         *)
(* This is the abstract specification that VolumedArchiveInStream          *)
(* implements.                                                             *)
(***************************************************************************)
EXTENDS Integers

CONSTANTS
    Length,   \* number of bytes of the stream
    Offsets,  \* the offsets that callers seek to
    Lost,     \* the position after a call that threw
    Recovers  \* whether every such seek finds the position again

VARIABLES
    position, \* where the next read begins, or Lost
    answer    \* the last call and what its caller got

streamVars == <<position, answer>>

Origins == {"SEEK_SET", "SEEK_CUR", "SEEK_END"}

Nothing == [call |-> "none"]
Thrown == [call |-> "thrown"]
Moved(origin, offset, p) == [call |-> origin, offset |-> offset, at |-> p]
Bytes(p, n) == [call |-> "read", at |-> p, count |-> n]

Target(origin, offset) ==
    offset + CASE origin = "SEEK_SET" -> 0
               [] origin = "SEEK_CUR" -> position
               [] origin = "SEEK_END" -> Length

\* A position behind the end is the end.
Clamped(p) == IF p > Length THEN Length ELSE p

Init == position = 0 /\ answer = Nothing

Seek(origin, offset) ==
    /\ origin = "SEEK_CUR" => position # Lost
    /\ Target(origin, offset) >= 0
    /\ position' = Clamped(Target(origin, offset))
    /\ answer' = Moved(origin, offset, Clamped(Target(origin, offset)))

\* At least one byte, unless the end is reached (or the buffer is empty).
Read ==
    /\ position # Lost
    /\ \E n \in (IF position >= Length THEN {0} ELSE 1..(Length - position)) :
          answer' = Bytes(position, n) /\ position' = position + n

\* Nothing is promised of the answers while the position is lost.
LostCall ==
    /\ position = Lost /\ UNCHANGED position
    /\ Recovers => answer'.call \in {"SEEK_CUR", "read"}

Fail == position' = Lost /\ answer' = Thrown

Next == \/ \E origin \in Origins, offset \in Offsets : Seek(origin, offset)
        \/ Read \/ LostCall \/ Fail

Spec == Init /\ [][Next]_streamVars
=============================================================================
