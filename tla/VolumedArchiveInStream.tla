------------------------ MODULE VolumedArchiveInStream ------------------------
(***************************************************************************)
(* VolumedArchiveInStream.java: the volumes of a split 7z archive as one   *)
(* seekable stream.  The volumes are asked for one by one, on demand, from *)
(* a callback of the user that may fail; the length of a volume becomes    *)
(* known when it is opened, the length of the whole stream when the        *)
(* callback has no further volume.                                         *)
(*                                                                         *)
(* Volume v holds the bytes Starts[v] .. Starts[v+1]-1 of the stream.      *)
(* Granularity: one action per call of getStream.  seek and read are       *)
(* synchronized, so a call begins only when no other is under way.         *)
(***************************************************************************)
EXTENDS Integers, Sequences

CONSTANTS
    Starts,    \* where the volumes start, and last the length of the stream
    Offsets,   \* offsets that callers seek to
    Sizes,     \* lengths of the buffers that callers read into
    Faults,    \* what may fail: a subset of KindsOfFault
    MaxFaults, \* bound: calls that throw
    Lost       \* no position

\* What throws: the callback, the seek of a new volume to its end or back to
\* its beginning, the seek or the read that a caller asked for, or a seek of the
\* caller to a negative position.
KindsOfFault == {"getStream", "measure", "rewind", "seek", "read", "negative"}

VolumeCount == Len(Starts) - 1
Length == Starts[Len(Starts)]

\* The constructor found the first volume; volumes are not empty.
ASSUME StartsAssumption ==
    /\ Starts \in Seq(Nat) /\ Len(Starts) >= 2 /\ Starts[1] = 0
    /\ \A i, j \in 1..Len(Starts) : i < j => Starts[i] < Starts[j]
ASSUME CallerAssumption ==
    /\ Offsets \subseteq Int /\ Sizes \subseteq Nat \ {0} /\ Faults \subseteq KindsOfFault
    /\ MaxFaults \in Nat /\ Lost \notin Int

Unknown == -1   \* absoluteLength before the last volume is known

VARIABLES
    absoluteOffset, absoluteLength,
    currentIndex,         \* the volume that was opened last and completely
    currentInStream,      \* the volume whose stream is in use
    streamPosition,       \* the position of that stream
    currentVolumeOffset, currentVolumeLength,
    torn,                 \* history: the stream in use is that of a new volume that
                          \* could not be measured or rewound, since when no volume
                          \* was opened
    volumePositions,      \* starts of the volumes found so far
    pc,                   \* the loop that the current call is in
    request,              \* what the current call has to finish
    answer,               \* history: what the last call returned
    whereabouts,          \* history: what the caller may know of the position
    faults                \* number of calls that threw

position == <<absoluteOffset, currentVolumeOffset>>
volume == <<currentIndex, currentInStream, currentVolumeLength, torn>>
found == <<absoluteLength, volumePositions>>
vars == <<position, volume, streamPosition, found, pc, request, answer, whereabouts, faults>>

\* The position of the caller: a call takes effect when it returns.
CallerPosition == IF pc = "idle" THEN absoluteOffset ELSE request.from

\* What may be expected of the stream when, after an exception, a seek counts
\* that moved, and when every seek that returned counts.
Stream == INSTANCE SeekableStream
          WITH position <- IF whereabouts = "known" THEN CallerPosition ELSE Lost,
               Recovers <- FALSE
Recovering == INSTANCE SeekableStream
              WITH position <- IF whereabouts = "lost" THEN Lost ELSE CallerPosition,
                   Recovers <- TRUE

\* from: where the call began; origin, offset: the arguments of seek; value:
\* what read will return.
NoRequest == [from |-> 0, origin |-> "none", offset |-> 0, value |-> Stream!Bytes(0, 0)]

Known == Len(volumePositions)      \* volumePositions.size()
LastKnown == volumePositions[Known]
AtEnd == absoluteLength # Unknown /\ absoluteOffset >= absoluteLength

-----------------------------------------------------------------------------
Init ==
    /\ absoluteOffset = 0 /\ absoluteLength = Unknown
    /\ currentIndex = 1 /\ currentInStream = 1 /\ streamPosition = 0
    /\ currentVolumeOffset = 0 /\ currentVolumeLength = Starts[2] /\ torn = FALSE
    /\ volumePositions = <<0, Starts[2]>>
    /\ pc = "idle" /\ request = NoRequest
    /\ answer = Stream!Nothing /\ whereabouts = "known" /\ faults = 0

-----------------------------------------------------------------------------
(* How a call ends.                                                        *)

Return(value) == pc' = "idle" /\ answer' = value /\ request' = NoRequest

\* seek returns p.  After an exception the position is known again when the
\* seek went to its target in the current volume, and assumed to be when it
\* returned without moving or moved a stream that is not the one of the current
\* volume; a seek relative to a lost position changes nothing.
ReturnSeek(origin, offset, p, moved) ==
    /\ Return(Stream!Moved(origin, offset, p))
    /\ whereabouts' = IF whereabouts = "known" \/ origin = "SEEK_CUR" THEN whereabouts
                      ELSE IF moved /\ ~torn THEN "known" ELSE "assumed"
    /\ UNCHANGED faults

Throw(fault) ==
    /\ fault \in Faults /\ faults < MaxFaults
    /\ faults' = faults + 1
    /\ Return(Stream!Thrown)
    /\ whereabouts' = "lost"

-----------------------------------------------------------------------------
(* openVolume                                                              *)

\* Mutant: the position of the volume is left out of the sum.
OpenUnknown_forgetsSum(seekToBegin) ==
    /\ absoluteLength = Unknown /\ Known <= VolumeCount
    /\ currentInStream' = Known /\ currentIndex' = Known /\ torn' = FALSE
    /\ currentVolumeLength' = Starts[Known + 1] - Starts[Known]
    /\ volumePositions' = Append(volumePositions, currentVolumeLength')
    /\ streamPosition' = IF seekToBegin THEN 0 ELSE currentVolumeLength'
    /\ UNCHANGED absoluteLength

\* The callback returns the next volume, which was not opened before: its
\* length is measured by a seek to its end.
OpenUnknown(seekToBegin) ==
    /\ absoluteLength = Unknown /\ Known <= VolumeCount
    /\ currentInStream' = Known /\ currentIndex' = Known /\ torn' = FALSE
    /\ currentVolumeLength' = Starts[Known + 1] - Starts[Known]
    /\ volumePositions' = Append(volumePositions, LastKnown + currentVolumeLength')
    /\ streamPosition' = IF seekToBegin THEN 0 ELSE currentVolumeLength'
    /\ UNCHANGED absoluteLength

\* Mutant: the stream of the volume is not put to use.
OpenKnown_keepsStream(index) ==
    /\ currentIndex' = index /\ torn' = FALSE
    /\ currentVolumeLength' = volumePositions[index + 1] - volumePositions[index]
    /\ streamPosition' = 0
    /\ UNCHANGED <<currentInStream, found>>

\* The callback returns a volume whose length is known, at its beginning.
OpenKnown(index) ==
    /\ currentInStream' = index /\ currentIndex' = index /\ torn' = FALSE
    /\ currentVolumeLength' = volumePositions[index + 1] - volumePositions[index]
    /\ streamPosition' = 0
    /\ UNCHANGED found

\* The callback has no further volume.
NoMoreVolumes ==
    /\ absoluteLength = Unknown /\ Known = VolumeCount + 1
    /\ absoluteLength' = LastKnown
    /\ UNCHANGED <<volume, streamPosition, volumePositions>>

\* A new volume is measured by a seek to its end and, for a read, rewound.
IsNew(index) == absoluteLength = Unknown /\ index = Known /\ Known <= VolumeCount

\* The callback throws, or one of these two seeks does: then the new stream is
\* in use already, and before the second its length and its place are kept.
OpeningFails(index, seekToBegin) ==
    \/ /\ Throw("getStream")
       /\ UNCHANGED <<volume, streamPosition, found, position>>
    \/ /\ Throw("measure") /\ IsNew(index)
       /\ currentInStream' = index /\ streamPosition' = 0 /\ torn' = TRUE
       /\ UNCHANGED <<currentIndex, currentVolumeLength, found, position>>
    \/ /\ Throw("rewind") /\ IsNew(index) /\ seekToBegin
       /\ currentInStream' = index /\ torn' = TRUE
       /\ currentVolumeLength' = Starts[index + 1] - Starts[index]
       /\ streamPosition' = currentVolumeLength'
       /\ volumePositions' = Append(volumePositions, LastKnown + currentVolumeLength')
       /\ UNCHANGED <<currentIndex, absoluteLength, position>>

-----------------------------------------------------------------------------
(* seek                                                                    *)

\* Bound: which targets callers choose.
Asked(target) == target < 0 => "negative" \in Faults /\ faults < MaxFaults

\* Where a seek goes on when its target is known.
Locate(newOffset, origin, offset, from) ==
    /\ Asked(newOffset)
    /\ absoluteOffset' = newOffset
    /\ pc' = "locate"
    /\ request' = [NoRequest EXCEPT !.from = from, !.origin = origin, !.offset = offset]
    /\ UNCHANGED <<currentVolumeOffset, answer, whereabouts, faults>>

\* Mutant: a seek within the current volume is taken for one that does not
\* move.
SeekTo_shortcutInVolume(newOffset, origin, offset) ==
    IF newOffset - absoluteOffset \in 0..(currentVolumeLength - currentVolumeOffset - 1)
    THEN /\ ReturnSeek(origin, offset, newOffset, FALSE)
         /\ absoluteOffset' = newOffset /\ UNCHANGED currentVolumeOffset
    ELSE Locate(newOffset, origin, offset, absoluteOffset)

\* A seek that does not move returns at once.
SeekTo(newOffset, origin, offset) ==
    IF newOffset = absoluteOffset
    THEN ReturnSeek(origin, offset, newOffset, FALSE) /\ UNCHANGED position
    ELSE Locate(newOffset, origin, offset, absoluteOffset)

Seek ==
    /\ pc = "idle"
    /\ \E offset \in Offsets :
          \/ SeekTo(offset, "SEEK_SET", offset)
          \/ SeekTo(absoluteOffset + offset, "SEEK_CUR", offset)
          \/ absoluteLength # Unknown /\ SeekTo(absoluteLength + offset, "SEEK_END", offset)
    /\ UNCHANGED <<volume, streamPosition, found>>

\* SEEK_END when the length is not known: all volumes are opened first.
SeekEnd ==
    /\ pc = "idle" /\ absoluteLength = Unknown
    /\ pc' = "measure"
    /\ \E offset \in Offsets :
          /\ Asked(Length + offset)
          /\ request' = [NoRequest EXCEPT !.from = absoluteOffset,
                                          !.origin = "SEEK_END", !.offset = offset]
    /\ UNCHANGED <<position, volume, streamPosition, found, answer, whereabouts, faults>>

MeasureNext ==
    /\ pc = "measure"
    /\ OpenUnknown(FALSE)
    /\ UNCHANGED <<position, pc, request, answer, whereabouts, faults>>

MeasureEnd ==
    /\ pc = "measure"
    /\ NoMoreVolumes
    /\ Locate(LastKnown + request.offset, "SEEK_END", request.offset, request.from)

\* openVolumeToAbsoluteOffset: a volume that is known and not current.
IsIn(index) == /\ volumePositions[index] <= absoluteOffset
               /\ absoluteOffset < volumePositions[index + 1]

LocateKnown ==
    /\ pc = "locate" /\ ~AtEnd
    /\ \E index \in 1..(Known - 1) : IsIn(index) /\ currentIndex # index /\ OpenKnown(index)
    /\ UNCHANGED <<position, pc, request, answer, whereabouts, faults>>

\* The offset is behind the volumes found so far.
LocateNext ==
    /\ pc = "locate" /\ ~AtEnd
    /\ LastKnown <= absoluteOffset
    /\ OpenUnknown(FALSE) \/ NoMoreVolumes
    /\ UNCHANGED <<position, pc, request, answer, whereabouts, faults>>

\* The list of positions has no volume for a negative offset.
LocateNegative ==
    /\ pc = "locate" /\ absoluteOffset < 0
    /\ Throw("negative")
    /\ UNCHANGED <<position, volume, streamPosition, found>>

\* Behind the end.
ClampToEnd ==
    /\ pc = "locate" /\ AtEnd
    /\ absoluteOffset' = absoluteLength
    /\ ReturnSeek(request.origin, request.offset, absoluteLength, TRUE)
    /\ UNCHANGED <<currentVolumeOffset, volume, streamPosition, found>>

\* The volume is open.
Reposition ==
    /\ pc = "locate" /\ ~AtEnd /\ currentIndex < Known /\ IsIn(currentIndex)
    /\ currentVolumeOffset' = absoluteOffset - volumePositions[currentIndex]
    /\ \/ /\ streamPosition' = currentVolumeOffset'
          /\ ReturnSeek(request.origin, request.offset, absoluteOffset, TRUE)
       \/ UNCHANGED streamPosition /\ Throw("seek")
    /\ UNCHANGED <<absoluteOffset, volume, found>>

-----------------------------------------------------------------------------
(* read                                                                    *)

ReadAtEnd ==
    /\ pc = "idle" /\ AtEnd
    /\ Return(Stream!Bytes(absoluteOffset, 0))
    /\ UNCHANGED <<position, volume, streamPosition, found, whereabouts, faults>>

\* Where in the whole stream the current stream is.
Delivering == Starts[currentInStream] + streamPosition
VolumeRest == Starts[currentInStream + 1] - Delivering

Read ==
    /\ pc = "idle" /\ ~AtEnd
    /\ \E size \in Sizes :
       \E n \in (IF VolumeRest <= 0 THEN {0}
                 ELSE 1..(IF size < VolumeRest THEN size ELSE VolumeRest)) :
          /\ absoluteOffset' = absoluteOffset + n
          /\ currentVolumeOffset' = currentVolumeOffset + n
          /\ streamPosition' = streamPosition + n
          /\ IF currentVolumeOffset' >= currentVolumeLength
             THEN /\ pc' = "advance"
                  /\ request' = [NoRequest EXCEPT !.from = absoluteOffset,
                                                  !.value = Stream!Bytes(Delivering, n)]
                  /\ UNCHANGED <<answer, whereabouts, faults>>
             ELSE Return(Stream!Bytes(Delivering, n)) /\ UNCHANGED <<whereabouts, faults>>
    /\ UNCHANGED <<volume, found>>

ReadFails ==
    /\ pc = "idle" /\ ~AtEnd
    /\ Throw("read")
    /\ UNCHANGED <<position, volume, streamPosition, found>>

\* Mutant: the offset within the volume is not reset.
Advance_keepsVolumeOffset ==
    /\ pc = "advance"
    /\ \/ /\ \/ Known = currentIndex + 1 /\ OpenUnknown(TRUE)
             \/ Known > currentIndex + 1 /\ OpenKnown(currentIndex + 1)
          /\ absoluteOffset' = volumePositions[currentIndex + 1]
          /\ UNCHANGED currentVolumeOffset
       \/ Known = currentIndex + 1 /\ NoMoreVolumes /\ UNCHANGED position
       \/ /\ absoluteLength # Unknown /\ Known <= currentIndex + 1
          /\ UNCHANGED <<position, volume, streamPosition, found>>
    /\ Return(request.value)
    /\ UNCHANGED <<whereabouts, faults>>

\* The volume was read to its end: openVolume(currentIndex + 1, true).
Advance ==
    /\ pc = "advance"
    /\ \/ /\ \/ Known = currentIndex + 1 /\ OpenUnknown(TRUE)
             \/ Known > currentIndex + 1 /\ OpenKnown(currentIndex + 1)
          /\ absoluteOffset' = volumePositions[currentIndex + 1]
          /\ currentVolumeOffset' = 0
       \/ Known = currentIndex + 1 /\ NoMoreVolumes /\ UNCHANGED position
       \/ /\ absoluteLength # Unknown /\ Known <= currentIndex + 1
          /\ UNCHANGED <<position, volume, streamPosition, found>>
    /\ Return(request.value)
    /\ UNCHANGED <<whereabouts, faults>>

\* A call to the callback, or a seek after it, throws.
VolumeFails ==
    \/ pc = "measure" /\ OpeningFails(Known, FALSE)
    \/ /\ pc = "locate" /\ ~AtEnd
       /\ \/ LastKnown <= absoluteOffset /\ OpeningFails(Known, FALSE)
          \/ \E index \in 1..(Known - 1) :
                IsIn(index) /\ currentIndex # index /\ OpeningFails(index, FALSE)
    \/ /\ pc = "advance" /\ (absoluteLength = Unknown \/ Known > currentIndex + 1)
       /\ OpeningFails(currentIndex + 1, TRUE)

-----------------------------------------------------------------------------
Next == \/ Seek \/ SeekEnd \/ MeasureNext \/ MeasureEnd
        \/ LocateKnown \/ LocateNext \/ LocateNegative \/ ClampToEnd \/ Reposition
        \/ ReadAtEnd \/ Read \/ ReadFails \/ Advance \/ VolumeFails

Spec == Init /\ [][Next]_vars
-----------------------------------------------------------------------------
(* Properties.                                                             *)

Volumes == 1..VolumeCount
Requests == [from : Int, origin : Stream!Origins \cup {"none"}, offset : Int,
             value : [call : {"read"}, at : Int, count : Nat]]

\* The variables of the stream have their types.
TypeOK ==
    /\ absoluteOffset \in Int /\ absoluteLength \in {Unknown, Length}
    /\ currentIndex \in Volumes /\ currentInStream \in Volumes /\ streamPosition \in Nat
    /\ currentVolumeOffset \in Nat /\ currentVolumeLength \in Nat /\ torn \in BOOLEAN
    /\ volumePositions \in Seq(Nat)
    /\ pc \in {"idle", "measure", "locate", "advance"} /\ request \in Requests
    /\ whereabouts \in {"known", "assumed", "lost"} /\ faults \in Nat

\* Where the stream stands: on the current volume, at the offset that the
\* absolute offset demands.  Between two calls nothing else records it, and a
\* seek that does not move and every read rely on it.
InSync ==
    /\ currentInStream = currentIndex
    /\ streamPosition = currentVolumeOffset
    /\ absoluteOffset = Starts[currentIndex] + currentVolumeOffset
    /\ currentVolumeOffset < currentVolumeLength
    /\ currentVolumeLength = Starts[currentIndex + 1] - Starts[currentIndex]

\* However calls fail, the volumes found are the first ones, at their places,
\* the length is never wrong, and the stream in use is that of a volume found.
PositionsFound ==
    /\ Known \in 2..(VolumeCount + 1)
    /\ volumePositions = SubSeq(Starts, 1, Known)
    /\ absoluteLength # Unknown => Known = VolumeCount + 1
    /\ currentIndex < Known

\* Exactly at the end, which is known.
AtLength == absoluteLength # Unknown /\ absoluteOffset = absoluteLength

\* The stream is in sync between two calls, unless it is at its end: also
\* after whatever threw, as soon as a seek moved, and when it was measuring or
\* rewinding a new volume, as soon as a seek moved after a volume was opened.
KnownIsInSync == pc = "idle" /\ whereabouts = "known" => InSync \/ AtLength

\* Also while volumes are looked for and after whatever threw, the stream in
\* use is the one of the current volume, which its recorded length belongs to:
\* only between a failure to measure or rewind a new volume and the next volume
\* that is opened it may be another one.
CurrentVolumeAgrees ==
    ~torn => /\ currentInStream = currentIndex
             /\ currentVolumeLength = Starts[currentIndex + 1] - Starts[currentIndex]

\* A position that is known is one in the current volume.
KnownIsWhole == whereabouts = "known" => ~torn

\* A seek under way goes to the target that its caller asked for.
SeekUnderWay ==
    /\ pc \in {"measure", "locate"} =>
          request.origin \in Stream!Origins /\ request.offset \in Offsets
    /\ pc = "measure" => request.origin = "SEEK_END"
    /\ pc = "locate" =>
          /\ request.origin = "SEEK_SET" => absoluteOffset = request.offset
          /\ request.origin = "SEEK_END" => absoluteOffset = Length + request.offset
          /\ request.origin = "SEEK_CUR" /\ whereabouts = "known" =>
                absoluteOffset = request.from + request.offset

\* A read under way has read its volume to the end.
ReadUnderWay ==
    pc = "advance" /\ whereabouts = "known" =>
    /\ request.value.at = request.from
    /\ request.value.count > 0
    /\ absoluteOffset = request.from + request.value.count
    /\ absoluteOffset = Starts[currentIndex + 1]

\* The inductive invariant.
IInv == /\ TypeOK /\ PositionsFound /\ CurrentVolumeAgrees /\ KnownIsWhole
        /\ KnownIsInSync /\ SeekUnderWay /\ ReadUnderWay

\* The volumes are one seekable stream: every read delivers the bytes at the
\* position of the caller, never skips one at the border of two volumes, and
\* ends where the last volume ends.  After an exception this holds again from
\* the first seek that moved, and when a new volume could not be measured or
\* rewound, from the first that moved after a volume was opened.
ImplementsStream == Stream!Spec

-----------------------------------------------------------------------------
(* What the interface promises and the code does not do.                   *)

\* ISeekableStream.java:29 "Move current location pointer to the new offset",
\* :44 "@return new absolute position in the stream": also after a call that
\* threw, a seek that returns has moved the stream.
SeekRecovers == Recovering!Spec
=============================================================================
