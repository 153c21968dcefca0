--------------------- MODULE VolumedArchiveInStream_proofs ---------------------
(***************************************************************************)
(* The volumes of an archive are one seekable stream: the inductive        *)
(* invariant of VolumedArchiveInStream and the refinement of               *)
(* SeekableStream, for any number of volumes of any length, whatever       *)
(* fails.                                                                  *)
(***************************************************************************)
EXTENDS VolumedArchiveInStream, TLAPS

-----------------------------------------------------------------------------
(* The data: where the volumes start.                                      *)

\* Volumes are not empty and all of them lie before the end of the stream.
LEMMA StartsFacts ==
    /\ VolumeCount \in Nat \ {0} /\ Length \in Nat /\ Starts[1] = 0
    /\ Len(Starts) = VolumeCount + 1 /\ Length = Starts[VolumeCount + 1]
    /\ \A i \in 1..(VolumeCount + 1) : Starts[i] \in Nat /\ Starts[i] <= Length
    /\ \A v \in Volumes : Starts[v] < Starts[v + 1]
<1>1. VolumeCount \in Nat \ {0} /\ Len(Starts) = VolumeCount + 1
  BY StartsAssumption DEF VolumeCount
<1>2. \A i \in 1..(VolumeCount + 1) : Starts[i] \in Nat
  BY <1>1, StartsAssumption
<1>3. Length = Starts[VolumeCount + 1] /\ Length \in Nat
  BY <1>1, <1>2 DEF Length
<1>4. ASSUME NEW i \in 1..(VolumeCount + 1) PROVE Starts[i] <= Length
  <2>1. CASE i = VolumeCount + 1 BY <2>1, <1>2, <1>3
  <2>2. CASE i < VolumeCount + 1
    <3>1. Starts[i] < Starts[VolumeCount + 1] BY <1>1, <2>2, StartsAssumption
    <3> QED BY <3>1, <1>2, <1>3
  <2> QED BY <1>1, <2>1, <2>2
<1>5. ASSUME NEW v \in Volumes PROVE Starts[v] < Starts[v + 1]
  <2>1. v \in 1..Len(Starts) /\ v + 1 \in 1..Len(Starts) /\ v < v + 1 BY <1>1 DEF Volumes
  <2> QED BY <2>1, StartsAssumption
<1> QED BY <1>1, <1>2, <1>3, <1>4, <1>5, StartsAssumption

\* The part of the invariant about the volumes found and the one in use.
OpenOK ==
    /\ absoluteLength \in {Unknown, Length}
    /\ currentIndex \in Volumes /\ currentInStream \in Volumes
    /\ currentVolumeLength \in Nat /\ torn \in BOOLEAN /\ volumePositions \in Seq(Nat)
    /\ PositionsFound /\ CurrentVolumeAgrees

\* The part about the call under way.
CallOK ==
    /\ absoluteOffset \in Int /\ currentVolumeOffset \in Nat /\ streamPosition \in Nat
    /\ pc \in {"idle", "measure", "locate", "advance"} /\ request \in Requests
    /\ whereabouts \in {"known", "assumed", "lost"} /\ faults \in Nat
    /\ KnownIsWhole /\ KnownIsInSync /\ SeekUnderWay /\ ReadUnderWay

LEMMA IInvParts == IInv <=> OpenOK /\ CallOK
  BY DEF IInv, TypeOK, OpenOK, CallOK

LEMMA IInvPartsNext == (OpenOK /\ CallOK)' => IInv'
  BY DEF IInv, TypeOK, OpenOK, CallOK

\* The positions found are those of the volumes.
LEMMA FoundFacts ==
    ASSUME OpenOK
    PROVE  /\ Known \in 2..(VolumeCount + 1)
           /\ \A i \in 1..Known : volumePositions[i] = Starts[i]
           /\ LastKnown = Starts[Known]
           /\ currentIndex < Known
           /\ absoluteLength # Unknown => Known = VolumeCount + 1 /\ absoluteLength = Length
<1>1. /\ Known \in 2..(VolumeCount + 1) /\ volumePositions = SubSeq(Starts, 1, Known)
      /\ currentIndex < Known
  BY DEF OpenOK, PositionsFound
<1>2. \A i \in 1..Known : volumePositions[i] = Starts[i]
  <2> DEFINE k == Known
  <2>1. k \in 2..(VolumeCount + 1) /\ volumePositions = SubSeq(Starts, 1, k) BY <1>1
  <2>2. Starts \in Seq(Nat) /\ Len(Starts) = VolumeCount + 1 /\ VolumeCount \in Nat
    BY StartsFacts, StartsAssumption
  <2> HIDE DEF k
  <2>3. \A i \in 1..k : SubSeq(Starts, 1, k)[i] = Starts[i] BY <2>1, <2>2
  <2> QED BY <2>1, <2>3 DEF k
<1>3. LastKnown = Starts[Known] BY <1>1, <1>2, StartsFacts DEF LastKnown
<1>4. absoluteLength # Unknown => Known = VolumeCount + 1 /\ absoluteLength = Length
  BY DEF OpenOK, PositionsFound
<1> QED BY <1>1, <1>2, <1>3, <1>4

-----------------------------------------------------------------------------
(* openVolume                                                              *)

LEMMA OpenUnknownOK ==
    ASSUME OpenOK, streamPosition \in Nat, NEW b \in BOOLEAN, OpenUnknown(b)
    PROVE  /\ OpenOK' /\ streamPosition' \in Nat
           /\ currentIndex' = Known /\ Known' = Known + 1 /\ torn' = FALSE
           /\ b => streamPosition' = 0
<1> DEFINE k == Known
<1>1. /\ k \in 2..(VolumeCount + 1) /\ k <= VolumeCount
      /\ volumePositions = SubSeq(Starts, 1, k) /\ volumePositions \in Seq(Nat)
      /\ LastKnown = Starts[k] /\ Len(volumePositions) = k
  BY FoundFacts DEF OpenUnknown, OpenOK, PositionsFound, Known
<1>2. /\ absoluteLength = Unknown /\ absoluteLength' = Unknown
      /\ currentInStream' = k /\ currentIndex' = k /\ torn' = FALSE
      /\ currentVolumeLength' = Starts[k + 1] - Starts[k]
      /\ volumePositions' = Append(volumePositions, LastKnown + currentVolumeLength')
      /\ streamPosition' = IF b THEN 0 ELSE currentVolumeLength'
  BY DEF OpenUnknown
<1>3. Known' = Len(volumePositions') BY DEF Known
<1> HIDE DEF k
<1>4. k \in Volumes /\ k \in Nat BY <1>1, StartsFacts DEF Volumes
<1>5. /\ Starts[k] \in Nat /\ Starts[k + 1] \in Nat /\ Starts[k] < Starts[k + 1]
  BY <1>1, <1>4, StartsFacts
<1>6. LastKnown + currentVolumeLength' = Starts[k + 1] /\ currentVolumeLength' \in Nat
  BY <1>1, <1>2, <1>5
<1>7. volumePositions' = Append(SubSeq(Starts, 1, k), Starts[k + 1]) BY <1>1, <1>2, <1>6
<1>8. volumePositions' = SubSeq(Starts, 1, k + 1) /\ Len(volumePositions') = k + 1
  <2>1. Starts \in Seq(Nat) /\ k + 1 <= Len(Starts) BY <1>1, StartsFacts, StartsAssumption
  <2> QED BY <1>1, <1>4, <1>7, <2>1
<1>9. volumePositions' \in Seq(Nat) BY <1>1, <1>2, <1>5, <1>6
<1>10. PositionsFound' BY <1>1, <1>2, <1>3, <1>4, <1>8, StartsFacts DEF PositionsFound
<1>11. CurrentVolumeAgrees' BY <1>2 DEF CurrentVolumeAgrees
<1>12. OpenOK' BY <1>2, <1>4, <1>6, <1>9, <1>10, <1>11 DEF OpenOK
<1> QED BY <1>2, <1>3, <1>6, <1>8, <1>12 DEF k

LEMMA OpenKnownOK ==
    ASSUME OpenOK, NEW index \in 1..(Known - 1), OpenKnown(index)
    PROVE  /\ OpenOK' /\ streamPosition' = 0 /\ currentIndex' = index /\ Known' = Known
           /\ torn' = FALSE
<1>1. /\ currentInStream' = index /\ currentIndex' = index /\ streamPosition' = 0
      /\ torn' = FALSE
      /\ currentVolumeLength' = volumePositions[index + 1] - volumePositions[index]
      /\ absoluteLength' = absoluteLength /\ volumePositions' = volumePositions
  BY DEF OpenKnown, found
<1>2. Known' = Known /\ Known \in 2..(VolumeCount + 1) BY <1>1, FoundFacts DEF Known
<1> HIDE DEF Known
<1>3. index \in Volumes /\ index < Known /\ index + 1 \in 1..Known /\ index \in 1..Known
  BY <1>2, StartsFacts DEF Volumes
<1>4. currentVolumeLength' = Starts[index + 1] - Starts[index] BY <1>1, <1>3, FoundFacts
<1>5. currentVolumeLength' \in Nat
  <2>1. /\ Starts[index] \in Nat /\ Starts[index + 1] \in Nat /\ Starts[index] < Starts[index + 1]
    BY <1>2, <1>3, StartsFacts
  <2> QED BY <1>4, <2>1
<1>6. PositionsFound' BY <1>1, <1>2, <1>3 DEF OpenOK, PositionsFound
<1>7. CurrentVolumeAgrees' BY <1>1, <1>4 DEF CurrentVolumeAgrees
<1> QED BY <1>1, <1>2, <1>3, <1>5, <1>6, <1>7 DEF OpenOK

LEMMA NoMoreVolumesOK ==
    ASSUME OpenOK, NoMoreVolumes
    PROVE  /\ OpenOK' /\ absoluteLength' = Length /\ Known = VolumeCount + 1
           /\ LastKnown = Length /\ UNCHANGED <<volume, streamPosition, volumePositions>>
<1>1. /\ absoluteLength' = LastKnown /\ Known = VolumeCount + 1
      /\ UNCHANGED <<volume, streamPosition, volumePositions>>
  BY DEF NoMoreVolumes
<1>2. LastKnown = Length BY <1>1, FoundFacts, StartsFacts
<1>3. Known' = Known BY <1>1 DEF Known
<1>4. PositionsFound' BY <1>1, <1>3 DEF OpenOK, PositionsFound, volume
<1>5. CurrentVolumeAgrees' BY <1>1 DEF OpenOK, CurrentVolumeAgrees, volume
<1> QED BY <1>1, <1>2, <1>4, <1>5 DEF OpenOK, volume

LEMMA UnchangedOK ==
    ASSUME OpenOK, UNCHANGED <<volume, found>>
    PROVE  OpenOK' /\ Known' = Known
  BY DEF OpenOK, volume, found, PositionsFound, CurrentVolumeAgrees, Known

\* A volume that is not opened: the volumes found and the current one are still
\* right, and the offsets are left alone.
LEMMA OpeningFailsOK ==
    ASSUME OpenOK, streamPosition \in Nat, NEW index, NEW b, OpeningFails(index, b)
    PROVE  /\ OpenOK' /\ streamPosition' \in Nat
           /\ \E f : Throw(f) /\ UNCHANGED position
<1>1. CASE Throw("getStream") /\ UNCHANGED <<volume, streamPosition, found, position>>
  BY <1>1, UnchangedOK
<1> DEFINE k == Known
<1>2. ASSUME IsNew(index)
      PROVE  /\ index = k /\ k \in Volumes /\ k \in 2..(VolumeCount + 1)
             /\ volumePositions = SubSeq(Starts, 1, k) /\ LastKnown = Starts[k]
             /\ absoluteLength = Unknown /\ currentIndex < k
  BY <1>2, FoundFacts, StartsFacts DEF IsNew, Volumes, OpenOK, PositionsFound
<1>3. CASE /\ Throw("measure") /\ IsNew(index)
           /\ currentInStream' = index /\ streamPosition' = 0 /\ torn' = TRUE
           /\ UNCHANGED <<currentIndex, currentVolumeLength, found, position>>
  <2>1. Known' = Known BY <1>3 DEF Known, found
  <2>2. PositionsFound' BY <1>3, <2>1 DEF OpenOK, PositionsFound, found
  <2>3. CurrentVolumeAgrees' BY <1>3 DEF CurrentVolumeAgrees
  <2> QED BY <1>2, <1>3, <2>2, <2>3 DEF OpenOK, found
<1>4. CASE /\ Throw("rewind") /\ IsNew(index) /\ b
           /\ currentInStream' = index /\ torn' = TRUE
           /\ currentVolumeLength' = Starts[index + 1] - Starts[index]
           /\ streamPosition' = currentVolumeLength'
           /\ volumePositions' = Append(volumePositions, LastKnown + currentVolumeLength')
           /\ UNCHANGED <<currentIndex, absoluteLength, position>>
  <2>1. Known' = Len(volumePositions') BY DEF Known
  <2>2. currentIndex \in Volumes BY DEF OpenOK
  <2> HIDE DEF k
  <2>3. /\ index = k /\ k \in Nat /\ k \in Volumes /\ currentIndex < k /\ k \in 2..VolumeCount
        /\ volumePositions = SubSeq(Starts, 1, k) /\ LastKnown = Starts[k]
        /\ absoluteLength = Unknown
    <3>1. IsNew(index) BY <1>4
    <3>2. /\ index = k /\ k \in Volumes /\ k \in 2..(VolumeCount + 1)
          /\ volumePositions = SubSeq(Starts, 1, k) /\ LastKnown = Starts[k]
          /\ absoluteLength = Unknown /\ currentIndex < k
      BY <1>2, <3>1
    <3>3. VolumeCount \in Nat BY StartsFacts
    <3>4. k \in Nat /\ k \in 2..VolumeCount BY <3>2, <3>3 DEF Volumes
    <3> QED BY <3>2, <3>4
  <2>4. Starts[k] \in Nat /\ Starts[k + 1] \in Nat /\ Starts[k] < Starts[k + 1]
    BY <2>3, StartsFacts
  <2>5. LastKnown + currentVolumeLength' = Starts[k + 1] /\ currentVolumeLength' \in Nat
    BY <1>4, <2>3, <2>4
  <2>6. volumePositions' = Append(SubSeq(Starts, 1, k), Starts[k + 1]) BY <1>4, <2>3, <2>5
  <2>7. volumePositions' = SubSeq(Starts, 1, k + 1) /\ Len(volumePositions') = k + 1
    <3>1. Starts \in Seq(Nat) /\ k + 1 <= Len(Starts) /\ VolumeCount \in Nat
      BY <2>3, StartsFacts, StartsAssumption
    <3> QED BY <2>3, <2>6, <3>1
  <2>8. volumePositions' \in Seq(Nat)
    <3>1. volumePositions \in Seq(Nat) BY DEF OpenOK
    <3> QED BY <1>4, <2>4, <2>5, <3>1
  <2>9. PositionsFound'
    BY <1>4, <2>1, <2>2, <2>3, <2>7, StartsFacts DEF PositionsFound, Volumes
  <2>10. CurrentVolumeAgrees' BY <1>4 DEF CurrentVolumeAgrees
  <2>11. OpenOK' BY <1>4, <2>2, <2>3, <2>5, <2>8, <2>9, <2>10 DEF OpenOK
  <2> QED BY <1>4, <2>5, <2>11
<1> QED BY <1>1, <1>3, <1>4 DEF OpeningFails

-----------------------------------------------------------------------------
(* How calls begin and end.                                                *)

LEMMA NoRequestType == NoRequest \in Requests
  BY DEF NoRequest, Requests, Stream!Bytes

LEMMA EndOK ==
    ASSUME absoluteOffset' \in Int, currentVolumeOffset' \in Nat, streamPosition' \in Nat,
           pc' = "idle", request' = NoRequest, faults' \in Nat,
           whereabouts' \in {"known", "assumed", "lost"}, KnownIsWhole', KnownIsInSync'
    PROVE  CallOK'
  BY NoRequestType DEF CallOK, SeekUnderWay, ReadUnderWay

LEMMA ThrowOK ==
    ASSUME CallOK, NEW f, Throw(f),
           absoluteOffset' \in Int, currentVolumeOffset' \in Nat, streamPosition' \in Nat
    PROVE  CallOK'
<1>1. /\ pc' = "idle" /\ request' = NoRequest /\ faults' \in Nat /\ whereabouts' = "lost"
  BY DEF Throw, Return, CallOK
<1>2. KnownIsWhole' /\ KnownIsInSync' BY <1>1 DEF KnownIsWhole, KnownIsInSync
<1> QED BY <1>1, <1>2, EndOK

\* A seek that returns where the stream is in sync or at its end.
LEMMA ReturnSeekOK ==
    ASSUME CallOK, NEW origin, NEW offset, NEW p, NEW moved \in BOOLEAN,
           ReturnSeek(origin, offset, p, moved), UNCHANGED volume,
           absoluteOffset' \in Int, currentVolumeOffset' \in Nat, streamPosition' \in Nat,
           ~torn /\ (moved \/ whereabouts = "known") => (InSync \/ AtLength)'
    PROVE  CallOK'
<1>1. /\ pc' = "idle" /\ request' = NoRequest /\ faults' \in Nat
      /\ whereabouts' = IF whereabouts = "known" \/ origin = "SEEK_CUR" THEN whereabouts
                        ELSE IF moved /\ ~torn THEN "known" ELSE "assumed"
  BY DEF ReturnSeek, Return, CallOK
<1>2. whereabouts \in {"known", "assumed", "lost"} BY DEF CallOK
<1>3. whereabouts' \in {"known", "assumed", "lost"} BY <1>1, <1>2
<1>4. whereabouts' = "known" => ~torn /\ (whereabouts = "known" \/ moved)
  BY <1>1 DEF CallOK, KnownIsWhole
<1>5. KnownIsWhole' /\ KnownIsInSync' BY <1>4 DEF KnownIsWhole, KnownIsInSync, volume
<1> QED BY <1>1, <1>3, <1>5, EndOK

LEMMA LocateOK ==
    ASSUME OpenOK, CallOK, NEW target \in Int, NEW origin \in Stream!Origins,
           NEW offset \in Offsets, NEW from \in Int, Locate(target, origin, offset, from),
           UNCHANGED <<volume, streamPosition>>,
           origin = "SEEK_SET" => target = offset,
           origin = "SEEK_END" => target = Length + offset,
           origin = "SEEK_CUR" => target = from + offset
    PROVE  CallOK'
<1>1. /\ absoluteOffset' = target /\ pc' = "locate"
      /\ request' = [from |-> from, origin |-> origin, offset |-> offset,
                     value |-> Stream!Bytes(0, 0)]
      /\ UNCHANGED <<currentVolumeOffset, answer, whereabouts, faults>>
  BY DEF Locate, NoRequest
<1>2. offset \in Int BY CallerAssumption
<1>3. /\ request' \in Requests /\ request'.from = from
      /\ request'.origin = origin /\ request'.offset = offset
  BY <1>1, <1>2 DEF Requests, Stream!Bytes
<1>4. SeekUnderWay' BY <1>1, <1>3 DEF SeekUnderWay
<1> QED BY <1>1, <1>3, <1>4 DEF CallOK, KnownIsWhole, KnownIsInSync, ReadUnderWay, volume

\* Opening a volume in the middle of a call.
LEMMA MiddleOK ==
    ASSUME CallOK, pc \in {"measure", "locate"}, streamPosition' \in Nat, torn' => torn,
           UNCHANGED <<position, pc, request, answer, whereabouts, faults>>
    PROVE  CallOK'
<1>1. SeekUnderWay' BY DEF CallOK, SeekUnderWay, position
<1> QED BY <1>1 DEF CallOK, KnownIsWhole, KnownIsInSync, ReadUnderWay, position

-----------------------------------------------------------------------------
(* Every action preserves the invariant.                                   *)

LEMMA InitInv == Init => IInv
<1> SUFFICES ASSUME Init PROVE IInv OBVIOUS
<1>1. /\ absoluteOffset = 0 /\ absoluteLength = Unknown
      /\ currentIndex = 1 /\ currentInStream = 1 /\ streamPosition = 0
      /\ currentVolumeOffset = 0 /\ currentVolumeLength = Starts[2] /\ torn = FALSE
      /\ volumePositions = <<0, Starts[2]>>
      /\ pc = "idle" /\ request = NoRequest /\ whereabouts = "known" /\ faults = 0
  BY DEF Init
<1>2. /\ 1 \in Volumes /\ Starts[1] = 0 /\ Starts[2] \in Nat /\ Starts[1] < Starts[2]
      /\ Len(Starts) >= 2 /\ VolumeCount \in Nat \ {0} /\ Starts \in Seq(Nat)
  BY StartsFacts, StartsAssumption DEF Volumes
<1>3. volumePositions = SubSeq(Starts, 1, 2) /\ Known = 2 BY <1>1, <1>2 DEF Known
<1>4. PositionsFound BY <1>1, <1>2, <1>3 DEF PositionsFound
<1>5. CurrentVolumeAgrees BY <1>1, <1>2 DEF CurrentVolumeAgrees
<1>6. volumePositions \in Seq(Nat) BY <1>1, <1>2
<1>7. OpenOK BY <1>1, <1>2, <1>4, <1>5, <1>6 DEF OpenOK
<1>8. InSync BY <1>1, <1>2 DEF InSync
<1>9. CallOK
  BY <1>1, <1>8, NoRequestType DEF CallOK, KnownIsWhole, KnownIsInSync, SeekUnderWay,
      ReadUnderWay
<1> QED BY <1>7, <1>9, IInvParts

LEMMA SeekInv == ASSUME OpenOK, CallOK, Seek PROVE (OpenOK /\ CallOK)'
<1>1. pc = "idle" /\ UNCHANGED <<volume, streamPosition, found>> BY DEF Seek
<1>2. OpenOK' BY <1>1, UnchangedOK
<1>3. /\ absoluteOffset \in Int /\ currentVolumeOffset \in Nat /\ streamPosition \in Nat
      /\ Offsets \subseteq Int /\ absoluteLength \in {Unknown, Length} /\ Length \in Nat
  BY CallerAssumption, StartsFacts DEF CallOK, OpenOK
<1>4. ASSUME NEW target \in Int, NEW origin \in Stream!Origins, NEW offset \in Offsets,
             SeekTo(target, origin, offset),
             origin = "SEEK_SET" => target = offset,
             origin = "SEEK_END" => target = Length + offset,
             origin = "SEEK_CUR" => target = absoluteOffset + offset
      PROVE  CallOK'
  <2>1. CASE target = absoluteOffset
    <3>1. ReturnSeek(origin, offset, target, FALSE) /\ UNCHANGED position
      BY <1>4, <2>1 DEF SeekTo
    <3>2. whereabouts = "known" => (InSync \/ AtLength)'
      BY <1>1, <3>1 DEF CallOK, KnownIsInSync, InSync, AtLength, position, volume, found
    <3> QED BY <1>1, <1>3, <3>1, <3>2, ReturnSeekOK DEF position
  <2>2. CASE target # absoluteOffset
    <3>1. Locate(target, origin, offset, absoluteOffset) BY <1>4, <2>2 DEF SeekTo
    <3> QED BY <1>1, <1>3, <1>4, <3>1, LocateOK
  <2> QED BY <2>1, <2>2
<1>5. PICK offset \in Offsets :
         \/ SeekTo(offset, "SEEK_SET", offset)
         \/ SeekTo(absoluteOffset + offset, "SEEK_CUR", offset)
         \/ absoluteLength # Unknown /\ SeekTo(absoluteLength + offset, "SEEK_END", offset)
  BY DEF Seek
<1>6. {"SEEK_SET", "SEEK_CUR", "SEEK_END"} \subseteq Stream!Origins BY DEF Stream!Origins
<1>7. CASE SeekTo(offset, "SEEK_SET", offset) BY <1>2, <1>3, <1>4, <1>6, <1>7
<1>8. CASE SeekTo(absoluteOffset + offset, "SEEK_CUR", offset) BY <1>2, <1>3, <1>4, <1>6, <1>8
<1>9. CASE absoluteLength # Unknown /\ SeekTo(absoluteLength + offset, "SEEK_END", offset)
  BY <1>2, <1>3, <1>4, <1>6, <1>9
<1> QED BY <1>2, <1>5, <1>7, <1>8, <1>9

LEMMA SeekEndInv == ASSUME OpenOK, CallOK, SeekEnd PROVE (OpenOK /\ CallOK)'
<1>1. PICK offset \in Offsets :
         request' = [NoRequest EXCEPT !.from = absoluteOffset,
                                      !.origin = "SEEK_END", !.offset = offset]
  BY DEF SeekEnd
<1>2. /\ pc' = "measure"
      /\ UNCHANGED <<position, volume, streamPosition, found, answer, whereabouts, faults>>
  BY DEF SeekEnd
<1>3. OpenOK' BY <1>2, UnchangedOK
<1>4. request' = [from |-> absoluteOffset, origin |-> "SEEK_END", offset |-> offset,
                  value |-> Stream!Bytes(0, 0)]
  BY <1>1 DEF NoRequest
<1>5. absoluteOffset \in Int /\ offset \in Int BY CallerAssumption DEF CallOK
<1>6. /\ request' \in Requests /\ request'.origin = "SEEK_END" /\ request'.offset = offset
      /\ "SEEK_END" \in Stream!Origins
  BY <1>4, <1>5 DEF Requests, Stream!Bytes, Stream!Origins
<1>7. SeekUnderWay' BY <1>2, <1>6 DEF SeekUnderWay
<1> QED
  BY <1>2, <1>3, <1>6, <1>7 DEF CallOK, KnownIsWhole, KnownIsInSync, ReadUnderWay, position, volume

LEMMA MeasureInv ==
    ASSUME OpenOK, CallOK, MeasureNext \/ MeasureEnd PROVE (OpenOK /\ CallOK)'
<1>1. CASE MeasureNext
  <2>1. /\ pc = "measure" /\ OpenUnknown(FALSE)
        /\ UNCHANGED <<position, pc, request, answer, whereabouts, faults>>
    BY <1>1 DEF MeasureNext
  <2>2. OpenOK' /\ streamPosition' \in Nat /\ torn' = FALSE BY <2>1, OpenUnknownOK DEF CallOK
  <2> QED BY <2>1, <2>2, MiddleOK
<1>2. CASE MeasureEnd
  <2>1. /\ pc = "measure" /\ NoMoreVolumes
        /\ Locate(LastKnown + request.offset, "SEEK_END", request.offset, request.from)
    BY <1>2 DEF MeasureEnd
  <2>2. OpenOK' /\ LastKnown = Length /\ UNCHANGED <<volume, streamPosition>>
    BY <2>1, NoMoreVolumesOK
  <2>3. request \in Requests /\ request.offset \in Offsets BY <2>1 DEF CallOK, SeekUnderWay
  <2>4. request.from \in Int BY <2>3 DEF Requests
  <2>5. LastKnown + request.offset \in Int /\ LastKnown + request.offset = Length + request.offset
    <3>1. request.offset \in Int /\ Length \in Nat BY <2>3, CallerAssumption, StartsFacts
    <3> QED BY <2>2, <3>1
  <2>6. "SEEK_END" \in Stream!Origins BY DEF Stream!Origins
  <2>7. CallOK' BY <2>1, <2>2, <2>3, <2>4, <2>5, <2>6, LocateOK
  <2> QED BY <2>2, <2>7
<1> QED BY <1>1, <1>2

LEMMA LocateInv ==
    ASSUME OpenOK, CallOK, LocateKnown \/ LocateNext \/ LocateNegative
    PROVE  (OpenOK /\ CallOK)'
<1>1. CASE LocateKnown
  <2>1. /\ pc = "locate" /\ UNCHANGED <<position, pc, request, answer, whereabouts, faults>>
    BY <1>1 DEF LocateKnown
  <2>2. PICK index \in 1..(Known - 1) : OpenKnown(index) BY <1>1 DEF LocateKnown
  <2>3. OpenOK' /\ streamPosition' = 0 /\ torn' = FALSE BY <2>2, OpenKnownOK
  <2> QED BY <2>1, <2>3, MiddleOK
<1>2. CASE LocateNext
  <2>1. /\ pc = "locate" /\ (OpenUnknown(FALSE) \/ NoMoreVolumes)
        /\ UNCHANGED <<position, pc, request, answer, whereabouts, faults>>
    BY <1>2 DEF LocateNext
  <2>2. streamPosition \in Nat BY DEF CallOK
  <2>3. OpenOK' /\ streamPosition' \in Nat /\ (torn' => torn)
    <3>1. CASE OpenUnknown(FALSE) BY <2>2, <3>1, OpenUnknownOK
    <3>2. CASE NoMoreVolumes BY <2>2, <3>2, NoMoreVolumesOK DEF volume
    <3> QED BY <2>1, <3>1, <3>2
  <2> QED BY <2>1, <2>3, MiddleOK
<1>3. CASE LocateNegative
  <2>1. Throw("negative") /\ UNCHANGED <<position, volume, streamPosition, found>>
    BY <1>3 DEF LocateNegative
  <2>2. OpenOK' BY <2>1, UnchangedOK
  <2>3. CallOK' BY <2>1, ThrowOK DEF CallOK, position
  <2> QED BY <2>2, <2>3
<1> QED BY <1>1, <1>2, <1>3

LEMMA InVolume ==
    ASSUME OpenOK, absoluteOffset \in Int, currentIndex < Known, IsIn(currentIndex)
    PROVE  /\ volumePositions[currentIndex] = Starts[currentIndex]
           /\ Starts[currentIndex] \in Nat /\ Starts[currentIndex + 1] \in Nat
           /\ Starts[currentIndex] <= absoluteOffset
           /\ absoluteOffset < Starts[currentIndex + 1]
           /\ Starts[currentIndex + 1] <= Length
<1>1. /\ currentIndex \in 1..Known /\ currentIndex + 1 \in 1..Known
      /\ currentIndex + 1 \in 1..(VolumeCount + 1) /\ currentIndex \in 1..(VolumeCount + 1)
  BY FoundFacts, StartsFacts DEF OpenOK, Volumes
<1>2. /\ volumePositions[currentIndex] = Starts[currentIndex]
      /\ volumePositions[currentIndex + 1] = Starts[currentIndex + 1]
      /\ Starts[currentIndex] \in Nat /\ Starts[currentIndex + 1] \in Nat
      /\ Starts[currentIndex + 1] <= Length
  BY <1>1, FoundFacts, StartsFacts
<1> QED BY <1>2 DEF IsIn

\* The offset lies in the volume that is open, or behind all of them.
LEMMA ArriveInv ==
    ASSUME OpenOK, CallOK, ClampToEnd \/ Reposition PROVE (OpenOK /\ CallOK)'
<1>1. CASE ClampToEnd
  <2>1. /\ AtEnd /\ absoluteOffset' = absoluteLength
        /\ ReturnSeek(request.origin, request.offset, absoluteLength, TRUE)
        /\ UNCHANGED <<currentVolumeOffset, volume, streamPosition, found>>
    BY <1>1 DEF ClampToEnd
  <2>2. OpenOK' BY <2>1, UnchangedOK
  <2>3. absoluteLength = Length /\ Length \in Nat /\ absoluteLength # Unknown
    BY <2>1, StartsFacts DEF AtEnd, OpenOK
  <2>4. AtLength' BY <2>1, <2>3 DEF AtLength, found
  <2>5. /\ absoluteOffset' \in Int /\ currentVolumeOffset' \in Nat /\ streamPosition' \in Nat
    BY <2>1, <2>3 DEF CallOK, volume, found
  <2>6. CallOK' BY <2>1, <2>4, <2>5, ReturnSeekOK
  <2> QED BY <2>2, <2>6
<1>2. CASE Reposition
  <2>1. /\ currentIndex < Known /\ IsIn(currentIndex)
        /\ currentVolumeOffset' = absoluteOffset - volumePositions[currentIndex]
        /\ \/ /\ streamPosition' = currentVolumeOffset'
              /\ ReturnSeek(request.origin, request.offset, absoluteOffset, TRUE)
           \/ UNCHANGED streamPosition /\ Throw("seek")
        /\ UNCHANGED <<absoluteOffset, volume, found>>
    BY <1>2 DEF Reposition
  <2>2. OpenOK' BY <2>1, UnchangedOK
  <2>3. absoluteOffset \in Int BY DEF CallOK
  <2>4. volumePositions[currentIndex] = Starts[currentIndex] BY <2>1, <2>3, InVolume
  <2>5. /\ Starts[currentIndex] <= absoluteOffset /\ absoluteOffset < Starts[currentIndex + 1]
        /\ absoluteOffset \in Int
        /\ Starts[currentIndex] \in Nat /\ Starts[currentIndex + 1] \in Nat
    BY <2>1, <2>3, InVolume
  <2>6. /\ currentVolumeOffset' = absoluteOffset - Starts[currentIndex]
        /\ currentVolumeOffset' \in Nat
        /\ absoluteOffset = Starts[currentIndex] + currentVolumeOffset'
        /\ currentVolumeOffset' < Starts[currentIndex + 1] - Starts[currentIndex]
    BY <2>1, <2>4, <2>5
  <2>7. absoluteOffset' = absoluteOffset /\ UNCHANGED <<currentIndex, currentVolumeLength>>
    BY <2>1 DEF volume
  <2>8. CASE UNCHANGED streamPosition /\ Throw("seek")
    <3>1. CallOK' BY <2>5, <2>6, <2>7, <2>8, ThrowOK DEF CallOK
    <3> QED BY <2>2, <3>1
  <2>9. CASE /\ streamPosition' = currentVolumeOffset'
             /\ ReturnSeek(request.origin, request.offset, absoluteOffset, TRUE)
    <3>1. ~torn => InSync'
      BY <2>1, <2>6, <2>7, <2>9 DEF InSync, volume, OpenOK, CurrentVolumeAgrees
    <3>2. UNCHANGED volume BY <2>1
    <3>3. CallOK' BY <2>5, <2>6, <2>7, <2>9, <3>1, <3>2, ReturnSeekOK
    <3> QED BY <2>2, <3>3
  <2> QED BY <2>1, <2>8, <2>9
<1> QED BY <1>1, <1>2

\* What a read delivers, and where it leaves the volume.
LEMMA ReadFacts ==
    ASSUME OpenOK, CallOK, pc = "idle", ~AtEnd, NEW size \in Sizes,
           NEW n \in (IF VolumeRest <= 0 THEN {0}
                      ELSE 1..(IF size < VolumeRest THEN size ELSE VolumeRest))
    PROVE  /\ n \in Nat /\ Delivering \in Int
           /\ whereabouts = "known" =>
                 /\ InSync /\ Delivering = absoluteOffset /\ n > 0
                 /\ absoluteOffset + n <= Starts[currentIndex + 1]
                 /\ currentVolumeOffset + n <= currentVolumeLength
                 /\ Starts[currentIndex + 1] \in Nat /\ Starts[currentIndex + 1] <= Length
<1>1. /\ currentInStream \in Volumes /\ currentIndex \in Volumes
      /\ streamPosition \in Nat /\ absoluteOffset \in Int /\ currentVolumeOffset \in Nat
  BY DEF OpenOK, CallOK
<1>2. /\ currentIndex \in 1..(VolumeCount + 1) /\ currentIndex + 1 \in 1..(VolumeCount + 1)
      /\ currentInStream \in 1..(VolumeCount + 1) /\ currentInStream + 1 \in 1..(VolumeCount + 1)
  BY <1>1, StartsFacts DEF Volumes
<1>3. /\ Starts[currentIndex] \in Nat /\ Starts[currentIndex + 1] \in Nat
      /\ Starts[currentInStream] \in Nat /\ Starts[currentInStream + 1] \in Nat
      /\ Starts[currentIndex + 1] <= Length /\ Length \in Nat
  BY <1>2, StartsFacts
<1>4. /\ Delivering = Starts[currentInStream] + streamPosition
      /\ VolumeRest = Starts[currentInStream + 1] - Delivering
  BY DEF Delivering, VolumeRest
<1>5. Delivering \in Int /\ VolumeRest \in Int /\ size \in Nat \ {0}
  BY <1>1, <1>3, <1>4, CallerAssumption
<1>6. n \in Nat /\ (VolumeRest > 0 => n > 0 /\ n <= VolumeRest) BY <1>5
<1>7. ASSUME whereabouts = "known"
      PROVE  /\ InSync /\ Delivering = absoluteOffset /\ n > 0
             /\ absoluteOffset + n <= Starts[currentIndex + 1]
             /\ currentVolumeOffset + n <= currentVolumeLength
  <2>1. InSync BY <1>1, <1>3, <1>7 DEF CallOK, KnownIsInSync, AtEnd, AtLength, OpenOK
  <2>2. /\ streamPosition = currentVolumeOffset /\ currentInStream = currentIndex
        /\ absoluteOffset = Starts[currentIndex] + currentVolumeOffset
        /\ currentVolumeLength = Starts[currentIndex + 1] - Starts[currentIndex]
        /\ currentVolumeOffset < currentVolumeLength
    BY <2>1 DEF InSync
  <2>3. Delivering = absoluteOffset /\ VolumeRest > 0 BY <1>1, <1>3, <1>4, <2>2
  <2> QED BY <1>1, <1>3, <1>4, <1>6, <2>1, <2>2, <2>3
<1> QED BY <1>3, <1>5, <1>6, <1>7

LEMMA ReadInv == ASSUME OpenOK, CallOK, Read PROVE (OpenOK /\ CallOK)'
<1>1. pc = "idle" /\ ~AtEnd /\ UNCHANGED <<volume, found>> BY DEF Read
<1>2. PICK size \in Sizes :
      \E n \in (IF VolumeRest <= 0 THEN {0}
                ELSE 1..(IF size < VolumeRest THEN size ELSE VolumeRest)) :
          /\ absoluteOffset' = absoluteOffset + n
          /\ currentVolumeOffset' = currentVolumeOffset + n
          /\ streamPosition' = streamPosition + n
          /\ IF currentVolumeOffset' >= currentVolumeLength
             THEN /\ pc' = "advance"
                  /\ request' = [NoRequest EXCEPT !.from = absoluteOffset,
                                                  !.value = Stream!Bytes(Delivering, n)]
                  /\ UNCHANGED <<answer, whereabouts, faults>>
             ELSE Return(Stream!Bytes(Delivering, n)) /\ UNCHANGED <<whereabouts, faults>>
  BY DEF Read
<1>3. PICK n \in (IF VolumeRest <= 0 THEN {0}
                  ELSE 1..(IF size < VolumeRest THEN size ELSE VolumeRest)) :
          /\ absoluteOffset' = absoluteOffset + n
          /\ currentVolumeOffset' = currentVolumeOffset + n
          /\ streamPosition' = streamPosition + n
          /\ IF currentVolumeOffset' >= currentVolumeLength
             THEN /\ pc' = "advance"
                  /\ request' = [NoRequest EXCEPT !.from = absoluteOffset,
                                                  !.value = Stream!Bytes(Delivering, n)]
                  /\ UNCHANGED <<answer, whereabouts, faults>>
             ELSE Return(Stream!Bytes(Delivering, n)) /\ UNCHANGED <<whereabouts, faults>>
  BY <1>2
<1>4. /\ n \in Nat /\ Delivering \in Int
      /\ whereabouts = "known" =>
            /\ InSync /\ Delivering = absoluteOffset /\ n > 0
            /\ absoluteOffset + n <= Starts[currentIndex + 1]
            /\ currentVolumeOffset + n <= currentVolumeLength
            /\ Starts[currentIndex + 1] \in Nat
  BY <1>1, ReadFacts
<1>5. OpenOK' BY <1>1, UnchangedOK
<1>6. /\ absoluteOffset \in Int /\ currentVolumeOffset \in Nat /\ streamPosition \in Nat
      /\ currentVolumeLength \in Nat /\ whereabouts \in {"known", "assumed", "lost"}
      /\ faults \in Nat /\ currentIndex \in Volumes
  BY DEF OpenOK, CallOK
<1>7. absoluteOffset' \in Int /\ currentVolumeOffset' \in Nat /\ streamPosition' \in Nat
  BY <1>3, <1>4, <1>6
<1>8. UNCHANGED <<currentIndex, currentInStream, currentVolumeLength, torn>> BY <1>1 DEF volume
<1>9. Starts[currentIndex] \in Nat BY <1>6, StartsFacts DEF Volumes
<1>10. CASE currentVolumeOffset' >= currentVolumeLength
  <2>1. /\ pc' = "advance" /\ UNCHANGED <<answer, whereabouts, faults>>
        /\ request' = [from |-> absoluteOffset, origin |-> "none", offset |-> 0,
                       value |-> Stream!Bytes(Delivering, n)]
    BY <1>3, <1>10 DEF NoRequest
  <2>2. request' \in Requests BY <1>4, <1>6, <2>1 DEF Requests, Stream!Bytes
  <2>3. /\ request'.from = absoluteOffset /\ request'.value.at = Delivering
        /\ request'.value.count = n
    BY <2>1 DEF Stream!Bytes
  <2>4. ASSUME whereabouts = "known" PROVE absoluteOffset' = Starts[currentIndex + 1]
    BY <1>3, <1>4, <1>6, <1>9, <1>10, <2>4 DEF InSync
  <2>5. ReadUnderWay' BY <1>3, <1>4, <1>8, <2>1, <2>3, <2>4 DEF ReadUnderWay
  <2>6. CallOK'
    BY <1>6, <1>7, <1>8, <2>1, <2>2, <2>5
    DEF CallOK, KnownIsWhole, KnownIsInSync, SeekUnderWay
  <2> QED BY <1>5, <2>6
<1>11. CASE ~(currentVolumeOffset' >= currentVolumeLength)
  <2>1. /\ pc' = "idle" /\ request' = NoRequest /\ UNCHANGED <<whereabouts, faults>>
    BY <1>3, <1>11 DEF Return
  <2>2. ASSUME whereabouts = "known" PROVE InSync'
    <3>1. /\ currentInStream = currentIndex /\ streamPosition = currentVolumeOffset
          /\ absoluteOffset = Starts[currentIndex] + currentVolumeOffset
          /\ currentVolumeLength = Starts[currentIndex + 1] - Starts[currentIndex]
      BY <1>4, <2>2 DEF InSync
    <3>2. absoluteOffset' = Starts[currentIndex] + currentVolumeOffset'
      BY <1>3, <1>4, <1>6, <1>9, <3>1
    <3>3. currentVolumeOffset' < currentVolumeLength BY <1>6, <1>7, <1>11
    <3> QED BY <1>3, <1>8, <3>1, <3>2, <3>3 DEF InSync
  <2>3. KnownIsWhole' /\ KnownIsInSync'
    BY <1>8, <2>1, <2>2 DEF CallOK, KnownIsWhole, KnownIsInSync
  <2>4. CallOK' BY <1>6, <1>7, <2>1, <2>3, EndOK
  <2> QED BY <1>5, <2>4
<1> QED BY <1>10, <1>11

LEMMA ReadEndsInv ==
    ASSUME OpenOK, CallOK, ReadAtEnd \/ ReadFails PROVE (OpenOK /\ CallOK)'
<1>1. UNCHANGED <<position, volume, streamPosition, found>> BY DEF ReadAtEnd, ReadFails
<1>2. OpenOK' BY <1>1, UnchangedOK
<1>3. CASE ReadAtEnd
  <2>1. /\ pc = "idle" /\ pc' = "idle" /\ request' = NoRequest
        /\ UNCHANGED <<whereabouts, faults>>
    BY <1>3 DEF ReadAtEnd, Return
  <2>2. KnownIsWhole' /\ KnownIsInSync'
    BY <1>1, <2>1
    DEF CallOK, KnownIsWhole, KnownIsInSync, InSync, AtLength, position, volume, found
  <2>3. CallOK' BY <1>1, <2>1, <2>2, EndOK DEF CallOK, position
  <2> QED BY <1>2, <2>3
<1>4. CASE ReadFails
  <2>1. Throw("read") BY <1>4 DEF ReadFails
  <2>2. CallOK' BY <1>1, <2>1, ThrowOK DEF CallOK, position
  <2> QED BY <1>2, <2>2
<1> QED BY <1>3, <1>4

\* A read that ends a volume leaves the stream at the beginning of the next.
LEMMA AdvanceInv == ASSUME OpenOK, CallOK, Advance PROVE (OpenOK /\ CallOK)'
<1>1. /\ pc = "advance" /\ pc' = "idle" /\ request' = NoRequest
      /\ UNCHANGED <<whereabouts, faults>>
  BY DEF Advance, Return
<1>2. /\ streamPosition \in Nat /\ absoluteOffset \in Int /\ currentVolumeOffset \in Nat
      /\ whereabouts \in {"known", "assumed", "lost"} /\ faults \in Nat
      /\ whereabouts = "known" => absoluteOffset = Starts[currentIndex + 1]
      /\ whereabouts = "known" => ~torn
  BY <1>1 DEF CallOK, ReadUnderWay, KnownIsWhole
<1>3. /\ currentIndex \in Volumes /\ currentIndex < Known /\ Known \in 2..(VolumeCount + 1)
  BY FoundFacts DEF OpenOK
<1>4. \/ /\ \/ Known = currentIndex + 1 /\ OpenUnknown(TRUE)
            \/ Known > currentIndex + 1 /\ OpenKnown(currentIndex + 1)
         /\ absoluteOffset' = volumePositions[currentIndex + 1]
         /\ currentVolumeOffset' = 0
      \/ Known = currentIndex + 1 /\ NoMoreVolumes /\ UNCHANGED position
      \/ /\ absoluteLength # Unknown /\ Known <= currentIndex + 1
         /\ UNCHANGED <<position, volume, streamPosition, found>>
  BY DEF Advance
<1>5. CASE /\ \/ Known = currentIndex + 1 /\ OpenUnknown(TRUE)
              \/ Known > currentIndex + 1 /\ OpenKnown(currentIndex + 1)
           /\ absoluteOffset' = volumePositions[currentIndex + 1]
           /\ currentVolumeOffset' = 0
  <2> DEFINE next == currentIndex + 1
  <2>1. currentIndex \in Nat BY <1>3, StartsFacts DEF Volumes
  <2>2. next \in 1..Known BY <1>3, <2>1, StartsFacts
  <2>3. volumePositions[next] = Starts[next] BY <2>2, FoundFacts
  <2>4. /\ OpenOK' /\ streamPosition' = 0 /\ currentIndex' = next /\ torn' = FALSE
    <3>1. CASE Known = currentIndex + 1 /\ OpenUnknown(TRUE)
      BY <1>2, <3>1, OpenUnknownOK
    <3>2. CASE Known > currentIndex + 1 /\ OpenKnown(currentIndex + 1)
      <4>1. currentIndex + 1 \in 1..(Known - 1) BY <1>3, <2>1, <3>2, StartsFacts
      <4> QED BY <3>2, <4>1, OpenKnownOK
    <3> QED BY <1>5, <3>1, <3>2
  <2>5. next \in Volumes /\ next \in 1..(VolumeCount + 1) /\ next + 1 \in 1..(VolumeCount + 1)
    <3>1. next \in Volumes BY <2>4 DEF OpenOK
    <3> QED BY <3>1, StartsFacts DEF Volumes
  <2>6. Starts[next] \in Nat /\ Starts[next + 1] \in Nat /\ Starts[next] < Starts[next + 1]
    BY <2>5, StartsFacts
  <2>7. absoluteOffset' = Starts[next] BY <1>5, <2>3
  <2>8. /\ currentInStream' = currentIndex'
        /\ currentVolumeLength' = Starts[next + 1] - Starts[next]
    BY <2>4 DEF OpenOK, CurrentVolumeAgrees
  <2> HIDE DEF next
  <2>9. 0 < currentVolumeLength' BY <2>6, <2>8
  <2>10. InSync' BY <1>5, <2>4, <2>6, <2>7, <2>8, <2>9 DEF InSync
  <2>11. CallOK'
    BY <1>1, <1>2, <1>5, <2>4, <2>6, <2>7, <2>10, EndOK DEF KnownIsWhole, KnownIsInSync
  <2> QED BY <2>4, <2>11
<1>6. CASE Known = currentIndex + 1 /\ NoMoreVolumes /\ UNCHANGED position
  <2>1. /\ OpenOK' /\ absoluteLength' = Length /\ Known = VolumeCount + 1
        /\ UNCHANGED <<streamPosition, torn>>
    BY <1>6, NoMoreVolumesOK DEF volume
  <2>2. Length \in Nat /\ Length = Starts[VolumeCount + 1] BY StartsFacts
  <2>3. whereabouts' = "known" => AtLength'
    BY <1>1, <1>2, <1>6, <2>1, <2>2 DEF AtLength, Unknown, position
  <2>4. CallOK'
    BY <1>1, <1>2, <1>6, <2>1, <2>3, EndOK DEF KnownIsWhole, KnownIsInSync, position
  <2> QED BY <2>1, <2>4
<1>7. CASE /\ absoluteLength # Unknown /\ Known <= currentIndex + 1
           /\ UNCHANGED <<position, volume, streamPosition, found>>
  <2>1. OpenOK' BY <1>7, UnchangedOK
  <2>2. Known = VolumeCount + 1 /\ absoluteLength = Length BY <1>7, FoundFacts
  <2>3. currentIndex + 1 = VolumeCount + 1 BY <1>3, <1>7, <2>2, StartsFacts DEF Volumes
  <2>4. Length \in Nat /\ Length = Starts[VolumeCount + 1] BY StartsFacts
  <2>5. whereabouts' = "known" => AtLength'
    BY <1>1, <1>2, <1>7, <2>2, <2>3, <2>4 DEF AtLength, position, found
  <2>6. CallOK'
    BY <1>1, <1>2, <1>7, <2>5, EndOK DEF KnownIsWhole, KnownIsInSync, position, volume
  <2> QED BY <2>1, <2>6
<1> QED BY <1>4, <1>5, <1>6, <1>7

LEMMA VolumeFailsInv == ASSUME OpenOK, CallOK, VolumeFails PROVE (OpenOK /\ CallOK)'
<1>1. PICK index, b : OpeningFails(index, b) BY DEF VolumeFails
<1>2. /\ OpenOK' /\ streamPosition' \in Nat
      /\ \E f : Throw(f) /\ UNCHANGED position
  BY <1>1, OpeningFailsOK DEF CallOK
<1>3. CallOK' BY <1>2, ThrowOK DEF CallOK, position
<1> QED BY <1>2, <1>3

LEMMA StutterInv == ASSUME OpenOK, CallOK, UNCHANGED vars PROVE (OpenOK /\ CallOK)'
<1>1. OpenOK' BY UnchangedOK DEF vars
<1>2. CallOK'
  BY DEF CallOK, KnownIsWhole, KnownIsInSync, SeekUnderWay, ReadUnderWay, InSync, AtLength,
         vars, position, volume, found
<1> QED BY <1>1, <1>2

\* Whatever fails, the invariant holds: the volumes found are where they are, and
\* where the position is known, the volume in use is the one that the absolute
\* offset demands.
THEOREM VolumesInvariance == Spec => []IInv
<1>1. Init => IInv BY InitInv
<1>2. IInv /\ [Next]_vars => IInv'
  <2> SUFFICES ASSUME OpenOK, CallOK, [Next]_vars PROVE (OpenOK /\ CallOK)'
    BY IInvParts, IInvPartsNext
  <2> QED
    BY SeekInv, SeekEndInv, MeasureInv, LocateInv, ArriveInv, ReadInv, ReadEndsInv,
       AdvanceInv, VolumeFailsInv, StutterInv
    DEF Next
<1> QED BY <1>1, <1>2, PTL DEF Spec

\* Whatever calls of the callback, seeks and reads have thrown: the volumes
\* found are the first ones, at their places, and the length is never wrong.
THEOREM VolumesFound == Spec => [](TypeOK /\ PositionsFound)
<1>1. IInv => TypeOK /\ PositionsFound BY DEF IInv
<1> QED BY <1>1, VolumesInvariance, PTL

\* Between two calls the stream in use stands where the absolute offset says,
\* from the first seek on that moved after an exception, and after a failure to
\* measure or rewind a new volume, from the first that moved after one was opened.
THEOREM VolumesInSync == Spec => []KnownIsInSync
<1>1. IInv => KnownIsInSync BY DEF IInv
<1> QED BY <1>1, VolumesInvariance, PTL

\* Whatever throws, the stream in use is that of the current volume, with its
\* length: only between a failure to measure or rewind a new volume and the next
\* volume that is opened it may be another one.
THEOREM VolumeInUse == Spec => []CurrentVolumeAgrees
<1>1. IInv => CurrentVolumeAgrees BY DEF IInv
<1> QED BY <1>1, VolumesInvariance, PTL

-----------------------------------------------------------------------------
(* The volumes implement SeekableStream.                                   *)

\* The caller is never before the stream or behind its end.
LEMMA InRange ==
    ASSUME OpenOK, CallOK, pc = "idle", whereabouts = "known"
    PROVE  absoluteOffset \in 0..Length
<1>1. InSync \/ AtLength BY DEF CallOK, KnownIsInSync
<1>2. CASE AtLength BY <1>2, StartsFacts DEF AtLength, OpenOK
<1>3. CASE InSync
  <2>1. /\ absoluteOffset = Starts[currentIndex] + currentVolumeOffset
        /\ currentVolumeOffset < Starts[currentIndex + 1] - Starts[currentIndex]
        /\ currentVolumeOffset \in Nat /\ currentIndex \in Volumes
    BY <1>3 DEF InSync, OpenOK, CallOK
  <2>2. currentIndex \in 1..(VolumeCount + 1) /\ currentIndex + 1 \in 1..(VolumeCount + 1)
    BY <2>1, StartsFacts DEF Volumes
  <2>3. /\ Starts[currentIndex] \in Nat /\ Starts[currentIndex + 1] \in Nat
        /\ Starts[currentIndex + 1] <= Length /\ Length \in Nat
    BY <2>2, StartsFacts
  <2> QED BY <2>1, <2>3
<1> QED BY <1>1, <1>2, <1>3

\* The position of the abstract stream.
Seen == IF whereabouts = "known" THEN CallerPosition ELSE Lost

\* A step inside a call shows nothing.
LEMMA Silent ==
    ASSUME UNCHANGED <<answer, whereabouts>>, CallerPosition' = CallerPosition
    PROVE  UNCHANGED Stream!streamVars
  BY DEF Stream!streamVars

LEMMA ThrowRefines == ASSUME NEW f, Throw(f) PROVE Stream!Next
<1>1. answer' = Stream!Thrown /\ whereabouts' = "lost" BY DEF Throw, Return
<1>2. Stream!Fail BY <1>1 DEF Stream!Fail
<1> QED BY <1>2 DEF Stream!Next

\* Any answer will do while the position is lost.
LEMMA LostRefines ==
    ASSUME whereabouts # "known", whereabouts' # "known" PROVE Stream!Next
<1>1. Stream!LostCall BY DEF Stream!LostCall
<1> QED BY <1>1 DEF Stream!Next

\* A seek that went to its target, or did not have to move.
LEMMA ReturnSeekRefines ==
    ASSUME OpenOK, CallOK, NEW origin \in Stream!Origins, NEW offset \in Offsets,
           NEW p \in Nat, NEW moved \in BOOLEAN, NEW target \in Int,
           ReturnSeek(origin, offset, p, moved), absoluteOffset' = p,
           target >= 0, p = IF target > Length THEN Length ELSE target,
           origin = "SEEK_SET" => target = offset,
           origin = "SEEK_END" => target = offset + Length,
           origin = "SEEK_CUR" /\ whereabouts = "known" => target = offset + CallerPosition,
           CallerPosition \in Int
    PROVE  Stream!Next
<1>1. /\ answer' = Stream!Moved(origin, offset, p) /\ pc' = "idle"
      /\ whereabouts' = IF whereabouts = "known" \/ origin = "SEEK_CUR" THEN whereabouts
                        ELSE IF moved /\ ~torn THEN "known" ELSE "assumed"
  BY DEF ReturnSeek, Return
<1>2. CallerPosition' = p BY <1>1 DEF CallerPosition
<1>3. CASE whereabouts' # "known" /\ whereabouts # "known" BY <1>3, LostRefines
<1>4. whereabouts = "known" => whereabouts' = "known" BY <1>1
<1>5. CASE whereabouts' = "known"
  <2>1. origin = "SEEK_CUR" => whereabouts = "known" BY <1>1, <1>5
  <2>2. Seen' = p BY <1>2, <1>5 DEF Seen
  <2>3. origin = "SEEK_CUR" => Seen = CallerPosition /\ Seen # Lost
    BY <2>1, CallerAssumption DEF Seen
  <2>4. /\ "SEEK_SET" # "SEEK_CUR" /\ "SEEK_SET" # "SEEK_END" /\ "SEEK_CUR" # "SEEK_END"
    OBVIOUS
  <2>5. Stream!Target(origin, offset) = target
    <3>1. CASE origin = "SEEK_SET"
      <4>1. offset \in Int BY CallerAssumption
      <4> QED BY <3>1, <4>1 DEF Stream!Target
    <3>2. CASE origin = "SEEK_CUR"
      BY <2>1, <3>2 DEF Stream!Target
    <3>3. CASE origin = "SEEK_END"
      BY <3>3 DEF Stream!Target
    <3> QED BY <3>1, <3>2, <3>3 DEF Stream!Origins
  <2>6. Stream!Clamped(target) = p BY DEF Stream!Clamped
  <2>7. Stream!Seek(origin, offset)
    BY <1>1, <2>2, <2>3, <2>5, <2>6 DEF Stream!Seek, Seen
  <2> QED BY <2>7 DEF Stream!Next
<1> QED BY <1>3, <1>4, <1>5

LEMMA SeekRefines == ASSUME OpenOK, CallOK, Seek PROVE [Stream!Next]_Stream!streamVars
<1>1. pc = "idle" /\ absoluteOffset \in Int BY DEF Seek, CallOK
<1>2. CallerPosition = absoluteOffset BY <1>1 DEF CallerPosition
<1>3. ASSUME NEW target \in Int, NEW origin \in Stream!Origins, NEW offset \in Offsets,
             SeekTo(target, origin, offset),
             origin = "SEEK_SET" => target = offset,
             origin = "SEEK_END" => target = offset + Length,
             origin = "SEEK_CUR" => target = offset + absoluteOffset
      PROVE  [Stream!Next]_Stream!streamVars
  <2>1. CASE target # absoluteOffset
    <3>1. Locate(target, origin, offset, absoluteOffset) BY <1>3, <2>1 DEF SeekTo
    <3>2. /\ pc' = "locate" /\ UNCHANGED <<answer, whereabouts>>
          /\ request' = [NoRequest EXCEPT !.from = absoluteOffset, !.origin = origin,
                                          !.offset = offset]
      BY <3>1 DEF Locate
    <3>3. request'.from = absoluteOffset BY <3>2 DEF NoRequest
    <3>4. CallerPosition' = absoluteOffset BY <3>2, <3>3 DEF CallerPosition
    <3> QED BY <1>2, <3>2, <3>4, Silent
  <2>2. CASE target = absoluteOffset
    <3>1. ReturnSeek(origin, offset, target, FALSE) /\ absoluteOffset' = absoluteOffset
      BY <1>3, <2>2 DEF SeekTo, position
    <3>2. /\ answer' = Stream!Moved(origin, offset, target) /\ pc' = "idle"
          /\ whereabouts = "known" => whereabouts' = "known"
          /\ whereabouts # "known" => whereabouts' # "known"
      BY <3>1 DEF ReturnSeek, Return
    <3>3. CASE whereabouts # "known" BY <3>2, <3>3, LostRefines
    <3>4. CASE whereabouts = "known"
      <4>1. target \in 0..Length BY <1>1, <2>2, <3>4, InRange
      <4>2. Length \in Nat BY StartsFacts
      <4>3. target \in Nat /\ target = IF target > Length THEN Length ELSE target
        BY <4>1, <4>2
      <4>4. target >= 0 BY <4>1, <4>2
      <4>5. absoluteOffset' = target BY <2>2, <3>1
      <4>6. origin = "SEEK_CUR" => target = offset + CallerPosition BY <1>2, <1>3
      <4>7. CallerPosition \in Int BY <1>1, <1>2
      <4>8. Stream!Next
        BY <1>3, <3>1, <4>3, <4>4, <4>5, <4>6, <4>7, ReturnSeekRefines
      <4> QED BY <4>8
    <3> QED BY <3>3, <3>4
  <2> QED BY <2>1, <2>2
<1>4. PICK offset \in Offsets :
         \/ SeekTo(offset, "SEEK_SET", offset)
         \/ SeekTo(absoluteOffset + offset, "SEEK_CUR", offset)
         \/ absoluteLength # Unknown /\ SeekTo(absoluteLength + offset, "SEEK_END", offset)
  BY DEF Seek
<1>5. {"SEEK_SET", "SEEK_CUR", "SEEK_END"} \subseteq Stream!Origins BY DEF Stream!Origins
<1>6. /\ offset \in Int /\ absoluteOffset + offset \in Int
      /\ absoluteOffset + offset = offset + absoluteOffset
  BY <1>1, CallerAssumption
<1>7. CASE SeekTo(offset, "SEEK_SET", offset) BY <1>3, <1>5, <1>6, <1>7
<1>8. CASE SeekTo(absoluteOffset + offset, "SEEK_CUR", offset) BY <1>3, <1>5, <1>6, <1>8
<1>9. CASE absoluteLength # Unknown /\ SeekTo(absoluteLength + offset, "SEEK_END", offset)
  <2>1. absoluteLength = Length /\ Length \in Nat BY <1>9, StartsFacts DEF OpenOK
  <2>2. absoluteLength + offset \in Int /\ absoluteLength + offset = offset + Length
    BY <1>6, <2>1
  <2> QED BY <1>3, <1>5, <1>9, <2>2
<1> QED BY <1>4, <1>7, <1>8, <1>9

\* Measuring and locating show nothing until they arrive or throw.
LEMMA UnderWayRefines ==
    ASSUME SeekEnd \/ MeasureNext \/ MeasureEnd \/ LocateKnown \/ LocateNext
    PROVE  UNCHANGED Stream!streamVars
<1>1. CASE SeekEnd
  <2>1. /\ pc = "idle" /\ pc' = "measure" /\ UNCHANGED <<answer, whereabouts>>
        /\ request'.from = absoluteOffset
    BY <1>1 DEF SeekEnd, NoRequest
  <2>2. CallerPosition' = CallerPosition BY <2>1 DEF CallerPosition
  <2> QED BY <2>1, <2>2, Silent
<1>2. CASE MeasureNext \/ LocateKnown \/ LocateNext
  <2>1. UNCHANGED <<position, pc, request, answer, whereabouts>>
    BY <1>2 DEF MeasureNext, LocateKnown, LocateNext
  <2>2. CallerPosition' = CallerPosition BY <2>1 DEF CallerPosition, position
  <2> QED BY <2>1, <2>2, Silent
<1>3. CASE MeasureEnd
  <2>1. pc = "measure" /\ Locate(LastKnown + request.offset, "SEEK_END", request.offset, request.from)
    BY <1>3 DEF MeasureEnd
  <2>2. /\ pc' = "locate" /\ UNCHANGED <<answer, whereabouts>>
        /\ request'.from = request.from
    BY <2>1 DEF Locate, NoRequest
  <2>3. CallerPosition' = CallerPosition BY <2>1, <2>2 DEF CallerPosition
  <2> QED BY <2>2, <2>3, Silent
<1> QED BY <1>1, <1>2, <1>3

LEMMA ArriveRefines ==
    ASSUME OpenOK, CallOK, ClampToEnd \/ Reposition PROVE Stream!Next
<1>1. pc = "locate" /\ request \in Requests /\ absoluteOffset \in Int
  BY DEF ClampToEnd, Reposition, CallOK
<1>2. CallerPosition = request.from /\ request.from \in Int
  BY <1>1 DEF CallerPosition, Requests
<1>3. /\ request.origin \in Stream!Origins /\ request.offset \in Offsets
      /\ request.origin = "SEEK_SET" => absoluteOffset = request.offset
      /\ request.origin = "SEEK_END" => absoluteOffset = request.offset + Length
      /\ request.origin = "SEEK_CUR" /\ whereabouts = "known" =>
            absoluteOffset = request.offset + CallerPosition
  <2>1. /\ request.origin \in Stream!Origins /\ request.offset \in Offsets
        /\ request.origin = "SEEK_SET" => absoluteOffset = request.offset
        /\ request.origin = "SEEK_END" => absoluteOffset = Length + request.offset
        /\ request.origin = "SEEK_CUR" /\ whereabouts = "known" =>
              absoluteOffset = request.from + request.offset
    BY <1>1 DEF CallOK, SeekUnderWay
  <2>2. /\ request.offset \in Int /\ Length \in Nat BY <2>1, CallerAssumption, StartsFacts
  <2> QED BY <1>2, <2>1, <2>2
<1>4. Length \in Nat BY StartsFacts
<1>5. CASE ClampToEnd
  <2>1. /\ ReturnSeek(request.origin, request.offset, absoluteLength, TRUE)
        /\ absoluteOffset' = absoluteLength
        /\ absoluteLength = Length /\ absoluteOffset >= Length
    BY <1>5 DEF ClampToEnd, AtEnd, OpenOK
  <2>2. /\ absoluteOffset >= 0
        /\ absoluteLength = IF absoluteOffset > Length THEN Length ELSE absoluteOffset
        /\ absoluteLength \in Nat
    BY <1>1, <1>4, <2>1
  <2> QED BY <1>1, <1>2, <1>3, <2>1, <2>2, ReturnSeekRefines
<1>6. CASE Reposition
  <2>1. /\ currentIndex < Known /\ IsIn(currentIndex) /\ absoluteOffset' = absoluteOffset
        /\ \/ ReturnSeek(request.origin, request.offset, absoluteOffset, TRUE)
           \/ Throw("seek")
    BY <1>6 DEF Reposition
  <2>2. CASE Throw("seek") BY <2>2, ThrowRefines
  <2>3. CASE ReturnSeek(request.origin, request.offset, absoluteOffset, TRUE)
    <3>1. /\ Starts[currentIndex] \in Nat /\ Starts[currentIndex + 1] \in Nat
          /\ Starts[currentIndex] <= absoluteOffset
          /\ absoluteOffset < Starts[currentIndex + 1]
          /\ Starts[currentIndex + 1] <= Length
      BY <1>1, <2>1, InVolume
    <3>2. /\ absoluteOffset >= 0 /\ absoluteOffset \in Nat
          /\ absoluteOffset = IF absoluteOffset > Length THEN Length ELSE absoluteOffset
      BY <1>1, <1>4, <3>1
    <3> QED BY <1>1, <1>2, <1>3, <2>1, <2>3, <3>2, ReturnSeekRefines
  <2> QED BY <2>1, <2>2, <2>3
<1> QED BY <1>5, <1>6

\* A read that returns the bytes at the position of the caller.
LEMMA BytesRefine ==
    ASSUME OpenOK, CallOK, NEW from \in Int, NEW n \in Nat, whereabouts = "known",
           CallerPosition = from, answer' = Stream!Bytes(from, n), pc' = "idle",
           whereabouts' = "known", absoluteOffset' = from + n,
           \/ from >= Length /\ n = 0
           \/ n > 0 /\ from + n <= Length
    PROVE  Stream!Next
<1>1. Length \in Nat BY StartsFacts
<1>2. Seen = from /\ from # Lost BY CallerAssumption DEF Seen
<1>3. Seen' = from + n BY DEF Seen, CallerPosition
<1>4. n \in (IF from >= Length THEN {0} ELSE 1..(Length - from)) BY <1>1
<1>5. Stream!Read BY <1>2, <1>3, <1>4 DEF Stream!Read, Seen
<1> QED BY <1>5 DEF Stream!Next

LEMMA ReadRefines ==
    ASSUME OpenOK, CallOK, Read PROVE [Stream!Next]_Stream!streamVars
<1>1. pc = "idle" /\ ~AtEnd /\ absoluteOffset \in Int BY DEF Read, CallOK
<1>2. PICK size \in Sizes :
      \E n \in (IF VolumeRest <= 0 THEN {0}
                ELSE 1..(IF size < VolumeRest THEN size ELSE VolumeRest)) :
          /\ absoluteOffset' = absoluteOffset + n
          /\ IF currentVolumeOffset' >= currentVolumeLength
             THEN /\ pc' = "advance"
                  /\ request' = [NoRequest EXCEPT !.from = absoluteOffset,
                                                  !.value = Stream!Bytes(Delivering, n)]
                  /\ UNCHANGED <<answer, whereabouts, faults>>
             ELSE Return(Stream!Bytes(Delivering, n)) /\ UNCHANGED <<whereabouts, faults>>
  BY DEF Read
<1>3. PICK n \in (IF VolumeRest <= 0 THEN {0}
                  ELSE 1..(IF size < VolumeRest THEN size ELSE VolumeRest)) :
          /\ absoluteOffset' = absoluteOffset + n
          /\ IF currentVolumeOffset' >= currentVolumeLength
             THEN /\ pc' = "advance"
                  /\ request' = [NoRequest EXCEPT !.from = absoluteOffset,
                                                  !.value = Stream!Bytes(Delivering, n)]
                  /\ UNCHANGED <<answer, whereabouts, faults>>
             ELSE Return(Stream!Bytes(Delivering, n)) /\ UNCHANGED <<whereabouts, faults>>
  BY <1>2
<1>4. /\ n \in Nat
      /\ whereabouts = "known" =>
            /\ Delivering = absoluteOffset /\ n > 0
            /\ absoluteOffset + n <= Starts[currentIndex + 1]
            /\ Starts[currentIndex + 1] \in Nat /\ Starts[currentIndex + 1] <= Length
  BY <1>1, ReadFacts
<1>5. CallerPosition = absoluteOffset BY <1>1 DEF CallerPosition
<1>6. CASE currentVolumeOffset' >= currentVolumeLength
  <2>1. pc' = "advance" /\ request'.from = absoluteOffset /\ UNCHANGED <<answer, whereabouts>>
    BY <1>3, <1>6 DEF NoRequest
  <2>2. CallerPosition' = CallerPosition BY <1>5, <2>1 DEF CallerPosition
  <2> QED BY <2>1, <2>2, Silent
<1>7. CASE ~(currentVolumeOffset' >= currentVolumeLength)
  <2>1. pc' = "idle" /\ answer' = Stream!Bytes(Delivering, n) /\ UNCHANGED whereabouts
    BY <1>3, <1>7 DEF Return
  <2>2. CASE whereabouts # "known" BY <2>1, <2>2, LostRefines
  <2>3. CASE whereabouts = "known"
    <3>1. Delivering = absoluteOffset /\ n > 0 BY <1>4, <2>3
    <3>2. absoluteOffset + n <= Length BY <1>1, <1>4, <2>3, StartsFacts
    <3>3. answer' = Stream!Bytes(absoluteOffset, n) /\ whereabouts' = "known"
      BY <2>1, <2>3, <3>1
    <3>4. Stream!Next
      BY <1>1, <1>3, <1>4, <1>5, <2>1, <2>3, <3>1, <3>2, <3>3, BytesRefine
    <3> QED BY <3>4
  <2> QED BY <2>2, <2>3
<1> QED BY <1>6, <1>7

LEMMA ReadEndsRefines == ASSUME OpenOK, CallOK, ReadAtEnd \/ ReadFails PROVE Stream!Next
<1>1. CASE ReadAtEnd
  <2>1. /\ pc = "idle" /\ pc' = "idle" /\ answer' = Stream!Bytes(absoluteOffset, 0)
        /\ UNCHANGED <<position, whereabouts>> /\ absoluteOffset >= Length
    BY <1>1 DEF ReadAtEnd, Return, AtEnd, OpenOK
  <2>2. CASE whereabouts # "known" BY <2>1, <2>2, LostRefines
  <2>3. CASE whereabouts = "known"
    <3>1. absoluteOffset \in Int /\ CallerPosition = absoluteOffset
      BY <2>1 DEF CallOK, CallerPosition
    <3>2. absoluteOffset' = absoluteOffset + 0 BY <2>1, <3>1 DEF position
    <3> QED BY <2>1, <2>3, <3>1, <3>2, BytesRefine
  <2> QED BY <2>2, <2>3
<1>2. CASE ReadFails BY <1>2, ThrowRefines DEF ReadFails
<1> QED BY <1>1, <1>2

LEMMA AdvanceRefines == ASSUME OpenOK, CallOK, Advance PROVE Stream!Next
<1>1. /\ pc = "advance" /\ pc' = "idle" /\ answer' = request.value /\ UNCHANGED whereabouts
      /\ request \in Requests
  BY DEF Advance, Return, CallOK
<1>2. CASE whereabouts # "known" BY <1>1, <1>2, LostRefines
<1>3. CASE whereabouts = "known"
  <2>1. /\ request.value.at = request.from /\ request.value.count > 0
        /\ absoluteOffset = request.from + request.value.count
        /\ absoluteOffset = Starts[currentIndex + 1]
    BY <1>1, <1>3 DEF CallOK, ReadUnderWay
  <2>2. request.from \in Int /\ request.value \in [call : {"read"}, at : Int, count : Nat]
    BY <1>1 DEF Requests
  <2>3. /\ request.value = Stream!Bytes(request.from, request.value.count)
        /\ request.value.count \in Nat
    BY <2>1, <2>2 DEF Stream!Bytes
  <2>4. CallerPosition = request.from BY <1>1 DEF CallerPosition
  <2>5. /\ currentIndex + 1 \in 1..(VolumeCount + 1) /\ currentIndex + 1 \in 1..Known
    BY FoundFacts, StartsFacts DEF OpenOK, Volumes
  <2>6. volumePositions[currentIndex + 1] = Starts[currentIndex + 1] BY <2>5, FoundFacts
  <2>7. absoluteOffset' = absoluteOffset BY <2>1, <2>6 DEF Advance, position
  <2>8. request.from + request.value.count <= Length BY <2>1, <2>5, StartsFacts
  <2>9. absoluteOffset' = request.from + request.value.count BY <2>1, <2>7
  <2>10. answer' = Stream!Bytes(request.from, request.value.count) BY <1>1, <2>3
  <2> QED BY <1>1, <1>3, <2>1, <2>2, <2>3, <2>4, <2>8, <2>9, <2>10, BytesRefine
<1> QED BY <1>2, <1>3

LEMMA ThrowingRefines == ASSUME LocateNegative \/ VolumeFails PROVE Stream!Next
<1>1. \E f : Throw(f) BY DEF LocateNegative, VolumeFails, OpeningFails
<1> QED BY <1>1, ThrowRefines

LEMMA StutterRefines == ASSUME UNCHANGED vars PROVE UNCHANGED Stream!streamVars
<1>1. UNCHANGED <<answer, whereabouts>> /\ CallerPosition' = CallerPosition
  BY DEF vars, position, CallerPosition
<1> QED BY <1>1, Silent

\* The volumes of any archive are one seekable stream to 7-Zip, also after
\* calls that threw, from the first seek on that moved: when a new volume could
\* not be measured or rewound, from the first that moved after one was opened.
THEOREM VolumesAreOneStream == Spec => ImplementsStream
<1>1. Init => Stream!Init
  <2> SUFFICES ASSUME Init PROVE Stream!Init OBVIOUS
  <2>1. Seen = 0 BY DEF Init, Seen, CallerPosition
  <2> QED BY <2>1 DEF Init, Stream!Init, Seen
<1>2. IInv /\ [Next]_vars => [Stream!Next]_Stream!streamVars
  <2> SUFFICES ASSUME OpenOK, CallOK, [Next]_vars PROVE [Stream!Next]_Stream!streamVars
    BY IInvParts
  <2> QED
    BY SeekRefines, UnderWayRefines, ArriveRefines, ReadRefines, ReadEndsRefines,
       AdvanceRefines, ThrowingRefines, StutterRefines
    DEF Next
<1> QED BY <1>1, <1>2, VolumesInvariance, PTL DEF Spec, ImplementsStream, Stream!Spec

=============================================================================
