------------------------ MODULE ByteArrayStream_proofs ------------------------
(***************************************************************************)
(* A stream in memory of any chunk sizes, used by callers who are careful  *)
(* and stay below the maximal size: what growing, shrinking, seeking,      *)
(* reading and writing do to the list of chunks and to the cursor, the     *)
(* inductive invariant of ByteArrayStream, and that the stream implements  *)
(* WritableStream.                                                         *)
(***************************************************************************)
EXTENDS ByteArrayStream, FiniteSetTheorems, SequenceTheorems, WellFoundedInduction, TLAPS

\* Callers never fill the stream, and do not take the chunk of the cursor away.
BelowMaximum == Careful = TRUE /\ Limit < MaxSize

-----------------------------------------------------------------------------
(* Sequences                                                               *)

LEMMA Joined ==
    ASSUME NEW S, NEW a \in Seq(S), NEW c \in Seq(S)
    PROVE  /\ a \o c \in Seq(S) /\ Len(a \o c) = Len(a) + Len(c)
           /\ \A k \in 1..Len(a) : (a \o c)[k] = a[k]
           /\ \A k \in 1..Len(c) : (a \o c)[Len(a) + k] = c[k]
  OBVIOUS

LEMMA CutOff ==
    ASSUME NEW S, NEW a \in Seq(S), NEW n \in Nat, n <= Len(a)
    PROVE  /\ SubSeq(a, 1, n) \in Seq(S) /\ Len(SubSeq(a, 1, n)) = n
           /\ \A k \in 1..n : SubSeq(a, 1, n)[k] = a[k]
  OBVIOUS

-----------------------------------------------------------------------------
(* Least elements                                                          *)

LEMMA Least ==
    ASSUME NEW S \in SUBSET Nat, S # {}
    PROVE  \E m \in S : \A x \in S : m <= x
<1> DEFINE R == {ss \in Nat \X Nat : ss[1] < ss[2]}
<1>1. IsWellFoundedOn(R, Nat) BY NatLessThanWellFounded DEF OpToRel
<1>2. PICK m \in S : \A x \in S : ~ (<<x, m>> \in R)
  <2> HIDE DEF R
  <2> QED BY <1>1, WFMin
<1>3. ASSUME NEW x \in S PROVE m <= x
  <2>1. x \in Nat /\ m \in Nat /\ <<x, m>> \notin R BY <1>2
  <2>2. ~ (x < m) BY <2>1
  <2> QED BY <2>1, <2>2
<1> QED BY <1>3

-----------------------------------------------------------------------------
(* The list of chunks                                                      *)

\* The fields whose values the loops rely on.
Sound(s) ==
    /\ s \in Fields /\ ChunksInOrder(s) /\ CursorIn(s) /\ CursorInFront(s)
    /\ s.size <= EntireSize(s)

\* What they are between two calls.
Ready(s) == Sound(s) /\ Settled(s) /\ s.size <= Limit

LEMMA FieldTypes ==
    ASSUME NEW s \in Fields
    PROVE  /\ s.bytes \in Seq(Bytes) /\ s.ends \in Seq(Nat \ {0})
           /\ s.currentPosition \in Nat /\ s.currentPositionInChunk \in Nat
           /\ s.currentChunkIndex \in Nat /\ s.size \in Nat
           /\ s.seekToPosition \in {-1} \cup Nat /\ s.thrown = FALSE
           /\ Count(s) \in Nat /\ EntireSize(s) \in Nat
           /\ \A i \in 1..Count(s) : s.ends[i] \in Nat \ {0}
<1>1. /\ s.bytes \in Seq(Bytes) /\ s.ends \in Seq(Nat \ {0})
      /\ s.currentPosition \in Nat /\ s.currentPositionInChunk \in Nat
      /\ s.currentChunkIndex \in Nat /\ s.size \in Nat
      /\ s.seekToPosition \in {-1} \cup Nat /\ s.thrown = FALSE
  BY DEF Fields
<1>2. ASSUME NEW S, NEW e \in Seq(S) PROVE Len(e) \in Nat /\ \A i \in 1..Len(e) : e[i] \in S
  OBVIOUS
<1>3. Count(s) \in Nat /\ \A i \in 1..Count(s) : s.ends[i] \in Nat \ {0}
  BY <1>1, <1>2 DEF Count
<1>4. EntireSize(s) \in Nat BY <1>1, <1>2 DEF EntireSize
<1> QED BY <1>1, <1>3, <1>4

\* The chunks follow each other, none is empty, the last one ends at the end.
LEMMA ChunkFacts ==
    ASSUME NEW s \in Fields, ChunksInOrder(s)
    PROVE  /\ Count(s) \in Nat /\ EntireSize(s) \in Nat
           /\ \A i \in 1..Count(s) :
                /\ s.ends[i] \in Nat /\ Start(s, i) \in Nat /\ Start(s, i) < s.ends[i]
                /\ s.ends[i] <= EntireSize(s)
                /\ ChunkLength(s, i) \in Nat \ {0}
                /\ Start(s, i) + ChunkLength(s, i) = s.ends[i]
           /\ \A i, j \in 1..Count(s) : i < j => s.ends[i] <= Start(s, j)
           /\ \A i \in 1..Count(s) : i + 1 \in 1..Count(s) => Start(s, i + 1) = s.ends[i]
           /\ Count(s) = 0 => EntireSize(s) = 0 /\ s.bytes = <<>> /\ s.ends = <<>>
           /\ Count(s) > 0 => /\ Count(s) \in 1..Count(s) /\ s.ends[Count(s)] = EntireSize(s)
                              /\ LastLength(s) \in Nat \ {0}
                              /\ LastLength(s) = ChunkLength(s, Count(s))
                              /\ Start(s, Count(s)) + LastLength(s) = EntireSize(s)
<1> DEFINE n == Count(s)
           b == EntireSize(s)
           e == s.ends
<1>1. n \in Nat /\ b \in Nat /\ \A i \in 1..n : e[i] \in Nat \ {0} BY FieldTypes
<1>2. \A i, j \in 1..n : i < j => e[i] < e[j] BY DEF ChunksInOrder
<1>3. b = IF n = 0 THEN 0 ELSE e[n] BY DEF ChunksInOrder
<1>4. \A i \in 1..n : Start(s, i) = IF i = 1 THEN 0 ELSE e[i - 1] BY DEF Start
<1>5. \A i \in 1..n : ChunkLength(s, i) = e[i] - Start(s, i) BY DEF ChunkLength
<1>6. LastLength(s) = ChunkLength(s, n) BY DEF LastLength
<1>7. n = 0 => s.bytes = <<>> /\ s.ends = <<>> BY <1>3, FieldTypes DEF Count, EntireSize
<1> HIDE DEF n, b, e
<1>8. ASSUME NEW i \in 1..n PROVE Start(s, i) \in Nat /\ Start(s, i) < e[i]
  <2>1. CASE i = 1 BY <1>1, <1>4, <2>1
  <2>2. CASE i # 1
    <3>1. i - 1 \in 1..n /\ i - 1 < i BY <1>1, <2>2
    <3>2. e[i - 1] < e[i] /\ e[i - 1] \in Nat BY <1>1, <1>2, <3>1
    <3> QED BY <1>4, <2>2, <3>2
  <2> QED BY <2>1, <2>2
<1>9. ASSUME NEW i \in 1..n PROVE e[i] <= b
  <2>1. CASE i = n BY <1>1, <1>3, <2>1
  <2>2. CASE i # n
    <3>1. n \in 1..n /\ i < n /\ n # 0 BY <1>1, <2>2
    <3>2. e[i] < e[n] BY <1>2, <3>1
    <3> QED BY <1>1, <1>3, <3>1, <3>2
  <2> QED BY <2>1, <2>2
<1>10. ASSUME NEW i \in 1..n
       PROVE  ChunkLength(s, i) \in Nat \ {0} /\ Start(s, i) + ChunkLength(s, i) = e[i]
  <2> DEFINE st == Start(s, i)
  <2>1. st \in Nat /\ st < e[i] /\ e[i] \in Nat /\ ChunkLength(s, i) = e[i] - st
    BY <1>1, <1>5, <1>8
  <2> HIDE DEF st
  <2>2. e[i] - st \in Nat \ {0} /\ st + (e[i] - st) = e[i] BY <2>1
  <2> QED BY <2>1, <2>2 DEF st
<1>11. ASSUME NEW i \in 1..n, NEW j \in 1..n, i < j PROVE e[i] <= Start(s, j)
  <2>1. j # 1 /\ j - 1 \in 1..n /\ Start(s, j) = e[j - 1] BY <1>1, <1>4, <1>11
  <2>2. CASE i = j - 1 BY <1>1, <2>1, <2>2
  <2>3. CASE i < j - 1
    <3>1. e[i] < e[j - 1] BY <1>2, <2>1, <2>3
    <3> QED BY <1>1, <2>1, <3>1
  <2> QED BY <1>1, <1>11, <2>2, <2>3
<1>12. ASSUME NEW i \in 1..n, i + 1 \in 1..n PROVE Start(s, i + 1) = e[i]
  <2>1. i + 1 # 1 /\ (i + 1) - 1 = i BY <1>1
  <2> QED BY <1>4, <1>12, <2>1
<1>13. n > 0 => n \in 1..n /\ e[n] = b BY <1>1, <1>3
<1>14. n = 0 => b = 0 BY <1>3
<1> QED BY <1>1, <1>6, <1>7, <1>8, <1>9, <1>10, <1>11, <1>12, <1>13, <1>14 DEF n, b, e

\* What is said of the chunks depends on the places of their ends only.
LEMMA SameChunks ==
    ASSUME NEW s \in Fields, NEW r \in Fields, r.ends = s.ends, EntireSize(r) = EntireSize(s)
    PROVE  /\ Count(r) = Count(s) /\ LastLength(r) = LastLength(s)
           /\ \A i : Start(r, i) = Start(s, i) /\ ChunkLength(r, i) = ChunkLength(s, i)
           /\ ChunksInOrder(r) <=> ChunksInOrder(s)
  BY DEF Count, LastLength, Start, ChunkLength, ChunksInOrder

-----------------------------------------------------------------------------
(* A chunk more                                                            *)

\* The first bytes of both are the same.
Agree(a, b, n) == n <= Len(a) /\ n <= Len(b) /\ \A k \in 1..n : b[k] = a[k]

LEMMA AgreeLess ==
    ASSUME NEW a, NEW b, NEW m \in Nat, NEW n \in Nat, n <= m, Agree(a, b, m),
           Len(a) \in Nat, Len(b) \in Nat
    PROVE  Agree(a, b, n)
  BY DEF Agree

LEMMA AgreeThrough ==
    ASSUME NEW a, NEW b, NEW c, NEW n \in Nat, Agree(a, b, n), Agree(b, c, n)
    PROVE  Agree(a, c, n)
  BY DEF Agree

LEMMA WithChunkFacts ==
    ASSUME NEW s \in Fields, ChunksInOrder(s), NEW length \in Nat \ {0},
           NEW r, r = WithChunk(s, length)
    PROVE  /\ r \in Fields /\ ChunksInOrder(r)
           /\ Count(r) = Count(s) + 1 /\ EntireSize(r) = EntireSize(s) + length
           /\ \A i \in 1..Count(s) : /\ r.ends[i] = s.ends[i] /\ Start(r, i) = Start(s, i)
                                     /\ ChunkLength(r, i) = ChunkLength(s, i)
           /\ Start(r, Count(r)) = EntireSize(s) /\ LastLength(r) = length
           /\ Agree(s.bytes, r.bytes, EntireSize(s))
           /\ r.currentPosition = s.currentPosition /\ r.size = s.size
           /\ r.currentPositionInChunk = s.currentPositionInChunk
           /\ r.currentChunkIndex = s.currentChunkIndex
           /\ r.seekToPosition = s.seekToPosition
<1> DEFINE zeros == [i \in 1..length |-> Zero]
           n == Count(s)
           b == EntireSize(s)
<1>1. zeros \in Seq(Bytes) /\ Len(zeros) = length
  <2>1. zeros \in [1..length -> Bytes] BY CallersAssumption
  <2>2. DOMAIN zeros = 1..length OBVIOUS
  <2> QED BY <2>1, <2>2
<1>2. /\ r.bytes = s.bytes \o zeros /\ r.ends = Append(s.ends, b + length)
      /\ r = [s EXCEPT !.bytes = s.bytes \o zeros, !.ends = Append(s.ends, b + length)]
      /\ r.currentPosition = s.currentPosition /\ r.size = s.size
      /\ r.currentPositionInChunk = s.currentPositionInChunk
      /\ r.currentChunkIndex = s.currentChunkIndex
      /\ r.seekToPosition = s.seekToPosition
  BY DEF WithChunk, Fields
<1>3. /\ s.bytes \in Seq(Bytes) /\ s.ends \in Seq(Nat \ {0}) /\ n \in Nat /\ b \in Nat
      /\ Len(s.bytes) = b /\ Len(s.ends) = n
  BY FieldTypes DEF Count, EntireSize
<1> HIDE DEF zeros, n, b
<1>4. s.bytes \o zeros \in Seq(Bytes) /\ Len(s.bytes \o zeros) = b + length
      /\ \A k \in 1..b : (s.bytes \o zeros)[k] = s.bytes[k]
  <2>1. /\ s.bytes \o zeros \in Seq(Bytes)
        /\ Len(s.bytes \o zeros) = Len(s.bytes) + Len(zeros)
        /\ \A k \in 1..Len(s.bytes) : (s.bytes \o zeros)[k] = s.bytes[k]
    <3> DEFINE old == s.bytes
    <3>1. old \in Seq(Bytes) BY <1>3
    <3> HIDE DEF old
    <3>2. /\ old \o zeros \in Seq(Bytes) /\ Len(old \o zeros) = Len(old) + Len(zeros)
          /\ \A k \in 1..Len(old) : (old \o zeros)[k] = old[k]
      BY <1>1, <3>1
    <3> QED BY <3>2 DEF old
  <2> QED BY <1>1, <1>3, <2>1
<1>5. b + length \in Nat \ {0} BY <1>3
<1>6. /\ Append(s.ends, b + length) \in Seq(Nat \ {0}) /\ Len(Append(s.ends, b + length)) = n + 1
      /\ \A i \in 1..n : Append(s.ends, b + length)[i] = s.ends[i]
      /\ Append(s.ends, b + length)[n + 1] = b + length
  BY <1>3, <1>5
<1>7. r \in Fields BY <1>2, <1>4, <1>6 DEF Fields
<1>8. Count(r) = n + 1 /\ EntireSize(r) = b + length BY <1>2, <1>4, <1>6 DEF Count, EntireSize
<1>9. r.ends[n + 1] = b + length /\ \A i \in 1..n : r.ends[i] = s.ends[i] BY <1>2, <1>6
<1>10. ASSUME NEW i \in 1..n
       PROVE  Start(r, i) = Start(s, i) /\ ChunkLength(r, i) = ChunkLength(s, i)
  <2>1. i = 1 \/ i - 1 \in 1..n BY <1>3
  <2>2. Start(r, i) = Start(s, i) BY <1>9, <2>1 DEF Start
  <2> QED BY <1>9, <2>2 DEF ChunkLength
<1>11. Start(r, n + 1) = b
  <2>1. CASE n = 0 BY <2>1, ChunkFacts DEF Start, n, b
  <2>2. CASE n > 0
    <3>1. n \in 1..n /\ n + 1 # 1 /\ (n + 1) - 1 = n BY <1>3, <2>2
    <3>2. s.ends[n] = b BY <2>2, ChunkFacts DEF n, b
    <3> QED BY <1>9, <3>1, <3>2 DEF Start
  <2> QED BY <1>3, <2>1, <2>2
<1>12. LastLength(r) = length
  <2>1. LastLength(r) = (b + length) - b BY <1>8, <1>9, <1>11 DEF LastLength, ChunkLength
  <2> QED BY <1>3, <2>1
<1>13. ChunksInOrder(r)
  <2>1. ASSUME NEW i \in 1..(n + 1), NEW j \in 1..(n + 1), i < j PROVE r.ends[i] < r.ends[j]
    <3>1. i \in 1..n /\ s.ends[i] <= b /\ s.ends[i] \in Nat
      <4>1. i \in 1..n BY <1>3, <2>1
      <4> QED BY <4>1, ChunkFacts DEF n, b
    <3>2. CASE j = n + 1 BY <1>3, <1>9, <3>1, <3>2
    <3>3. CASE j # n + 1
      <4>1. j \in 1..n BY <1>3, <3>3
      <4>2. s.ends[i] < s.ends[j] BY <2>1, <3>1, <4>1 DEF ChunksInOrder, n
      <4> QED BY <1>9, <3>1, <4>1, <4>2
    <3> QED BY <3>2, <3>3
  <2>2. EntireSize(r) = IF Count(r) = 0 THEN 0 ELSE r.ends[Count(r)] BY <1>3, <1>8, <1>9
  <2> QED BY <1>8, <2>1, <2>2 DEF ChunksInOrder
<1>14. Agree(s.bytes, r.bytes, b)
  <2>1. b <= b + length /\ Len(r.bytes) = b + length BY <1>2, <1>3, <1>4
  <2> QED BY <1>2, <1>3, <1>4, <2>1 DEF Agree
<1> QED BY <1>2, <1>7, <1>8, <1>9, <1>10, <1>11, <1>12, <1>13, <1>14 DEF n, b

\* Where the cursor is when the chunk in front of it has to be made.
BehindLast(s) ==
    s.currentChunkIndex = 0 \/ (s.currentChunkIndex = Count(s) /\ LastLength(s) = s.currentPositionInChunk)

\* allocateNextChunk does not throw below the maximal size.
LEMMA AllocatedFacts ==
    ASSUME NEW s \in Fields, ChunksInOrder(s), NEW atLeast \in Nat, s.size + atLeast < MaxSize,
           NEW r, r = Allocated(s, atLeast)
    PROVE  /\ r \in Fields /\ ChunksInOrder(r) /\ LastLength(r) \in Nat \ {0}
           /\ Count(r) = Count(s) + 1 /\ EntireSize(r) = EntireSize(s) + LastLength(r)
           /\ \A i \in 1..Count(s) : /\ r.ends[i] = s.ends[i] /\ Start(r, i) = Start(s, i)
                                     /\ ChunkLength(r, i) = ChunkLength(s, i)
           /\ Start(r, Count(r)) = EntireSize(s) /\ LastLength(r) >= atLeast
           /\ Agree(s.bytes, r.bytes, EntireSize(s))
           /\ r.currentPosition = s.currentPosition /\ r.size = s.size
           /\ r.seekToPosition = s.seekToPosition
           /\ r.currentChunkIndex = IF BehindLast(s) THEN s.currentChunkIndex + 1
                                                     ELSE s.currentChunkIndex
           /\ r.currentPositionInChunk = IF BehindLast(s) THEN 0 ELSE s.currentPositionInChunk
<1> DEFINE t == ToNextChunk(s)
           length == Larger(NextChunkSize(s), atLeast)
<1>1. /\ s.size \in Nat /\ MaxSize \in Nat /\ MaxChunkSize \in Nat \ {0} /\ InitialSize \in Nat \ {0}
  BY FieldTypes, SizesAssumption
<1>2. NextChunkSize(s) \in Nat \ {0}
  <2> DEFINE doubled == IF Count(s) = 0 THEN InitialSize ELSE 2 * LastLength(s)
  <2>1. doubled \in Nat \ {0}
    <3>1. CASE Count(s) = 0 BY <1>1, <3>1
    <3>2. CASE Count(s) # 0
      <4>1. LastLength(s) \in Nat \ {0} BY <3>2, ChunkFacts
      <4>2. 2 * LastLength(s) \in Nat \ {0} BY <4>1
      <4> QED BY <3>2, <4>2
    <3> QED BY <3>1, <3>2
  <2> HIDE DEF doubled
  <2>2. NextChunkSize(s) = Smaller(Smaller(doubled, MaxChunkSize), MaxSize - s.size)
    BY DEF NextChunkSize, doubled
  <2> QED BY <1>1, <2>1, <2>2 DEF Smaller
<1>3. length \in Nat \ {0} /\ length >= atLeast BY <1>2 DEF Larger
<1>4. r = WithChunk(t, length) BY <1>1, <1>2 DEF Allocated
<1>5. /\ t \in Fields /\ t.bytes = s.bytes /\ t.ends = s.ends
      /\ t.currentPosition = s.currentPosition /\ t.size = s.size
      /\ t.seekToPosition = s.seekToPosition
      /\ t.currentChunkIndex = IF BehindLast(s) THEN s.currentChunkIndex + 1
                                                ELSE s.currentChunkIndex
      /\ t.currentPositionInChunk = IF BehindLast(s) THEN 0 ELSE s.currentPositionInChunk
  <2>1. CASE BehindLast(s)
    <3>1. t = [s EXCEPT !.currentPositionInChunk = 0, !.currentChunkIndex = @ + 1]
      BY <2>1 DEF ToNextChunk, BehindLast
    <3>2. s.currentChunkIndex \in Nat BY FieldTypes
    <3>3. s.currentChunkIndex + 1 \in Nat BY <3>2
    <3> HIDE DEF t
    <3> QED BY <2>1, <3>1, <3>3 DEF Fields
  <2>2. CASE ~BehindLast(s)
    <3>1. t = s BY <2>2 DEF ToNextChunk, BehindLast
    <3> QED BY <2>2, <3>1
  <2> QED BY <2>1, <2>2
<1> HIDE DEF t, length
<1>6. EntireSize(t) = EntireSize(s) /\ ChunksInOrder(t) /\ Count(t) = Count(s)
      /\ \A i : Start(t, i) = Start(s, i) /\ ChunkLength(t, i) = ChunkLength(s, i)
  <2>1. EntireSize(t) = EntireSize(s) BY <1>5 DEF EntireSize
  <2> QED BY <1>5, <2>1, SameChunks
<1>7. /\ r \in Fields /\ ChunksInOrder(r)
      /\ Count(r) = Count(t) + 1 /\ EntireSize(r) = EntireSize(t) + length
      /\ \A i \in 1..Count(t) : /\ r.ends[i] = t.ends[i] /\ Start(r, i) = Start(t, i)
                                /\ ChunkLength(r, i) = ChunkLength(t, i)
      /\ Start(r, Count(r)) = EntireSize(t) /\ LastLength(r) = length
      /\ Agree(t.bytes, r.bytes, EntireSize(t))
      /\ r.currentPosition = t.currentPosition /\ r.size = t.size
      /\ r.currentPositionInChunk = t.currentPositionInChunk
      /\ r.currentChunkIndex = t.currentChunkIndex
      /\ r.seekToPosition = t.seekToPosition
  BY <1>3, <1>4, <1>5, <1>6, WithChunkFacts
<1> QED BY <1>3, <1>5, <1>6, <1>7

\* The cursor behind the last chunk goes to the new one.
LEMMA AllocatedCursor ==
    ASSUME NEW s, Sound(s), NEW atLeast \in Nat, s.size + atLeast < MaxSize,
           NEW r, r = Allocated(s, atLeast)
    PROVE  /\ CursorIn(r) /\ CursorInFront(r) /\ s.size <= EntireSize(r)
           /\ BehindLast(s) => r.currentChunkIndex = Count(r)
<1>1. /\ s \in Fields /\ ChunksInOrder(s) /\ CursorIn(s) /\ CursorInFront(s)
      /\ s.size <= EntireSize(s)
  BY DEF Sound
<1> DEFINE n == Count(s)
           e == EntireSize(s)
           l == LastLength(r)
           i == s.currentChunkIndex
           p == s.currentPositionInChunk
           c == s.currentPosition
<1>2. /\ l \in Nat \ {0} /\ Count(r) = n + 1 /\ EntireSize(r) = e + l
      /\ \A k \in 1..n : /\ r.ends[k] = s.ends[k] /\ Start(r, k) = Start(s, k)
                         /\ ChunkLength(r, k) = ChunkLength(s, k)
      /\ Start(r, n + 1) = e /\ r.currentPosition = c
      /\ r.currentChunkIndex = IF BehindLast(s) THEN i + 1 ELSE i
      /\ r.currentPositionInChunk = IF BehindLast(s) THEN 0 ELSE p
      /\ ChunkLength(r, n + 1) = l
  <2>1. LastLength(r) = ChunkLength(r, Count(r)) BY DEF LastLength
  <2> QED BY <1>1, <2>1, AllocatedFacts
<1>3. n \in Nat /\ e \in Nat /\ i \in Nat /\ p \in Nat /\ c \in Nat /\ s.size \in Nat
  BY <1>1, FieldTypes
<1>4. /\ n = 0 => e = 0
      /\ n > 0 => Start(s, n) + LastLength(s) = e /\ ChunkLength(s, n) = LastLength(s)
      /\ \A k \in 1..n : ChunkLength(s, k) \in Nat
  BY <1>1, ChunkFacts
<1>5. \/ i = 0 /\ n = 0 /\ c = 0
      \/ i \in 1..n /\ p <= ChunkLength(s, i) /\ c = Start(s, i) + p
  BY <1>1 DEF CursorIn
<1>6. i \in 1..(n - 1) => p < ChunkLength(s, i) BY <1>1 DEF CursorInFront
<1>7. BehindLast(s) <=> i = 0 \/ (i = n /\ LastLength(s) = p) BY DEF BehindLast
<1> HIDE DEF n, e, l, i, p, c
<1>8. s.size <= EntireSize(r) BY <1>1, <1>2, <1>3 DEF e
<1>9. CASE BehindLast(s)
  <2>1. i = n /\ c = e
    <3>1. CASE i = 0 BY <1>3, <1>4, <1>5, <3>1
    <3>2. CASE i # 0 BY <1>3, <1>4, <1>5, <1>7, <1>9, <3>2
    <3> QED BY <3>1, <3>2
  <2>2. r.currentChunkIndex = n + 1 /\ r.currentPositionInChunk = 0 BY <1>2, <1>9, <2>1
  <2>3. CursorIn(r) BY <1>2, <1>3, <2>1, <2>2 DEF CursorIn
  <2>4. CursorInFront(r) BY <1>2, <1>3, <2>2 DEF CursorInFront
  <2> QED BY <1>2, <1>8, <2>2, <2>3, <2>4
<1>10. CASE ~BehindLast(s)
  <2>1. r.currentChunkIndex = i /\ r.currentPositionInChunk = p BY <1>2, <1>10
  <2>2. i \in 1..n /\ p <= ChunkLength(s, i) /\ c = Start(s, i) + p BY <1>5, <1>7, <1>10
  <2>3. p < ChunkLength(s, i)
    <3>1. CASE i = n
      <4>1. ChunkLength(s, n) = LastLength(s) /\ ChunkLength(s, n) \in Nat
        BY <1>3, <1>4, <2>2, <3>1
      <4> QED BY <1>3, <1>7, <1>10, <2>2, <3>1, <4>1
    <3>2. CASE i # n BY <1>3, <1>6, <2>2, <3>2
    <3> QED BY <3>1, <3>2
  <2>4. CursorIn(r) BY <1>2, <1>3, <2>1, <2>2 DEF CursorIn
  <2>5. CursorInFront(r) BY <1>2, <2>1, <2>2, <2>3 DEF CursorInFront
  <2> QED BY <1>8, <1>10, <2>4, <2>5
<1> QED BY <1>9, <1>10

-----------------------------------------------------------------------------
(* Growing                                                                 *)

\* What is said of the cursor depends on these fields only.
LEMMA SameCursor ==
    ASSUME NEW s \in Fields, NEW r \in Fields, r.ends = s.ends, EntireSize(r) = EntireSize(s),
           r.currentPosition = s.currentPosition, r.currentChunkIndex = s.currentChunkIndex,
           r.currentPositionInChunk = s.currentPositionInChunk,
           ChunksInOrder(s), CursorIn(s), CursorInFront(s)
    PROVE  ChunksInOrder(r) /\ CursorIn(r) /\ CursorInFront(r)
<1>1. Count(r) = Count(s) /\ ChunksInOrder(r)
      /\ \A i : Start(r, i) = Start(s, i) /\ ChunkLength(r, i) = ChunkLength(s, i)
  BY SameChunks
<1> QED BY <1>1 DEF CursorIn, CursorInFront

\* The cursor may be set to any place of the last chunk.
LEMMA AtEndFacts ==
    ASSUME NEW s \in Fields, ChunksInOrder(s), Count(s) > 0, NEW inChunk \in Nat,
           inChunk <= LastLength(s), NEW newSize, newSize = Start(s, Count(s)) + inChunk,
           NEW r, r = AtEnd(s, newSize, inChunk)
    PROVE  /\ r \in Fields /\ ChunksInOrder(r) /\ CursorIn(r) /\ CursorInFront(r)
           /\ r.bytes = s.bytes /\ r.ends = s.ends /\ EntireSize(r) = EntireSize(s)
           /\ r.size = s.size /\ r.seekToPosition = s.seekToPosition
           /\ r.currentPosition = newSize
<1>1. Start(s, Count(s)) \in Nat /\ Count(s) \in 1..Count(s) /\ Count(s) \in Nat
      /\ LastLength(s) = ChunkLength(s, Count(s))
  BY ChunkFacts
<1>2. newSize \in Nat BY <1>1
<1>3. /\ r \in Fields /\ r.bytes = s.bytes /\ r.ends = s.ends
      /\ r.currentChunkIndex = Count(s) /\ r.currentPositionInChunk = inChunk
      /\ r.currentPosition = newSize /\ r.size = s.size
      /\ r.seekToPosition = s.seekToPosition
  BY <1>1, <1>2 DEF AtEnd, Fields
<1>4. EntireSize(r) = EntireSize(s) BY <1>3 DEF EntireSize
<1>5. Count(r) = Count(s) /\ ChunksInOrder(r)
      /\ \A i : Start(r, i) = Start(s, i) /\ ChunkLength(r, i) = ChunkLength(s, i)
  BY <1>3, <1>4, SameChunks
<1>6. CursorIn(r) BY <1>1, <1>3, <1>5 DEF CursorIn
<1>7. CursorInFront(r) BY <1>1, <1>3, <1>5 DEF CursorInFront
<1> QED BY <1>3, <1>4, <1>5, <1>6, <1>7

\* Another size.
Resized(s, newSize) == [s EXCEPT !.size = newSize]

LEMMA SizeSet ==
    ASSUME NEW s \in Fields, ChunksInOrder(s), CursorIn(s), CursorInFront(s),
           NEW newSize \in Nat, NEW r, r = Resized(s, newSize)
    PROVE  /\ r \in Fields /\ ChunksInOrder(r) /\ CursorIn(r) /\ CursorInFront(r)
           /\ r.bytes = s.bytes /\ r.ends = s.ends /\ EntireSize(r) = EntireSize(s)
           /\ Count(r) = Count(s) /\ Start(r, Count(r)) = Start(s, Count(s))
           /\ LastLength(r) = LastLength(s)
           /\ r.size = newSize /\ r.seekToPosition = s.seekToPosition
           /\ r.currentPosition = s.currentPosition
           /\ r.currentChunkIndex = s.currentChunkIndex
           /\ r.currentPositionInChunk = s.currentPositionInChunk
<1>1. /\ r \in Fields /\ r.bytes = s.bytes /\ r.ends = s.ends
      /\ r.size = newSize /\ r.seekToPosition = s.seekToPosition
      /\ r.currentPosition = s.currentPosition
      /\ r.currentChunkIndex = s.currentChunkIndex
      /\ r.currentPositionInChunk = s.currentPositionInChunk
  BY DEF Fields, Resized
<1>2. EntireSize(r) = EntireSize(s) BY <1>1 DEF EntireSize
<1> QED BY <1>1, <1>2, SameChunks, SameCursor

LEMMA EmptyReady == Ready(Empty) /\ Empty.size = 0 /\ Empty.currentPosition = 0
                    /\ Empty.seekToPosition = -1 /\ Empty.bytes = <<>> /\ Count(Empty) = 0
                    /\ Empty.currentChunkIndex = 0
<1>1. Empty \in Fields /\ Empty.size = 0 /\ Empty.currentPosition = 0
      /\ Empty.seekToPosition = -1 /\ Empty.bytes = <<>> /\ Empty.ends = <<>>
      /\ Empty.currentChunkIndex = 0 /\ Empty.currentPositionInChunk = 0
  BY DEF Empty, Fields
<1>2. Count(Empty) = 0 /\ EntireSize(Empty) = 0 BY <1>1 DEF Count, EntireSize
<1>3. ChunksInOrder(Empty) /\ CursorIn(Empty) /\ CursorInFront(Empty) /\ Settled(Empty)
  BY <1>1, <1>2 DEF ChunksInOrder, CursorIn, CursorInFront, Settled
<1> QED BY <1>1, <1>2, <1>3, SizesAssumption DEF Ready, Sound

\* The last steps of growing: the cursor and the size.
ToNewSize(s, newSize, inLast, toEnd) ==
    Resized(IF toEnd THEN AtEnd(s, newSize, inLast) ELSE s, newSize)

LEMMA GrowingEnds ==
    ASSUME NEW s \in Fields, ChunksInOrder(s), CursorIn(s), CursorInFront(s), Count(s) > 0,
           NEW inLast \in Nat \ {0}, inLast <= LastLength(s),
           NEW newSize, newSize = Start(s, Count(s)) + inLast, newSize <= Limit,
           s.currentPosition <= newSize, NEW toEnd \in BOOLEAN,
           NEW r, r = ToNewSize(s, newSize, inLast, toEnd)
    PROVE  /\ Ready(r) /\ r.size = newSize /\ r.seekToPosition = s.seekToPosition
           /\ r.bytes = s.bytes
           /\ r.currentPosition = IF toEnd THEN newSize ELSE s.currentPosition
<1> DEFINE t == IF toEnd THEN AtEnd(s, newSize, inLast) ELSE s
<1>1. /\ t \in Fields /\ ChunksInOrder(t) /\ CursorIn(t) /\ CursorInFront(t)
      /\ t.bytes = s.bytes /\ t.ends = s.ends /\ EntireSize(t) = EntireSize(s)
      /\ t.seekToPosition = s.seekToPosition
      /\ t.currentPosition = IF toEnd THEN newSize ELSE s.currentPosition
  <2>1. CASE toEnd BY <2>1, AtEndFacts
  <2>2. CASE ~toEnd BY <2>2
  <2> QED BY <2>1, <2>2
<1>2. r = Resized(t, newSize) BY DEF ToNewSize
<1> HIDE DEF t
<1>3. /\ Start(s, Count(s)) \in Nat /\ LastLength(s) \in Nat
      /\ Start(s, Count(s)) + LastLength(s) = EntireSize(s) /\ EntireSize(s) \in Nat
  BY ChunkFacts
<1>4. newSize \in Nat /\ newSize <= EntireSize(s) /\ Start(s, Count(s)) < newSize BY <1>3
<1>5. /\ r \in Fields /\ ChunksInOrder(r) /\ CursorIn(r) /\ CursorInFront(r)
      /\ r.bytes = t.bytes /\ r.ends = t.ends /\ EntireSize(r) = EntireSize(t)
      /\ r.size = newSize /\ r.seekToPosition = t.seekToPosition
      /\ r.currentPosition = t.currentPosition
  BY ONLY <1>1, <1>2, <1>4, SizeSet
<1>6. Count(r) = Count(s) /\ Start(r, Count(r)) = Start(s, Count(s))
  BY <1>1, <1>5, SameChunks
<1>7. Settled(r) BY <1>1, <1>4, <1>5, <1>6 DEF Settled
<1>8. Sound(r) BY <1>1, <1>4, <1>5 DEF Sound
<1> QED BY <1>1, <1>5, <1>7, <1>8 DEF Ready

\* setSize with a larger size, as a call and for a seek behind the end.
LEMMA GrownFacts ==
    ASSUME BelowMaximum, NEW s, Ready(s), NEW newSize \in Nat, newSize > s.size,
           newSize <= Limit, NEW toEnd \in BOOLEAN, NEW r, r = Grown(s, newSize, toEnd)
    PROVE  /\ Ready(r) /\ r.size = newSize /\ r.seekToPosition = s.seekToPosition
           /\ Agree(s.bytes, r.bytes, s.size)
           /\ r.currentPosition = IF toEnd THEN newSize ELSE s.currentPosition
<1>1. /\ s \in Fields /\ ChunksInOrder(s) /\ CursorIn(s) /\ CursorInFront(s)
      /\ s.size <= EntireSize(s) /\ s.currentPosition <= s.size
      /\ Count(s) > 0 => Start(s, Count(s)) < s.size
  BY DEF Ready, Sound, Settled
<1>2. s.size \in Nat /\ s.currentPosition \in Nat /\ Count(s) \in Nat /\ EntireSize(s) \in Nat
      /\ Limit < MaxSize /\ Limit \in Nat /\ MaxSize \in Nat
  BY <1>1, FieldTypes, SizesAssumption DEF BelowMaximum
<1>3. CASE s.size = 0
  <2> DEFINE w == WithChunk(s, newSize)
             t == [w EXCEPT !.currentChunkIndex = 1, !.size = newSize]
  <2>1. Count(s) = 0 /\ EntireSize(s) = 0 /\ s.currentPosition = 0 /\ s.currentPositionInChunk = 0
    <3>1. Count(s) = 0
      <4>1. Count(s) > 0 => Start(s, Count(s)) \in Nat BY <1>1, ChunkFacts
      <4> QED BY <1>1, <1>2, <1>3, <4>1
    <3>2. s.currentChunkIndex = 0 BY <1>1, <3>1 DEF CursorIn
    <3> QED BY <1>1, <1>2, <1>3, <3>1, <3>2, ChunkFacts DEF CursorInFront
  <2>2. /\ w \in Fields /\ ChunksInOrder(w) /\ Count(w) = 1 /\ EntireSize(w) = newSize
        /\ Start(w, 1) = 0 /\ LastLength(w) = newSize /\ w.currentPosition = 0
        /\ w.currentPositionInChunk = 0 /\ w.seekToPosition = s.seekToPosition
        /\ newSize \in Nat \ {0}
    <3>1. newSize \in Nat \ {0} BY <1>3
    <3>2. 0 + 1 = 1 /\ 0 + newSize = newSize OBVIOUS
    <3> HIDE DEF w
    <3>3. w = WithChunk(s, newSize) BY DEF w
    <3>4. /\ w \in Fields /\ ChunksInOrder(w) /\ Count(w) = Count(s) + 1
          /\ EntireSize(w) = EntireSize(s) + newSize
          /\ Start(w, Count(w)) = EntireSize(s) /\ LastLength(w) = newSize
          /\ w.currentPosition = s.currentPosition
          /\ w.currentPositionInChunk = s.currentPositionInChunk
          /\ w.seekToPosition = s.seekToPosition
      BY <1>1, <3>1, <3>3, WithChunkFacts
    <3>5. Count(w) = 1 /\ EntireSize(w) = newSize BY <2>1, <3>2, <3>4
    <3> QED BY <2>1, <3>1, <3>4, <3>5
  <2> HIDE DEF w
  <2>3. /\ t \in Fields /\ t.bytes = w.bytes /\ t.ends = w.ends /\ t.currentPosition = 0
        /\ t.currentPositionInChunk = 0 /\ t.seekToPosition = s.seekToPosition
        /\ t.currentChunkIndex = 1 /\ t.size = newSize
    BY <2>2 DEF Fields
  <2>4. t = [WithChunk(s, newSize) EXCEPT !.currentChunkIndex = 1, !.size = newSize] BY DEF w
  <2> HIDE DEF t
  <2>5. /\ EntireSize(t) = newSize /\ Count(t) = 1 /\ LastLength(t) = newSize
        /\ Start(t, 1) = 0 /\ ChunksInOrder(t) /\ ChunkLength(t, 1) = newSize
    <3>1. EntireSize(t) = EntireSize(w) BY <2>3 DEF EntireSize
    <3>2. LastLength(w) = ChunkLength(w, 1) BY <2>2 DEF LastLength
    <3> QED BY <2>2, <2>3, <3>1, <3>2, SameChunks
  <2>6. CursorIn(t) /\ CursorInFront(t) BY <2>2, <2>3, <2>5 DEF CursorIn, CursorInFront
  <2>7. r = ToNewSize(t, newSize, newSize, toEnd)
    <3>1. ~(s.size > 0) BY <1>3
    <3>2. newSize - newSize - (newSize - newSize) = 0 /\ newSize + 0 = newSize BY <2>2
    <3>3. t.thrown = FALSE BY <2>3, FieldTypes
    <3> QED BY <2>3, <2>4, <2>5, <3>1, <3>2, <3>3 DEF Grown, ToNewSize, Resized
  <2>8. /\ Ready(r) /\ r.size = newSize /\ r.seekToPosition = t.seekToPosition
        /\ r.currentPosition = IF toEnd THEN newSize ELSE t.currentPosition
    <3>1. newSize <= newSize /\ 0 <= newSize /\ newSize = 0 + newSize BY <2>2
    <3> QED BY <2>2, <2>3, <2>5, <2>6, <2>7, <3>1, GrowingEnds
  <2>9. Agree(s.bytes, r.bytes, 0)
    <3>1. r \in Fields BY <2>8 DEF Ready, Sound
    <3>2. Len(r.bytes) \in Nat /\ Len(s.bytes) \in Nat BY <1>1, <3>1, FieldTypes DEF EntireSize
    <3> QED BY <3>2 DEF Agree
  <2> QED BY <1>3, <2>1, <2>3, <2>8, <2>9
<1>4. CASE s.size > 0 /\ newSize <= EntireSize(s)
  <2>1. Count(s) > 0 BY <1>1, <1>2, <1>4, ChunkFacts
  <2> DEFINE inLast == LastLength(s) + (newSize - s.size - (EntireSize(s) - s.size))
  <2>2. /\ Start(s, Count(s)) \in Nat /\ LastLength(s) \in Nat
        /\ Start(s, Count(s)) + LastLength(s) = EntireSize(s)
    BY <1>1, <2>1, ChunkFacts
  <2>3. /\ inLast \in Nat \ {0} /\ inLast <= LastLength(s) /\ newSize = Start(s, Count(s)) + inLast
        /\ ~(newSize - s.size - (EntireSize(s) - s.size) > 0)
    <3> DEFINE st == Start(s, Count(s))
               l == LastLength(s)
               e == EntireSize(s)
               z == s.size
    <3>1. st \in Nat /\ l \in Nat /\ e \in Nat /\ z \in Nat /\ st + l = e /\ st < z /\ z < newSize
          /\ newSize <= e /\ inLast = l + (newSize - z - (e - z))
      BY <1>1, <1>2, <1>4, <2>1, <2>2
    <3> HIDE DEF st, l, e, z, inLast
    <3>2. /\ inLast \in Nat \ {0} /\ inLast <= l /\ newSize = st + inLast
          /\ ~(newSize - z - (e - z) > 0)
      BY <3>1
    <3> QED BY <3>2 DEF st, l, e, z
  <2>4. r = ToNewSize(s, newSize, inLast, toEnd)
    BY <1>1, <1>4, <2>3, FieldTypes DEF Grown, ToNewSize, Resized
  <2> HIDE DEF inLast
  <2>5. s.currentPosition <= newSize BY <1>1, <1>2
  <2>6. /\ Ready(r) /\ r.size = newSize /\ r.seekToPosition = s.seekToPosition
        /\ r.bytes = s.bytes
        /\ r.currentPosition = IF toEnd THEN newSize ELSE s.currentPosition
    BY <1>1, <2>1, <2>3, <2>4, <2>5, GrowingEnds
  <2>7. Agree(s.bytes, r.bytes, s.size) BY <1>1, <2>6 DEF Agree, EntireSize
  <2> QED BY <2>6, <2>7
<1>5. CASE s.size > 0 /\ newSize > EntireSize(s)
  <2> DEFINE missing == newSize - s.size - (EntireSize(s) - s.size)
             t == Resized(s, EntireSize(s))
             u == Allocated(t, missing)
  <2>1. /\ t \in Fields /\ ChunksInOrder(t) /\ CursorIn(t) /\ CursorInFront(t)
        /\ t.bytes = s.bytes /\ EntireSize(t) = EntireSize(s)
        /\ t.size = EntireSize(s) /\ t.seekToPosition = s.seekToPosition
        /\ t.currentPosition = s.currentPosition
    <3> DEFINE e == EntireSize(s)
    <3>1. t = Resized(s, e) /\ e \in Nat BY <1>2
    <3> HIDE DEF t, e
    <3>2. /\ t \in Fields /\ ChunksInOrder(t) /\ CursorIn(t) /\ CursorInFront(t)
          /\ t.bytes = s.bytes /\ EntireSize(t) = EntireSize(s)
          /\ t.size = e /\ t.seekToPosition = s.seekToPosition
          /\ t.currentPosition = s.currentPosition
      BY ONLY <1>1, <3>1, SizeSet
    <3> QED BY <3>2 DEF e
  <2>2. missing \in Nat \ {0} /\ EntireSize(s) + missing = newSize /\ newSize < MaxSize
        /\ s.size + (EntireSize(s) - s.size) = EntireSize(s)
    <3> DEFINE e == EntireSize(s)
               z == s.size
    <3>1. e \in Nat /\ z \in Nat /\ newSize > e /\ missing = newSize - z - (e - z) BY <1>2, <1>5
    <3> HIDE DEF e, z, missing
    <3>2. missing \in Nat \ {0} /\ e + missing = newSize /\ z + (e - z) = e BY <3>1
    <3> QED BY <1>2, <3>2 DEF e, z
  <2>3. missing > 0 BY <2>2
  <2>4. t.size + missing < MaxSize BY <2>1, <2>2
  <2>5. t = [s EXCEPT !.size = @ + (EntireSize(s) - s.size)]
    BY <1>1, <2>2 DEF Fields, Resized
  <2>6. r = ToNewSize(u, newSize, missing, toEnd)
    <3>1. u.thrown = FALSE
      <4> HIDE DEF t, missing
      <4>1. u \in Fields BY <2>1, <2>2, <2>4, AllocatedFacts
      <4> QED BY <4>1, FieldTypes
    <3> QED BY <1>5, <2>3, <2>5, <3>1 DEF Grown, ToNewSize, Resized
  <2> HIDE DEF t, missing
  <2>7. /\ u \in Fields /\ ChunksInOrder(u) /\ Count(u) = Count(t) + 1
        /\ Start(u, Count(u)) = EntireSize(t) /\ LastLength(u) >= missing
        /\ Agree(t.bytes, u.bytes, EntireSize(t))
        /\ u.currentPosition = t.currentPosition /\ u.seekToPosition = t.seekToPosition
    BY <2>1, <2>2, <2>4, AllocatedFacts
  <2>8. CursorIn(u) /\ CursorInFront(u)
    <3>1. Sound(t) BY <1>2, <2>1 DEF Sound
    <3> QED BY <2>2, <2>4, <3>1, AllocatedCursor
  <2>9. Count(u) > 0 /\ missing <= LastLength(u)
    <3>1. Count(t) \in Nat /\ LastLength(u) \in Nat
      <4>1. Count(t) \in Nat BY <2>1, FieldTypes
      <4> QED BY <2>1, <2>7, <4>1, ChunkFacts
    <3> QED BY <2>2, <2>7, <3>1
  <2>10. s.currentPosition <= newSize BY <1>1, <1>2
  <2> HIDE DEF u
  <2>11. /\ Ready(r) /\ r.size = newSize /\ r.seekToPosition = u.seekToPosition
         /\ r.bytes = u.bytes
         /\ r.currentPosition = IF toEnd THEN newSize ELSE u.currentPosition
    BY <2>1, <2>2, <2>6, <2>7, <2>8, <2>9, <2>10, GrowingEnds
  <2>12. Agree(s.bytes, r.bytes, s.size)
    <3>1. Agree(s.bytes, r.bytes, EntireSize(s)) BY <2>1, <2>7, <2>11
    <3> QED BY <1>1, <1>2, <3>1 DEF Agree, EntireSize
  <2> QED BY <2>1, <2>7, <2>11, <2>12
<1> QED BY <1>2, <1>3, <1>4, <1>5

-----------------------------------------------------------------------------
(* Shrinking                                                               *)

\* The chunk in which a new end lies.
LEMMA ChunkOf ==
    ASSUME NEW s \in Fields, ChunksInOrder(s), NEW p \in Nat, p < EntireSize(s)
    PROVE  /\ \E i \in 1..Count(s) : s.ends[i] > p /\ Start(s, i) <= p
           /\ p > 0 => \E i \in 1..Count(s) : s.ends[i] >= p /\ Start(s, i) < p
<1>1. /\ Count(s) \in Nat /\ EntireSize(s) \in Nat /\ Count(s) > 0
      /\ s.ends[Count(s)] = EntireSize(s) /\ Count(s) \in 1..Count(s)
      /\ \A i \in 1..Count(s) : s.ends[i] \in Nat
  BY ChunkFacts
<1>2. ASSUME NEW q \in Nat, q < EntireSize(s)
      PROVE  \E i \in 1..Count(s) : s.ends[i] > q /\ Start(s, i) <= q
  <2> DEFINE S == {i \in 1..Count(s) : s.ends[i] > q}
  <2>1. S \in SUBSET Nat /\ S # {} BY <1>1, <1>2
  <2>2. PICK i \in S : \A j \in S : i <= j
    <3> HIDE DEF S
    <3> QED BY <2>1, Least
  <2>3. i \in 1..Count(s) /\ s.ends[i] > q BY <2>2
  <2>4. Start(s, i) <= q
    <3>1. CASE i = 1 BY <3>1 DEF Start
    <3>2. CASE i # 1
      <4>1. i - 1 \in 1..Count(s) /\ ~(i <= i - 1) BY <1>1, <2>3, <3>2
      <4>2. ~(s.ends[i - 1] > q) BY <2>2, <4>1
      <4> QED BY <1>1, <3>2, <4>1, <4>2 DEF Start
    <3> QED BY <3>1, <3>2
  <2> QED BY <2>3, <2>4
<1>3. ASSUME p > 0 PROVE \E i \in 1..Count(s) : s.ends[i] >= p /\ Start(s, i) < p
  <2>1. p - 1 \in Nat /\ p - 1 < EntireSize(s) BY <1>1, <1>3
  <2>2. PICK i \in 1..Count(s) : s.ends[i] > p - 1 /\ Start(s, i) <= p - 1 BY <1>2, <2>1
  <2>3. Start(s, i) \in Nat BY ChunkFacts
  <2> QED BY <1>1, <2>2, <2>3
<1> QED BY <1>2, <1>3

\* The chunks behind the i-th are dropped.
CutTo(s, i, newSize) ==
    [s EXCEPT !.bytes = SubSeq(@, 1, s.ends[i]), !.ends = SubSeq(@, 1, i), !.size = newSize]

LEMMA CutFacts ==
    ASSUME NEW s \in Fields, ChunksInOrder(s), NEW i \in 1..Count(s), NEW newSize \in Nat,
           NEW r, r = CutTo(s, i, newSize)
    PROVE  /\ r \in Fields /\ ChunksInOrder(r) /\ Count(r) = i /\ EntireSize(r) = s.ends[i]
           /\ \A j \in 1..i : /\ r.ends[j] = s.ends[j] /\ Start(r, j) = Start(s, j)
                              /\ ChunkLength(r, j) = ChunkLength(s, j)
           /\ LastLength(r) = ChunkLength(s, i)
           /\ Agree(s.bytes, r.bytes, s.ends[i])
           /\ r.currentPosition = s.currentPosition /\ r.size = newSize
           /\ r.currentPositionInChunk = s.currentPositionInChunk
           /\ r.currentChunkIndex = s.currentChunkIndex
           /\ r.seekToPosition = s.seekToPosition
<1> DEFINE e == s.ends[i]
           old == s.bytes
           ends == s.ends
<1>1. /\ r.bytes = SubSeq(old, 1, e) /\ r.ends = SubSeq(ends, 1, i)
      /\ r = [s EXCEPT !.bytes = SubSeq(old, 1, e), !.ends = SubSeq(ends, 1, i), !.size = newSize]
      /\ r.currentPosition = s.currentPosition /\ r.size = newSize
      /\ r.currentPositionInChunk = s.currentPositionInChunk
      /\ r.currentChunkIndex = s.currentChunkIndex
      /\ r.seekToPosition = s.seekToPosition
  BY DEF CutTo, Fields
<1>2. /\ old \in Seq(Bytes) /\ ends \in Seq(Nat \ {0}) /\ Count(s) \in Nat
      /\ Len(old) = EntireSize(s) /\ Len(ends) = Count(s)
      /\ e \in Nat /\ e <= EntireSize(s)
  BY FieldTypes, ChunkFacts DEF Count, EntireSize
<1>3. i \in Nat /\ i <= Len(ends) BY <1>2
<1> HIDE DEF e, old, ends
<1>4. /\ SubSeq(old, 1, e) \in Seq(Bytes) /\ Len(SubSeq(old, 1, e)) = e
      /\ \A k \in 1..e : SubSeq(old, 1, e)[k] = old[k]
  BY <1>2, CutOff
<1>5. /\ SubSeq(ends, 1, i) \in Seq(Nat \ {0}) /\ Len(SubSeq(ends, 1, i)) = i
      /\ \A k \in 1..i : SubSeq(ends, 1, i)[k] = ends[k]
  BY <1>2, <1>3, CutOff
<1>6. r \in Fields BY <1>1, <1>4, <1>5 DEF Fields
<1>7. Count(r) = i /\ EntireSize(r) = e BY <1>1, <1>4, <1>5 DEF Count, EntireSize
<1>8. \A j \in 1..i : r.ends[j] = s.ends[j] BY <1>1, <1>5 DEF ends
<1>9. ASSUME NEW j \in 1..i
      PROVE  Start(r, j) = Start(s, j) /\ ChunkLength(r, j) = ChunkLength(s, j)
  <2>1. j = 1 \/ j - 1 \in 1..i BY <1>3
  <2>2. Start(r, j) = Start(s, j) BY <1>8, <2>1 DEF Start
  <2> QED BY <1>8, <2>2 DEF ChunkLength
<1>10. i \in 1..i /\ i # 0 /\ \A j \in 1..i : j \in 1..Count(s) BY <1>2, <1>3
<1>11. ChunksInOrder(r)
  <2>1. \A j, k \in 1..i : j < k => r.ends[j] < r.ends[k] BY <1>8, <1>10 DEF ChunksInOrder
  <2>2. EntireSize(r) = IF Count(r) = 0 THEN 0 ELSE r.ends[Count(r)]
    BY <1>7, <1>8, <1>10 DEF e
  <2> QED BY <1>7, <2>1, <2>2 DEF ChunksInOrder
<1>12. LastLength(r) = ChunkLength(s, i) BY <1>7, <1>9, <1>10 DEF LastLength
<1>13. Agree(s.bytes, r.bytes, e)
  <2>1. Len(r.bytes) = e /\ e <= e /\ e <= Len(s.bytes) BY <1>1, <1>2, <1>4 DEF old
  <2>2. \A k \in 1..e : r.bytes[k] = s.bytes[k] BY <1>1, <1>4 DEF old
  <2> QED BY <2>1, <2>2 DEF Agree
<1> QED BY <1>1, <1>6, <1>7, <1>8, <1>9, <1>11, <1>12, <1>13 DEF e

\* setSize with a smaller size, when the cursor keeps its chunk.
LEMMA ShrunkFacts ==
    ASSUME NEW s, Ready(s), NEW newSize \in Nat \ {0}, newSize < s.size,
           NEW r, r = Shrunk(s, newSize), CursorStays(r)
    PROVE  /\ Ready(r) /\ r.size = newSize /\ Agree(s.bytes, r.bytes, newSize)
           /\ Position(r) = Smaller(Position(s), newSize)
<1>1. /\ s \in Fields /\ ChunksInOrder(s) /\ CursorIn(s) /\ CursorInFront(s)
      /\ s.size <= EntireSize(s) /\ s.currentPosition <= s.size /\ s.size <= Limit
  BY DEF Ready, Sound, Settled
<1>2. /\ s.size \in Nat /\ s.currentPosition \in Nat /\ EntireSize(s) \in Nat
      /\ Count(s) \in Nat /\ Limit \in Nat /\ s.seekToPosition \in {-1} \cup Nat
      /\ s.currentChunkIndex \in Nat /\ s.currentPositionInChunk \in Nat
  BY <1>1, FieldTypes, SizesAssumption
<1> DEFINE i == CHOOSE i \in 1..Count(s) : s.ends[i] >= newSize /\ Start(s, i) < newSize
           cut == CutTo(s, i, newSize)
<1>3. i \in 1..Count(s) /\ s.ends[i] >= newSize /\ Start(s, i) < newSize
  <2>1. \E k \in 1..Count(s) : s.ends[k] >= newSize /\ Start(s, k) < newSize
    <3>1. newSize < EntireSize(s) /\ newSize > 0 /\ newSize \in Nat BY <1>1, <1>2
    <3> QED BY <1>1, <3>1, ChunkOf
  <2> QED BY <2>1
<1>4. r = IF s.seekToPosition > newSize THEN [cut EXCEPT !.seekToPosition = newSize]
          ELSE IF s.currentPosition > newSize THEN AtEnd(cut, newSize, newSize - Start(s, i))
          ELSE cut
  BY DEF Shrunk, CutTo
<1>5. cut = CutTo(s, i, newSize) OBVIOUS
<1> HIDE DEF i, cut
<1>6. /\ cut \in Fields /\ ChunksInOrder(cut) /\ Count(cut) = i /\ EntireSize(cut) = s.ends[i]
      /\ \A j \in 1..i : /\ cut.ends[j] = s.ends[j] /\ Start(cut, j) = Start(s, j)
                         /\ ChunkLength(cut, j) = ChunkLength(s, j)
      /\ LastLength(cut) = ChunkLength(s, i)
      /\ Agree(s.bytes, cut.bytes, s.ends[i])
      /\ cut.currentPosition = s.currentPosition /\ cut.size = newSize
      /\ cut.currentPositionInChunk = s.currentPositionInChunk
      /\ cut.currentChunkIndex = s.currentChunkIndex
      /\ cut.seekToPosition = s.seekToPosition
  BY <1>1, <1>3, <1>5, CutFacts
<1>7. /\ i \in Nat \ {0} /\ i \in 1..i /\ \A j \in 1..i : j \in 1..Count(s)
      /\ Start(s, i) \in Nat /\ ChunkLength(s, i) \in Nat /\ s.ends[i] \in Nat
      /\ Start(s, i) + ChunkLength(s, i) = s.ends[i] /\ s.ends[i] <= EntireSize(s)
  BY <1>1, <1>2, <1>3, ChunkFacts
<1>8. Agree(s.bytes, cut.bytes, newSize)
  <2>1. Len(s.bytes) \in Nat /\ Len(cut.bytes) \in Nat
    BY <1>1, <1>6, FieldTypes DEF EntireSize
  <2> QED BY <1>3, <1>6, <1>7, <2>1, AgreeLess
<1>9. s.currentChunkIndex \in 1..i => CursorIn(cut) /\ CursorInFront(cut)
  <2>1. ASSUME s.currentChunkIndex \in 1..i PROVE CursorIn(cut) /\ CursorInFront(cut)
    <3>1. s.currentChunkIndex \in 1..Count(s) /\ s.currentChunkIndex # 0 BY <1>7, <2>1
    <3>2. CursorIn(cut) BY <1>1, <1>6, <2>1, <3>1 DEF CursorIn
    <3>3. s.currentChunkIndex \in 1..(i - 1) => s.currentChunkIndex \in 1..(Count(s) - 1)
      BY <1>2, <1>3, <1>7
    <3>4. CursorInFront(cut) BY <1>1, <1>6, <2>1, <3>1, <3>3 DEF CursorInFront
    <3> QED BY <3>2, <3>4
  <2> QED BY <2>1
<1>10. ASSUME NEW t, t \in Fields, ChunksInOrder(t), CursorIn(t), CursorInFront(t),
              t.bytes = cut.bytes, t.ends = cut.ends, t.size = newSize,
              t.currentPosition <= newSize
       PROVE  Ready(t) /\ t.size = newSize /\ Agree(s.bytes, t.bytes, newSize)
  <2>1. EntireSize(t) = EntireSize(cut) /\ Count(t) = i
    BY <1>6, <1>10 DEF EntireSize, Count
  <2>2. Start(t, i) = Start(s, i) BY <1>6, <1>7, <1>10, <2>1, SameChunks
  <2>3. Sound(t) BY <1>3, <1>6, <1>10, <2>1 DEF Sound
  <2>4. Settled(t) BY <1>3, <1>6, <1>10, <2>1, <2>2 DEF Settled
  <2>5. newSize <= Limit BY <1>1, <1>2
  <2> QED BY <1>8, <1>10, <2>3, <2>4, <2>5 DEF Ready
<1>11. CASE s.seekToPosition > newSize
  <2>1. r = [cut EXCEPT !.seekToPosition = newSize] BY <1>4, <1>11
  <2>2. /\ r \in Fields /\ r.bytes = cut.bytes /\ r.ends = cut.ends /\ r.size = cut.size
        /\ r.currentPosition = cut.currentPosition /\ r.seekToPosition = newSize
        /\ r.currentChunkIndex = cut.currentChunkIndex
        /\ r.currentPositionInChunk = cut.currentPositionInChunk
    BY <1>6, <2>1 DEF Fields
  <2>3. EntireSize(r) = EntireSize(cut) /\ Count(r) = i BY <1>6, <2>2 DEF EntireSize, Count
  <2>4. s.currentChunkIndex \in 1..i /\ r.currentPosition <= newSize
    BY <1>6, <2>2, <2>3 DEF CursorStays, CursorInList
  <2>5. ChunksInOrder(r) /\ CursorIn(r) /\ CursorInFront(r)
    BY <1>6, <1>9, <2>2, <2>3, <2>4, SameCursor
  <2>6. Position(r) = newSize /\ Position(s) = s.seekToPosition
    BY <1>2, <1>11, <2>2 DEF Position
  <2> QED BY <1>2, <1>6, <1>10, <1>11, <2>2, <2>4, <2>5, <2>6 DEF Smaller
<1>12. CASE ~(s.seekToPosition > newSize) /\ s.currentPosition > newSize
  <2> DEFINE inChunk == newSize - Start(s, i)
  <2>1. inChunk \in Nat /\ inChunk <= LastLength(cut) /\ newSize = Start(cut, i) + inChunk
    BY <1>3, <1>6, <1>7
  <2>2. r = AtEnd(cut, newSize, inChunk) BY <1>4, <1>12
  <2> HIDE DEF inChunk
  <2>3. /\ r \in Fields /\ ChunksInOrder(r) /\ CursorIn(r) /\ CursorInFront(r)
        /\ r.bytes = cut.bytes /\ r.ends = cut.ends
        /\ r.size = cut.size /\ r.seekToPosition = cut.seekToPosition
        /\ r.currentPosition = newSize
    BY <1>6, <1>7, <2>1, <2>2, AtEndFacts
  <2>4. newSize <= newSize OBVIOUS
  <2>5. Position(r) = Smaller(Position(s), newSize)
    BY <1>2, <1>6, <1>12, <2>3 DEF Position, Smaller
  <2> QED BY <1>6, <1>10, <2>3, <2>4, <2>5
<1>13. CASE ~(s.seekToPosition > newSize) /\ ~(s.currentPosition > newSize)
  <2>1. r = cut BY <1>4, <1>13
  <2>2. s.currentChunkIndex \in 1..i BY <1>6, <2>1 DEF CursorStays, CursorInList
  <2>3. cut.currentPosition <= newSize BY <1>2, <1>6, <1>13
  <2>4. Position(r) = Smaller(Position(s), newSize)
    BY <1>2, <1>6, <1>13, <2>1 DEF Position, Smaller
  <2> QED BY <1>6, <1>9, <1>10, <2>1, <2>2, <2>3, <2>4
<1> QED BY <1>11, <1>12, <1>13

-----------------------------------------------------------------------------
(* performDelayedSeek                                                      *)

LEMMA CursorAtFacts ==
    ASSUME NEW s, Sound(s), Count(s) > 0, NEW p \in Nat, p <= s.size,
           NEW r, r = CursorAt(s, p)
    PROVE  /\ r \in Fields /\ ChunksInOrder(r) /\ CursorIn(r) /\ CursorInFront(r)
           /\ r.bytes = s.bytes /\ r.ends = s.ends /\ r.size = s.size
           /\ r.currentPosition = p
<1>1. /\ s \in Fields /\ ChunksInOrder(s) /\ s.size <= EntireSize(s)
      /\ s.size \in Nat /\ EntireSize(s) \in Nat /\ Count(s) \in Nat
  BY FieldTypes DEF Sound
<1> DEFINE i == CHOOSE i \in 1..Count(s) : s.ends[i] > p /\ Start(s, i) <= p
           q == p - Start(s, i)
<1>2. CASE p < EntireSize(s)
  <2>1. i \in 1..Count(s) /\ s.ends[i] > p /\ Start(s, i) <= p
    <3>1. \E k \in 1..Count(s) : s.ends[k] > p /\ Start(s, k) <= p BY <1>1, <1>2, ChunkOf
    <3> QED BY <3>1
  <2>2. r = [s EXCEPT !.currentChunkIndex = i, !.currentPositionInChunk = q, !.currentPosition = p]
    BY <1>2 DEF CursorAt
  <2> HIDE DEF i
  <2>3. /\ Start(s, i) \in Nat /\ ChunkLength(s, i) \in Nat /\ i \in Nat
        /\ Start(s, i) + ChunkLength(s, i) = s.ends[i]
    BY <1>1, <2>1, ChunkFacts
  <2>4. q \in Nat /\ p = Start(s, i) + q /\ q < ChunkLength(s, i) BY <2>1, <2>3
  <2> HIDE DEF q
  <2>5. /\ r \in Fields /\ r.bytes = s.bytes /\ r.ends = s.ends /\ r.size = s.size
        /\ r.currentPosition = p /\ r.currentChunkIndex = i /\ r.currentPositionInChunk = q
    BY <1>1, <2>2, <2>3, <2>4 DEF Fields
  <2>6. EntireSize(r) = EntireSize(s) BY <2>5 DEF EntireSize
  <2>7. Count(r) = Count(s) /\ ChunksInOrder(r)
        /\ \A k : Start(r, k) = Start(s, k) /\ ChunkLength(r, k) = ChunkLength(s, k)
    BY <1>1, <2>5, <2>6, SameChunks
  <2>8. q <= ChunkLength(s, i) BY <2>3, <2>4
  <2>9. CursorIn(r) BY <2>1, <2>4, <2>5, <2>7, <2>8 DEF CursorIn
  <2>10. CursorInFront(r) BY <2>1, <2>3, <2>4, <2>5, <2>7 DEF CursorInFront
  <2> QED BY <2>5, <2>7, <2>9, <2>10
<1>3. CASE ~(p < EntireSize(s))
  <2>1. p = s.size /\ s.size = EntireSize(s) BY <1>1, <1>3
  <2>2. r = AtEnd(s, s.size, LastLength(s)) BY <1>3 DEF CursorAt
  <2>3. /\ LastLength(s) \in Nat /\ LastLength(s) <= LastLength(s)
        /\ Start(s, Count(s)) + LastLength(s) = EntireSize(s)
    BY <1>1, ChunkFacts
  <2> QED BY <1>1, <2>1, <2>2, <2>3, AtEndFacts
<1> QED BY <1>2, <1>3

\* A seek is only noted.
Noted(s, p) == [s EXCEPT !.seekToPosition = p]

LEMMA NotedFacts ==
    ASSUME NEW s, Ready(s), NEW p \in {-1} \cup Nat, NEW r, r = Noted(s, p)
    PROVE  /\ Ready(r) /\ r.bytes = s.bytes /\ r.size = s.size
           /\ r.currentPosition = s.currentPosition /\ r.seekToPosition = p
<1>1. /\ s \in Fields /\ ChunksInOrder(s) /\ CursorIn(s) /\ CursorInFront(s)
      /\ s.size <= EntireSize(s)
  BY DEF Ready, Sound
<1>2. /\ r \in Fields /\ r.bytes = s.bytes /\ r.ends = s.ends /\ r.size = s.size
      /\ r.currentPosition = s.currentPosition /\ r.seekToPosition = p
      /\ r.currentChunkIndex = s.currentChunkIndex
      /\ r.currentPositionInChunk = s.currentPositionInChunk
  BY <1>1 DEF Noted, Fields
<1>3. EntireSize(r) = EntireSize(s) BY <1>2 DEF EntireSize
<1>4. Count(r) = Count(s) /\ \A i : Start(r, i) = Start(s, i)
  BY <1>1, <1>2, <1>3, SameChunks
<1>5. ChunksInOrder(r) /\ CursorIn(r) /\ CursorInFront(r) BY <1>1, <1>2, <1>3, SameCursor
<1>6. Sound(r) BY <1>1, <1>2, <1>3, <1>5 DEF Sound
<1>7. Settled(r) BY <1>2, <1>3, <1>4 DEF Ready, Settled
<1> QED BY <1>2, <1>6, <1>7 DEF Ready

LEMMA SizedCases ==
    ASSUME NEW s, s.size \in Nat, NEW newSize \in Nat, NEW toEnd
    PROVE  /\ newSize = 0 => Sized(s, newSize, toEnd) = Empty
           /\ newSize > s.size => Sized(s, newSize, toEnd) = Grown(s, newSize, toEnd)
           /\ newSize < s.size /\ newSize # 0 => Sized(s, newSize, toEnd) = Shrunk(s, newSize)
           /\ newSize = s.size /\ newSize # 0 => Sized(s, newSize, toEnd) = s
<1>1. CASE newSize > s.size
  <2>1. newSize # 0 /\ newSize \notin 1..(s.size - 1) BY <1>1
  <2> QED BY <1>1, <2>1 DEF Sized
<1>2. CASE newSize < s.size /\ newSize # 0
  <2>1. newSize \in 1..(s.size - 1) /\ ~(newSize > s.size) BY <1>2
  <2> QED BY <1>2, <2>1 DEF Sized
<1>3. CASE newSize = s.size /\ newSize # 0
  <2>1. newSize \notin 1..(s.size - 1) /\ ~(newSize > s.size) BY <1>3
  <2> QED BY <1>3, <2>1 DEF Sized
<1>4. CASE newSize = 0
  <2>1. newSize \notin 1..(s.size - 1) /\ ~(newSize > s.size) BY <1>4
  <2> QED BY <1>4, <2>1 DEF Sized
<1> QED BY <1>1, <1>2, <1>3, <1>4

LEMMA SeekCases ==
    ASSUME NEW s, s.size \in Nat, s.seekToPosition \in {-1} \cup Nat,
           s.currentPosition <= s.size, s.currentPosition \in Nat,
           NEW t, t.thrown = FALSE,
           \/ s.seekToPosition \in {-1, s.currentPosition} /\ t = s
           \/ s.seekToPosition > s.size /\ t = Sized(s, s.seekToPosition, TRUE)
           \/ /\ s.seekToPosition \notin {-1, s.currentPosition} /\ s.seekToPosition <= s.size
              /\ t = CursorAt(s, s.seekToPosition)
    PROVE  DelayedSeek(s) = Noted(t, -1)
<1> DEFINE u == IF s.seekToPosition \in {-1, s.currentPosition} THEN s
                ELSE IF s.seekToPosition > s.size THEN Sized(s, s.seekToPosition, TRUE)
                ELSE CursorAt(s, s.seekToPosition)
<1>1. u = t
  <2>1. CASE s.seekToPosition \in {-1, s.currentPosition}
    <3>1. ~(s.seekToPosition > s.size) BY <2>1
    <3> QED BY <2>1, <3>1
  <2>2. CASE s.seekToPosition > s.size
    <3>1. s.seekToPosition \notin {-1, s.currentPosition} BY <2>2
    <3>2. ~(s.seekToPosition <= s.size) BY <2>2
    <3>3. t = Sized(s, s.seekToPosition, TRUE) BY <3>1, <3>2, Zenon
    <3> QED BY <2>2, <3>1, <3>3
  <2>3. CASE s.seekToPosition \notin {-1, s.currentPosition} /\ s.seekToPosition <= s.size
    <3>1. ~(s.seekToPosition > s.size) BY <2>3
    <3>2. t = CursorAt(s, s.seekToPosition) BY <2>3, <3>1
    <3> QED BY <2>3, <3>1, <3>2
  <2> QED BY <2>1, <2>2, <2>3
<1>2. DelayedSeek(s) = IF u.thrown THEN u ELSE [u EXCEPT !.seekToPosition = -1]
  BY DEF DelayedSeek
<1> HIDE DEF u
<1> QED BY <1>1, <1>2 DEF Noted

LEMMA DelayedSeekFacts ==
    ASSUME BelowMaximum, NEW s, Ready(s), Position(s) <= Limit, NEW r, r = DelayedSeek(s)
    PROVE  /\ Ready(r) /\ r.seekToPosition = -1 /\ r.currentPosition = Position(s)
           /\ r.size = Larger(s.size, Position(s)) /\ Agree(s.bytes, r.bytes, s.size)
<1>1. /\ s \in Fields /\ ChunksInOrder(s) /\ CursorIn(s) /\ CursorInFront(s) /\ Sound(s)
      /\ s.size <= EntireSize(s) /\ s.currentPosition <= s.size /\ s.size <= Limit
      /\ Count(s) > 0 => Start(s, Count(s)) < s.size
  BY DEF Ready, Sound, Settled
<1>2. /\ s.size \in Nat /\ s.currentPosition \in Nat /\ Limit \in Nat /\ Count(s) \in Nat
      /\ s.seekToPosition \in {-1} \cup Nat
  BY <1>1, FieldTypes, SizesAssumption
<1>3. \E t : /\ r = Noted(t, -1) /\ Ready(t) /\ t.currentPosition = Position(s)
             /\ t.size = Larger(s.size, Position(s)) /\ Agree(s.bytes, t.bytes, s.size)
  <2>1. CASE s.seekToPosition \in {-1, s.currentPosition}
    <3>1. r = Noted(s, -1) BY <1>1, <1>2, <2>1, FieldTypes, SeekCases
    <3>2. Position(s) = s.currentPosition BY <2>1 DEF Position
    <3>3. s.size = Larger(s.size, Position(s)) BY <1>1, <1>2, <3>2 DEF Larger
    <3>4. Agree(s.bytes, s.bytes, s.size) BY <1>1 DEF Agree, EntireSize
    <3> QED BY <3>1, <3>2, <3>3, <3>4
  <2>2. CASE ~(s.seekToPosition \in {-1, s.currentPosition}) /\ s.seekToPosition > s.size
    <3> DEFINE p == s.seekToPosition
               t == Grown(s, p, TRUE)
    <3>1. p \in Nat /\ p # 0 /\ p > s.size /\ Position(s) = p /\ p <= Limit
      BY <1>2, <2>2 DEF Position
    <3>2. t = Sized(s, p, TRUE)
      <4> HIDE DEF p
      <4>1. ASSUME NEW toEnd \in BOOLEAN PROVE Sized(s, p, toEnd) = Grown(s, p, toEnd)
        BY <1>2, <3>1, SizedCases
      <4>2. TRUE \in BOOLEAN OBVIOUS
      <4> QED BY <4>1, <4>2, Zenon
    <3>3. Ready(t) /\ t.size = p /\ Agree(s.bytes, t.bytes, s.size) /\ t.currentPosition = p
      <4> HIDE DEF p
      <4>1. t = Grown(s, p, TRUE) OBVIOUS
      <4> HIDE DEF t
      <4>2. ASSUME NEW toEnd \in BOOLEAN, NEW v, v = Grown(s, p, toEnd)
            PROVE  /\ Ready(v) /\ v.size = p /\ Agree(s.bytes, v.bytes, s.size)
                   /\ v.currentPosition = IF toEnd THEN p ELSE s.currentPosition
        BY <3>1, <4>2, GrownFacts
      <4>3. TRUE \in BOOLEAN OBVIOUS
      <4> QED BY <4>1, <4>2, <4>3, Zenon
    <3>4. t.thrown = FALSE
      <4> HIDE DEF t
      <4>1. t \in Fields BY <3>3 DEF Ready, Sound
      <4> QED BY <4>1, FieldTypes
    <3>5. r = Noted(t, -1)
      <4> HIDE DEF t
      <4> QED BY <1>1, <1>2, <2>2, <3>2, <3>4, SeekCases
    <3>6. p = Larger(s.size, Position(s)) BY <1>2, <3>1 DEF Larger
    <3> HIDE DEF t
    <3> QED BY <3>1, <3>3, <3>5, <3>6
  <2>3. CASE ~(s.seekToPosition \in {-1, s.currentPosition}) /\ ~(s.seekToPosition > s.size)
    <3> DEFINE p == s.seekToPosition
               t == CursorAt(s, p)
    <3>1. p \in Nat /\ p <= s.size /\ Position(s) = p BY <1>2, <2>3 DEF Position
    <3>2. Count(s) > 0
      <4>1. ASSUME Count(s) = 0 PROVE FALSE
        <5>1. s.currentPosition = 0 BY <1>1, <4>1 DEF CursorIn
        <5>2. EntireSize(s) = 0 BY <1>1, <4>1, ChunkFacts
        <5> QED BY <1>1, <1>2, <2>3, <3>1, <5>1, <5>2
      <4> QED BY <1>2, <4>1
    <3>3. /\ t \in Fields /\ ChunksInOrder(t) /\ CursorIn(t) /\ CursorInFront(t)
          /\ t.bytes = s.bytes /\ t.ends = s.ends /\ t.size = s.size
          /\ t.currentPosition = p
      <4> HIDE DEF p
      <4>1. t = CursorAt(s, p) OBVIOUS
      <4> HIDE DEF t
      <4> QED BY <1>1, <3>1, <3>2, <4>1, CursorAtFacts
    <3>4. t.thrown = FALSE
      <4> HIDE DEF t
      <4> QED BY <3>3, FieldTypes
    <3>5. t = CursorAt(s, p) OBVIOUS
    <3> HIDE DEF t
    <3>11. r = Noted(t, -1) BY <1>1, <1>2, <2>3, <3>1, <3>4, <3>5, SeekCases
    <3>6. EntireSize(t) = EntireSize(s) BY <3>3 DEF EntireSize
    <3>7. Count(t) = Count(s) /\ Start(t, Count(t)) = Start(s, Count(s))
      BY <1>1, <3>3, <3>6, SameChunks
    <3>8. Ready(t) BY <1>1, <3>1, <3>3, <3>6, <3>7 DEF Ready, Sound, Settled
    <3>9. t.size = Larger(s.size, Position(s)) BY <1>2, <3>1, <3>3 DEF Larger
    <3>10. Agree(s.bytes, t.bytes, s.size) BY <1>1, <3>3 DEF Agree, EntireSize
    <3> QED BY <3>1, <3>3, <3>11, <3>8, <3>9, <3>10
  <2> QED BY <2>1, <2>2, <2>3
<1> QED BY <1>3, NotedFacts

-----------------------------------------------------------------------------
(* Writing                                                                 *)

\* startWriting: there is room at the cursor, if need be in a new chunk.
LEMMA StartedFacts ==
    ASSUME BelowMaximum, NEW s, Sound(s), s.size <= Limit, NEW r, r = StartedWriting(s)
    PROVE  /\ Sound(r) /\ Count(r) > 0 /\ r.size = s.size
           /\ r.currentPosition = s.currentPosition /\ r.seekToPosition = s.seekToPosition
           /\ Agree(s.bytes, r.bytes, EntireSize(s))
           /\ s.currentChunkIndex = Count(s) => r.currentChunkIndex = Count(r)
           /\ Settled(s) => r.currentChunkIndex = Count(r) \/ Start(r, Count(r)) < r.size
<1>1. /\ s \in Fields /\ ChunksInOrder(s) /\ CursorIn(s) /\ CursorInFront(s)
      /\ s.size <= EntireSize(s)
  BY DEF Sound
<1>2. /\ s.size \in Nat /\ Count(s) \in Nat /\ EntireSize(s) \in Nat
      /\ s.currentPositionInChunk \in Nat /\ s.currentChunkIndex \in Nat
      /\ s.size + 0 < MaxSize
  <2>1. /\ s.size \in Nat /\ Count(s) \in Nat /\ EntireSize(s) \in Nat
        /\ s.currentPositionInChunk \in Nat /\ s.currentChunkIndex \in Nat
    BY <1>1, FieldTypes
  <2>2. Limit \in Nat /\ MaxSize \in Nat /\ Limit < MaxSize BY SizesAssumption DEF BelowMaximum
  <2> QED BY <2>1, <2>2
<1> DEFINE i == s.currentChunkIndex
           p == s.currentPositionInChunk
<1>3. CASE i \in 1..Count(s) /\ p < ChunkLength(s, i)
  <2>1. r = s
    <3>1. i # 0 /\ ~(i > Count(s)) BY <1>2, <1>3
    <3>2. ~(p >= ChunkLength(s, i))
      <4>1. ChunkLength(s, i) \in Nat BY <1>1, <1>3, ChunkFacts
      <4> QED BY <1>2, <1>3, <4>1
    <3> QED BY <3>1, <3>2 DEF StartedWriting
  <2>2. Count(s) > 0 BY <1>2, <1>3
  <2>3. Agree(s.bytes, s.bytes, EntireSize(s)) BY <1>2 DEF Agree, EntireSize
  <2> QED BY <2>1, <2>2, <2>3 DEF Settled
<1>4. CASE ~(i \in 1..Count(s) /\ p < ChunkLength(s, i))
  <2>1. BehindLast(s) /\ (i = 0 \/ (i \in 1..Count(s) /\ p >= ChunkLength(s, i)))
    <3>1. CASE i = 0 BY <3>1 DEF BehindLast
    <3>2. CASE i # 0
      <4>1. i \in 1..Count(s) /\ p <= ChunkLength(s, i) BY <1>1, <3>2 DEF CursorIn
      <4>2. ChunkLength(s, i) \in Nat BY <1>1, <4>1, ChunkFacts
      <4>3. p = ChunkLength(s, i) BY <1>2, <1>4, <4>1, <4>2
      <4>4. i = Count(s)
        <5>1. ~(i \in 1..(Count(s) - 1)) BY <1>1, <4>2, <4>3 DEF CursorInFront
        <5> QED BY <1>2, <4>1, <5>1
      <4>5. p >= ChunkLength(s, i) BY <4>2, <4>3
      <4> QED BY <4>1, <4>3, <4>4, <4>5 DEF BehindLast, LastLength
    <3> QED BY <3>1, <3>2
  <2>2. r = Allocated(s, 0)
    <3>1. CASE i = 0 BY <1>2, <3>1 DEF StartedWriting
    <3>2. CASE i \in 1..Count(s) /\ p >= ChunkLength(s, i)
      <4>1. i # 0 /\ ~(i > Count(s)) BY <1>2, <3>2
      <4> QED BY <3>2, <4>1 DEF StartedWriting
    <3> QED BY <2>1, <3>1, <3>2
  <2>3. 0 \in Nat OBVIOUS
  <2>4. /\ r \in Fields /\ ChunksInOrder(r) /\ Count(r) = Count(s) + 1
        /\ Agree(s.bytes, r.bytes, EntireSize(s))
        /\ r.currentPosition = s.currentPosition /\ r.size = s.size
        /\ r.seekToPosition = s.seekToPosition
    BY <1>1, <1>2, <2>2, <2>3, AllocatedFacts
  <2>5. /\ CursorIn(r) /\ CursorInFront(r) /\ s.size <= EntireSize(r)
        /\ r.currentChunkIndex = Count(r)
    BY <1>2, <2>1, <2>2, <2>3, AllocatedCursor
  <2>6. Sound(r) BY <2>4, <2>5 DEF Sound
  <2>7. Count(r) > 0 BY <1>2, <2>4
  <2> QED BY <2>4, <2>5, <2>6, <2>7
<1> QED BY <1>3, <1>4

\* The bytes at the position are data, the others are kept.
StoresPiece(s, r, data) ==
    \A k \in 1..EntireSize(s) :
        r.bytes[k] = IF k - s.currentPosition \in 1..Len(data)
                     THEN data[k - s.currentPosition] ELSE s.bytes[k]

\* Bytes that fit into the chunk of the cursor are stored there.
LEMMA StoredFacts ==
    ASSUME NEW s, Sound(s), s.currentChunkIndex \in 1..Count(s), NEW data \in Seq(Bytes),
           s.currentPositionInChunk + Len(data) <= ChunkLength(s, s.currentChunkIndex),
           NEW r, r = Stored(s, data)
    PROVE  /\ r \in Fields /\ ChunksInOrder(r) /\ CursorIn(r) /\ r.ends = s.ends
           /\ EntireSize(r) = EntireSize(s) /\ r.size = s.size
           /\ r.seekToPosition = s.seekToPosition
           /\ r.currentChunkIndex = s.currentChunkIndex
           /\ r.currentPosition = s.currentPosition + Len(data)
           /\ r.currentPositionInChunk = s.currentPositionInChunk + Len(data)
           /\ r.currentPosition <= EntireSize(s)
           /\ StoresPiece(s, r, data)
<1> DEFINE i == s.currentChunkIndex
           p == s.currentPositionInChunk
           c == s.currentPosition
           e == EntireSize(s)
           n == Len(data)
           old == s.bytes
           new == [k \in DOMAIN old |-> IF k - c \in DOMAIN data THEN data[k - c] ELSE old[k]]
<1>1. /\ s \in Fields /\ ChunksInOrder(s) /\ i \in Nat /\ p \in Nat /\ c \in Nat
      /\ e \in Nat /\ old \in Seq(Bytes) /\ Len(old) = e /\ n \in Nat /\ i \in 1..Count(s)
  <2>1. s \in Fields /\ ChunksInOrder(s) BY DEF Sound
  <2>2. Len(data) \in Nat OBVIOUS
  <2> QED BY <2>1, <2>2, FieldTypes DEF EntireSize
<1>2. c = Start(s, i) + p /\ p + n <= ChunkLength(s, i)
  <2>1. i # 0 BY <1>1
  <2>2. CursorIn(s) BY DEF Sound
  <2> QED BY <2>1, <2>2 DEF CursorIn
<1>3. /\ ChunkLength(s, i) \in Nat /\ Start(s, i) \in Nat
      /\ Start(s, i) + ChunkLength(s, i) = s.ends[i] /\ s.ends[i] <= e /\ s.ends[i] \in Nat
  BY <1>1, ChunkFacts
<1>4. c + n <= e /\ c + n \in Nat /\ p + n \in Nat
  <2> DEFINE l == ChunkLength(s, i)
             st == Start(s, i)
             x == s.ends[i]
  <2>1. /\ l \in Nat /\ st \in Nat /\ st + l = x /\ x <= e /\ x \in Nat
        /\ c = st + p /\ p + n <= l /\ p \in Nat /\ n \in Nat /\ e \in Nat
    BY <1>1, <1>2, <1>3
  <2> HIDE DEF l, st, x, c, p, n, e
  <2> QED BY <2>1
<1>5. r = [s EXCEPT !.bytes = new, !.currentPosition = c + n, !.currentPositionInChunk = p + n]
  BY <1>2 DEF Stored
<1> HIDE DEF i, p, c, e, n, old
<1>6. DOMAIN old = 1..e /\ DOMAIN data = 1..n BY <1>1 DEF n
<1>7. new \in [1..e -> Bytes]
  <2>1. ASSUME NEW k \in 1..e
        PROVE  (IF k - c \in 1..n THEN data[k - c] ELSE old[k]) \in Bytes
    <3>1. \A j \in 1..n : data[j] \in Bytes BY DEF n
    <3>2. old[k] \in Bytes BY <1>1
    <3> QED BY <3>1, <3>2
  <2> QED BY <1>6, <2>1
<1>8. new \in Seq(Bytes) /\ Len(new) = e BY <1>1, <1>7
<1>9. \A k \in 1..e : new[k] = IF k - c \in 1..n THEN data[k - c] ELSE old[k] BY <1>6
<1> HIDE DEF new
<1>10. /\ r \in Fields /\ r.bytes = new /\ r.ends = s.ends /\ r.size = s.size
       /\ r.seekToPosition = s.seekToPosition /\ r.currentChunkIndex = i
       /\ r.currentPosition = c + n /\ r.currentPositionInChunk = p + n
  BY <1>1, <1>4, <1>5, <1>8 DEF Fields, i
<1>11. EntireSize(r) = e BY <1>8, <1>10 DEF EntireSize
<1>12. Count(r) = Count(s) /\ ChunksInOrder(r)
       /\ \A k : Start(r, k) = Start(s, k) /\ ChunkLength(r, k) = ChunkLength(s, k)
  BY <1>1, <1>10, <1>11, SameChunks DEF e
<1>13. CursorIn(r)
  <2>1. c + n = Start(s, i) + (p + n) BY <1>1, <1>2, <1>3
  <2> QED BY <1>1, <1>2, <1>10, <1>12, <2>1 DEF CursorIn
<1>14. StoresPiece(s, r, data) BY <1>9, <1>10 DEF StoresPiece, c, e, n, old
<1> QED BY <1>4, <1>10, <1>11, <1>12, <1>13, <1>14 DEF i, p, c, e, n

\* A full chunk is left for the next one.
LEMMA AdvancedFacts ==
    ASSUME NEW s \in Fields, ChunksInOrder(s), CursorIn(s), s.currentChunkIndex \in 1..Count(s),
           s.size <= EntireSize(s), s.size < MaxSize, NEW r, r = Advanced(s)
    PROVE  /\ Sound(r) /\ Count(r) > 0 /\ r.size = s.size
           /\ r.currentPosition = s.currentPosition /\ r.seekToPosition = s.seekToPosition
           /\ Agree(s.bytes, r.bytes, EntireSize(s))
           /\ s.currentChunkIndex = Count(s) => r.currentChunkIndex = Count(r)
           /\ \/ r.currentChunkIndex = Count(r)
              \/ Count(r) = Count(s) /\ Start(r, Count(r)) = Start(s, Count(s))
<1> DEFINE i == s.currentChunkIndex
           p == s.currentPositionInChunk
           n == Count(s)
           t == [s EXCEPT !.currentPositionInChunk = 0, !.currentChunkIndex = i + 1]
<1>1. /\ s.size \in Nat /\ n \in Nat /\ EntireSize(s) \in Nat /\ p \in Nat /\ i \in 1..n
      /\ MaxSize \in Nat
  BY FieldTypes, SizesAssumption
<1>2. p <= ChunkLength(s, i) /\ s.currentPosition = Start(s, i) + p
  <2>1. i # 0 BY <1>1
  <2> QED BY <2>1 DEF CursorIn
<1>3. /\ ChunkLength(s, i) \in Nat \ {0} /\ Start(s, i) \in Nat
      /\ Start(s, i) + ChunkLength(s, i) = s.ends[i]
  BY <1>1, ChunkFacts
<1>4. n > 0 BY <1>1
<1>5. Agree(s.bytes, s.bytes, EntireSize(s)) BY <1>1 DEF Agree, EntireSize
<1>6. CASE p < ChunkLength(s, i)
  <2>1. r = s BY <1>6 DEF Advanced
  <2>2. CursorInFront(s)
    <3>1. i # 0 BY <1>1
    <3> QED BY <1>6, <3>1 DEF CursorInFront
  <2>3. Sound(r) BY <2>1, <2>2 DEF Sound
  <2> QED BY <1>4, <1>5, <2>1, <2>3
<1>7. CASE ~(p < ChunkLength(s, i))
  <2>1. p = ChunkLength(s, i) /\ s.currentPosition = s.ends[i] BY <1>1, <1>2, <1>3, <1>7
  <2>2. /\ t \in Fields /\ t.bytes = s.bytes /\ t.ends = s.ends /\ t.size = s.size
        /\ t.currentPosition = s.currentPosition /\ t.seekToPosition = s.seekToPosition
        /\ t.currentChunkIndex = i + 1 /\ t.currentPositionInChunk = 0
    <3>1. i + 1 \in Nat BY <1>1
    <3> HIDE DEF i
    <3> QED BY <3>1 DEF Fields
  <2>3. r = IF i = n THEN Allocated(t, 0) ELSE t BY <1>7 DEF Advanced
  <2> HIDE DEF t, p
  <2>4. EntireSize(t) = EntireSize(s) BY <2>2 DEF EntireSize
  <2>5. Count(t) = n /\ ChunksInOrder(t) /\ LastLength(t) = LastLength(s)
        /\ \A k : Start(t, k) = Start(s, k) /\ ChunkLength(t, k) = ChunkLength(s, k)
    BY <2>2, <2>4, SameChunks
  <2>6. CASE i = n
    <3>1. r = Allocated(t, 0) /\ 0 \in Nat /\ t.size + 0 < MaxSize BY <1>1, <2>2, <2>3, <2>6
    <3>2. ~BehindLast(t) BY <1>1, <2>2, <2>5, <2>6 DEF BehindLast
    <3>3. /\ r \in Fields /\ ChunksInOrder(r) /\ LastLength(r) \in Nat \ {0}
          /\ Count(r) = Count(t) + 1 /\ EntireSize(r) = EntireSize(t) + LastLength(r)
          /\ Start(r, Count(r)) = EntireSize(t)
          /\ Agree(t.bytes, r.bytes, EntireSize(t))
          /\ r.currentPosition = t.currentPosition /\ r.size = t.size
          /\ r.seekToPosition = t.seekToPosition
          /\ r.currentChunkIndex = t.currentChunkIndex
          /\ r.currentPositionInChunk = t.currentPositionInChunk
      BY <2>2, <2>5, <3>1, <3>2, AllocatedFacts
    <3>4. LastLength(r) = ChunkLength(r, Count(r)) BY DEF LastLength
    <3>5. Count(r) = n + 1 /\ r.currentChunkIndex = n + 1 /\ r.currentPositionInChunk = 0
      BY <2>2, <2>5, <2>6, <3>3
    <3>6. s.ends[n] = EntireSize(s) BY <1>4, ChunkFacts
    <3>7. CursorIn(r)
      <4>1. r.currentPosition = Start(r, n + 1) + 0
        BY <1>1, <2>1, <2>2, <2>4, <2>6, <3>3, <3>5, <3>6
      <4>2. 0 <= ChunkLength(r, n + 1) BY <3>3, <3>4, <3>5
      <4>3. n + 1 \in 1..(n + 1) BY <1>1
      <4> QED BY <3>5, <4>1, <4>2, <4>3 DEF CursorIn
    <3>8. CursorInFront(r) BY <1>1, <3>5 DEF CursorInFront
    <3>9. s.size <= EntireSize(r) BY <1>1, <2>4, <3>3
    <3>10. Sound(r) BY <2>2, <3>3, <3>7, <3>8, <3>9 DEF Sound
    <3>11. Count(r) > 0 BY <1>1, <3>5
    <3> QED BY <2>2, <2>4, <3>3, <3>5, <3>10, <3>11
  <2>7. CASE i # n
    <3>1. r = t /\ i + 1 \in 1..n /\ i + 1 # 0 BY <1>1, <2>3, <2>7
    <3>2. Start(s, i + 1) = s.ends[i] /\ ChunkLength(s, i + 1) \in Nat \ {0}
          /\ Start(s, i + 1) \in Nat
      BY <1>1, <3>1, ChunkFacts
    <3>3. CursorIn(r)
      <4>1. r.currentPosition = Start(r, i + 1) + 0 BY <2>1, <2>2, <2>5, <3>1, <3>2
      <4>2. 0 <= ChunkLength(r, i + 1) BY <2>5, <3>1, <3>2
      <4> QED BY <2>2, <2>5, <3>1, <4>1, <4>2 DEF CursorIn
    <3>4. CursorInFront(r)
      <4>1. 0 < ChunkLength(r, i + 1) BY <2>5, <3>1, <3>2
      <4> QED BY <2>2, <2>5, <3>1, <4>1 DEF CursorInFront
    <3>5. Sound(r) BY <2>2, <2>4, <2>5, <3>1, <3>3, <3>4 DEF Sound
    <3> QED BY <1>4, <1>5, <2>2, <2>5, <3>1, <3>5
  <2> QED BY <2>6, <2>7
<1> QED BY <1>6, <1>7

\* endWriting: a last chunk that holds nothing is given back.
LEMMA EndedFacts ==
    ASSUME NEW s, Sound(s), Count(s) > 0, s.currentPosition <= s.size, s.size <= Limit,
           s.seekToPosition = -1,
           s.currentChunkIndex = Count(s) \/ Start(s, Count(s)) < s.size,
           NEW r, r = EndedWriting(s)
    PROVE  /\ Ready(r) /\ r.size = s.size /\ r.currentPosition = s.currentPosition
           /\ r.seekToPosition = -1 /\ Agree(s.bytes, r.bytes, s.size)
<1> DEFINE i == s.currentChunkIndex
           p == s.currentPositionInChunk
           c == s.currentPosition
           n == Count(s)
           e == EntireSize(s)
<1>1. s \in Fields /\ ChunksInOrder(s) /\ CursorIn(s) /\ CursorInFront(s) /\ s.size <= e
  BY DEF Sound
<1>2. /\ i \in Nat /\ p \in Nat /\ c \in Nat /\ n \in Nat /\ e \in Nat /\ s.size \in Nat
  BY <1>1, FieldTypes
<1>3. i \in 1..n /\ p <= ChunkLength(s, i) /\ c = Start(s, i) + p
  BY <1>1, <1>2 DEF CursorIn
<1>4. /\ Start(s, i) \in Nat /\ Start(s, n) \in Nat /\ n \in 1..n
      /\ s.ends[i] \in Nat /\ Start(s, i) < s.ends[i]
  BY <1>1, <1>2, <1>3, ChunkFacts
<1>5. CASE s.size # c \/ p # 0
  <2>1. r = s BY <1>5 DEF EndedWriting
  <2>2. Start(s, n) < s.size
    <3>1. CASE i = n
      <4> DEFINE st == Start(s, i)
      <4>1. st \in Nat /\ c = st + p /\ c <= s.size /\ (s.size # c \/ p # 0)
        BY <1>3, <1>4, <1>5
      <4> HIDE DEF st, c, p
      <4>2. st < s.size BY <1>2, <4>1
      <4> QED BY <3>1, <4>2 DEF st
    <3>2. CASE i # n BY <3>2
    <3> QED BY <3>1, <3>2
  <2>3. Settled(s) BY <1>1, <2>2 DEF Settled
  <2>4. Agree(s.bytes, s.bytes, s.size) BY <1>1, <1>2 DEF Agree, EntireSize
  <2> QED BY <2>1, <2>3, <2>4 DEF Ready
<1>6. CASE s.size = c /\ p = 0
  <2>1. i = n
    <3>1. ASSUME i # n PROVE FALSE
      <4>1. i < n /\ Start(s, n) < s.size BY <1>2, <1>3, <3>1
      <4>2. s.ends[i] <= Start(s, n) BY <1>1, <1>3, <1>4, <4>1, ChunkFacts
      <4> QED BY <1>2, <1>3, <1>4, <1>6, <4>1, <4>2
    <3> QED BY <3>1
  <2>2. CASE i = 1
    <3>1. r = Empty BY <1>6, <2>2 DEF EndedWriting
    <3>2. c = 0 /\ s.size = 0 BY <1>3, <1>6, <2>2 DEF Start
    <3>3. Agree(s.bytes, Empty.bytes, 0)
      <4>1. Len(Empty.bytes) = 0 BY EmptyReady
      <4> QED BY <1>2, <4>1 DEF Agree, EntireSize
    <3> QED BY <3>1, <3>2, <3>3, EmptyReady
  <2>3. CASE i # 1
    <3> DEFINE j == i - 1
               l == ChunkLength(s, j)
               t == CutTo(s, j, s.size)
    <3>1. j \in 1..n /\ j + 1 = i /\ j \in Nat BY <1>2, <1>3, <2>3
    <3>2. Start(s, i) = s.ends[j] BY <2>3 DEF Start
    <3>3. r = AtEnd(t, c, l)
      <4>0. t = [s EXCEPT !.bytes = SubSeq(@, 1, s.ends[j]), !.ends = SubSeq(@, 1, j)]
        BY <1>1 DEF CutTo, Fields
      <4>1. Count(t) = j
        <5>1. t = CutTo(s, j, s.size) OBVIOUS
        <5> HIDE DEF t, j
        <5> QED BY <1>1, <1>2, <3>1, <5>1, CutFacts
      <4>2. r = [s EXCEPT !.bytes = SubSeq(@, 1, s.ends[j]), !.ends = SubSeq(@, 1, j),
                          !.currentChunkIndex = j, !.currentPositionInChunk = l]
        BY <1>6, <2>3, <3>2 DEF EndedWriting
      <4> HIDE DEF t, j, l
      <4>3. r = [t EXCEPT !.currentChunkIndex = j, !.currentPositionInChunk = l,
                          !.currentPosition = c]
        BY <1>1, <4>0, <4>2 DEF Fields
      <4> QED BY <4>1, <4>3 DEF AtEnd
    <3>4. t = CutTo(s, j, s.size) OBVIOUS
    <3>5. /\ s.ends[j] \in Nat /\ Start(s, j) \in Nat /\ l \in Nat
          /\ Start(s, j) + l = s.ends[j] /\ Start(s, j) < s.ends[j]
      BY <1>1, <3>1, ChunkFacts
    <3> HIDE DEF t, j, l
    <3>6. /\ t \in Fields /\ ChunksInOrder(t) /\ Count(t) = j /\ EntireSize(t) = s.ends[j]
          /\ Start(t, j) = Start(s, j) /\ LastLength(t) = ChunkLength(s, j)
          /\ Agree(s.bytes, t.bytes, s.ends[j]) /\ t.size = s.size
          /\ t.seekToPosition = s.seekToPosition
      <4>1. j \in 1..j BY <3>1
      <4> QED BY <1>1, <1>2, <3>1, <3>4, <4>1, CutFacts
    <3>7. c = s.ends[j] /\ s.size = s.ends[j] BY <1>3, <1>4, <1>6, <3>2, <3>5
    <3>8. /\ r \in Fields /\ ChunksInOrder(r) /\ CursorIn(r) /\ CursorInFront(r)
          /\ r.bytes = t.bytes /\ r.ends = t.ends /\ EntireSize(r) = EntireSize(t)
          /\ r.size = t.size /\ r.seekToPosition = t.seekToPosition
          /\ r.currentPosition = c
      <4>1. Count(t) > 0 /\ l <= LastLength(t) /\ c = Start(t, Count(t)) + l
        BY <3>1, <3>5, <3>6, <3>7 DEF l
      <4> QED BY <3>3, <3>5, <3>6, <4>1, AtEndFacts
    <3>9. Count(r) = j /\ Start(r, j) = Start(s, j)
      BY <3>6, <3>8, SameChunks
    <3>10. Sound(r) BY <1>2, <3>6, <3>7, <3>8 DEF Sound
    <3>11. Settled(r) BY <1>2, <3>5, <3>6, <3>7, <3>8, <3>9 DEF Settled
    <3> QED BY <3>6, <3>7, <3>8, <3>10, <3>11 DEF Ready
  <2> QED BY <2>2, <2>3
<1> QED BY <1>5, <1>6

\* A stream of one chunk: setBytes, and an InputStream read at once.
OneChunk(bytes, size, position) ==
    [Empty EXCEPT !.bytes = bytes, !.ends = <<Len(bytes)>>, !.currentChunkIndex = 1,
                  !.size = size, !.currentPosition = position,
                  !.currentPositionInChunk = position]

LEMMA OneChunkFacts ==
    ASSUME NEW bytes \in Seq(Bytes), Len(bytes) > 0, NEW size \in 1..Len(bytes),
           NEW position \in 0..size, NEW r, r = OneChunk(bytes, size, position)
    PROVE  /\ Sound(r) /\ Settled(r) /\ Count(r) = 1 /\ r.currentChunkIndex = 1
           /\ r.size = size /\ r.currentPosition = position /\ r.bytes = bytes
           /\ r.seekToPosition = -1
<1> DEFINE n == Len(bytes)
           ends == <<n>>
<1>1. n \in Nat \ {0} /\ size \in Nat /\ position \in Nat /\ size <= n /\ position <= size /\ 0 < size
  OBVIOUS
<1>2. r = [Empty EXCEPT !.bytes = bytes, !.ends = ends, !.currentChunkIndex = 1,
                  !.size = size, !.currentPosition = position,
                  !.currentPositionInChunk = position]
  BY DEF OneChunk
<1>3. ends \in Seq(Nat \ {0}) /\ Len(ends) = 1 /\ ends[1] = n BY <1>1
<1>4. n = Len(bytes) OBVIOUS
<1> HIDE DEF n, ends
<1>5. /\ r \in Fields /\ r.bytes = bytes /\ r.ends = ends /\ r.currentChunkIndex = 1
      /\ r.size = size /\ r.currentPosition = position
      /\ r.currentPositionInChunk = position /\ r.seekToPosition = -1
  <2>1. r = [bytes |-> bytes, ends |-> ends, currentPosition |-> position,
             currentPositionInChunk |-> position, currentChunkIndex |-> 1, size |-> size,
             seekToPosition |-> -1, thrown |-> FALSE]
    BY <1>2 DEF Empty
  <2>2. -1 \in {-1} \cup Nat /\ 1 \in Nat /\ FALSE \in {FALSE} OBVIOUS
  <2>3. r \in Fields BY <1>1, <1>3, <2>1, <2>2 DEF Fields
  <2> QED BY <2>1, <2>3
<1>6. Count(r) = 1 /\ EntireSize(r) = n /\ r.ends[1] = n
  BY <1>3, <1>4, <1>5 DEF Count, EntireSize
<1>7. Start(r, 1) = 0 /\ ChunkLength(r, 1) = n BY <1>1, <1>6 DEF Start, ChunkLength
<1>8. ChunksInOrder(r) BY <1>6 DEF ChunksInOrder
<1>9. CursorIn(r) BY <1>1, <1>5, <1>6, <1>7 DEF CursorIn
<1>10. CursorInFront(r) BY <1>5, <1>6 DEF CursorInFront
<1>11. Settled(r) BY <1>1, <1>5, <1>6, <1>7 DEF Settled
<1> QED BY <1>1, <1>5, <1>6, <1>8, <1>9, <1>10, <1>11 DEF Sound

-----------------------------------------------------------------------------
(* Reading                                                                 *)

\* The cursor moves over n bytes of its chunk.
MovedOver(s, n) ==
    LET i == s.currentChunkIndex
        filled == s.currentPositionInChunk + n >= ChunkLength(s, i) /\ i < Count(s)
    IN  [s EXCEPT !.currentPosition = @ + n,
                  !.currentPositionInChunk = IF filled THEN 0 ELSE @ + n,
                  !.currentChunkIndex = IF filled THEN @ + 1 ELSE @]

LEMMA MovedOverFacts ==
    ASSUME NEW s, Ready(s), s.currentChunkIndex \in 1..Count(s), NEW n \in Nat,
           s.currentPositionInChunk + n <= ChunkLength(s, s.currentChunkIndex),
           s.currentPosition + n <= s.size, NEW r, r = MovedOver(s, n)
    PROVE  /\ Ready(r) /\ r.bytes = s.bytes /\ r.size = s.size
           /\ r.currentPosition = s.currentPosition + n
           /\ r.seekToPosition = s.seekToPosition
<1> DEFINE i == s.currentChunkIndex
           p == s.currentPositionInChunk
           c == s.currentPosition
           m == Count(s)
           l == ChunkLength(s, i)
           st == Start(s, i)
           filled == p + n >= l /\ i < m
           i2 == IF filled THEN i + 1 ELSE i
           p2 == IF filled THEN 0 ELSE p + n
<1>1. /\ s \in Fields /\ ChunksInOrder(s) /\ CursorIn(s) /\ CursorInFront(s)
      /\ s.size <= EntireSize(s) /\ s.currentPosition <= s.size /\ s.size <= Limit
      /\ Count(s) > 0 => Start(s, Count(s)) < s.size
  BY DEF Ready, Sound, Settled
<1>2. /\ i \in Nat /\ p \in Nat /\ c \in Nat /\ m \in Nat /\ i \in 1..m
  BY <1>1, FieldTypes
<1>3. /\ l \in Nat \ {0} /\ st \in Nat /\ st + l = s.ends[i]
  BY <1>1, <1>2, ChunkFacts
<1>4. c = st + p /\ p + n <= l
  <2>1. i # 0 BY <1>2
  <2> QED BY <1>1, <2>1 DEF CursorIn
<1>5. r = [s EXCEPT !.currentPosition = c + n, !.currentPositionInChunk = p2,
                    !.currentChunkIndex = i2]
  BY DEF MovedOver
<1>6. i \in 1..m /\ i2 = (IF filled THEN i + 1 ELSE i) /\ p2 = (IF filled THEN 0 ELSE p + n)
      /\ (filled <=> p + n >= l /\ i < m)
  BY <1>2
<1>7. i + 1 \in 1..m => /\ Start(s, i + 1) = s.ends[i]
                        /\ ChunkLength(s, i + 1) \in Nat \ {0}
  BY <1>1, <1>2, ChunkFacts
<1> HIDE DEF i, p, c, m, l, st, filled, i2, p2
<1>8. i2 \in Nat /\ p2 \in Nat /\ c + n \in Nat /\ i2 \in 1..m BY <1>2, <1>6
<1>9. /\ r \in Fields /\ r.bytes = s.bytes /\ r.ends = s.ends /\ r.size = s.size
      /\ r.currentPosition = c + n /\ r.currentPositionInChunk = p2
      /\ r.currentChunkIndex = i2 /\ r.seekToPosition = s.seekToPosition
  BY <1>1, <1>5, <1>8 DEF Fields
<1>10. EntireSize(r) = EntireSize(s) BY <1>9 DEF EntireSize
<1>11. Count(r) = m /\ ChunksInOrder(r)
       /\ \A k : Start(r, k) = Start(s, k) /\ ChunkLength(r, k) = ChunkLength(s, k)
  BY <1>1, <1>9, <1>10, SameChunks DEF m
<1>12. /\ c + n = Start(s, i2) + p2 /\ p2 <= ChunkLength(s, i2)
       /\ i2 \in 1..(m - 1) => p2 < ChunkLength(s, i2)
  <2>1. CASE filled
    <3>1. i2 = i + 1 /\ p2 = 0 /\ i + 1 \in 1..m /\ p + n = l
      BY <1>2, <1>3, <1>4, <1>6, <2>1
    <3>2. Start(s, i + 1) = s.ends[i] /\ ChunkLength(s, i + 1) \in Nat \ {0} BY <1>7, <3>1
    <3>3. c + n = st + l BY <1>2, <1>3, <1>4, <3>1
    <3>4. c + n = Start(s, i + 1) + 0 BY <1>3, <3>2, <3>3
    <3> QED BY <3>1, <3>2, <3>4
  <2>2. CASE ~filled
    <3>1. i2 = i /\ p2 = p + n BY <1>6, <2>2
    <3>2. c + n = st + (p + n) BY <1>2, <1>3, <1>4
    <3>3. i \in 1..(m - 1) => p + n < l BY <1>2, <1>3, <1>4, <1>6, <2>2
    <3> QED BY <1>4, <3>1, <3>2, <3>3 DEF st, l
  <2> QED BY <2>1, <2>2
<1>13. CursorIn(r) BY <1>8, <1>9, <1>11, <1>12 DEF CursorIn
<1>14. CursorInFront(r) BY <1>8, <1>9, <1>11, <1>12 DEF CursorInFront
<1>15. c + n <= s.size BY DEF c
<1>16. Sound(r) BY <1>1, <1>9, <1>10, <1>11, <1>13, <1>14 DEF Sound
<1>17. Settled(r) BY <1>1, <1>9, <1>10, <1>11, <1>15 DEF Settled, m
<1> QED BY <1>1, <1>9, <1>16, <1>17 DEF Ready, c

Jobs == [rest : Seq(Bytes), source : Seq(Bytes), toRead : Int, got : Seq(Bytes)]
Calls == [content : Seq(Bytes), position : Nat]

\* Where read has come to differs from the fields in the position only.
LEMMA ReachedFacts ==
    ASSUME NEW s \in Fields, NEW todo, todo.got \in Seq(Bytes), NEW r, r = Reached(s, todo)
    PROVE  /\ r \in Fields /\ r.bytes = s.bytes /\ r.ends = s.ends /\ r.size = s.size
           /\ r.currentPosition = s.currentPosition + Len(todo.got)
           /\ r.currentPositionInChunk = s.currentPositionInChunk
           /\ r.currentChunkIndex = s.currentChunkIndex
           /\ r.seekToPosition = s.seekToPosition
           /\ Len(todo.got) \in Nat
           /\ EntireSize(r) = EntireSize(s) /\ Count(r) = Count(s)
           /\ \A k : Start(r, k) = Start(s, k) /\ ChunkLength(r, k) = ChunkLength(s, k)
           /\ ChunksInOrder(r) <=> ChunksInOrder(s)
           /\ CursorInFront(r) <=> CursorInFront(s)
<1> DEFINE n == Len(todo.got)
           p == s.currentPosition + n
<1>1. n \in Nat OBVIOUS
<1>2. s.currentPosition \in Nat BY FieldTypes
<1>3. r = [s EXCEPT !.currentPosition = p] BY DEF Reached
<1> HIDE DEF n
<1>4. p \in Nat BY <1>1, <1>2
<1> HIDE DEF p
<1>5. /\ r \in Fields /\ r.bytes = s.bytes /\ r.ends = s.ends /\ r.size = s.size
      /\ r.currentPosition = p /\ r.currentPositionInChunk = s.currentPositionInChunk
      /\ r.currentChunkIndex = s.currentChunkIndex /\ r.seekToPosition = s.seekToPosition
  BY <1>3, <1>4 DEF Fields
<1>6. EntireSize(r) = EntireSize(s) BY <1>5 DEF EntireSize
<1>7. /\ Count(r) = Count(s)
      /\ ChunksInOrder(r) <=> ChunksInOrder(s)
      /\ \A k : Start(r, k) = Start(s, k) /\ ChunkLength(r, k) = ChunkLength(s, k)
  BY <1>5, <1>6, SameChunks
<1>8. CursorInFront(r) <=> CursorInFront(s) BY <1>5, <1>7 DEF CursorInFront
<1> QED BY <1>1, <1>5, <1>6, <1>7, <1>8 DEF p, n

\* The cursor moves over n bytes, which are delivered: so does the place reached.
CursorMoved(s, n) ==
    LET i == s.currentChunkIndex
        filled == s.currentPositionInChunk + n >= ChunkLength(s, i) /\ i < Count(s)
    IN  [s EXCEPT !.currentPositionInChunk = IF filled THEN 0 ELSE @ + n,
                  !.currentChunkIndex = IF filled THEN @ + 1 ELSE @]

LEMMA ReachedMoves ==
    ASSUME NEW s \in Fields, NEW done, done.got \in Seq(Bytes), NEW n \in Nat,
           NEW todo, Len(todo.got) = Len(done.got) + n, NEW q, q = Reached(s, done)
    PROVE  /\ Reached(CursorMoved(s, n), todo) = MovedOver(q, n)
           /\ CursorMoved(s, n) \in Fields /\ CursorMoved(s, n).bytes = s.bytes
           /\ CursorMoved(s, n).size = s.size
           /\ CursorMoved(s, n).seekToPosition = s.seekToPosition
           /\ CursorMoved(s, n).currentPosition = s.currentPosition
<1> DEFINE i == s.currentChunkIndex
           p == s.currentPositionInChunk
           c == s.currentPosition
           filled == p + n >= ChunkLength(s, i) /\ i < Count(s)
           p2 == IF filled THEN 0 ELSE p + n
           i2 == IF filled THEN i + 1 ELSE i
           l == Len(done.got)
           m == Len(todo.got)
           r == CursorMoved(s, n)
<1>1. i \in Nat /\ p \in Nat /\ c \in Nat BY FieldTypes
<1>2. l \in Nat /\ m = l + n OBVIOUS
<1>3. r = [s EXCEPT !.currentPositionInChunk = p2, !.currentChunkIndex = i2] BY DEF CursorMoved
<1>4. q = [s EXCEPT !.currentPosition = c + l] BY DEF Reached
<1>5. /\ q.currentChunkIndex = i /\ q.currentPositionInChunk = p /\ q.currentPosition = c + l
      /\ Count(q) = Count(s) /\ ChunkLength(q, i) = ChunkLength(s, i)
  BY ReachedFacts
<1>6. MovedOver(q, n) = [q EXCEPT !.currentPosition = (c + l) + n,
                                  !.currentPositionInChunk = p2, !.currentChunkIndex = i2]
  BY <1>5 DEF MovedOver
<1>7. Reached(r, todo) = [r EXCEPT !.currentPosition = r.currentPosition + m] BY DEF Reached
<1>8. i2 \in Nat /\ p2 \in Nat BY <1>1
<1> HIDE DEF i, p, c, filled, p2, i2, l, m, r
<1>9. /\ r \in Fields /\ r.bytes = s.bytes /\ r.size = s.size
      /\ r.seekToPosition = s.seekToPosition /\ r.currentPosition = c
  BY <1>3, <1>8 DEF Fields, c
<1>10. c + m = (c + l) + n BY <1>1, <1>2
<1> DEFINE e == (c + l) + n
<1>11. Reached(r, todo) = [r EXCEPT !.currentPosition = e] BY <1>7, <1>9, <1>10
<1>12. MovedOver(q, n) = [q EXCEPT !.currentPosition = e,
                                   !.currentPositionInChunk = p2, !.currentChunkIndex = i2]
  BY <1>6
<1> HIDE DEF e
<1>13. Reached(r, todo) = MovedOver(q, n) BY <1>3, <1>4, <1>11, <1>12 DEF Fields
<1> QED BY <1>9, <1>13 DEF r, c

-----------------------------------------------------------------------------
(* The invariant                                                           *)

LEMMA InvFacts ==
    ASSUME IInv
    PROVE  /\ stream.size <= Limit /\ stream \in Fields /\ job \in Jobs /\ before \in Calls
           /\ pc # "reading" => Sound(stream)
           /\ pc # "reading" /\ Between => Ready(stream)
<1>1. stream.size <= Limit /\ stream \in Fields /\ (pc # "reading" => Sound(stream))
  BY DEF IInv, TypeOK, CursorAgrees, LoopAgrees, Sound
<1>2. job \in Jobs /\ before \in Calls BY DEF IInv, TypeOK, Jobs, Calls
<1>3. pc # "reading" /\ Between => Ready(stream) BY <1>1 DEF IInv, LoopAgrees, Ready
<1> QED BY <1>1, <1>2, <1>3

\* In the loop of read: the place reached is where everything is in order.
LEMMA ReadingFacts ==
    ASSUME IInv, pc = "reading", NEW q, q = Reached(stream, job)
    PROVE  /\ Ready(q) /\ q.bytes = stream.bytes /\ q.size = stream.size
           /\ q.seekToPosition = -1 /\ job.toRead \in 0..(q.size - q.currentPosition)
<1>1. stream \in Fields /\ job.got \in Seq(Bytes) /\ stream.size <= Limit
  BY InvFacts DEF Jobs
<1>2. /\ ChunksInOrder(stream) /\ CursorIn(q) /\ CursorInFront(stream)
      /\ stream.size <= EntireSize(stream) /\ stream.seekToPosition = -1
      /\ Settled(stream)
      /\ job.toRead \in 0..(stream.size - stream.currentPosition - Len(job.got))
  BY DEF IInv, TypeOK, CursorAgrees, LoopAgrees, Between
<1>3. /\ q \in Fields /\ q.bytes = stream.bytes /\ q.size = stream.size
      /\ q.currentPosition = stream.currentPosition + Len(job.got)
      /\ q.seekToPosition = stream.seekToPosition /\ Len(job.got) \in Nat
      /\ EntireSize(q) = EntireSize(stream) /\ Count(q) = Count(stream)
      /\ \A k : Start(q, k) = Start(stream, k)
      /\ ChunksInOrder(q) <=> ChunksInOrder(stream)
      /\ CursorInFront(q) <=> CursorInFront(stream)
  BY <1>1, ReachedFacts
<1> DEFINE c == stream.currentPosition
           z == stream.size
           l == Len(job.got)
           t == job.toRead
<1>4. c \in Nat /\ z \in Nat BY <1>1, FieldTypes
<1>5. l \in Nat /\ t \in 0..(z - c - l) /\ q.currentPosition = c + l BY <1>2, <1>3
<1> HIDE DEF c, z, l, t
<1>6. c + l <= z /\ t \in 0..(z - (c + l)) BY <1>4, <1>5
<1>7. Sound(q) BY <1>2, <1>3 DEF Sound
<1>8. Settled(q) BY <1>2, <1>3, <1>5, <1>6 DEF Settled, z
<1>9. Ready(q) BY <1>1, <1>3, <1>7, <1>8 DEF Ready
<1> QED BY <1>2, <1>3, <1>5, <1>6, <1>9 DEF t, z

\* What the fields (in the loop of read: the place reached) and the job of a
\* call have to be for the invariant.
Allowed(next, r, todo) ==
    /\ next \in {"idle", "reading", "starting", "writing", "copying", "filling"}
    /\ Sound(r) /\ r.size <= Limit /\ todo \in Jobs
    /\ next # "idle" => r.seekToPosition = -1
    /\ next \in {"idle", "reading", "copying"} \/ (next = "starting" /\ todo.rest # <<>>) =>
          Settled(r)
    /\ next = "writing" => r.currentChunkIndex = Count(r) \/ Start(r, Count(r)) < r.size
    /\ next \in {"writing", "filling"} => Count(r) > 0
    /\ next = "filling" \/ (next = "starting" /\ todo.rest = <<>>) =>
          r.currentChunkIndex = Count(r) /\ r.size <= r.currentPosition /\ todo.rest = <<>>
    /\ next = "reading" => todo.toRead \in 0..(r.size - r.currentPosition)
    /\ next \in {"starting", "writing", "copying", "filling"} =>
          r.currentPosition + Len(todo.rest) + Len(todo.source) <= Limit

LEMMA InvAllowed ==
    ASSUME pc # "reading", Allowed(pc, stream, job), before \in Calls
    PROVE  IInv
  BY DEF IInv, TypeOK, CursorAgrees, LoopAgrees, Allowed, Sound, Jobs, Calls, Between, Filling

LEMMA InvNext ==
    ASSUME NEW next, NEW r, NEW todo, Allowed(next, r, todo), next # "reading",
           pc' = next, stream' = r, job' = todo, before' \in Calls
    PROVE  IInv'
<1>1. Allowed(pc', stream', job') /\ pc' # "reading" OBVIOUS
<1> QED BY <1>1
        DEF IInv, TypeOK, CursorAgrees, LoopAgrees, Allowed, Sound, Jobs, Calls, Between, Filling

LEMMA InvReading ==
    ASSUME NEW s \in Fields, NEW todo, NEW r, r = Reached(s, todo),
           Allowed("reading", r, todo),
           pc' = "reading", stream' = s, job' = todo, before' \in Calls
    PROVE  IInv'
<1>1. todo \in Jobs /\ todo.got \in Seq(Bytes) BY DEF Allowed, Jobs
<1>2. /\ ChunksInOrder(r) /\ CursorIn(r) /\ CursorInFront(r) /\ r.size <= EntireSize(r)
      /\ r.size <= Limit /\ r.seekToPosition = -1 /\ Settled(r)
      /\ todo.toRead \in 0..(r.size - r.currentPosition)
  BY DEF Allowed, Sound
<1>3. /\ r.size = s.size /\ r.currentPosition = s.currentPosition + Len(todo.got)
      /\ r.seekToPosition = s.seekToPosition /\ Len(todo.got) \in Nat
      /\ EntireSize(r) = EntireSize(s) /\ Count(r) = Count(s)
      /\ \A k : Start(r, k) = Start(s, k)
      /\ ChunksInOrder(r) <=> ChunksInOrder(s)
      /\ CursorInFront(r) <=> CursorInFront(s)
  BY <1>1, ReachedFacts
<1> DEFINE c == s.currentPosition
           z == s.size
           l == Len(todo.got)
           t == todo.toRead
<1>4. c \in Nat /\ z \in Nat BY FieldTypes
<1>5. l \in Nat /\ c + l <= z /\ t \in 0..(z - (c + l)) BY <1>2, <1>3 DEF Settled
<1> HIDE DEF c, z, l, t
<1>6. c <= z /\ t \in 0..(z - c - l) BY <1>4, <1>5
<1>7. Settled(s) BY <1>2, <1>3, <1>6 DEF Settled, c, z
<1>8. TypeOK'
  <2>1. s \in Fields /\ ChunksInOrder(s) BY <1>2, <1>3
  <2> QED BY <1>1, <2>1 DEF TypeOK, Jobs, Calls
<1>9. CursorAgrees' BY <1>2 DEF CursorAgrees
<1>10. CursorInFront(stream)' BY <1>2, <1>3
<1>11. LoopAgrees'
  <2>1. s.size <= Limit /\ s.size <= EntireSize(s) /\ s.seekToPosition = -1 BY <1>2, <1>3
  <2>2. todo.toRead \in 0..(s.size - s.currentPosition - Len(todo.got))
    BY <1>6 DEF c, z, l, t
  <2> QED BY <1>7, <2>1, <2>2 DEF LoopAgrees, Between, Filling
<1> QED BY <1>8, <1>9, <1>10, <1>11 DEF IInv

LEMMA NoJobTypes == NoJob \in Jobs /\ NoJob.rest = <<>> /\ NoJob.source = <<>> /\ NoCall \in Calls
  BY DEF NoJob, Jobs, NoCall, Calls

\* What a caller sees of the fields.
LEMMA SeenTypes ==
    ASSUME NEW s, Ready(s)
    PROVE  /\ Content(s) \in Seq(Bytes) /\ Len(Content(s)) = s.size
           /\ \A k \in 1..s.size : Content(s)[k] = s.bytes[k]
           /\ Position(s) \in Nat /\ s.size \in Nat /\ s \in Fields
<1>1. s \in Fields /\ s.size <= EntireSize(s) BY DEF Ready, Sound
<1>2. /\ s.bytes \in Seq(Bytes) /\ s.size \in Nat /\ s.size <= Len(s.bytes)
      /\ s.seekToPosition \in {-1} \cup Nat /\ s.currentPosition \in Nat
  BY <1>1, FieldTypes DEF EntireSize
<1>3. Position(s) \in Nat BY <1>2 DEF Position
<1> DEFINE old == s.bytes
           n == s.size
<1>4. Content(s) = SubSeq(old, 1, n) /\ old \in Seq(Bytes) /\ n \in Nat /\ n <= Len(old)
  BY <1>2 DEF Content
<1> HIDE DEF old, n
<1>5. Content(s) \in Seq(Bytes) /\ Len(Content(s)) = n /\ \A k \in 1..n : Content(s)[k] = old[k]
  BY <1>4, CutOff
<1> QED BY <1>1, <1>2, <1>3, <1>5 DEF old, n

\* A call ends.
LEMMA ReturnKeeps ==
    ASSUME NEW r, Ready(r), NEW s, s = r \/ s = Throw(r), NEW value, Return(s, value)
    PROVE  IInv' /\ stream' = r /\ pc' = "idle" /\ answer' = IF s = r THEN value ELSE Thrown
<1>1. r \in Fields /\ r.thrown = FALSE BY FieldTypes DEF Ready, Sound
<1>2. /\ [r EXCEPT !.thrown = FALSE] = r /\ [Throw(r) EXCEPT !.thrown = FALSE] = r
      /\ Throw(r).thrown = TRUE
  BY <1>1 DEF Fields, Throw
<1>3. stream' = r
  <2>1. stream' = [s EXCEPT !.thrown = FALSE] BY DEF Return
  <2>2. CASE s = r BY <1>2, <2>1, <2>2
  <2>3. CASE s = Throw(r) BY <1>2, <2>1, <2>3
  <2> QED BY <2>2, <2>3
<1>4. pc' = "idle" /\ job' = NoJob /\ before' = NoCall BY DEF Return
<1>5. answer' = IF s = r THEN value ELSE Thrown
  <2>1. answer' = IF s.thrown THEN Thrown ELSE value BY DEF Return
  <2>2. CASE s = r
    <3>1. s.thrown = FALSE BY <1>1, <2>2
    <3> QED BY <2>1, <2>2, <3>1
  <2>3. CASE s # r
    <3>1. s.thrown = TRUE BY <1>2, <2>3
    <3> QED BY <2>1, <2>3, <3>1
  <2> QED BY <2>2, <2>3
<1>6. Allowed("idle", r, NoJob) BY NoJobTypes DEF Allowed, Ready
<1>7. IInv' BY <1>3, <1>4, <1>6, NoJobTypes, InvNext
<1> QED BY <1>3, <1>4, <1>5, <1>7

\* A call goes on.
LEMMA ContinueFacts ==
    ASSUME NEW r \in Fields, NEW next, NEW todo, Continue(r, next, todo)
    PROVE  stream' = r /\ pc' = next /\ job' = todo /\ before' = before /\ answer' = answer
<1>1. r.thrown = FALSE BY FieldTypes
<1> QED BY <1>1 DEF Continue, GoOn

LEMMA BeginFacts ==
    ASSUME Ready(stream), NEW r \in Fields, NEW next, NEW todo, Begin(r, next, todo)
    PROVE  /\ pc = "idle" /\ stream' = r /\ pc' = next /\ job' = todo /\ answer' = answer
           /\ before' = [content |-> Content(stream), position |-> Position(stream)]
           /\ before' \in Calls
<1>1. r.thrown = FALSE BY FieldTypes
<1>2. /\ pc = "idle" /\ stream' = r /\ pc' = next /\ job' = todo /\ answer' = answer
      /\ before' = [content |-> Content(stream), position |-> Position(stream)]
  BY <1>1 DEF Begin, GoOn
<1> QED BY <1>2, SeenTypes DEF Calls

-----------------------------------------------------------------------------
(* Every action keeps the invariant: calls that take one step              *)

LEMMA TargetInt ==
    ASSUME IInv, pc = "idle", NEW origin \in Array!Origins, NEW offset \in Offsets
    PROVE  Array!Target(origin, offset) \in Int
<1>1. Ready(stream) BY InvFacts DEF Between
<1>2. Position(stream) \in Nat /\ Len(Content(stream)) \in Nat BY <1>1, SeenTypes
<1>3. offset \in Int BY CallersAssumption
<1>4. CASE origin = "SEEK_SET" BY <1>3, <1>4 DEF Array!Target
<1>5. CASE origin = "SEEK_CUR" BY <1>2, <1>3, <1>5 DEF Array!Target
<1>6. CASE origin = "SEEK_END" BY <1>2, <1>3, <1>6 DEF Array!Target
<1> QED BY <1>4, <1>5, <1>6 DEF Array!Origins

LEMMA SeekKeeps ==
    ASSUME IInv, NEW origin \in Array!Origins, NEW offset \in Offsets, Seek(origin, offset)
    PROVE  IInv'
<1> DEFINE p == Array!Target(origin, offset)
<1>1. pc = "idle" /\ p >= 0 BY DEF Seek
<1>2. p \in Nat
  <2>1. p \in Int BY <1>1, TargetInt
  <2> QED BY <1>1, <2>1
<1>3. Ready(stream) BY <1>1, InvFacts DEF Between
<1>4. CASE p > MaxSize
  <2>1. Return(stream, Array!Refused(p)) BY <1>4 DEF Seek
  <2> QED BY <1>3, <2>1, ReturnKeeps
<1>5. CASE ~(p > MaxSize)
  <2>1. Return(Noted(stream, p), Array!Moved(origin, offset, p)) BY <1>5 DEF Seek, Noted
  <2>2. Ready(Noted(stream, p)) BY <1>2, <1>3, NotedFacts
  <2> QED BY <2>1, <2>2, ReturnKeeps
<1> QED BY <1>4, <1>5

LEMMA RewindKeeps == ASSUME IInv, Rewind PROVE IInv'
<1>1. Ready(stream) BY InvFacts DEF Rewind, Between
<1>2. Ready(Noted(stream, 0)) BY <1>1, NotedFacts
<1>3. Return(Noted(stream, 0), Array!Moved("SEEK_SET", 0, 0)) BY DEF Rewind, Noted
<1> QED BY <1>2, <1>3, ReturnKeeps

\* Any other size than the present one.
LEMMA SizedFacts ==
    ASSUME BelowMaximum, NEW s, Ready(s), NEW newSize \in Nat,
           newSize > s.size => newSize <= Limit,
           NEW r, r = Sized(s, newSize, FALSE), newSize \in 1..(s.size - 1) => CursorStays(r)
    PROVE  /\ Ready(r) /\ r.size = newSize /\ Agree(s.bytes, r.bytes, Smaller(s.size, newSize))
           /\ Position(r) = IF newSize = 0 \/ newSize < s.size
                            THEN Smaller(Position(s), newSize) ELSE Position(s)
<1>1. s \in Fields /\ s.size \in Nat /\ Position(s) \in Nat /\ EntireSize(s) \in Nat
      /\ s.size <= EntireSize(s)
  <2>1. s \in Fields /\ s.size <= EntireSize(s) BY DEF Ready, Sound
  <2> QED BY <2>1, SeenTypes, FieldTypes
<1>2. CASE newSize = 0
  <2>1. r = Empty BY <1>1, <1>2, SizedCases
  <2>2. Position(Empty) = 0 BY EmptyReady DEF Position
  <2>3. Agree(s.bytes, Empty.bytes, 0)
    <3>1. Len(Empty.bytes) = 0 BY EmptyReady
    <3> QED BY <1>1, <3>1 DEF Agree, EntireSize
  <2>4. Smaller(s.size, 0) = 0 /\ Smaller(Position(s), 0) = 0 BY <1>1 DEF Smaller
  <2>5. Ready(r) /\ r.size = 0 BY <2>1, EmptyReady
  <2> QED BY <1>2, <2>1, <2>2, <2>3, <2>4, <2>5
<1>3. CASE newSize > s.size
  <2>1. newSize \in Nat \ {0} BY <1>1, <1>3
  <2>2. r = Grown(s, newSize, FALSE) BY <1>1, <1>3, <2>1, SizedCases
  <2>3. /\ Ready(r) /\ r.size = newSize /\ r.seekToPosition = s.seekToPosition
        /\ Agree(s.bytes, r.bytes, s.size) /\ r.currentPosition = s.currentPosition
    <3>1. ASSUME NEW toEnd \in BOOLEAN, NEW v, v = Grown(s, newSize, toEnd)
          PROVE  /\ Ready(v) /\ v.size = newSize /\ v.seekToPosition = s.seekToPosition
                 /\ Agree(s.bytes, v.bytes, s.size)
                 /\ v.currentPosition = IF toEnd THEN newSize ELSE s.currentPosition
      BY <1>3, <3>1, GrownFacts
    <3>2. FALSE \in BOOLEAN OBVIOUS
    <3> QED BY <2>2, <3>1, <3>2, Zenon
  <2>4. Position(r) = Position(s) BY <2>3 DEF Position
  <2>5. Smaller(s.size, newSize) = s.size /\ ~(newSize < s.size) /\ newSize # 0
    BY <1>1, <1>3 DEF Smaller
  <2> QED BY <2>3, <2>4, <2>5
<1>4. CASE newSize < s.size /\ newSize # 0
  <2>1. newSize \in Nat \ {0} /\ newSize \in 1..(s.size - 1) BY <1>1, <1>4
  <2>2. r = Shrunk(s, newSize) BY <1>1, <1>4, <2>1, SizedCases
  <2>3. /\ Ready(r) /\ r.size = newSize /\ Agree(s.bytes, r.bytes, newSize)
        /\ Position(r) = Smaller(Position(s), newSize)
    BY <1>4, <2>1, <2>2, ShrunkFacts
  <2>4. Smaller(s.size, newSize) = newSize BY <1>1, <1>4 DEF Smaller
  <2> QED BY <1>4, <2>3, <2>4
<1>5. CASE newSize = s.size /\ newSize # 0
  <2>1. newSize \in Nat \ {0} BY <1>5
  <2>2. r = s BY <1>1, <1>5, <2>1, SizedCases
  <2>3. Smaller(s.size, newSize) = s.size /\ ~(newSize < s.size) BY <1>1, <1>5 DEF Smaller
  <2>4. Agree(s.bytes, s.bytes, s.size) BY <1>1 DEF Agree, EntireSize
  <2> QED BY <1>5, <2>2, <2>3, <2>4
<1>6. newSize = 0 \/ newSize > s.size \/ newSize < s.size \/ newSize = s.size BY <1>1
<1> QED BY <1>2, <1>3, <1>4, <1>5, <1>6

LEMMA SetSizeKeeps ==
    ASSUME BelowMaximum, IInv, NEW newSize \in Lengths, SetSize(newSize)
    PROVE  IInv'
<1> DEFINE r == Sized(stream, newSize, FALSE)
<1>1. Ready(stream) BY InvFacts DEF SetSize, Between
<1>2. newSize \in Nat BY CallersAssumption
<1>3. /\ newSize > stream.size => newSize <= Limit
      /\ newSize \in 1..(stream.size - 1) => CursorStays(r)
      /\ Return(r, Array!Nothing)
  BY DEF SetSize, Within, BelowMaximum
<1>4. Ready(r) BY <1>1, <1>2, <1>3, SizedFacts
<1> QED BY <1>3, <1>4, ReturnKeeps

LEMMA SetSizeTooFarKeeps ==
    ASSUME IInv, NEW newSize \in Lengths, SetSizeTooFar(newSize)
    PROVE  IInv'
<1>1. Ready(stream) BY InvFacts DEF SetSizeTooFar, Between
<1> QED BY <1>1, ReturnKeeps DEF SetSizeTooFar

LEMMA SetBytesFacts ==
    ASSUME NEW data \in Contents, Len(data) <= Limit, NEW r, r = OneChunk(data, Len(data), 0)
    PROVE  Ready(r) /\ r.bytes = data /\ r.size = Len(data) /\ Position(r) = 0
<1>1. data \in Seq(Bytes) /\ data # <<>> BY CallersAssumption
<1>2. Len(data) > 0 /\ Len(data) \in 1..Len(data) /\ 0 \in 0..Len(data) BY <1>1
<1>3. /\ Sound(r) /\ Settled(r) /\ r.size = Len(data) /\ r.currentPosition = 0
      /\ r.bytes = data /\ r.seekToPosition = -1
  BY <1>1, <1>2, OneChunkFacts
<1> QED BY <1>3 DEF Ready, Position

LEMMA SetBytesOneChunk ==
    ASSUME NEW data \in Contents, SetBytes(data)
    PROVE  Return(OneChunk(data, Len(data), 0), Array!Nothing) /\ Len(data) <= Limit
<1> DEFINE r == OneChunk(data, Len(data), 0)
<1>1. r = [Empty EXCEPT !.bytes = data, !.ends = <<Len(data)>>, !.currentChunkIndex = 1,
                        !.size = Len(data)]
  <2> DEFINE n == Len(data)
             ends == <<n>>
  <2>1. r = [Empty EXCEPT !.bytes = data, !.ends = ends, !.currentChunkIndex = 1, !.size = n,
                          !.currentPosition = 0, !.currentPositionInChunk = 0]
    BY DEF OneChunk
  <2> HIDE DEF r, n, ends
  <2>2. r = [bytes |-> data, ends |-> ends, currentPosition |-> 0,
             currentPositionInChunk |-> 0, currentChunkIndex |-> 1, size |-> n,
             seekToPosition |-> -1, thrown |-> FALSE]
    BY <2>1 DEF Empty
  <2>3. ASSUME NEW q,
               q = [Empty EXCEPT !.bytes = data, !.ends = ends, !.currentChunkIndex = 1,
                                 !.size = n]
        PROVE  q = [bytes |-> data, ends |-> ends, currentPosition |-> 0,
                    currentPositionInChunk |-> 0, currentChunkIndex |-> 1, size |-> n,
                    seekToPosition |-> -1, thrown |-> FALSE]
    BY <2>3 DEF Empty
  <2>4. r = [Empty EXCEPT !.bytes = data, !.ends = ends, !.currentChunkIndex = 1, !.size = n]
    BY <2>2, <2>3, Zenon
  <2> QED BY <2>4 DEF n, ends
<1> QED BY <1>1 DEF SetBytes, Within

LEMMA SetBytesKeeps ==
    ASSUME IInv, NEW data \in Contents, SetBytes(data)
    PROVE  IInv'
<1> DEFINE r == OneChunk(data, Len(data), 0)
<1>1. Return(r, Array!Nothing) /\ Len(data) <= Limit BY SetBytesOneChunk
<1>2. Ready(r) BY <1>1, SetBytesFacts
<1> QED BY <1>1, <1>2, ReturnKeeps

LEMMA InspectKeeps == ASSUME IInv, Inspect PROVE IInv'
<1>1. Ready(stream) BY InvFacts DEF Inspect, Between
<1>2. PICK s : /\ s = stream \/ s = Throw(stream)
               /\ Return(s, Array!Shown(Content(stream), Position(stream)))
  BY DEF Inspect
<1> QED BY <1>1, <1>2, ReturnKeeps

-----------------------------------------------------------------------------
(* Every action keeps the invariant: read                                  *)

LEMMA ReachedNothing ==
    ASSUME NEW s \in Fields, NEW todo, todo.got = <<>>
    PROVE  Reached(s, todo) = s
<1> DEFINE c == s.currentPosition
           n == Len(todo.got)
<1>1. Reached(s, todo) = [s EXCEPT !.currentPosition = c + n] BY DEF Reached
<1>2. n = 0 OBVIOUS
<1>3. c \in Nat BY FieldTypes
<1> HIDE DEF c, n
<1>4. c + n = c BY <1>2, <1>3
<1>5. Reached(s, todo) = [s EXCEPT !.currentPosition = c] BY <1>1, <1>4
<1> QED BY <1>5 DEF c, Fields

LEMMA ReadKeeps ==
    ASSUME BelowMaximum, IInv, NEW length \in Lengths, Read(length)
    PROVE  IInv'
<1>1. pc = "idle" BY DEF Read
<1>2. Ready(stream) BY <1>1, InvFacts DEF Between
<1>3. CASE stream.seekToPosition > stream.size
  <2>1. Return(stream, Array!Delivered(<<>>)) BY <1>3 DEF Read
  <2> QED BY <1>2, <2>1, ReturnKeeps
<1>4. CASE ~(stream.seekToPosition > stream.size)
  <2> DEFINE s == DelayedSeek(stream)
             toRead == Smaller(length, s.size - s.currentPosition)
             todo == [NoJob EXCEPT !.toRead = toRead]
  <2>1. Begin(s, "reading", todo) BY <1>4 DEF Read
  <2>2. Position(stream) <= Limit
    <3>1. /\ stream \in Fields /\ stream.currentPosition <= stream.size
          /\ stream.size <= Limit
      BY <1>2 DEF Ready, Sound, Settled
    <3>2. /\ stream.size \in Nat /\ stream.currentPosition \in Nat /\ Limit \in Nat
          /\ stream.seekToPosition \in {-1} \cup Nat
      BY <3>1, FieldTypes, SizesAssumption
    <3> QED BY <1>4, <3>1, <3>2 DEF Position
  <2>3. s = DelayedSeek(stream) OBVIOUS
  <2> HIDE DEF s
  <2>4. Ready(s) /\ s.seekToPosition = -1 BY <1>2, <2>2, <2>3, DelayedSeekFacts
  <2>5. s \in Fields /\ s.size \in Nat /\ s.currentPosition \in Nat
    <3>1. s \in Fields BY <2>4 DEF Ready, Sound
    <3> QED BY <3>1, FieldTypes
  <2>6. toRead \in Int /\ toRead \in 0..(s.size - s.currentPosition)
    <3>1. length \in Nat BY CallersAssumption
    <3>2. s.currentPosition <= s.size BY <2>4 DEF Ready, Settled
    <3> QED BY <2>5, <3>1, <3>2 DEF Smaller
  <2> HIDE DEF toRead
  <2>7. todo \in Jobs /\ todo.toRead = toRead /\ todo.got = <<>>
    BY <2>6, NoJobTypes DEF Jobs, NoJob
  <2> HIDE DEF todo
  <2>8. Allowed("reading", s, todo) BY <2>4, <2>6, <2>7 DEF Allowed, Ready
  <2>9. stream' = s /\ pc' = "reading" /\ job' = todo /\ before' \in Calls
    BY <1>2, <2>1, <2>5, BeginFacts
  <2>10. Reached(s, todo) = s BY <2>5, <2>7, ReachedNothing
  <2> QED BY <2>5, <2>8, <2>9, <2>10, InvReading
<1> QED BY <1>3, <1>4

\* A turn of the loop of read comes from the place q to the place r by n bytes,
\* which are delivered.
ReadsOn(q, n, s, todo, r) ==
    /\ n \in Nat /\ s \in Fields
    /\ stream' = s /\ pc' = "reading" /\ before' = before /\ answer' = answer /\ job' = todo
    /\ todo = [job EXCEPT !.toRead = @ - n,
                          !.got = @ \o SubSeq(stream.bytes, q.currentPosition + 1,
                                              q.currentPosition + n)]
    /\ todo \in Jobs /\ todo.toRead = job.toRead - n /\ r = Reached(s, todo)
    /\ Ready(q) /\ q.bytes = stream.bytes /\ q.size = stream.size
    /\ Ready(r) /\ r.bytes = stream.bytes /\ r.size = stream.size
    /\ r.seekToPosition = -1 /\ r.currentPosition = q.currentPosition + n
    /\ r.currentPosition <= stream.size /\ n <= job.toRead
    /\ job.toRead \in 0..(stream.size - q.currentPosition)

LEMMA ReadTurn ==
    ASSUME IInv, ReadChunk, NEW q, q = Reached(stream, job)
    PROVE  \E n, s, todo, r : ReadsOn(q, n, s, todo, r)
<1>1. pc = "reading" /\ job.toRead > 0 BY DEF ReadChunk
<1>2. /\ Ready(q) /\ q.bytes = stream.bytes /\ q.size = stream.size
      /\ q.seekToPosition = -1 /\ job.toRead \in 0..(stream.size - q.currentPosition)
  BY <1>1, ReadingFacts
<1>3. stream \in Fields /\ job \in Jobs /\ job.got \in Seq(Bytes) BY InvFacts DEF Jobs
<1>4. /\ q \in Fields /\ ChunksInOrder(q) /\ CursorIn(q) /\ q.size <= EntireSize(q)
  BY <1>2 DEF Ready, Sound
<1>5. /\ q.currentChunkIndex = stream.currentChunkIndex
      /\ q.currentPositionInChunk = stream.currentPositionInChunk
      /\ Count(q) = Count(stream)
      /\ \A k : Start(q, k) = Start(stream, k) /\ ChunkLength(q, k) = ChunkLength(stream, k)
  BY <1>3, ReachedFacts
<1>6. CursorInList(stream)
  <2>1. ASSUME ~CursorInList(stream) PROVE FALSE
    <3>1. Count(q) = 0 BY <1>4, <1>5, <2>1 DEF CursorIn, CursorInList
    <3>2. EntireSize(q) = 0 /\ q.size \in Nat /\ q.currentPosition \in Nat
      BY <1>4, <3>1, ChunkFacts, FieldTypes
    <3> QED BY <1>1, <1>2, <1>4, <3>2
  <2> QED BY <2>1
<1> DEFINE i == stream.currentChunkIndex
           p == stream.currentPositionInChunk
           c == q.currentPosition
           l == ChunkLength(stream, i)
           n == Smaller(job.toRead, l - p)
           from == Start(stream, i) + p
           s == CursorMoved(stream, n)
           z == stream.size
           t == job.toRead
           todo == [job EXCEPT !.toRead = @ - n,
                               !.got = @ \o SubSeq(stream.bytes, from + 1, from + n)]
<1>7. i \in 1..Count(q) /\ i # 0 BY <1>4, <1>5, <1>6, FieldTypes DEF CursorInList
<1>8. p \in Nat /\ c \in Nat /\ l \in Nat /\ z \in Nat
  <2>1. q.currentPositionInChunk \in Nat /\ c \in Nat /\ q.size \in Nat
    BY <1>4, FieldTypes
  <2>2. ChunkLength(q, i) \in Nat BY <1>4, <1>7, ChunkFacts
  <2> QED BY <1>2, <1>5, <2>1, <2>2
<1>9. p <= l /\ c = from BY <1>4, <1>5, <1>7 DEF CursorIn
<1>10. Continue(s, "reading", todo) BY <1>6 DEF ReadChunk, CursorMoved
<1>11. t \in Int /\ t > 0 /\ t <= z - c /\ n = IF t < l - p THEN t ELSE l - p
  BY <1>1, <1>2, <1>3 DEF Smaller, Jobs
<1>12. t \in 0..(z - c) BY <1>2
<1> HIDE DEF n, t, z, c, l, p
<1>13. n \in Nat /\ p + n <= l /\ n <= t /\ c + n <= z BY <1>8, <1>9, <1>11
<1> DEFINE old == stream.bytes
           piece == SubSeq(old, c + 1, c + n)
<1>14. piece \in Seq(Bytes) /\ Len(piece) = n
  <2>1. old \in Seq(Bytes) /\ Len(old) \in Nat /\ c + n <= Len(old)
    <3>1. EntireSize(q) \in Nat /\ old \in Seq(Bytes) /\ Len(old) = EntireSize(q)
      BY <1>2, <1>4, FieldTypes DEF EntireSize
    <3>2. z <= EntireSize(q) BY <1>2, <1>4 DEF z
    <3> HIDE DEF old
    <3> QED BY <1>8, <1>13, <3>1, <3>2
  <2> HIDE DEF old, piece
  <2>2. \A k \in (c + 1)..(c + n) : old[k] \in Bytes
    <3>1. \A k \in (c + 1)..(c + n) : k \in 1..Len(old) BY <1>8, <1>13, <2>1
    <3> QED BY <2>1, <3>1
  <2>3. c + 1 \in Int /\ c + n \in Int /\ (c + n) - (c + 1) + 1 = n BY <1>8, <1>13
  <2>4. /\ piece \in Seq(Bytes)
        /\ Len(piece) = (IF c + 1 <= c + n THEN (c + n) - (c + 1) + 1 ELSE 0)
    BY <2>2, <2>3, SubSeqProperties DEF piece
  <2> QED BY <1>8, <1>13, <2>3, <2>4
<1>15. todo = [job EXCEPT !.toRead = @ - n, !.got = @ \o piece] BY <1>9
<1> HIDE DEF from, piece, todo
<1>16. todo \in Jobs /\ todo.toRead = t - n /\ Len(todo.got) = Len(job.got) + n
  <2> DEFINE got == job.got \o piece
             left == job.toRead - n
  <2>1. got \in Seq(Bytes) /\ Len(got) = Len(job.got) + n BY <1>3, <1>14
  <2>2. left \in Int /\ left = t - n BY <1>11, <1>13 DEF t
  <2>3. todo = [job EXCEPT !.toRead = left, !.got = got] BY <1>15
  <2> HIDE DEF got, left
  <2>4. todo \in Jobs /\ todo.toRead = left /\ todo.got = got
    BY <1>3, <2>1, <2>2, <2>3 DEF Jobs
  <2> QED BY <2>1, <2>2, <2>4
<1> DEFINE r == Reached(s, todo)
<1>17. r = MovedOver(q, n) /\ s \in Fields
  BY <1>3, <1>13, <1>16, ReachedMoves
<1> HIDE DEF r, s
<1>18. q.currentPositionInChunk + n <= ChunkLength(q, q.currentChunkIndex)
       /\ q.currentPosition + n <= q.size /\ q.currentChunkIndex \in 1..Count(q)
  BY <1>2, <1>5, <1>7, <1>13 DEF p, l, c, z
<1>19. /\ Ready(r) /\ r.bytes = q.bytes /\ r.size = q.size
       /\ r.currentPosition = q.currentPosition + n /\ r.seekToPosition = q.seekToPosition
  BY <1>2, <1>13, <1>17, <1>18, MovedOverFacts
<1>20. stream' = s /\ pc' = "reading" /\ job' = todo /\ before' = before /\ answer' = answer
  BY <1>10, <1>17, ContinueFacts
<1>21. todo = [job EXCEPT !.toRead = @ - n,
                          !.got = @ \o SubSeq(stream.bytes, q.currentPosition + 1,
                                              q.currentPosition + n)]
  BY <1>15 DEF piece, c
<1>22. n <= job.toRead /\ todo.toRead = job.toRead - n
       /\ job.toRead \in 0..(stream.size - q.currentPosition)
       /\ q.currentPosition + n <= stream.size
  BY <1>2, <1>12, <1>13, <1>16 DEF t, z, c
<1>23. r = Reached(s, todo) BY DEF r
<1>24. ReadsOn(q, n, s, todo, r)
  BY <1>2, <1>13, <1>16, <1>17, <1>19, <1>20, <1>21, <1>22, <1>23 DEF ReadsOn
<1> QED BY <1>24

LEMMA ReadChunkKeeps == ASSUME IInv, ReadChunk PROVE IInv'
<1> DEFINE q == Reached(stream, job)
           c == q.currentPosition
           z == stream.size
           t == job.toRead
<1>1. q = Reached(stream, job) OBVIOUS
<1> HIDE DEF q
<1>2. PICK n, s, todo, r : ReadsOn(q, n, s, todo, r)
  BY <1>1, ReadTurn
<1>3. /\ n \in Nat /\ s \in Fields
      /\ stream' = s /\ pc' = "reading" /\ before' = before /\ job' = todo
      /\ todo \in Jobs /\ todo.toRead = t - n /\ r = Reached(s, todo)
      /\ Ready(q) /\ Ready(r) /\ r.size = z /\ r.seekToPosition = -1
      /\ r.currentPosition = c + n /\ n <= t /\ t \in 0..(z - c)
  BY <1>2 DEF ReadsOn
<1>4. c \in Nat /\ r.size \in Nat
  <2>1. q \in Fields /\ r \in Fields BY <1>3 DEF Ready, Sound
  <2>2. q.currentPosition \in Nat /\ r.size \in Nat BY <2>1, FieldTypes
  <2> QED BY <2>2
<1> HIDE DEF c, z, t
<1>5. todo.toRead \in 0..(r.size - r.currentPosition) BY <1>3, <1>4
<1>6. Allowed("reading", r, todo) BY <1>3, <1>5 DEF Allowed, Ready
<1>7. before' \in Calls BY <1>3, InvFacts
<1> QED BY <1>3, <1>6, <1>7, InvReading

\* The position follows the cursor.
LEMMA ReadEnds ==
    ASSUME IInv, ReadReturn, NEW q, q = Reached(stream, job)
    PROVE  /\ Return(q, Array!Delivered(job.got)) /\ Ready(q) /\ job.toRead = 0
           /\ q.seekToPosition = -1 /\ pc = "reading"
<1> DEFINE c == stream.currentPosition
           l == Len(job.got)
           t == job.toRead
<1>1. pc = "reading" /\ t <= 0 BY DEF ReadReturn
<1>2. Ready(q) /\ q.seekToPosition = -1 /\ t \in 0..(q.size - q.currentPosition)
  BY <1>1, ReadingFacts
<1>3. c \in Nat /\ l \in Nat
  <2>1. stream \in Fields /\ job.got \in Seq(Bytes) BY InvFacts DEF Jobs
  <2>2. stream.currentPosition \in Nat BY <2>1, FieldTypes
  <2>3. Len(job.got) \in Nat BY <2>1
  <2> QED BY <2>2, <2>3
<1>4. Return([stream EXCEPT !.currentPosition = c + l + t], Array!Delivered(job.got))
  BY DEF ReadReturn
<1>5. q = [stream EXCEPT !.currentPosition = c + l] BY DEF Reached
<1>6. t = 0 /\ t \in Int BY <1>1, <1>2
<1> HIDE DEF c, l, t
<1>7. c + l + t = c + l BY <1>3, <1>6
<1> QED BY <1>1, <1>2, <1>4, <1>5, <1>6, <1>7 DEF t

LEMMA ReadReturnKeeps == ASSUME IInv, ReadReturn PROVE IInv'
<1> DEFINE q == Reached(stream, job)
<1>1. q = Reached(stream, job) OBVIOUS
<1> HIDE DEF q
<1>2. Return(q, Array!Delivered(job.got)) /\ Ready(q) BY <1>1, ReadEnds
<1> QED BY <1>2, ReturnKeeps

-----------------------------------------------------------------------------
(* Every action keeps the invariant: write                                 *)

\* A sequence is cut into its first n elements and the others.
Front(a, n) == SubSeq(a, 1, n)
Back(a, n) == SubSeq(a, n + 1, Len(a))

LEMMA Pieces ==
    ASSUME NEW a \in Seq(Bytes), NEW n \in 0..Len(a)
    PROVE  /\ Front(a, n) \in Seq(Bytes) /\ Len(Front(a, n)) = n
           /\ Back(a, n) \in Seq(Bytes) /\ Len(Back(a, n)) = Len(a) - n
           /\ \A k \in 1..n : Front(a, n)[k] = a[k]
           /\ \A k \in 1..(Len(a) - n) : Back(a, n)[k] = a[n + k]
           /\ Len(a) - n \in Nat /\ Len(a) \in Nat /\ n \in Nat
<1>1. Len(a) \in Nat /\ n \in Nat /\ Len(a) - n \in Nat OBVIOUS
<1>2. /\ Front(a, n) \in Seq(Bytes) /\ Len(Front(a, n)) = n
      /\ \A k \in 1..n : Front(a, n)[k] = a[k]
  BY <1>1, CutOff DEF Front
<1>3. /\ Back(a, n) \in Seq(Bytes) /\ Len(Back(a, n)) = Len(a) - n
      /\ \A k \in 1..(Len(a) - n) : Back(a, n)[k] = a[n + k]
  BY <1>1 DEF Back
<1> QED BY <1>1, <1>2, <1>3

\* The seek that was noted is done when a call begins to write.
LEMMA SeekForWriting ==
    ASSUME BelowMaximum, IInv, pc \in {"idle", "copying"}, NEW n \in Nat,
           Position(stream) + n <= Limit, NEW r, r = DelayedSeek(stream)
    PROVE  /\ Ready(stream) /\ Ready(r) /\ r \in Fields /\ r.seekToPosition = -1
           /\ r.currentPosition = Position(stream) /\ r.currentPosition + n <= Limit
           /\ r.size = Larger(stream.size, Position(stream))
           /\ Agree(stream.bytes, r.bytes, stream.size)
<1>1. Ready(stream) BY InvFacts DEF Between
<1>2. Position(stream) \in Nat /\ Limit \in Nat BY <1>1, SeenTypes, SizesAssumption
<1>3. Position(stream) <= Limit BY <1>2
<1>4. /\ Ready(r) /\ r.seekToPosition = -1 /\ r.currentPosition = Position(stream)
      /\ r.size = Larger(stream.size, Position(stream)) /\ Agree(stream.bytes, r.bytes, stream.size)
  BY <1>1, <1>3, DelayedSeekFacts
<1> QED BY <1>1, <1>4 DEF Ready, Sound

LEMMA WriteKeeps ==
    ASSUME BelowMaximum, IInv, NEW data \in Contents, Write(data)
    PROVE  IInv'
<1> DEFINE r == DelayedSeek(stream)
           todo == [NoJob EXCEPT !.rest = data]
<1>1. /\ Begin(r, "starting", todo) /\ data # <<>> /\ Position(stream) + Len(data) <= Limit
      /\ pc = "idle"
  BY DEF Write, Within, Begin
<1>2. r = DelayedSeek(stream) OBVIOUS
<1> HIDE DEF r
<1>3. data \in Seq(Bytes) /\ Len(data) \in Nat BY CallersAssumption
<1>4. /\ Ready(stream) /\ Ready(r) /\ r \in Fields /\ r.seekToPosition = -1
      /\ r.currentPosition + Len(data) <= Limit /\ r.currentPosition \in Nat
  <2>1. /\ Ready(stream) /\ Ready(r) /\ r \in Fields /\ r.seekToPosition = -1
        /\ r.currentPosition + Len(data) <= Limit
    BY <1>1, <1>2, <1>3, SeekForWriting
  <2> QED BY <2>1, FieldTypes
<1>5. todo \in Jobs /\ todo.rest = data /\ todo.source = <<>> BY <1>3, NoJobTypes DEF Jobs
<1> HIDE DEF todo
<1>6. r.currentPosition + Len(todo.rest) + Len(todo.source) <= Limit BY <1>3, <1>4, <1>5
<1>7. Allowed("starting", r, todo) BY <1>1, <1>4, <1>5, <1>6 DEF Allowed, Ready
<1>8. stream' = r /\ pc' = "starting" /\ job' = todo /\ before' \in Calls
  BY <1>1, <1>4, BeginFacts
<1> QED BY <1>7, <1>8, InvNext

\* What the job of a write says.
LEMMA WritingFacts ==
    ASSUME IInv, pc \in {"starting", "writing", "copying", "filling"}
    PROVE  /\ job \in Jobs /\ job.rest \in Seq(Bytes) /\ job.source \in Seq(Bytes)
           /\ Len(job.rest) \in Nat /\ Len(job.source) \in Nat
           /\ stream.currentPosition + Len(job.rest) + Len(job.source) <= Limit
           /\ stream.seekToPosition = -1 /\ Position(stream) = stream.currentPosition
           /\ Limit \in Nat /\ stream \in Fields /\ Sound(stream) /\ stream.size <= Limit
           /\ stream.currentPosition \in Nat /\ stream.size \in Nat
           /\ EntireSize(stream) \in Nat /\ stream.size <= EntireSize(stream)
<1>1. job \in Jobs /\ stream \in Fields /\ Sound(stream) /\ stream.size <= Limit BY InvFacts
<1>2. job.rest \in Seq(Bytes) /\ job.source \in Seq(Bytes) BY <1>1 DEF Jobs
<1>3. /\ stream.currentPosition + Len(job.rest) + Len(job.source) <= Limit
      /\ stream.seekToPosition = -1
  BY DEF IInv, LoopAgrees
<1>4. Position(stream) = stream.currentPosition BY <1>3 DEF Position
<1>5. stream.size <= EntireSize(stream) BY <1>1 DEF Sound
<1>6. Len(job.rest) \in Nat /\ Len(job.source) \in Nat BY <1>2
<1> QED BY <1>1, <1>2, <1>3, <1>4, <1>5, <1>6, FieldTypes, SizesAssumption

\* Whatever the next step of a write is, the fields are those of startWriting.
LEMMA StartTurn ==
    ASSUME BelowMaximum, IInv, StartWriting
    PROVE  LET r == StartedWriting(stream)
               next == IF job.rest # <<>> THEN "writing" ELSE "filling"
           IN  /\ stream' = r /\ pc' = next /\ job' = job /\ before' = before /\ answer' = answer
               /\ Sound(r) /\ Count(r) > 0 /\ r.size = stream.size
               /\ r.currentPosition = stream.currentPosition /\ r.seekToPosition = -1
               /\ Agree(stream.bytes, r.bytes, EntireSize(stream))
               /\ stream.currentChunkIndex = Count(stream) => r.currentChunkIndex = Count(r)
               /\ Settled(stream) => r.currentChunkIndex = Count(r) \/ Start(r, Count(r)) < r.size
<1> DEFINE r == StartedWriting(stream)
           next == IF job.rest # <<>> THEN "writing" ELSE "filling"
<1>1. pc = "starting" /\ Continue(r, next, job) BY DEF StartWriting
<1>2. r = StartedWriting(stream) OBVIOUS
<1> HIDE DEF r, next
<1>3. Sound(stream) /\ stream.size <= Limit /\ stream.seekToPosition = -1
  BY <1>1, WritingFacts
<1>4. /\ Sound(r) /\ Count(r) > 0 /\ r.size = stream.size
      /\ r.currentPosition = stream.currentPosition /\ r.seekToPosition = stream.seekToPosition
      /\ Agree(stream.bytes, r.bytes, EntireSize(stream))
      /\ stream.currentChunkIndex = Count(stream) => r.currentChunkIndex = Count(r)
      /\ Settled(stream) => r.currentChunkIndex = Count(r) \/ Start(r, Count(r)) < r.size
  BY <1>2, <1>3, StartedFacts
<1>5. r \in Fields BY <1>4 DEF Sound
<1>6. stream' = r /\ pc' = next /\ job' = job /\ before' = before /\ answer' = answer
  BY <1>1, <1>5, ContinueFacts
<1> QED BY <1>3, <1>4, <1>6 DEF r, next

LEMMA StartWritingKeeps == ASSUME BelowMaximum, IInv, StartWriting PROVE IInv'
<1> DEFINE r == StartedWriting(stream)
           next == IF job.rest # <<>> THEN "writing" ELSE "filling"
<1>1. pc = "starting" BY DEF StartWriting
<1>2. /\ stream' = r /\ pc' = next /\ job' = job /\ before' = before
      /\ Sound(r) /\ Count(r) > 0 /\ r.size = stream.size
      /\ r.currentPosition = stream.currentPosition /\ r.seekToPosition = -1
      /\ stream.currentChunkIndex = Count(stream) => r.currentChunkIndex = Count(r)
      /\ Settled(stream) => r.currentChunkIndex = Count(r) \/ Start(r, Count(r)) < r.size
  BY StartTurn
<1>3. next = IF job.rest # <<>> THEN "writing" ELSE "filling" OBVIOUS
<1> HIDE DEF r, next
<1>4. job \in Jobs /\ stream.size <= Limit /\ before \in Calls BY InvFacts
<1>5. stream.currentPosition + Len(job.rest) + Len(job.source) <= Limit BY <1>1, WritingFacts
<1>6. /\ job.rest # <<>> => Settled(stream)
      /\ job.rest = <<>> => /\ stream.currentChunkIndex = Count(stream)
                            /\ stream.size <= stream.currentPosition
  BY <1>1 DEF IInv, LoopAgrees, Between, Filling
<1>7. Allowed(next, r, job)
  <2>1. CASE job.rest # <<>>
    <3>1. next = "writing" BY <1>3, <2>1
    <3> QED BY <1>2, <1>4, <1>5, <1>6, <2>1, <3>1 DEF Allowed
  <2>2. CASE job.rest = <<>>
    <3>1. next = "filling" BY <1>3, <2>2
    <3> QED BY <1>2, <1>4, <1>5, <1>6, <2>2, <3>1 DEF Allowed
  <2> QED BY <2>1, <2>2
<1>8. next # "reading" BY <1>3
<1> QED BY <1>2, <1>4, <1>7, <1>8, InvNext

\* One turn of the loop of write.
LEMMA WriteTurn ==
    ASSUME BelowMaximum, IInv, WriteChunk
    PROVE  \E n \in 0..Len(job.rest), r \in Fields :
              /\ stream' = r /\ pc' = "writing" /\ before' = before /\ answer' = answer
              /\ job' = [job EXCEPT !.rest = Back(@, n)]
              /\ Sound(r) /\ Count(r) > 0 /\ r.size = stream.size /\ r.seekToPosition = -1
              /\ r.currentPosition = stream.currentPosition + n
              /\ r.currentPosition <= EntireSize(stream) /\ EntireSize(stream) <= EntireSize(r)
              /\ r.currentChunkIndex = Count(r) \/ Start(r, Count(r)) < r.size
              /\ StoresPiece(stream, r, Front(job.rest, n))
<1> DEFINE s == stream
           i == s.currentChunkIndex
           p == s.currentPositionInChunk
           c == s.currentPosition
           l == ChunkLength(s, i)
           m == Len(job.rest)
           n == Smaller(m, l - p)
           piece == Front(job.rest, n)
           t == Stored(s, piece)
           r == Advanced(t)
           todo == [job EXCEPT !.rest = Back(@, n)]
<1>1. pc = "writing" BY DEF WriteChunk
<1>2. /\ job.rest \in Seq(Bytes) /\ m \in Nat /\ s.seekToPosition = -1 /\ s \in Fields
      /\ Sound(s) /\ s.size <= Limit /\ c \in Nat /\ s.size \in Nat /\ EntireSize(s) \in Nat
      /\ s.size <= EntireSize(s) /\ Limit \in Nat
  BY <1>1, WritingFacts
<1>3. /\ Count(s) > 0 /\ Count(s) \in Nat
      /\ i = Count(s) \/ Start(s, Count(s)) < s.size
  <2>1. Count(s) \in Nat BY <1>2, FieldTypes
  <2> QED BY <1>1, <2>1 DEF IInv, LoopAgrees
<1>4. i \in 1..Count(s) /\ i # 0 /\ p <= l /\ p \in Nat
  <2>1. CursorIn(s) BY <1>2 DEF Sound
  <2>2. i \in 1..Count(s) /\ p <= l BY <1>3, <2>1 DEF CursorIn
  <2>3. p \in Nat BY <1>2, FieldTypes
  <2>4. i # 0 BY <1>3, <2>2
  <2> QED BY <2>2, <2>3, <2>4
<1>5. l \in Nat /\ ChunksInOrder(s)
  <2>1. ChunksInOrder(s) BY <1>2 DEF Sound
  <2> QED BY <1>2, <1>4, <2>1, ChunkFacts
<1>6. Continue(r, "writing", todo)
  <2>1. CursorInList(s) BY <1>4 DEF CursorInList
  <2> QED BY <2>1 DEF WriteChunk, Front, Back
<1>7. n \in 0..m /\ p + n <= l /\ n \in Nat
  <2> HIDE DEF m, l, p
  <2> QED BY <1>2, <1>4, <1>5 DEF Smaller
<1> HIDE DEF n
<1>8. piece \in Seq(Bytes) /\ Len(piece) = n BY <1>2, <1>7, Pieces
<1>9. t = Stored(s, piece) OBVIOUS
<1> HIDE DEF t, piece
<1>10. /\ t \in Fields /\ ChunksInOrder(t) /\ CursorIn(t) /\ t.ends = s.ends
       /\ EntireSize(t) = EntireSize(s) /\ t.size = s.size
       /\ t.seekToPosition = s.seekToPosition /\ t.currentChunkIndex = i
       /\ t.currentPosition = c + n /\ t.currentPosition <= EntireSize(s)
       /\ StoresPiece(s, t, piece)
  <2>1. p + Len(piece) <= l BY <1>7, <1>8
  <2> QED BY <1>2, <1>4, <1>8, <1>9, <2>1, StoredFacts
<1>11. Count(t) = Count(s) /\ Start(t, Count(t)) = Start(s, Count(s))
  BY <1>2, <1>10, SameChunks
<1>12. t.size < MaxSize /\ t.size <= EntireSize(t)
  BY <1>2, <1>10, SizesAssumption DEF BelowMaximum
<1>13. r = Advanced(t) /\ t.currentChunkIndex \in 1..Count(t) BY <1>4, <1>10, <1>11
<1> HIDE DEF r
<1>14. /\ Sound(r) /\ Count(r) > 0 /\ r.size = t.size
       /\ r.currentPosition = t.currentPosition /\ r.seekToPosition = t.seekToPosition
       /\ Agree(t.bytes, r.bytes, EntireSize(t))
       /\ t.currentChunkIndex = Count(t) => r.currentChunkIndex = Count(r)
       /\ \/ r.currentChunkIndex = Count(r)
          \/ Count(r) = Count(t) /\ Start(r, Count(r)) = Start(t, Count(t))
  BY <1>10, <1>12, <1>13, AdvancedFacts
<1>15. r \in Fields BY <1>14 DEF Sound
<1>16. stream' = r /\ pc' = "writing" /\ job' = todo /\ before' = before /\ answer' = answer
  BY <1>6, <1>15, ContinueFacts
<1>17. EntireSize(s) <= EntireSize(r) BY <1>10, <1>14 DEF Agree, EntireSize
<1>18. r.currentChunkIndex = Count(r) \/ Start(r, Count(r)) < r.size
  <2>1. CASE r.currentChunkIndex = Count(r) BY <2>1
  <2>2. CASE r.currentChunkIndex # Count(r)
    <3>1. Count(r) = Count(s) /\ Start(r, Count(r)) = Start(s, Count(s)) BY <1>11, <1>14, <2>2
    <3>2. CASE Start(s, Count(s)) < s.size BY <1>10, <1>14, <3>1, <3>2
    <3>3. CASE i = Count(s) BY <1>10, <1>11, <1>14, <2>2, <3>3
    <3> QED BY <1>3, <3>2, <3>3
  <2> QED BY <2>1, <2>2
<1>19. StoresPiece(s, r, piece)
  <2>1. \A k \in 1..EntireSize(s) : r.bytes[k] = t.bytes[k] BY <1>10, <1>14 DEF Agree
  <2> QED BY <1>10, <2>1 DEF StoresPiece
<1> QED BY <1>2, <1>7, <1>10, <1>14, <1>15, <1>16, <1>17, <1>18, <1>19 DEF piece

LEMMA WriteChunkKeeps == ASSUME BelowMaximum, IInv, WriteChunk PROVE IInv'
<1>1. pc = "writing" BY DEF WriteChunk
<1>2. /\ job \in Jobs /\ job.rest \in Seq(Bytes) /\ Len(job.source) \in Nat
      /\ stream.currentPosition + Len(job.rest) + Len(job.source) <= Limit
      /\ stream.size <= Limit /\ stream.currentPosition \in Nat /\ Limit \in Nat
  BY <1>1, WritingFacts
<1>3. PICK n \in 0..Len(job.rest), r \in Fields :
              /\ stream' = r /\ pc' = "writing" /\ before' = before
              /\ job' = [job EXCEPT !.rest = Back(@, n)]
              /\ Sound(r) /\ Count(r) > 0 /\ r.size = stream.size /\ r.seekToPosition = -1
              /\ r.currentPosition = stream.currentPosition + n
              /\ r.currentChunkIndex = Count(r) \/ Start(r, Count(r)) < r.size
  BY WriteTurn
<1> DEFINE left == Back(job.rest, n)
           todo == [job EXCEPT !.rest = left]
<1>4. /\ left \in Seq(Bytes) /\ Len(left) = Len(job.rest) - n /\ Len(job.rest) \in Nat
      /\ n \in Nat /\ Len(job.rest) - n \in Nat
  BY <1>2, Pieces
<1> HIDE DEF left
<1>5. todo \in Jobs /\ todo.rest = left /\ todo.source = job.source BY <1>2, <1>4 DEF Jobs
<1>6. job' = todo BY <1>3 DEF left
<1> HIDE DEF todo
<1>7. r.currentPosition + Len(todo.rest) + Len(todo.source) <= Limit
  <2> DEFINE c == stream.currentPosition
             m == Len(job.rest)
             o == Len(job.source)
  <2>1. c \in Nat /\ m \in Nat /\ o \in Nat /\ n \in Nat /\ c + m + o <= Limit BY <1>2, <1>4
  <2> HIDE DEF c, m, o
  <2>2. (c + n) + (m - n) + o <= Limit BY <1>2, <2>1
  <2> QED BY <1>3, <1>4, <1>5, <2>2 DEF c, m, o
<1>8. Allowed("writing", r, todo) BY <1>2, <1>3, <1>5, <1>7 DEF Allowed
<1>9. before' \in Calls BY <1>3, InvFacts
<1> QED BY <1>3, <1>6, <1>8, <1>9, InvNext

\* The end of a write: the size, and a chunk that is given back.
LEMMA WriteEndFacts ==
    ASSUME IInv, pc \in {"writing", "filling"},
           NEW size, size = IF pc = "writing" THEN Larger(stream.size, stream.currentPosition)
                                              ELSE stream.currentPosition,
           NEW r, r = EndedWriting(Resized(stream, size))
    PROVE  /\ Ready(r) /\ r.size = size /\ r.currentPosition = stream.currentPosition
           /\ r.seekToPosition = -1 /\ Agree(stream.bytes, r.bytes, size)
           /\ size \in Nat /\ size <= EntireSize(stream)
<1> DEFINE s == Resized(stream, size)
           c == stream.currentPosition
<1>1. /\ stream \in Fields /\ Sound(stream) /\ stream.size <= Limit /\ c \in Nat
      /\ stream.size \in Nat /\ stream.seekToPosition = -1 /\ Limit \in Nat
      /\ Len(job.rest) \in Nat /\ Len(job.source) \in Nat /\ EntireSize(stream) \in Nat
      /\ c + Len(job.rest) + Len(job.source) <= Limit /\ stream.size <= EntireSize(stream)
  BY WritingFacts
<1>2. c <= Limit
  <2> DEFINE a == Len(job.rest)
             b == Len(job.source)
  <2>1. a \in Nat /\ b \in Nat /\ c \in Nat /\ Limit \in Nat /\ c + a + b <= Limit BY <1>1
  <2> HIDE DEF a, b, c
  <2> QED BY <2>1
<1>3. ChunksInOrder(stream) /\ CursorIn(stream) /\ CursorInFront(stream) BY <1>1 DEF Sound
<1>4. /\ Count(stream) > 0 /\ Count(stream) \in Nat
      /\ pc = "writing" => stream.currentChunkIndex = Count(stream)
                           \/ Start(stream, Count(stream)) < stream.size
      /\ pc = "filling" => /\ stream.currentChunkIndex = Count(stream)
                           /\ stream.size <= c
  <2>1. Count(stream) \in Nat BY <1>1, FieldTypes
  <2> QED BY <2>1 DEF IInv, LoopAgrees, Filling
<1>5. c <= EntireSize(stream)
  <2> DEFINE i == stream.currentChunkIndex
             p == stream.currentPositionInChunk
             l == ChunkLength(stream, i)
             st == Start(stream, i)
             e == EntireSize(stream)
  <2>1. i \in 1..Count(stream) /\ p <= l /\ c = st + p BY <1>3, <1>4 DEF CursorIn
  <2>2. /\ l \in Nat /\ st \in Nat /\ st + l = stream.ends[i] /\ stream.ends[i] <= e
        /\ stream.ends[i] \in Nat
    BY <1>1, <1>3, <2>1, ChunkFacts
  <2>3. p \in Nat /\ e \in Nat BY <1>1, FieldTypes
  <2> DEFINE x == stream.ends[i]
  <2>4. st + l = x /\ x <= e /\ x \in Nat BY <2>2
  <2>5. l \in Nat /\ st \in Nat /\ p <= l /\ c = st + p BY <2>1, <2>2
  <2> HIDE DEF c, l, st, p, e, x
  <2>6. c <= e BY <2>3, <2>4, <2>5
  <2> QED BY <2>6 DEF e
<1>6. /\ size \in Nat /\ c <= size /\ size <= Limit /\ size <= EntireSize(stream)
      /\ stream.size <= size
  BY <1>1, <1>2, <1>4, <1>5 DEF Larger
<1>7. s = Resized(stream, size) OBVIOUS
<1> HIDE DEF s
<1>8. /\ s \in Fields /\ ChunksInOrder(s) /\ CursorIn(s) /\ CursorInFront(s)
      /\ s.bytes = stream.bytes /\ EntireSize(s) = EntireSize(stream)
      /\ Count(s) = Count(stream) /\ Start(s, Count(s)) = Start(stream, Count(stream))
      /\ s.size = size /\ s.seekToPosition = stream.seekToPosition
      /\ s.currentPosition = stream.currentPosition
      /\ s.currentChunkIndex = stream.currentChunkIndex
  <2> DEFINE old == stream
  <2>1. /\ old \in Fields /\ ChunksInOrder(old) /\ CursorIn(old) /\ CursorInFront(old)
        /\ s = Resized(old, size) /\ size \in Nat
    BY ONLY <1>1, <1>3, <1>6, <1>7
  <2> HIDE DEF old
  <2>2. /\ s \in Fields /\ ChunksInOrder(s) /\ CursorIn(s) /\ CursorInFront(s)
        /\ s.bytes = old.bytes /\ EntireSize(s) = EntireSize(old)
        /\ Count(s) = Count(old) /\ Start(s, Count(s)) = Start(old, Count(old))
        /\ s.size = size /\ s.seekToPosition = old.seekToPosition
        /\ s.currentPosition = old.currentPosition
        /\ s.currentChunkIndex = old.currentChunkIndex
    BY ONLY <2>1, SizeSet
  <2> QED BY ONLY <2>2 DEF old
<1>9. s.currentChunkIndex = Count(s) \/ Start(s, Count(s)) < s.size
  <2>1. CASE pc = "filling" BY <1>4, <1>8, <2>1
  <2>2. CASE pc = "writing"
    <3>1. CASE stream.currentChunkIndex = Count(stream) BY <1>8, <3>1
    <3>2. CASE Start(stream, Count(stream)) < stream.size
      <4>1. Start(stream, Count(stream)) \in Nat BY <1>1, <1>3, <1>4, ChunkFacts
      <4> QED BY <1>1, <1>6, <1>8, <3>2, <4>1
    <3> QED BY <1>4, <2>2, <3>1, <3>2
  <2> QED BY <2>1, <2>2
<1>10. Sound(s) BY <1>6, <1>8 DEF Sound
<1>11. r = EndedWriting(s) BY <1>7
<1>12. /\ Ready(r) /\ r.size = s.size /\ r.currentPosition = s.currentPosition
       /\ r.seekToPosition = -1 /\ Agree(s.bytes, r.bytes, s.size)
  BY <1>1, <1>4, <1>6, <1>8, <1>9, <1>10, <1>11, EndedFacts
<1> QED BY <1>6, <1>8, <1>12

LEMMA WriteReturnKeeps == ASSUME IInv, WriteReturn PROVE IInv'
<1> DEFINE size == Larger(stream.size, stream.currentPosition)
           r == EndedWriting(Resized(stream, size))
<1>1. pc = "writing" /\ job.rest = <<>> BY DEF WriteReturn
<1>2. IF job.source # <<>> THEN Continue(r, "copying", job) ELSE Return(r, Array!Nothing)
  BY DEF WriteReturn, Resized
<1>3. size = IF pc = "writing" THEN Larger(stream.size, stream.currentPosition)
                               ELSE stream.currentPosition
  BY <1>1
<1>4. r = EndedWriting(Resized(stream, size)) OBVIOUS
<1> HIDE DEF size, r
<1>5. /\ Ready(r) /\ r.size = size /\ r.currentPosition = stream.currentPosition
      /\ r.seekToPosition = -1
  BY <1>1, <1>3, <1>4, WriteEndFacts
<1>6. CASE job.source # <<>>
  <2>1. Continue(r, "copying", job) BY <1>2, <1>6
  <2>2. r \in Fields BY <1>5 DEF Ready, Sound
  <2>3. stream' = r /\ pc' = "copying" /\ job' = job /\ before' = before
    BY <2>1, <2>2, ContinueFacts
  <2>4. job \in Jobs /\ before \in Calls BY InvFacts
  <2>5. r.currentPosition + Len(job.rest) + Len(job.source) <= Limit
    BY <1>1, <1>5, WritingFacts
  <2>6. Allowed("copying", r, job) BY <1>5, <2>4, <2>5 DEF Allowed, Ready
  <2> QED BY <2>3, <2>4, <2>6, InvNext
<1>7. CASE job.source = <<>>
  <2>1. Return(r, Array!Nothing) BY <1>2, <1>7
  <2> QED BY <1>5, <2>1, ReturnKeeps
<1> QED BY <1>6, <1>7

-----------------------------------------------------------------------------
(* Every action keeps the invariant: writeFromInputStream                  *)

Sources == Contents \cup {<<>>}

LEMMA SourceTypes == \A source \in Sources : source \in Seq(Bytes) /\ Len(source) \in Nat
<1>1. ASSUME NEW source \in Sources PROVE source \in Seq(Bytes)
  <2>1. CASE source \in Contents BY <2>1, CallersAssumption
  <2>2. CASE source = <<>>
    <3>1. <<>> \in Seq(Bytes) OBVIOUS
    <3> QED BY <2>2, <3>1
  <2> QED BY <2>1, <2>2 DEF Sources
<1>2. \A a \in Seq(Bytes) : Len(a) \in Nat OBVIOUS
<1> QED BY <1>1, <1>2

\* A chunk for the bytes that an InputStream can tell, n of which it has delivered.
LEMMA FilledFacts ==
    ASSUME NEW source \in Seq(Bytes), NEW available \in 1..Len(source), NEW n \in 1..available,
           NEW r, r = FilledAtOnce(Front(source, n), available)
    PROVE  /\ Sound(r) /\ Count(r) = 1 /\ r.currentChunkIndex = 1 /\ r.size = n
           /\ r.currentPosition = n /\ r.seekToPosition = -1 /\ Agree(source, r.bytes, n)
           /\ r \in Fields
<1> DEFINE data == Front(source, n)
           zeros == [i \in 1..(available - n) |-> Zero]
           bytes == data \o zeros
<1>1. /\ Len(source) \in Nat /\ available \in Nat /\ n \in Nat /\ n <= available
      /\ available <= Len(source) /\ n \in 0..Len(source) /\ n > 0 /\ available - n \in Nat
  OBVIOUS
<1>2. data \in Seq(Bytes) /\ Len(data) = n /\ \A k \in 1..n : data[k] = source[k]
  BY <1>1, Pieces
<1>3. zeros \in Seq(Bytes) /\ Len(zeros) = available - n
  <2>1. zeros \in [1..(available - n) -> Bytes] BY CallersAssumption
  <2>2. DOMAIN zeros = 1..(available - n) OBVIOUS
  <2> QED BY <1>1, <2>1, <2>2
<1>4. r = [Empty EXCEPT !.bytes = data \o zeros, !.ends = <<available>>, !.currentChunkIndex = 1,
                        !.size = n, !.currentPosition = n, !.currentPositionInChunk = n]
  BY <1>2 DEF FilledAtOnce
<1> HIDE DEF data, zeros
<1>5. /\ bytes \in Seq(Bytes) /\ Len(bytes) = n + (available - n)
      /\ \A k \in 1..n : bytes[k] = data[k]
  BY <1>2, <1>3, Joined
<1>6. Len(bytes) = available /\ Len(bytes) > 0 BY <1>1, <1>5
<1>7. r = OneChunk(bytes, n, n) BY <1>4, <1>6 DEF OneChunk
<1> HIDE DEF bytes
<1>8. n \in 1..Len(bytes) /\ n \in 0..n BY <1>1, <1>6
<1>9. /\ Sound(r) /\ Count(r) = 1 /\ r.currentChunkIndex = 1 /\ r.size = n
      /\ r.currentPosition = n /\ r.bytes = bytes /\ r.seekToPosition = -1
  BY <1>5, <1>6, <1>7, <1>8, OneChunkFacts
<1>10. Agree(source, r.bytes, n)
  <2>1. \A k \in 1..n : r.bytes[k] = source[k] BY <1>2, <1>5, <1>9
  <2> QED BY <1>1, <1>6, <1>9, <2>1 DEF Agree
<1>11. r \in Fields BY <1>9 DEF Sound
<1> QED BY <1>9, <1>10, <1>11

\* How the call begins: with the first n bytes in a chunk, or with a seek.
LEMMA FromInputStream ==
    ASSUME BelowMaximum, IInv, NEW source \in Sources, WriteFromInputStream(source)
    PROVE  \E n \in 0..Len(source), r \in Fields :
              /\ pc = "idle" /\ stream' = r /\ job' = [NoJob EXCEPT !.source = Back(source, n)]
              /\ before' = [content |-> Content(stream), position |-> Position(stream)]
              /\ before' \in Calls /\ answer' = answer /\ Sound(r) /\ r.seekToPosition = -1
              /\ Position(stream) + Len(source) <= Limit /\ r.size <= Limit
              /\ \/ /\ pc' = "starting" /\ stream.size = 0 /\ Position(stream) = 0
                    /\ r.currentChunkIndex = Count(r) /\ r.size = n /\ r.currentPosition = n
                    /\ Agree(source, r.bytes, n)
                 \/ /\ pc' = "copying" /\ n = 0 /\ Ready(r)
                    /\ r.currentPosition = Position(stream)
                    /\ r.size = Larger(stream.size, Position(stream))
                    /\ Agree(stream.bytes, r.bytes, stream.size)
<1>1. Position(stream) + Len(source) <= Limit BY DEF WriteFromInputStream, Within
<1>2. source \in Seq(Bytes) /\ Len(source) \in Nat BY SourceTypes
<1>3. pc = "idle" BY DEF WriteFromInputStream, FillEmpty, CopyFrom, Begin
<1> DEFINE d == DelayedSeek(stream)
<1>4. /\ Ready(stream) /\ Ready(d) /\ d \in Fields /\ d.seekToPosition = -1
      /\ d.currentPosition = Position(stream)
      /\ d.size = Larger(stream.size, Position(stream)) /\ Agree(stream.bytes, d.bytes, stream.size)
  <2>1. d = DelayedSeek(stream) OBVIOUS
  <2> HIDE DEF d
  <2> QED BY <1>1, <1>2, <1>3, <2>1, SeekForWriting
<1>5. stream.size \in Nat /\ Position(stream) \in Nat /\ Limit \in Nat
  BY <1>4, SeenTypes, SizesAssumption
<1>6. CASE FillEmpty(source)
  <2>1. stream.size = 0 /\ Position(stream) = 0
    <3>1. d.size = 0 BY <1>6 DEF FillEmpty
    <3> QED BY <1>4, <1>5, <3>1 DEF Larger
  <2>2. PICK n \in 0..Len(source), r \in Fields :
               /\ Begin(r, "starting", [NoJob EXCEPT !.source = Back(source, n)])
               /\ Sound(r) /\ r.currentChunkIndex = Count(r) /\ r.size = n
               /\ r.currentPosition = n /\ r.seekToPosition = -1 /\ Agree(source, r.bytes, n)
    <3>1. PICK available \in 0..Len(source) :
             IF available > InitialSize
             THEN \E n \in 1..available :
                     Begin(FilledAtOnce(Front(source, n), available), "starting",
                           [NoJob EXCEPT !.source = Back(source, n)])
             ELSE Begin(Empty, "starting", [NoJob EXCEPT !.source = source])
      BY <1>6 DEF FillEmpty, Front, Back
    <3>2. CASE available > InitialSize
      <4>1. PICK n \in 1..available :
               Begin(FilledAtOnce(Front(source, n), available), "starting",
                     [NoJob EXCEPT !.source = Back(source, n)])
        BY <3>1, <3>2
      <4> DEFINE r == FilledAtOnce(Front(source, n), available)
      <4>2. available \in 1..Len(source) /\ n \in 0..Len(source)
        BY <1>2, <3>2, SizesAssumption
      <4>3. r = FilledAtOnce(Front(source, n), available) OBVIOUS
      <4> HIDE DEF r
      <4>4. /\ Sound(r) /\ Count(r) = 1 /\ r.currentChunkIndex = 1 /\ r.size = n
            /\ r.currentPosition = n /\ r.seekToPosition = -1 /\ Agree(source, r.bytes, n)
            /\ r \in Fields
        BY <1>2, <4>2, <4>3, FilledFacts
      <4>5. Begin(r, "starting", [NoJob EXCEPT !.source = Back(source, n)]) BY <4>1 DEF r
      <4> QED BY <4>2, <4>4, <4>5
    <3>3. CASE ~(available > InitialSize)
      <4>1. Begin(Empty, "starting", [NoJob EXCEPT !.source = source]) BY <3>1, <3>3
      <4>2. Back(source, 0) = source
        <5>1. Back(source, 0) = SubSeq(source, 1, Len(source)) BY <1>2 DEF Back
        <5> QED BY <1>2, <5>1
      <4>3. Begin(Empty, "starting", [NoJob EXCEPT !.source = Back(source, 0)]) BY <4>1, <4>2
      <4>4. Agree(source, Empty.bytes, 0)
        <5>1. Len(Empty.bytes) = 0 BY EmptyReady
        <5> QED BY <1>2, <5>1 DEF Agree
      <4>5. Empty \in Fields /\ Sound(Empty) BY EmptyReady DEF Ready, Sound
      <4>6. 0 \in 0..Len(source) BY <1>2
      <4> QED BY <4>3, <4>4, <4>5, <4>6, EmptyReady
    <3> QED BY <3>2, <3>3
  <2>3. n <= Limit
    <3>1. n \in Nat /\ n <= Len(source) BY <1>2
    <3> QED BY <1>1, <1>2, <1>5, <2>1, <3>1
  <2>4. /\ stream' = r /\ pc' = "starting" /\ job' = [NoJob EXCEPT !.source = Back(source, n)]
        /\ answer' = answer
        /\ before' = [content |-> Content(stream), position |-> Position(stream)]
        /\ before' \in Calls
    BY <1>4, <2>2, BeginFacts
  <2> QED BY <1>1, <1>3, <2>1, <2>2, <2>3, <2>4
<1>7. CASE CopyFrom(source)
  <2>1. Begin(d, "copying", [NoJob EXCEPT !.source = source]) BY <1>7 DEF CopyFrom
  <2>2. Back(source, 0) = source
    <3>1. Back(source, 0) = SubSeq(source, 1, Len(source)) BY <1>2 DEF Back
    <3> QED BY <1>2, <3>1
  <2>3. 0 \in 0..Len(source) BY <1>2
  <2> HIDE DEF d
  <2>4. /\ stream' = d /\ pc' = "copying" /\ job' = [NoJob EXCEPT !.source = source]
        /\ answer' = answer
        /\ before' = [content |-> Content(stream), position |-> Position(stream)]
        /\ before' \in Calls
    BY <1>4, <2>1, BeginFacts
  <2>5. job' = [NoJob EXCEPT !.source = Back(source, 0)] BY <2>2, <2>4
  <2>6. Sound(d) /\ d.size <= Limit BY <1>4 DEF Ready
  <2> QED BY <1>1, <1>3, <1>4, <2>3, <2>4, <2>5, <2>6
<1> QED BY <1>6, <1>7 DEF WriteFromInputStream

LEMMA WriteFromInputStreamKeeps ==
    ASSUME BelowMaximum, IInv, NEW source \in Sources, WriteFromInputStream(source)
    PROVE  IInv'
<1>1. PICK n \in 0..Len(source), r \in Fields :
              /\ stream' = r /\ job' = [NoJob EXCEPT !.source = Back(source, n)]
              /\ before' \in Calls /\ Sound(r) /\ r.seekToPosition = -1
              /\ Position(stream) + Len(source) <= Limit /\ r.size <= Limit
              /\ pc = "idle"
              /\ \/ /\ pc' = "starting" /\ stream.size = 0 /\ Position(stream) = 0
                    /\ r.currentChunkIndex = Count(r) /\ r.size = n /\ r.currentPosition = n
                 \/ /\ pc' = "copying" /\ n = 0 /\ Ready(r)
                    /\ r.currentPosition = Position(stream)
  BY FromInputStream
<1>2. source \in Seq(Bytes) /\ Len(source) \in Nat BY SourceTypes
<1> DEFINE left == Back(source, n)
           todo == [NoJob EXCEPT !.source = left]
<1>3. left \in Seq(Bytes) /\ Len(left) = Len(source) - n /\ n \in Nat /\ n <= Len(source)
  BY <1>2, Pieces
<1>4. job' = todo BY <1>1
<1> HIDE DEF left
<1>5. todo \in Jobs /\ todo.rest = <<>> /\ todo.source = left
  BY <1>3, NoJobTypes DEF Jobs
<1> HIDE DEF todo
<1>6. Position(stream) \in Nat /\ Limit \in Nat
  BY <1>1, InvFacts, SeenTypes, SizesAssumption DEF Between
<1>7. Len(todo.rest) = 0 BY <1>5
<1>8. r.currentPosition + Len(todo.rest) + Len(todo.source) <= Limit
  BY <1>1, <1>2, <1>3, <1>5, <1>6, <1>7
<1>9. CASE pc' = "starting" /\ r.currentChunkIndex = Count(r) /\ r.size = n
           /\ r.currentPosition = n
  <2>1. Allowed("starting", r, todo) BY <1>1, <1>3, <1>5, <1>8, <1>9 DEF Allowed
  <2> QED BY <1>1, <1>4, <1>9, <2>1, InvNext
<1>10. CASE pc' = "copying" /\ Ready(r)
  <2>1. Allowed("copying", r, todo) BY <1>1, <1>5, <1>8, <1>10 DEF Allowed, Ready
  <2> QED BY <1>1, <1>4, <1>10, <2>1, InvNext
<1> QED BY <1>1, <1>9, <1>10

\* One turn of the loop that fills a stream: at its end, in the last chunk.
LEMMA FillTurn ==
    ASSUME BelowMaximum, IInv, FillChunk
    PROVE  \E n \in 1..Len(job.source), r \in Fields :
              /\ stream' = r /\ pc' = "filling" /\ before' = before /\ answer' = answer
              /\ job' = [job EXCEPT !.source = Back(@, n)]
              /\ Sound(r) /\ Count(r) > 0 /\ r.size = stream.size /\ r.seekToPosition = -1
              /\ r.currentChunkIndex = Count(r)
              /\ r.currentPosition = stream.currentPosition + n
              /\ r.currentPosition <= EntireSize(stream) /\ EntireSize(stream) <= EntireSize(r)
              /\ StoresPiece(stream, r, Front(job.source, n))
<1> DEFINE s == stream
           i == s.currentChunkIndex
           p == s.currentPositionInChunk
           c == s.currentPosition
           l == LastLength(s)
           m == Len(job.source)
<1>1. pc = "filling" BY DEF FillChunk
<1>2. /\ job.source \in Seq(Bytes) /\ m \in Nat /\ s.seekToPosition = -1 /\ s \in Fields
      /\ Sound(s) /\ s.size <= Limit /\ c \in Nat /\ s.size \in Nat /\ EntireSize(s) \in Nat
      /\ s.size <= EntireSize(s) /\ Limit \in Nat
  BY <1>1, WritingFacts
<1>3. Count(s) > 0 /\ Count(s) \in Nat /\ i = Count(s)
  <2>1. Count(s) \in Nat BY <1>2, FieldTypes
  <2> QED BY <1>1, <2>1 DEF IInv, LoopAgrees, Filling
<1>4. i \in 1..Count(s) /\ i # 0 /\ l = ChunkLength(s, i) /\ p <= l /\ p \in Nat
  <2>1. CursorIn(s) BY <1>2 DEF Sound
  <2>2. i \in 1..Count(s) /\ p <= ChunkLength(s, i) BY <1>3, <2>1 DEF CursorIn
  <2>3. p \in Nat BY <1>2, FieldTypes
  <2>4. i # 0 BY <1>3
  <2>5. l = ChunkLength(s, i) BY <1>3 DEF LastLength
  <2> QED BY <2>2, <2>3, <2>4, <2>5
<1>5. l \in Nat /\ ChunksInOrder(s)
  <2>1. ChunksInOrder(s) BY <1>2 DEF Sound
  <2> QED BY <1>2, <1>3, <2>1, ChunkFacts
<1>6. PICK n \in 1..Smaller(m, l - p) :
         LET t == Stored(s, Front(job.source, n))
         IN  Continue(IF t.currentPositionInChunk < LastLength(t) THEN t ELSE Allocated(t, 0),
                      "filling", [job EXCEPT !.source = Back(@, n)])
  BY DEF FillChunk, Front, Back
<1> DEFINE piece == Front(job.source, n)
           t == Stored(s, piece)
           r == IF t.currentPositionInChunk < LastLength(t) THEN t ELSE Allocated(t, 0)
           todo == [job EXCEPT !.source = Back(@, n)]
<1>7. Continue(r, "filling", todo) BY <1>6
<1>8. n \in 1..m /\ n \in 0..m /\ p + n <= l /\ n \in Nat
  <2> HIDE DEF m, l, p
  <2> QED BY <1>2, <1>4, <1>5 DEF Smaller
<1>9. piece \in Seq(Bytes) /\ Len(piece) = n BY <1>2, <1>8, Pieces
<1>10. t = Stored(s, piece) OBVIOUS
<1>11. r = IF t.currentPositionInChunk < LastLength(t) THEN t ELSE Allocated(t, 0) OBVIOUS
<1> HIDE DEF r, t, piece
<1>12. /\ t \in Fields /\ ChunksInOrder(t) /\ CursorIn(t) /\ t.ends = s.ends
       /\ EntireSize(t) = EntireSize(s) /\ t.size = s.size
       /\ t.seekToPosition = s.seekToPosition /\ t.currentChunkIndex = i
       /\ t.currentPosition = c + n /\ t.currentPosition <= EntireSize(s)
       /\ t.currentPositionInChunk = p + n
       /\ StoresPiece(s, t, piece)
  <2>1. p + Len(piece) <= l BY <1>8, <1>9
  <2> QED BY <1>2, <1>4, <1>9, <1>10, <2>1, StoredFacts
<1>13. Count(t) = Count(s) /\ LastLength(t) = l BY <1>2, <1>12, SameChunks
<1>14. Sound(t) /\ t.currentChunkIndex = Count(t)
  <2>1. t.currentChunkIndex = Count(t) BY <1>3, <1>12, <1>13
  <2>2. CursorInFront(t) BY <1>3, <1>13, <2>1 DEF CursorInFront
  <2> QED BY <1>2, <1>12, <2>1, <2>2 DEF Sound
<1>15. /\ Sound(r) /\ r.currentChunkIndex = Count(r) /\ r.size = t.size
       /\ r.currentPosition = t.currentPosition /\ r.seekToPosition = t.seekToPosition
       /\ Agree(t.bytes, r.bytes, EntireSize(t)) /\ Count(r) > 0
  <2>1. CASE p + n < l
    <3>1. r = t BY <1>11, <1>12, <1>13, <2>1
    <3>2. Agree(t.bytes, t.bytes, EntireSize(t)) BY <1>2, <1>12 DEF Agree, EntireSize
    <3> QED BY <1>3, <1>13, <1>14, <3>1, <3>2
  <2>2. CASE ~(p + n < l)
    <3>1. r = Allocated(t, 0) BY <1>11, <1>12, <1>13, <2>2
    <3>2. p + n = l
      <4> HIDE DEF l, p
      <4> QED BY <1>4, <1>5, <1>8, <2>2
    <3>3. BehindLast(t) BY <1>12, <1>13, <1>14, <3>2 DEF BehindLast
    <3>4. 0 \in Nat /\ t.size + 0 < MaxSize
      BY <1>2, <1>12, SizesAssumption DEF BelowMaximum
    <3>5. /\ r \in Fields /\ ChunksInOrder(r) /\ Count(r) = Count(t) + 1
          /\ Agree(t.bytes, r.bytes, EntireSize(t))
          /\ r.currentPosition = t.currentPosition /\ r.size = t.size
          /\ r.seekToPosition = t.seekToPosition
      BY <1>12, <3>1, <3>4, AllocatedFacts
    <3>6. /\ CursorIn(r) /\ CursorInFront(r) /\ t.size <= EntireSize(r)
          /\ r.currentChunkIndex = Count(r)
      BY <1>14, <3>1, <3>3, <3>4, AllocatedCursor
    <3>7. Sound(r) BY <3>5, <3>6 DEF Sound
    <3>8. Count(r) > 0 BY <1>3, <1>13, <3>5
    <3> QED BY <3>5, <3>6, <3>7, <3>8
  <2> QED BY <2>1, <2>2
<1>16. r \in Fields BY <1>15 DEF Sound
<1>17. stream' = r /\ pc' = "filling" /\ job' = todo /\ before' = before /\ answer' = answer
  BY <1>7, <1>16, ContinueFacts
<1>18. EntireSize(s) <= EntireSize(r) BY <1>12, <1>15 DEF Agree, EntireSize
<1>19. StoresPiece(s, r, piece)
  <2>1. \A k \in 1..EntireSize(s) : r.bytes[k] = t.bytes[k] BY <1>12, <1>15 DEF Agree
  <2> QED BY <1>12, <2>1 DEF StoresPiece
<1> QED BY <1>2, <1>8, <1>12, <1>15, <1>16, <1>17, <1>18, <1>19 DEF piece

LEMMA FillChunkKeeps == ASSUME BelowMaximum, IInv, FillChunk PROVE IInv'
<1>1. pc = "filling" BY DEF FillChunk
<1>2. /\ job \in Jobs /\ job.source \in Seq(Bytes) /\ Len(job.rest) \in Nat
      /\ stream.currentPosition + Len(job.rest) + Len(job.source) <= Limit
      /\ stream.size <= Limit /\ stream.currentPosition \in Nat /\ Limit \in Nat
      /\ stream.size \in Nat
  BY <1>1, WritingFacts
<1>3. PICK n \in 1..Len(job.source), r \in Fields :
              /\ stream' = r /\ pc' = "filling" /\ before' = before
              /\ job' = [job EXCEPT !.source = Back(@, n)]
              /\ Sound(r) /\ Count(r) > 0 /\ r.size = stream.size /\ r.seekToPosition = -1
              /\ r.currentChunkIndex = Count(r)
              /\ r.currentPosition = stream.currentPosition + n
  BY FillTurn
<1> DEFINE left == Back(job.source, n)
           todo == [job EXCEPT !.source = left]
<1>4. /\ left \in Seq(Bytes) /\ Len(left) = Len(job.source) - n /\ Len(job.source) \in Nat
      /\ n \in Nat /\ Len(job.source) - n \in Nat
  <2>1. n \in 0..Len(job.source) BY <1>3
  <2> QED BY <1>2, <2>1, Pieces
<1> HIDE DEF left
<1>5. todo \in Jobs /\ todo.source = left /\ todo.rest = job.rest BY <1>2, <1>4 DEF Jobs
<1>6. job' = todo BY <1>3 DEF left
<1> HIDE DEF todo
<1>7. r.currentPosition + Len(todo.rest) + Len(todo.source) <= Limit
  <2> DEFINE c == stream.currentPosition
             m == Len(job.source)
             o == Len(job.rest)
  <2>1. c \in Nat /\ m \in Nat /\ o \in Nat /\ n \in Nat /\ c + o + m <= Limit BY <1>2, <1>4
  <2> HIDE DEF c, m, o
  <2>2. (c + n) + o + (m - n) <= Limit BY <1>2, <2>1
  <2> QED BY <1>3, <1>4, <1>5, <2>2 DEF c, m, o
<1>8. stream.size <= stream.currentPosition /\ job.rest = <<>>
  BY <1>1 DEF IInv, LoopAgrees, Filling
<1>9. r.size <= r.currentPosition BY <1>2, <1>3, <1>4, <1>8
<1>10. Allowed("filling", r, todo) BY <1>2, <1>3, <1>5, <1>7, <1>8, <1>9 DEF Allowed
<1>11. before' \in Calls BY <1>3, InvFacts
<1> QED BY <1>3, <1>6, <1>10, <1>11, InvNext

LEMMA FillReturnKeeps == ASSUME IInv, FillReturn PROVE IInv'
<1> DEFINE size == stream.currentPosition
           r == EndedWriting(Resized(stream, size))
<1>1. pc = "filling" BY DEF FillReturn
<1>2. Return(r, Array!Nothing) BY DEF FillReturn, Resized
<1>3. size = IF pc = "writing" THEN Larger(stream.size, stream.currentPosition)
                               ELSE stream.currentPosition
  BY <1>1
<1>4. r = EndedWriting(Resized(stream, size)) OBVIOUS
<1> HIDE DEF size, r
<1>5. Ready(r) BY <1>1, <1>3, <1>4, WriteEndFacts
<1> QED BY <1>2, <1>5, ReturnKeeps

\* The next piece of an InputStream: write is called with it.
LEMMA CopyTurn ==
    ASSUME BelowMaximum, IInv, CopyNext
    PROVE  \E n \in 1..Len(job.source), r \in Fields :
              /\ stream' = r /\ pc' = "starting" /\ before' = before /\ answer' = answer
              /\ job' = [job EXCEPT !.rest = Front(job.source, n), !.source = Back(@, n)]
              /\ Ready(r) /\ r.seekToPosition = -1
              /\ r.currentPosition = stream.currentPosition
              /\ r.size = Larger(stream.size, stream.currentPosition)
              /\ Agree(stream.bytes, r.bytes, stream.size)
<1>1. pc = "copying" BY DEF CopyNext
<1>2. PICK n \in 1..Len(job.source) :
         Continue(DelayedSeek(stream), "starting",
                  [job EXCEPT !.rest = Front(job.source, n), !.source = Back(@, n)])
  BY DEF CopyNext, Front, Back
<1>3. /\ stream.currentPosition + Len(job.rest) + Len(job.source) <= Limit
      /\ Len(job.rest) \in Nat /\ Len(job.source) \in Nat /\ stream.currentPosition \in Nat
      /\ Position(stream) = stream.currentPosition /\ Limit \in Nat
  BY <1>1, WritingFacts
<1> DEFINE r == DelayedSeek(stream)
<1>4. Position(stream) + 0 <= Limit
  <2> DEFINE a == Len(job.rest)
             b == Len(job.source)
             c == stream.currentPosition
  <2>1. a \in Nat /\ b \in Nat /\ c \in Nat /\ Limit \in Nat /\ c + a + b <= Limit BY <1>3
  <2> HIDE DEF a, b, c
  <2>2. c + 0 <= Limit BY <2>1
  <2> QED BY <1>3, <2>2 DEF c
<1>5. 0 \in Nat /\ pc \in {"idle", "copying"} BY <1>1
<1>6. r = DelayedSeek(stream) OBVIOUS
<1> HIDE DEF r
<1>7. /\ Ready(r) /\ r \in Fields /\ r.seekToPosition = -1
      /\ r.currentPosition = Position(stream)
      /\ r.size = Larger(stream.size, Position(stream))
      /\ Agree(stream.bytes, r.bytes, stream.size)
  BY <1>4, <1>5, <1>6, SeekForWriting
<1>8. Continue(r, "starting",
               [job EXCEPT !.rest = Front(job.source, n), !.source = Back(@, n)])
  BY <1>2, <1>6
<1>9. /\ stream' = r /\ pc' = "starting" /\ before' = before /\ answer' = answer
      /\ job' = [job EXCEPT !.rest = Front(job.source, n), !.source = Back(@, n)]
  BY <1>7, <1>8, ContinueFacts
<1> QED BY <1>3, <1>7, <1>9

LEMMA CopyNextKeeps == ASSUME BelowMaximum, IInv, CopyNext PROVE IInv'
<1>1. pc = "copying" BY DEF CopyNext
<1>2. /\ job \in Jobs /\ job.source \in Seq(Bytes) /\ Len(job.rest) \in Nat
      /\ stream.currentPosition + Len(job.rest) + Len(job.source) <= Limit
      /\ stream.currentPosition \in Nat /\ Limit \in Nat /\ Len(job.source) \in Nat
  BY <1>1, WritingFacts
<1>3. PICK n \in 1..Len(job.source), r \in Fields :
              /\ stream' = r /\ pc' = "starting" /\ before' = before
              /\ job' = [job EXCEPT !.rest = Front(job.source, n), !.source = Back(@, n)]
              /\ Ready(r) /\ r.seekToPosition = -1
              /\ r.currentPosition = stream.currentPosition
  BY CopyTurn
<1> DEFINE piece == Front(job.source, n)
           left == Back(job.source, n)
           todo == [job EXCEPT !.rest = piece, !.source = left]
<1>4. /\ piece \in Seq(Bytes) /\ Len(piece) = n
      /\ left \in Seq(Bytes) /\ Len(left) = Len(job.source) - n /\ n \in Nat /\ n >= 1
  <2>1. n \in 0..Len(job.source) BY <1>3
  <2> QED BY <1>2, <1>3, <2>1, Pieces
<1> HIDE DEF piece, left
<1>5. todo \in Jobs /\ todo.rest = piece /\ todo.source = left BY <1>2, <1>4 DEF Jobs
<1>6. job' = todo BY <1>3 DEF piece, left
<1> HIDE DEF todo
<1>7. todo.rest # <<>>
  <2>1. Len(piece) # 0 BY <1>4
  <2> QED BY <1>5, <2>1
<1>8. r.currentPosition + Len(todo.rest) + Len(todo.source) <= Limit
  <2> DEFINE c == stream.currentPosition
             m == Len(job.source)
             o == Len(job.rest)
  <2>1. c \in Nat /\ m \in Nat /\ o \in Nat /\ n \in Nat /\ c + o + m <= Limit BY <1>2, <1>4
  <2> HIDE DEF c, m, o
  <2>2. c + n + (m - n) <= Limit BY <1>2, <2>1
  <2> QED BY <1>3, <1>4, <1>5, <2>2 DEF c, m, o
<1>9. Allowed("starting", r, todo) BY <1>3, <1>5, <1>7, <1>8 DEF Allowed, Ready
<1>10. before' \in Calls BY <1>3, InvFacts
<1> QED BY <1>3, <1>6, <1>9, <1>10, InvNext

LEMMA CopyReturnKeeps == ASSUME IInv, CopyReturn PROVE IInv'
<1>1. Ready(stream) BY InvFacts DEF CopyReturn, Between
<1> QED BY <1>1, ReturnKeeps DEF CopyReturn

LEMMA CopyInterruptedKeeps == ASSUME IInv, CopyInterrupted PROVE IInv'
<1>1. Ready(stream) BY InvFacts DEF CopyInterrupted, Between
<1> QED BY <1>1, ReturnKeeps DEF CopyInterrupted

-----------------------------------------------------------------------------
(* The invariant                                                           *)

LEMMA InitHolds == Init => IInv
<1> SUFFICES ASSUME Init PROVE IInv
  OBVIOUS
<1>1. stream = Empty /\ pc = "idle" /\ job = NoJob /\ before = NoCall BY DEF Init
<1>2. Allowed("idle", Empty, NoJob) BY EmptyReady, NoJobTypes DEF Allowed, Ready
<1>3. Allowed(pc, stream, job) /\ before \in Calls BY <1>1, <1>2, NoJobTypes
<1> QED BY <1>1, <1>3, InvAllowed

LEMMA NextKeeps == ASSUME BelowMaximum, IInv, [Next]_vars PROVE IInv'
<1>1. CASE UNCHANGED vars
  BY <1>1 DEF vars, IInv, TypeOK, CursorAgrees, LoopAgrees, Between, Filling
<1>2. ASSUME NEW origin \in Array!Origins, NEW offset \in Offsets, Seek(origin, offset)
      PROVE  IInv'
  BY <1>2, SeekKeeps
<1>3. ASSUME NEW length \in Lengths, Read(length) \/ SetSize(length) \/ SetSizeTooFar(length)
      PROVE  IInv'
  BY <1>3, ReadKeeps, SetSizeKeeps, SetSizeTooFarKeeps
<1>4. ASSUME NEW data \in Contents, SetBytes(data) \/ Write(data) PROVE IInv'
  BY <1>4, SetBytesKeeps, WriteKeeps
<1>5. ASSUME NEW source \in Contents \cup {<<>>}, WriteFromInputStream(source) PROVE IInv'
  BY <1>5, WriteFromInputStreamKeeps DEF Sources
<1>6. CASE Rewind \/ Inspect BY <1>6, RewindKeeps, InspectKeeps
<1>7. CASE Loop
  BY <1>7, ReadChunkKeeps, ReadReturnKeeps, StartWritingKeeps, WriteChunkKeeps, WriteReturnKeeps,
     FillChunkKeeps, FillReturnKeeps, CopyNextKeeps, CopyReturnKeeps, CopyInterruptedKeeps
     DEF Loop
<1> QED BY <1>1, <1>2, <1>3, <1>4, <1>5, <1>6, <1>7 DEF Next

\* For callers who stay below the maximal size and are careful, the invariant
\* holds in every state: what the loops of read and write, growing, shrinking
\* and the delayed seek of ByteArrayStream rely on is there when they begin.
THEOREM Invariance == BelowMaximum => (Spec => []IInv)
<1> SUFFICES ASSUME BelowMaximum PROVE Spec => []IInv
  OBVIOUS
<1>1. Init => IInv BY InitHolds
<1>2. IInv /\ [Next]_vars => IInv' BY NextKeeps
<1> QED BY <1>1, <1>2, PTL DEF Spec

\* The fields have their types and the chunks are a list of arrays, none of them
\* empty, as ByteArrayStream's methods take it for granted.
THEOREM TypeCorrect == BelowMaximum => (Spec => []TypeOK)
<1>1. IInv => TypeOK BY DEF IInv
<1> QED BY <1>1, Invariance, PTL

\* currentChunkIndex and currentPositionInChunk are where currentPosition says,
\* between the calls and in every turn of the loops of write and
\* writeFromInputStream; in those of the loop of read, after which alone
\* currentPosition is moved, they are as much further as bytes were delivered.
THEOREM CursorStaysInList == BelowMaximum => (Spec => []CursorAgrees)
<1>1. IInv => CursorAgrees BY DEF IInv
<1> QED BY <1>1, Invariance, PTL

\* Between two calls the position is in the stream, and the last chunk holds its
\* last byte, on which the next call's growing, shrinking or writing relies.
THEOREM EndStaysInLastChunk == BelowMaximum => (Spec => []EndInLastChunk)
<1>1. IInv => EndInLastChunk BY DEF IInv, LoopAgrees, Between, EndInLastChunk
<1> QED BY <1>1, Invariance, PTL

-----------------------------------------------------------------------------
(* What a call has done so far                                             *)

\* The elements of a sequence that is made of two parts.
LEMMA Parts ==
    ASSUME NEW a \in Seq(Bytes), NEW c \in Seq(Bytes), NEW n \in 0..Len(a)
    PROVE  /\ a \o c \in Seq(Bytes) /\ Len(a \o c) = Len(a) + Len(c) /\ n \in 0..Len(a \o c)
           /\ Front(a \o c, n) = Front(a, n) /\ Back(a \o c, n) = Back(a, n) \o c
           /\ Front(a, n) \o Back(a, n) = a
<1> DEFINE b == a \o c
           la == Len(a)
           lc == Len(c)
<1>1. /\ b \in Seq(Bytes) /\ Len(b) = la + lc /\ \A k \in 1..la : b[k] = a[k]
      /\ \A k \in 1..lc : b[la + k] = c[k]
  BY Joined
<1>2. la \in Nat /\ lc \in Nat /\ n \in 0..la /\ n \in Nat /\ n <= la OBVIOUS
<1>3. n \in 0..Len(b) BY <1>1, <1>2
<1> HIDE DEF b
<1>4. /\ Front(a, n) \in Seq(Bytes) /\ Len(Front(a, n)) = n
      /\ Back(a, n) \in Seq(Bytes) /\ Len(Back(a, n)) = la - n
      /\ \A k \in 1..n : Front(a, n)[k] = a[k]
      /\ \A k \in 1..(la - n) : Back(a, n)[k] = a[n + k]
  BY Pieces
<1>5. /\ Front(b, n) \in Seq(Bytes) /\ Len(Front(b, n)) = n
      /\ Back(b, n) \in Seq(Bytes) /\ Len(Back(b, n)) = Len(b) - n
      /\ \A k \in 1..n : Front(b, n)[k] = b[k]
      /\ \A k \in 1..(Len(b) - n) : Back(b, n)[k] = b[n + k]
  BY <1>1, <1>3, Pieces
<1>6. Front(b, n) = Front(a, n)
  <2>1. ASSUME NEW k \in 1..n PROVE Front(b, n)[k] = Front(a, n)[k]
    <3>1. k \in 1..la BY <1>2
    <3>2. b[k] = a[k] BY <1>1, <3>1
    <3>3. Front(b, n)[k] = b[k] BY <1>5
    <3>4. Front(a, n)[k] = a[k] BY <1>4
    <3> QED BY <3>2, <3>3, <3>4
  <2> QED BY <1>4, <1>5, <2>1, SeqEqual
<1> DEFINE f == Front(a, n)
           g == Back(a, n)
<1>7. f \in Seq(Bytes) /\ g \in Seq(Bytes) /\ Len(f) = n /\ Len(g) = la - n BY <1>4
<1>8. Back(b, n) = g \o c
  <2> DEFINE x == Back(b, n)
             y == g \o c
  <2>1. /\ y \in Seq(Bytes) /\ Len(y) = Len(g) + lc /\ \A k \in 1..Len(g) : y[k] = g[k]
        /\ \A k \in 1..lc : y[Len(g) + k] = c[k]
    <3>1. g \in Seq(Bytes) /\ c \in Seq(Bytes) BY <1>7
    <3> HIDE DEF g, x
    <3> QED BY ONLY <3>1, Joined
  <2>2. x \in Seq(Bytes) /\ Len(x) = (la + lc) - n /\ \A k \in 1..((la + lc) - n) : x[k] = b[n + k]
    BY <1>1, <1>5
  <2>3. \A k \in 1..(la - n) : g[k] = a[n + k] BY <1>4
  <2> HIDE DEF x, y, f, g, la, lc
  <2>4. Len(x) = Len(y) /\ Len(y) = (la - n) + lc BY <1>2, <1>7, <2>1, <2>2
  <2>5. ASSUME NEW k \in 1..Len(x) PROVE x[k] = y[k]
    <3>1. k \in Nat /\ k >= 1 /\ k <= (la + lc) - n BY <1>2, <2>2
    <3>2. CASE k <= la - n
      <4>1. k \in 1..(la - n) /\ n + k \in 1..la BY <1>2, <3>1, <3>2
      <4> QED BY <1>1, <1>7, <2>1, <2>2, <2>3, <4>1
    <3>3. CASE ~(k <= la - n)
      <4> DEFINE j == k - (la - n)
      <4>1. j \in 1..lc /\ (la - n) + j = k /\ la + j = n + k BY <1>2, <3>1, <3>3
      <4> HIDE DEF j
      <4>2. y[k] = c[j] BY <1>7, <2>1, <4>1
      <4>3. x[k] = b[n + k] BY <2>2, <2>5
      <4>4. b[la + j] = c[j] BY <1>1, <4>1
      <4> QED BY <4>1, <4>2, <4>3, <4>4
    <3> QED BY <3>2, <3>3
  <2>6. x = y BY <2>1, <2>2, <2>4, <2>5, SeqEqual
  <2> QED BY <2>6 DEF x, y
<1>9. f \o g = a
  <2> DEFINE y == f \o g
  <2>1. /\ y \in Seq(Bytes) /\ Len(y) = Len(f) + Len(g) /\ \A k \in 1..Len(f) : y[k] = f[k]
        /\ \A k \in 1..Len(g) : y[Len(f) + k] = g[k]
    <3> HIDE DEF f, g
    <3> QED BY <1>7, Joined
  <2>2. /\ \A k \in 1..n : f[k] = a[k]
        /\ \A k \in 1..(la - n) : g[k] = a[n + k]
    BY <1>4
  <2> HIDE DEF y, f, g
  <2>3. Len(y) = Len(a) BY <1>2, <1>7, <2>1
  <2> HIDE DEF la
  <2>4. ASSUME NEW k \in 1..Len(y) PROVE y[k] = a[k]
    <3>1. k \in Nat /\ k >= 1 /\ k <= la BY <1>2, <2>3, <2>4 DEF la
    <3>2. CASE k <= n
      <4>1. k \in 1..n BY <1>2, <3>1, <3>2
      <4> QED BY <1>7, <2>1, <2>2, <4>1
    <3>3. CASE ~(k <= n)
      <4> DEFINE j == k - n
      <4>1. j \in 1..(la - n) /\ n + j = k BY <1>2, <3>1, <3>3
      <4> HIDE DEF j
      <4>2. y[n + j] = g[j] BY <1>7, <2>1, <4>1
      <4>3. g[j] = a[n + j] BY <2>2, <4>1
      <4> QED BY <4>1, <4>2, <4>3
    <3> QED BY <3>2, <3>3
  <2>5. y = a BY <2>1, <2>3, <2>4, SeqEqual
  <2> QED BY <2>5 DEF y
<1> QED BY <1>1, <1>3, <1>6, <1>8, <1>9 DEF b

\* Nothing that Storing says is about other fields than the bytes, the size and the position.
LEMMA StoringKept ==
    ASSUME NEW s \in Fields, NEW r \in Fields, NEW left, NEW call \in Calls, NEW data,
           Storing(s, left, call, data), NEW n \in Nat, Agree(s.bytes, r.bytes, n),
           s.currentPosition <= n, Len(call.content) <= n,
           r.currentPosition = s.currentPosition, Len(call.content) <= r.size,
           Larger(r.size, s.currentPosition) = Larger(Len(call.content), s.currentPosition)
    PROVE  Storing(r, left, call, data)
<1> DEFINE c == s.currentPosition
           q == call.position
           m == Len(call.content)
<1>1. c \in Nat /\ EntireSize(r) \in Nat BY FieldTypes
<1>2. q \in Nat /\ m \in Nat
  <2>1. call.content \in Seq(Bytes) /\ q \in Nat BY DEF Calls
  <2> QED BY <2>1
<1>3. n <= EntireSize(r) /\ \A k \in 1..n : r.bytes[k] = s.bytes[k] BY DEF Agree, EntireSize
<1>4. /\ c - q >= 0 /\ Len(data) = (c - q) + Len(left)
      /\ \A k \in 1..Len(left) : left[k] = data[(c - q) + k]
      /\ \A k \in 1..(c - q) : s.bytes[q + k] = data[k]
      /\ \A k \in 1..m : k \notin (q + 1)..c => s.bytes[k] = call.content[k]
  BY DEF Storing
<1> HIDE DEF c, q, m
<1>5. \A k \in 1..(c - q) : r.bytes[q + k] = data[k]
  <2>1. \A k \in 1..(c - q) : q + k \in 1..n BY <1>1, <1>2 DEF c
  <2> QED BY <1>3, <1>4, <2>1
<1>6. \A k \in 1..m : k \notin (q + 1)..c => r.bytes[k] = call.content[k]
  <2>1. \A k \in 1..m : k \in 1..n BY <1>2 DEF m
  <2> QED BY <1>3, <1>4, <2>1
<1>7. c <= EntireSize(r) BY <1>1, <1>3 DEF c
<1> QED BY <1>4, <1>5, <1>6, <1>7 DEF Storing, c, q, m

\* The next bytes are stored at the position.
LEMMA StoringMore ==
    ASSUME NEW s \in Fields, NEW r \in Fields, NEW left \in Seq(Bytes), NEW call \in Calls,
           NEW data, Storing(s, left, call, data), s.size <= EntireSize(s),
           NEW n \in 0..Len(left), StoresPiece(s, r, Front(left, n)),
           r.currentPosition = s.currentPosition + n, r.currentPosition <= EntireSize(s),
           EntireSize(s) <= EntireSize(r), r.size = s.size
    PROVE  Storing(r, Back(left, n), call, data)
<1> DEFINE c == s.currentPosition
           q == call.position
           m == Len(call.content)
           e == EntireSize(s)
           l == Len(left)
           piece == Front(left, n)
           rest == Back(left, n)
<1>1. /\ c \in Nat /\ e \in Nat /\ s.size \in Nat /\ EntireSize(r) \in Nat /\ l \in Nat /\ n \in Nat
      /\ n <= l
  <2>1. l \in Nat /\ n \in Nat /\ n <= l OBVIOUS
  <2>2. c \in Nat /\ e \in Nat /\ s.size \in Nat /\ EntireSize(r) \in Nat BY FieldTypes
  <2> QED BY <2>1, <2>2
<1>2. q \in Nat /\ m \in Nat
  <2>1. call.content \in Seq(Bytes) /\ q \in Nat BY DEF Calls
  <2> QED BY <2>1
<1>3. /\ Len(piece) = n /\ \A k \in 1..n : piece[k] = left[k]
      /\ Len(rest) = l - n /\ \A k \in 1..(l - n) : rest[k] = left[n + k]
  BY Pieces
<1>4. /\ c - q >= 0 /\ Len(data) = (c - q) + l
      /\ \A k \in 1..l : left[k] = data[(c - q) + k]
      /\ \A k \in 1..(c - q) : s.bytes[q + k] = data[k]
      /\ \A k \in 1..m : k \notin (q + 1)..c => s.bytes[k] = call.content[k]
      /\ m <= s.size /\ Larger(s.size, c) = Larger(m, c)
  BY DEF Storing
<1>5. \A k \in 1..e : r.bytes[k] = IF k - c \in 1..n THEN piece[k - c] ELSE s.bytes[k]
  BY <1>3 DEF StoresPiece
<1>6. c + n <= e /\ r.currentPosition = c + n /\ e <= EntireSize(r) /\ s.size <= e
      /\ r.size = s.size
  OBVIOUS
<1> HIDE DEF c, q, m, e, l, piece, rest
<1>7. (c + n) - q >= 0 /\ Len(data) = ((c + n) - q) + Len(rest) BY <1>1, <1>2, <1>3, <1>4
<1>8. \A k \in 1..Len(rest) : rest[k] = data[((c + n) - q) + k]
  <2>1. ASSUME NEW k \in 1..Len(rest) PROVE rest[k] = data[((c + n) - q) + k]
    <3>1. k \in 1..(l - n) /\ n + k \in 1..l /\ (c - q) + (n + k) = ((c + n) - q) + k
      BY <1>1, <1>2, <1>3
    <3>2. rest[k] = left[n + k] BY <1>3, <3>1
    <3>3. left[n + k] = data[(c - q) + (n + k)] BY <1>4, <3>1
    <3> QED BY <3>1, <3>2, <3>3
  <2> QED BY <2>1
<1>9. \A k \in 1..((c + n) - q) : r.bytes[q + k] = data[k]
  <2>1. ASSUME NEW k \in 1..((c + n) - q) PROVE r.bytes[q + k] = data[k]
    <3>1. k \in Nat /\ k >= 1 /\ k <= (c + n) - q /\ q + k \in 1..e BY <1>1, <1>2, <1>6
    <3>2. CASE k <= c - q
      <4>1. k \in 1..(c - q) /\ (q + k) - c \notin 1..n BY <1>1, <1>2, <3>1, <3>2
      <4>2. r.bytes[q + k] = s.bytes[q + k] BY <1>5, <3>1, <4>1
      <4>3. s.bytes[q + k] = data[k] BY <1>4, <4>1
      <4> QED BY <4>2, <4>3
    <3>3. CASE ~(k <= c - q)
      <4> DEFINE j == (q + k) - c
      <4>1. j \in 1..n /\ j \in 1..l /\ (c - q) + j = k BY <1>1, <1>2, <3>1, <3>3
      <4>2. r.bytes[q + k] = piece[j] BY <1>5, <3>1, <4>1
      <4> HIDE DEF j
      <4>3. piece[j] = left[j] BY <1>3, <4>1
      <4>4. left[j] = data[(c - q) + j] BY <1>4, <4>1
      <4> QED BY <4>1, <4>2, <4>3, <4>4
    <3> QED BY <3>2, <3>3
  <2> QED BY <2>1
<1>10. \A k \in 1..m : k \notin (q + 1)..(c + n) => r.bytes[k] = call.content[k]
  <2>1. ASSUME NEW k \in 1..m, k \notin (q + 1)..(c + n) PROVE r.bytes[k] = call.content[k]
    <3>1. k \in 1..e BY <1>1, <1>2, <1>4, <1>6
    <3>2. k \notin (q + 1)..c /\ k - c \notin 1..n BY <1>1, <1>2, <1>4, <2>1
    <3>3. r.bytes[k] = s.bytes[k] BY <1>5, <3>1, <3>2
    <3>4. s.bytes[k] = call.content[k] BY <1>4, <2>1, <3>2
    <3> QED BY <3>3, <3>4
  <2> QED BY <2>1
<1>11. c + n <= EntireSize(r) /\ m <= r.size BY <1>1, <1>4, <1>6
<1>12. Larger(r.size, c + n) = Larger(m, c + n) BY <1>1, <1>2, <1>4, <1>6 DEF Larger
<1> QED BY <1>6, <1>7, <1>8, <1>9, <1>10, <1>11, <1>12 DEF Storing, c, q, m, rest

\* A write begins where the seek before it says.
LEMMA StoringBegins ==
    ASSUME NEW s, Ready(s), NEW r \in Fields, r.currentPosition = Position(s),
           r.size = Larger(s.size, Position(s)), r.size <= EntireSize(r),
           Agree(s.bytes, r.bytes, s.size), NEW data \in Seq(Bytes),
           NEW call, call = [content |-> Content(s), position |-> Position(s)]
    PROVE  Storing(r, data, call, data)
<1> DEFINE p == Position(s)
           m == s.size
<1>1. /\ Content(s) \in Seq(Bytes) /\ Len(Content(s)) = m /\ p \in Nat /\ m \in Nat
      /\ \A k \in 1..m : Content(s)[k] = s.bytes[k]
  BY SeenTypes
<1>2. call.content = Content(s) /\ call.position = p OBVIOUS
<1>3. \A k \in 1..m : r.bytes[k] = call.content[k] BY <1>1, <1>2 DEF Agree
<1>4. EntireSize(r) \in Nat /\ Len(data) \in Nat
  <2>1. Len(data) \in Nat OBVIOUS
  <2> QED BY <2>1, FieldTypes
<1>5. r.size = Larger(m, p) /\ r.size <= EntireSize(r) /\ r.currentPosition = p OBVIOUS
<1>6. Len(call.content) = m BY <1>1, <1>2
<1> HIDE DEF p, m
<1>7. p <= EntireSize(r) /\ m <= r.size /\ Larger(r.size, p) = Larger(m, p)
  BY <1>1, <1>4, <1>5 DEF Larger
<1>8. p - p = 0 BY <1>1
<1> QED BY <1>1, <1>2, <1>3, <1>4, <1>5, <1>6, <1>7, <1>8 DEF Storing

-----------------------------------------------------------------------------
(* Every step is a step of one array, or none that a caller sees           *)

\* What the array is when seen from outside: a call under way has not happened.
ContentSeen == IF pc = "idle" THEN Content(stream) ELSE before.content
PositionSeen == IF pc = "idle" THEN Position(stream) ELSE before.position

\* What has to be shown of each action.
Follows == CallAgrees' /\ [Array!Next]_(Array!streamVars)

LEMMA SeenAfter ==
    ASSUME NEW r, stream' = r, pc' = "idle"
    PROVE  ContentSeen' = Content(r) /\ PositionSeen' = Position(r) /\ CallAgrees'
  BY DEF ContentSeen, PositionSeen, Content, Position, CallAgrees

\* The beginning and the turns of a loop.
LEMMA Unseen ==
    ASSUME pc' # "idle", answer' = answer,
           \/ pc = "idle" /\ before' = [content |-> Content(stream), position |-> Position(stream)]
           \/ pc # "idle" /\ before' = before
    PROVE  UNCHANGED Array!streamVars
  BY DEF Array!streamVars

\* The bytes stored so far, when the call ends with them.
LEMMA StoresFacts ==
    ASSUME BelowMaximum, NEW r, Ready(r), r.seekToPosition = -1, stream' = r, pc # "idle",
           pc' = "idle",
           before \in Calls, NEW data \in Seq(Bytes), NEW left \in Seq(Bytes),
           Storing(r, left, before, data), NEW n, n = r.currentPosition - before.position
    PROVE  n \in 0..Len(data) /\ Array!Stores(Front(data, n)) /\ Len(data) = n + Len(left)
<1> DEFINE c == r.currentPosition
           q == before.position
           m == Len(before.content)
           piece == Front(data, n)
<1>1. /\ r \in Fields /\ c \in Nat /\ r.size \in Nat /\ c <= r.size /\ r.size <= Limit
      /\ Content(r) \in Seq(Bytes) /\ Len(Content(r)) = r.size
      /\ \A k \in 1..r.size : Content(r)[k] = r.bytes[k]
  <2>1. r \in Fields /\ c <= r.size /\ r.size <= Limit BY DEF Ready, Sound, Settled
  <2> QED BY <2>1, SeenTypes, FieldTypes
<1>2. q \in Nat /\ m \in Nat
  <2>1. before.content \in Seq(Bytes) /\ q \in Nat BY DEF Calls
  <2> QED BY <2>1
<1>3. /\ n >= 0 /\ Len(data) = n + Len(left)
      /\ \A k \in 1..n : r.bytes[q + k] = data[k]
      /\ \A k \in 1..m : k \notin (q + 1)..c => r.bytes[k] = before.content[k]
      /\ m <= r.size /\ Larger(r.size, c) = Larger(m, c)
  BY DEF Storing
<1>4. Len(left) \in Nat OBVIOUS
<1>5. n = c - q OBVIOUS
<1> HIDE DEF c, q, m, piece
<1>6. n \in 0..Len(data) /\ n \in Nat BY <1>1, <1>2, <1>3, <1>4, <1>5
<1>7. Len(piece) = n /\ \A k \in 1..n : piece[k] = data[k] BY <1>6, Pieces DEF piece
<1>8. ContentSeen' = Content(r) /\ PositionSeen' = c
  <2>1. Position(r) = c BY DEF Position, c
  <2> QED BY <2>1, SeenAfter
<1>9. ContentSeen = before.content /\ PositionSeen = q BY DEF ContentSeen, PositionSeen, q
<1>10. Len(Content(r)) = Larger(m, q + n) /\ c = q + n
  BY <1>1, <1>2, <1>3, <1>5 DEF Larger
<1>11. \A k \in 1..n : Content(r)[q + k] = piece[k]
  <2>1. ASSUME NEW k \in 1..n PROVE Content(r)[q + k] = piece[k]
    <3>1. q + k \in 1..r.size BY <1>1, <1>2, <1>5, <1>6
    <3> QED BY <1>1, <1>3, <1>7, <3>1
  <2> QED BY <2>1
<1>12. \A k \in (1..Smaller(m, r.size)) \ ((q + 1)..(q + n)) : Content(r)[k] = before.content[k]
  <2>1. ASSUME NEW k \in (1..Smaller(m, r.size)) \ ((q + 1)..(q + n))
        PROVE  Content(r)[k] = before.content[k]
    <3>1. k \in 1..m /\ k \in 1..r.size /\ k \notin (q + 1)..c
      BY <1>1, <1>2, <1>3, <1>10 DEF Smaller
    <3>2. Content(r)[k] = r.bytes[k] BY <1>1, <3>1
    <3>3. r.bytes[k] = before.content[k] BY <1>3, <3>1
    <3> QED BY <3>2, <3>3
  <2> QED BY <2>1
<1>13. Len(Content(r)) <= MaxSize
  <2>1. Limit \in Nat /\ MaxSize \in Nat /\ Limit < MaxSize BY SizesAssumption DEF BelowMaximum
  <2> QED BY <1>1, <2>1
<1>14. Array!Stores(piece)
  <2>1. Len(ContentSeen') = Larger(Len(ContentSeen), PositionSeen + Len(piece))
    BY <1>7, <1>8, <1>9, <1>10 DEF m
  <2>2. Len(ContentSeen') <= MaxSize BY <1>8, <1>13
  <2>3. \A i \in 1..Len(piece) : ContentSeen'[PositionSeen + i] = piece[i]
    BY <1>7, <1>8, <1>9, <1>11
  <2>4. \A i \in (1..Smaller(Len(ContentSeen), Len(ContentSeen')))
                 \ ((PositionSeen + 1)..(PositionSeen + Len(piece))) :
           ContentSeen'[i] = ContentSeen[i]
    BY <1>1, <1>7, <1>8, <1>9, <1>12 DEF m
  <2>5. PositionSeen' = PositionSeen + Len(piece) BY <1>7, <1>8, <1>9, <1>10
  <2> QED BY <2>1, <2>2, <2>3, <2>4, <2>5
      DEF Array!Stores, Array!SameOutside, Array!Smaller, Array!Larger, Smaller, Larger,
          ContentSeen, PositionSeen
<1> QED BY <1>3, <1>6, <1>14 DEF piece

\* The call ends with all bytes stored.
LEMMA WrittenFollows ==
    ASSUME BelowMaximum, NEW r, Ready(r), r.seekToPosition = -1, pc # "idle", before \in Calls,
           NEW data \in Sources, Storing(r, <<>>, before, data), Return(r, Array!Nothing)
    PROVE  Follows
<1>1. stream' = r /\ pc' = "idle" /\ answer' = Array!Nothing BY ReturnKeeps
<1>2. data \in Seq(Bytes) /\ <<>> \in Seq(Bytes) /\ Len(data) \in Nat BY SourceTypes
<1> DEFINE n == r.currentPosition - before.position
<1>3. n = r.currentPosition - before.position OBVIOUS
<1> HIDE DEF n
<1>4. n \in 0..Len(data) /\ Array!Stores(Front(data, n)) /\ Len(data) = n + Len(<<>>)
  BY <1>1, <1>2, <1>3, StoresFacts
<1>5. Front(data, n) = data
  <2>1. n = Len(data) BY <1>2, <1>4
  <2>2. SubSeq(data, 1, Len(data)) = data BY <1>2
  <2> QED BY <2>1, <2>2 DEF Front
<1>6. Array!Write(data) BY <1>1, <1>4, <1>5 DEF Array!Write
<1>7. Array!Next BY <1>6 DEF Array!Next, Sources
<1> QED BY <1>1, <1>7, SeenAfter DEF Follows

\* Calls that take one step.
LEMMA SeekFollows ==
    ASSUME IInv, NEW origin \in Array!Origins, NEW offset \in Offsets, Seek(origin, offset)
    PROVE  Follows
<1> DEFINE p == Array!Target(origin, offset)
<1>1. pc = "idle" /\ p >= 0 /\ Ready(stream) BY InvFacts DEF Seek, Between
<1>2. p \in Nat
  <2>1. p \in Int BY <1>1, TargetInt
  <2> QED BY <1>1, <2>1
<1>3. CASE p > MaxSize
  <2>1. Return(stream, Array!Refused(p)) BY <1>3 DEF Seek
  <2>2. stream' = stream /\ pc' = "idle" /\ answer' = Array!Refused(p)
    BY <1>1, <2>1, ReturnKeeps
  <2>3. ContentSeen' = ContentSeen /\ PositionSeen' = PositionSeen /\ CallAgrees'
    BY <1>1, <2>2, SeenAfter DEF ContentSeen, PositionSeen
  <2> HIDE DEF p
  <2>4. Array!Refuse
    BY <1>3, <2>2, <2>3 DEF Array!Refuse, Array!Refused, ContentSeen, PositionSeen
  <2> QED BY <2>3, <2>4 DEF Follows, Array!Next
<1>4. CASE ~(p > MaxSize)
  <2>1. Return(Noted(stream, p), Array!Moved(origin, offset, p)) BY <1>4 DEF Seek, Noted
  <2>2. Ready(Noted(stream, p)) /\ Noted(stream, p).bytes = stream.bytes
        /\ Noted(stream, p).size = stream.size /\ Noted(stream, p).seekToPosition = p
    <3>1. stream \in Fields BY InvFacts
    <3> HIDE DEF p
    <3> QED BY <1>1, <1>2, <3>1, NotedFacts DEF Noted, Fields
  <2>3. /\ stream' = Noted(stream, p) /\ pc' = "idle"
        /\ answer' = Array!Moved(origin, offset, p)
    BY <2>1, <2>2, ReturnKeeps
  <2>4. Content(Noted(stream, p)) = Content(stream) /\ Position(Noted(stream, p)) = p
    BY <1>2, <2>2 DEF Content, Position
  <2>5. ContentSeen' = ContentSeen /\ PositionSeen' = p /\ CallAgrees'
    BY <1>1, <2>3, <2>4, SeenAfter DEF ContentSeen
  <2>6. p \in 0..MaxSize BY <1>2, <1>4, SizesAssumption
  <2>7. Array!Seek(origin, offset)
    BY <2>3, <2>5, <2>6 DEF Array!Seek, ContentSeen, PositionSeen
  <2> QED BY <2>5, <2>7 DEF Follows, Array!Next
<1> QED BY <1>3, <1>4

LEMMA RewindFollows == ASSUME IInv, Rewind PROVE Follows
<1>1. pc = "idle" /\ Ready(stream) /\ stream \in Fields BY InvFacts DEF Rewind, Between
<1> DEFINE r == Noted(stream, 0)
<1>2. Return(r, Array!Moved("SEEK_SET", 0, 0)) BY DEF Rewind, Noted
<1>3. Ready(r) /\ r.bytes = stream.bytes /\ r.size = stream.size /\ r.seekToPosition = 0
  BY <1>1, NotedFacts DEF Noted, Fields
<1> HIDE DEF r
<1>4. stream' = r /\ pc' = "idle" /\ answer' = Array!Moved("SEEK_SET", 0, 0)
  BY <1>2, <1>3, ReturnKeeps
<1>5. Content(r) = Content(stream) /\ Position(r) = 0 BY <1>3 DEF Content, Position
<1>6. ContentSeen' = ContentSeen /\ PositionSeen' = 0 /\ CallAgrees'
  BY <1>1, <1>4, <1>5, SeenAfter DEF ContentSeen
<1>7. Array!Target("SEEK_SET", 0) = 0 BY DEF Array!Target
<1>8. Array!Rewind
  BY <1>4, <1>6, <1>7, SizesAssumption DEF Array!Rewind, Array!Seek, ContentSeen, PositionSeen
<1> QED BY <1>6, <1>8 DEF Follows, Array!Next

LEMMA SetSizeFollows ==
    ASSUME BelowMaximum, IInv, NEW newSize \in Lengths, SetSize(newSize)
    PROVE  Follows
<1> DEFINE r == Sized(stream, newSize, FALSE)
<1>1. pc = "idle" /\ Ready(stream) BY InvFacts DEF SetSize, Between
<1>2. newSize \in Nat BY CallersAssumption
<1>3. /\ newSize > stream.size => newSize <= Limit
      /\ newSize \in 1..(stream.size - 1) => CursorStays(r)
      /\ Return(r, Array!Nothing) /\ newSize <= MaxSize
  BY DEF SetSize, Within, BelowMaximum
<1>4. /\ Ready(r) /\ r.size = newSize
      /\ Agree(stream.bytes, r.bytes, Smaller(stream.size, newSize))
      /\ Position(r) = IF newSize = 0 \/ newSize < stream.size
                       THEN Smaller(Position(stream), newSize) ELSE Position(stream)
  BY <1>1, <1>2, <1>3, SizedFacts
<1> HIDE DEF r
<1>5. stream' = r /\ pc' = "idle" /\ answer' = Array!Nothing BY <1>3, <1>4, ReturnKeeps
<1>6. ContentSeen' = Content(r) /\ PositionSeen' = Position(r) /\ CallAgrees'
  BY <1>5, SeenAfter
<1>7. ContentSeen = Content(stream) /\ PositionSeen = Position(stream)
  BY <1>1 DEF ContentSeen, PositionSeen
<1>8. /\ Len(Content(stream)) = stream.size /\ Len(Content(r)) = newSize
      /\ \A k \in 1..stream.size : Content(stream)[k] = stream.bytes[k]
      /\ \A k \in 1..newSize : Content(r)[k] = r.bytes[k]
      /\ stream.size \in Nat
  BY <1>1, <1>4, SeenTypes
<1>9. \A k \in 1..Smaller(stream.size, newSize) : Content(r)[k] = Content(stream)[k]
  <2>1. ASSUME NEW k \in 1..Smaller(stream.size, newSize)
        PROVE  Content(r)[k] = Content(stream)[k]
    <3>1. k \in 1..stream.size /\ k \in 1..newSize BY <1>2, <1>8 DEF Smaller
    <3>2. r.bytes[k] = stream.bytes[k] BY <1>4 DEF Agree
    <3> QED BY <1>8, <3>1, <3>2
  <2> QED BY <2>1
<1>10. Array!SetSize(newSize)
  <2>1. Len(ContentSeen') = newSize /\ newSize <= MaxSize BY <1>3, <1>6, <1>8
  <2>2. \A k \in (1..Smaller(Len(ContentSeen), Len(ContentSeen'))) \ {} :
           ContentSeen'[k] = ContentSeen[k]
    BY <1>6, <1>7, <1>8, <1>9
  <2>3. PositionSeen' = IF newSize = 0 \/ newSize < Len(ContentSeen)
                        THEN Smaller(PositionSeen, newSize) ELSE PositionSeen
    BY <1>4, <1>6, <1>7, <1>8
  <2> QED BY <1>5, <2>1, <2>2, <2>3
      DEF Array!SetSize, Array!SameOutside, Array!Smaller, Smaller, ContentSeen, PositionSeen
<1> QED BY <1>6, <1>10 DEF Follows, Array!Next

LEMMA SetSizeTooFarFollows ==
    ASSUME IInv, NEW newSize \in Lengths, SetSizeTooFar(newSize)
    PROVE  Follows
<1>1. pc = "idle" /\ Ready(stream) BY InvFacts DEF SetSizeTooFar, Between
<1>2. Return(stream, Array!Refused(newSize)) /\ newSize > MaxSize BY DEF SetSizeTooFar
<1>3. stream' = stream /\ pc' = "idle" /\ answer' = Array!Refused(newSize)
  BY <1>1, <1>2, ReturnKeeps
<1>4. ContentSeen' = ContentSeen /\ PositionSeen' = PositionSeen /\ CallAgrees'
  BY <1>1, <1>3, SeenAfter DEF ContentSeen, PositionSeen
<1>5. Array!Refuse
  BY <1>2, <1>3, <1>4 DEF Array!Refuse, Array!Refused, ContentSeen, PositionSeen
<1> QED BY <1>4, <1>5 DEF Follows, Array!Next

LEMMA SetBytesFollows ==
    ASSUME IInv, NEW data \in Contents, SetBytes(data)
    PROVE  Follows
<1> DEFINE r == OneChunk(data, Len(data), 0)
<1>1. Return(r, Array!Nothing) /\ Len(data) <= Limit BY SetBytesOneChunk
<1>2. Ready(r) /\ r.bytes = data /\ r.size = Len(data) /\ Position(r) = 0
  BY <1>1, SetBytesFacts
<1> HIDE DEF r
<1>3. stream' = r /\ pc' = "idle" /\ answer' = Array!Nothing BY <1>1, <1>2, ReturnKeeps
<1>4. Content(r) = data
  <2>1. data \in Seq(Bytes) BY CallersAssumption
  <2>2. SubSeq(data, 1, Len(data)) = data BY <2>1
  <2> QED BY <1>2, <2>2 DEF Content
<1>5. ContentSeen' = data /\ PositionSeen' = 0 /\ CallAgrees' BY <1>2, <1>3, <1>4, SeenAfter
<1>6. Array!Replace(data) BY <1>3, <1>5 DEF Array!Replace, ContentSeen, PositionSeen
<1> QED BY <1>5, <1>6 DEF Follows, Array!Next

\* The last chunk holds the last byte, so that getBytes does not fail.
LEMMA InspectFollows == ASSUME IInv, Inspect PROVE Follows
<1>1. pc = "idle" /\ Ready(stream) BY InvFacts DEF Inspect, Between
<1> DEFINE v == Array!Shown(Content(stream), Position(stream))
<1>2. ~(Count(stream) > 0 /\ Start(stream, Count(stream)) > stream.size)
  <2>1. /\ stream \in Fields /\ ChunksInOrder(stream)
        /\ Count(stream) > 0 => Start(stream, Count(stream)) < stream.size
    BY <1>1 DEF Ready, Sound, Settled
  <2>2. stream.size \in Nat BY <2>1, FieldTypes
  <2>3. Count(stream) > 0 => Start(stream, Count(stream)) \in Nat BY <2>1, ChunkFacts
  <2> QED BY <2>1, <2>2, <2>3
<1>3. Return(stream, v) BY <1>2 DEF Inspect
<1> HIDE DEF v
<1>4. stream' = stream /\ pc' = "idle" /\ answer' = v BY <1>1, <1>3, ReturnKeeps
<1>5. ContentSeen' = ContentSeen /\ PositionSeen' = PositionSeen /\ CallAgrees'
      /\ ContentSeen = Content(stream) /\ PositionSeen = Position(stream)
  BY <1>1, <1>4, SeenAfter DEF ContentSeen, PositionSeen
<1>6. Array!Inspect
  <2>1. answer' = Array!Shown(ContentSeen, PositionSeen) BY <1>4, <1>5 DEF v
  <2> QED BY <1>5, <2>1 DEF Array!Inspect, ContentSeen, PositionSeen
<1> QED BY <1>5, <1>6 DEF Follows, Array!Next

\* Calls that take several steps.
LEMMA CallGoesOn ==
    ASSUME NEW r, NEW todo, NEW call, stream' = r, job' = todo, before' = call,
           answer' = answer,
           \/ pc' = "reading" /\ Delivering(Reached(r, todo), todo, call)
           \/ /\ pc' \in {"starting", "writing", "copying", "filling"}
              /\ pc' = "copying" => todo.rest = <<>>
              /\ \E data \in Sources : Storing(r, todo.rest \o todo.source, call, data),
           \/ pc = "idle" /\ call = [content |-> Content(stream), position |-> Position(stream)]
           \/ pc # "idle" /\ call = before
    PROVE  Follows
<1>1. CallAgrees'
  <2>1. CASE pc' = "reading" /\ Delivering(Reached(r, todo), todo, call)
    BY <2>1 DEF CallAgrees, Delivering, Content, Reached
  <2>2. CASE /\ pc' \in {"starting", "writing", "copying", "filling"}
             /\ pc' = "copying" => todo.rest = <<>>
             /\ \E data \in Sources : Storing(r, todo.rest \o todo.source, call, data)
    BY <2>2 DEF CallAgrees, Storing, EntireSize, Sources
  <2> QED BY <2>1, <2>2
<1>2. pc' # "idle" OBVIOUS
<1>3. UNCHANGED Array!streamVars BY <1>2, Unseen
<1> QED BY <1>1, <1>3 DEF Follows

\* A read ends.
LEMMA ReadSeen ==
    ASSUME NEW length \in Lengths, NEW got, NEW r, stream' = r, pc' = "idle",
           answer' = Array!Delivered(got), Content(r) = ContentSeen,
           NEW end, end = Smaller(PositionSeen + length, Len(ContentSeen)),
           got = SubSeq(ContentSeen, PositionSeen + 1, end),
           Position(r) = Larger(PositionSeen, end)
    PROVE  Follows
<1>1. ContentSeen' = ContentSeen /\ PositionSeen' = Larger(PositionSeen, end) /\ CallAgrees'
  BY SeenAfter
<1>2. answer' = Array!Delivered(SubSeq(ContentSeen, PositionSeen + 1, end)) OBVIOUS
<1>3. Array!Read(length)
  BY <1>1, <1>2 DEF Array!Read, Array!Smaller, Array!Larger, Smaller, Larger, ContentSeen, PositionSeen
<1> QED BY <1>1, <1>3 DEF Follows, Array!Next

\* The next bytes are read behind those that were read before.
LEMMA ReadOn ==
    ASSUME NEW old \in Seq(Bytes), NEW m \in 0..Len(old), NEW q \in Nat, NEW c \in Nat,
           NEW n \in Nat, q <= c, c + n <= m
    PROVE  LET b == Front(old, m)
           IN  SubSeq(b, q + 1, c) \o SubSeq(old, c + 1, c + n) = SubSeq(b, q + 1, c + n)
<1> DEFINE b == Front(old, m)
<1>1. /\ b \in Seq(Bytes) /\ Len(b) = m /\ m \in Nat /\ m <= Len(old) /\ Len(old) \in Nat
      /\ \A k \in 1..m : b[k] = old[k]
  BY Pieces
<1> HIDE DEF b
<1>2. SubSeq(old, c + 1, c + n) = SubSeq(b, c + 1, c + n)
  <2> DEFINE x == SubSeq(old, c + 1, c + n)
             y == SubSeq(b, c + 1, c + n)
  <2>1. \A i \in (c + 1)..(c + n) : i \in 1..m /\ i \in 1..Len(old) BY <1>1
  <2>2. \A i \in (c + 1)..(c + n) : old[i] \in Bytes /\ b[i] \in Bytes /\ b[i] = old[i]
    BY <1>1, <2>1
  <2>3. c + 1 \in Int /\ c + n \in Int /\ (c + n) - (c + 1) + 1 = n OBVIOUS
  <2>4. x \in Seq(Bytes) /\ \A i \in 1..n : x[i] = old[(c + 1) + i - 1]
    BY <2>2, <2>3, SubSeqProperties
  <2>5. y \in Seq(Bytes) /\ \A i \in 1..n : y[i] = b[(c + 1) + i - 1]
    BY <2>2, <2>3, SubSeqProperties
  <2>6. Len(x) = (IF c + 1 <= c + n THEN (c + n) - (c + 1) + 1 ELSE 0)
        /\ Len(y) = (IF c + 1 <= c + n THEN (c + n) - (c + 1) + 1 ELSE 0)
    BY <2>2, <2>3, SubSeqProperties
  <2> HIDE DEF x, y
  <2>7. Len(x) = n /\ Len(y) = n BY <2>6
  <2>8. ASSUME NEW i \in 1..Len(x) PROVE x[i] = y[i]
    <3>1. i \in 1..n /\ (c + 1) + i - 1 \in (c + 1)..(c + n) BY <2>7
    <3> QED BY <2>2, <2>4, <2>5, <3>1
  <2>9. x = y BY <2>4, <2>5, <2>7, <2>8, SeqEqual
  <2> QED BY <2>9 DEF x, y
<1>3. q + 1 \in 1..(Len(b) + 1) /\ c \in ((q + 1) - 1)..Len(b) /\ c + n \in c..Len(b) BY <1>1
<1>4. SubSeq(b, q + 1, c) \o SubSeq(b, c + 1, c + n) = SubSeq(b, q + 1, c + n)
  BY <1>1, <1>3, ConcatAdjacentSubSeq
<1> QED BY <1>2, <1>4 DEF b

LEMMA ReadFollows ==
    ASSUME BelowMaximum, IInv, NEW length \in Lengths, Read(length)
    PROVE  Follows
<1>1. pc = "idle" /\ Ready(stream) BY InvFacts DEF Read, Between
<1>2. length \in Nat BY CallersAssumption
<1> DEFINE p == Position(stream)
           z == stream.size
           b == Content(stream)
<1>3. /\ stream \in Fields /\ z \in Nat /\ p \in Nat /\ Limit \in Nat /\ z <= Limit
      /\ b \in Seq(Bytes) /\ Len(b) = z /\ \A k \in 1..z : b[k] = stream.bytes[k]
      /\ stream.currentPosition \in Nat /\ stream.currentPosition <= z
      /\ stream.seekToPosition \in {-1} \cup Nat
  <2>1. stream \in Fields /\ stream.currentPosition <= z /\ z <= Limit
    BY <1>1 DEF Ready, Sound, Settled
  <2> QED BY <1>1, <2>1, FieldTypes, SeenTypes, SizesAssumption
<1>4. CASE stream.seekToPosition > stream.size
  <2>1. Return(stream, Array!Delivered(<<>>)) BY <1>4 DEF Read
  <2>2. stream' = stream /\ pc' = "idle" /\ answer' = Array!Delivered(<<>>)
    BY <1>1, <2>1, ReturnKeeps
  <2>3. ContentSeen = b /\ PositionSeen = p BY <1>1 DEF ContentSeen, PositionSeen
  <2>4. p > z BY <1>3, <1>4 DEF Position
  <2> HIDE DEF p, z, b
  <2>5. Smaller(p + length, z) = z /\ Larger(p, z) = p BY <1>2, <1>3, <2>4 DEF Smaller, Larger
  <2>6. SubSeq(b, p + 1, z) = <<>>
    <3>1. p + 1 \in Int /\ z \in Int /\ z < p + 1 BY <1>3, <2>4
    <3> QED BY <3>1, SubSeqEmpty
  <2>7. Content(stream) = ContentSeen /\ Position(stream) = Larger(PositionSeen, z)
    BY <2>3, <2>5 DEF p, b
  <2>8. z = Smaller(PositionSeen + length, Len(ContentSeen))
        /\ <<>> = SubSeq(ContentSeen, PositionSeen + 1, z)
    BY <1>3, <2>3, <2>5, <2>6
  <2> QED BY <2>2, <2>7, <2>8, ReadSeen
<1>5. CASE ~(stream.seekToPosition > stream.size)
  <2> DEFINE s == DelayedSeek(stream)
             toRead == Smaller(length, s.size - s.currentPosition)
             todo == [NoJob EXCEPT !.toRead = toRead]
             call == [content |-> b, position |-> p]
  <2>1. Begin(s, "reading", todo) BY <1>5 DEF Read
  <2>2. p <= z BY <1>3, <1>5 DEF Position
  <2>3. p <= Limit
    <3> HIDE DEF p, z
    <3> QED BY <1>3, <2>2
  <2>4. s = DelayedSeek(stream) OBVIOUS
  <2> HIDE DEF s
  <2>5. /\ Ready(s) /\ s.currentPosition = p /\ s.size = Larger(z, p)
        /\ Agree(stream.bytes, s.bytes, z)
    BY <1>1, <2>3, <2>4, DelayedSeekFacts
  <2>6. s.size = z
    <3> HIDE DEF p, z
    <3> QED BY <1>3, <2>2, <2>5 DEF Larger
  <2>7. s \in Fields BY <2>5 DEF Ready, Sound
  <2>8. Content(s) = b
    <3>1. /\ Content(s) \in Seq(Bytes) /\ Len(Content(s)) = z
          /\ \A k \in 1..z : Content(s)[k] = s.bytes[k]
      BY <2>5, <2>6, SeenTypes
    <3>2. \A k \in 1..z : s.bytes[k] = stream.bytes[k] BY <2>5 DEF Agree
    <3> HIDE DEF b, z
    <3>3. \A k \in 1..Len(Content(s)) : Content(s)[k] = b[k] BY <1>3, <3>1, <3>2
    <3> QED BY <1>3, <3>1, <3>3, SeqEqual
  <2>9. /\ stream' = s /\ pc' = "reading" /\ job' = todo /\ answer' = answer /\ before' = call
    BY <1>1, <2>1, <2>7, BeginFacts
  <2> HIDE DEF p, z, b
  <2>10. toRead \in Nat /\ p + toRead = Smaller(p + length, z)
    BY <1>2, <1>3, <2>2, <2>5, <2>6 DEF Smaller
  <2> HIDE DEF toRead
  <2>11. todo.toRead = toRead /\ todo.got = <<>> BY DEF NoJob
  <2> HIDE DEF todo
  <2>12. Delivering(s, todo, call)
    <3>1. <<>> = SubSeq(b, p + 1, p)
      <4>1. p + 1 \in Int /\ p \in Int /\ p < p + 1 BY <1>3
      <4> QED BY <4>1, SubSeqEmpty
    <3>2. call.content = b /\ call.position = p OBVIOUS
    <3> HIDE DEF call
    <3>3. p <= p /\ toRead >= 0 BY <1>3, <2>10
    <3> QED BY <1>3, <2>5, <2>8, <2>10, <2>11, <3>1, <3>2, <3>3 DEF Delivering
  <2>13. Delivering(Reached(s, todo), todo, call)
    <3>1. Reached(s, todo) = s BY <2>7, <2>11, ReachedNothing
    <3> QED BY <2>12, <3>1
  <2>14. call = [content |-> Content(stream), position |-> Position(stream)] BY DEF b, p
  <2> HIDE DEF call
  <2> QED BY <1>1, <2>9, <2>13, <2>14, CallGoesOn
<1> QED BY <1>4, <1>5

LEMMA ReadChunkFollows == ASSUME IInv, CallAgrees, ReadChunk PROVE Follows
<1> DEFINE q == Reached(stream, job)
           c == q.currentPosition
           p == before.position
           b == before.content
           z == stream.size
           old == stream.bytes
           t == job.toRead
<1>1. pc = "reading" BY DEF ReadChunk
<1>2. q = Reached(stream, job) OBVIOUS
<1>3. /\ Content(q) = b /\ p <= c /\ job.got = SubSeq(b, p + 1, c)
  BY <1>1 DEF CallAgrees, Delivering
<1>4. PICK length \in Lengths : c + t = Smaller(p + length, Len(b))
  BY <1>1 DEF CallAgrees, Delivering
<1> HIDE DEF q
<1>5. PICK n, s, todo, r : ReadsOn(q, n, s, todo, r)
  BY <1>2, ReadTurn
<1>6. /\ n \in Nat /\ s \in Fields
      /\ stream' = s /\ pc' = "reading" /\ before' = before /\ answer' = answer
      /\ job' = todo
      /\ todo = [job EXCEPT !.toRead = @ - n, !.got = @ \o SubSeq(old, c + 1, c + n)]
      /\ todo.toRead = t - n /\ r = Reached(s, todo)
      /\ Ready(q) /\ r.bytes = old /\ r.size = z /\ q.bytes = old /\ q.size = z
      /\ r.currentPosition = c + n /\ r.currentPosition <= z /\ n <= t
  BY <1>5 DEF ReadsOn
<1>7. /\ c \in Nat /\ z \in Nat /\ p \in Nat /\ job \in Jobs /\ t \in Int
      /\ old \in Seq(Bytes) /\ z <= Len(old)
  <2>1. q \in Fields /\ q.size <= Len(q.bytes) BY <1>6 DEF Ready, Sound, EntireSize
  <2>2. job \in Jobs /\ before \in Calls BY InvFacts
  <2> QED BY <1>6, <2>1, <2>2, FieldTypes DEF Jobs, Calls
<1>8. todo.got = job.got \o SubSeq(old, c + 1, c + n)
  <2> DEFINE got == job.got \o SubSeq(old, c + 1, c + n)
             left == job.toRead - n
  <2>1. todo = [job EXCEPT !.toRead = left, !.got = got] BY <1>6
  <2> HIDE DEF got, left
  <2>2. todo.got = got BY <1>7, <2>1 DEF Jobs
  <2> QED BY <2>2 DEF got
<1>9. todo.got = SubSeq(b, p + 1, c + n)
  <2>1. b = Front(old, z) BY <1>3, <1>6 DEF Content, Front
  <2>2. z \in 0..Len(old) /\ c + n <= z
    <3>1. Len(old) \in Nat BY <1>7
    <3> HIDE DEF z, old
    <3> QED BY <1>6, <1>7, <3>1
  <2>3. old \in Seq(Bytes) BY <1>7
  <2> HIDE DEF b, z, old, c, p
  <2>4. p \in Nat /\ c \in Nat /\ n \in Nat /\ p <= c BY <1>3, <1>6, <1>7
  <2>5. SubSeq(Front(old, z), p + 1, c) \o SubSeq(old, c + 1, c + n)
           = SubSeq(Front(old, z), p + 1, c + n)
    BY ONLY <2>2, <2>3, <2>4, ReadOn
  <2>6. SubSeq(b, p + 1, c) \o SubSeq(old, c + 1, c + n) = SubSeq(b, p + 1, c + n)
    BY ONLY <2>1, <2>5
  <2> QED BY <1>3, <1>8, <2>6
<1>10. Content(r) = b BY <1>3, <1>6 DEF Content
<1> HIDE DEF c, p, t
<1>11. todo.toRead >= 0 /\ p <= c + n /\ (c + n) + todo.toRead = c + t
  BY <1>3, <1>6, <1>7
<1>12. Delivering(r, todo, before)
  <2>1. r.currentPosition + todo.toRead = Smaller(before.position + length, Len(before.content))
    BY <1>4, <1>6, <1>11 DEF p
  <2>2. before.position <= r.currentPosition BY <1>6, <1>11 DEF p
  <2>3. todo.got = SubSeq(before.content, before.position + 1, r.currentPosition)
    BY <1>6, <1>9 DEF p
  <2> QED BY <1>10, <1>11, <2>1, <2>2, <2>3 DEF Delivering
<1>13. Delivering(Reached(s, todo), todo, before) BY <1>6, <1>12
<1> QED BY <1>1, <1>6, <1>13, CallGoesOn

LEMMA ReadReturnFollows == ASSUME IInv, CallAgrees, ReadReturn PROVE Follows
<1> DEFINE r == Reached(stream, job)
           c == r.currentPosition
           q == before.position
           b == before.content
           t == job.toRead
<1>1. r = Reached(stream, job) OBVIOUS
<1>2. /\ Return(r, Array!Delivered(job.got)) /\ Ready(r) /\ t = 0
      /\ r.seekToPosition = -1 /\ pc = "reading"
  BY <1>1, ReadEnds
<1>3. /\ Content(r) = b /\ q <= c /\ job.got = SubSeq(b, q + 1, c)
  BY <1>2 DEF CallAgrees, Delivering
<1>4. PICK length \in Lengths : c + t = Smaller(q + length, Len(b))
  BY <1>2 DEF CallAgrees, Delivering
<1> HIDE DEF r
<1>5. stream' = r /\ pc' = "idle" /\ answer' = Array!Delivered(job.got)
  BY <1>2, ReturnKeeps
<1>6. c \in Nat /\ q \in Nat
  <2>1. before \in Calls /\ r \in Fields BY <1>2, InvFacts DEF Ready, Sound
  <2> QED BY <2>1, FieldTypes DEF Calls
<1>7. Position(r) = c BY <1>2 DEF Position
<1>8. ContentSeen = b /\ PositionSeen = q BY <1>2 DEF ContentSeen, PositionSeen
<1> HIDE DEF c, q, b, t
<1>9. c = Smaller(q + length, Len(b)) BY <1>2, <1>4, <1>6
<1>10. Larger(q, c) = c BY <1>3, <1>6 DEF Larger
<1> QED BY <1>3, <1>5, <1>7, <1>8, <1>9, <1>10, ReadSeen

LEMMA WriteFollows ==
    ASSUME BelowMaximum, IInv, NEW data \in Contents, Write(data)
    PROVE  Follows
<1> DEFINE r == DelayedSeek(stream)
           todo == [NoJob EXCEPT !.rest = data]
           call == [content |-> Content(stream), position |-> Position(stream)]
<1>1. /\ Begin(r, "starting", todo) /\ Position(stream) + Len(data) <= Limit /\ pc = "idle"
  BY DEF Write, Within, Begin
<1>2. r = DelayedSeek(stream) OBVIOUS
<1> HIDE DEF r
<1>3. data \in Seq(Bytes) /\ Len(data) \in Nat /\ data \in Sources
  BY CallersAssumption DEF Sources
<1>4. /\ Ready(stream) /\ Ready(r) /\ r \in Fields /\ r.currentPosition = Position(stream)
      /\ r.size = Larger(stream.size, Position(stream))
      /\ Agree(stream.bytes, r.bytes, stream.size)
  BY <1>1, <1>2, <1>3, SeekForWriting
<1>5. r.size <= EntireSize(r) BY <1>4 DEF Ready, Sound
<1>6. call = [content |-> Content(stream), position |-> Position(stream)] OBVIOUS
<1>7. /\ stream' = r /\ pc' = "starting" /\ job' = todo /\ answer' = answer /\ before' = call
  BY <1>1, <1>4, BeginFacts
<1> HIDE DEF call
<1>8. Storing(r, data, call, data) BY <1>3, <1>4, <1>5, <1>6, StoringBegins
<1>9. todo.rest \o todo.source = data
  <2>1. todo.rest = data /\ todo.source = <<>> BY DEF NoJob
  <2>2. data \o <<>> = data BY <1>3
  <2> QED BY <2>1, <2>2
<1> HIDE DEF todo
<1>10. Storing(r, todo.rest \o todo.source, call, data) BY <1>8, <1>9
<1> QED BY <1>1, <1>3, <1>6, <1>7, <1>10, CallGoesOn

\* What a call that writes has stored so far.
LEMMA StoringNow ==
    ASSUME IInv, CallAgrees, pc \in {"starting", "writing", "copying", "filling"}
    PROVE  \E data \in Sources, left \in Seq(Bytes) :
              /\ Storing(stream, left, before, data) /\ left = job.rest \o job.source
              /\ Len(before.content) <= stream.size
              /\ stream.currentPosition <= EntireSize(stream) /\ Len(before.content) \in Nat
              /\ Larger(stream.size, stream.currentPosition)
                    = Larger(Len(before.content), stream.currentPosition)
<1>1. PICK data \in Sources : Storing(stream, job.rest \o job.source, before, data)
  BY DEF CallAgrees, Sources
<1>2. job.rest \in Seq(Bytes) /\ job.source \in Seq(Bytes) BY WritingFacts
<1>3. job.rest \o job.source \in Seq(Bytes) BY <1>2
<1>4. /\ Len(before.content) <= stream.size /\ stream.currentPosition <= EntireSize(stream)
      /\ Larger(stream.size, stream.currentPosition)
            = Larger(Len(before.content), stream.currentPosition)
  BY <1>1 DEF Storing
<1>5. Len(before.content) \in Nat
  <2>1. before.content \in Seq(Bytes) BY InvFacts DEF Calls
  <2> QED BY <2>1
<1> QED BY <1>1, <1>3, <1>4, <1>5

LEMMA StartWritingFollows ==
    ASSUME BelowMaximum, IInv, CallAgrees, StartWriting
    PROVE  Follows
<1> DEFINE r == StartedWriting(stream)
           next == IF job.rest # <<>> THEN "writing" ELSE "filling"
<1>1. pc = "starting" BY DEF StartWriting
<1>2. /\ stream' = r /\ pc' = next /\ job' = job /\ before' = before /\ answer' = answer
      /\ Sound(r) /\ r.size = stream.size /\ r.currentPosition = stream.currentPosition
      /\ Agree(stream.bytes, r.bytes, EntireSize(stream))
  BY StartTurn
<1>3. next \in {"writing", "filling"} OBVIOUS
<1> HIDE DEF r, next
<1>4. PICK data \in Sources, left \in Seq(Bytes) :
              /\ Storing(stream, left, before, data) /\ left = job.rest \o job.source
              /\ Len(before.content) <= stream.size
              /\ stream.currentPosition <= EntireSize(stream) /\ Len(before.content) \in Nat
              /\ Larger(stream.size, stream.currentPosition)
                    = Larger(Len(before.content), stream.currentPosition)
  BY <1>1, StoringNow
<1>5. /\ stream \in Fields /\ EntireSize(stream) \in Nat /\ stream.size \in Nat
      /\ stream.size <= EntireSize(stream) /\ before \in Calls
  BY <1>1, WritingFacts, InvFacts
<1>6. Len(before.content) <= EntireSize(stream) BY <1>4, <1>5
<1>7. r \in Fields BY <1>2 DEF Sound
<1>8. Storing(r, left, before, data) BY <1>2, <1>4, <1>5, <1>6, <1>7, StoringKept
<1>9. pc' \in {"starting", "writing", "copying", "filling"} /\ pc' # "copying" /\ pc # "idle"
  BY <1>1, <1>2, <1>3
<1>10. Storing(r, job.rest \o job.source, before, data) BY <1>4, <1>8
<1> QED BY <1>2, <1>9, <1>10, CallGoesOn

LEMMA WriteChunkFollows ==
    ASSUME BelowMaximum, IInv, CallAgrees, WriteChunk
    PROVE  Follows
<1>1. pc = "writing" BY DEF WriteChunk
<1>2. PICK n \in 0..Len(job.rest), r \in Fields :
              /\ stream' = r /\ pc' = "writing" /\ before' = before /\ answer' = answer
              /\ job' = [job EXCEPT !.rest = Back(@, n)] /\ r.size = stream.size
              /\ r.currentPosition = stream.currentPosition + n
              /\ r.currentPosition <= EntireSize(stream) /\ EntireSize(stream) <= EntireSize(r)
              /\ StoresPiece(stream, r, Front(job.rest, n))
  BY WriteTurn
<1>3. PICK data \in Sources, left \in Seq(Bytes) :
              Storing(stream, left, before, data) /\ left = job.rest \o job.source
  BY <1>1, StoringNow
<1>4. /\ stream \in Fields /\ stream.size <= EntireSize(stream) /\ before \in Calls
      /\ job \in Jobs /\ job.rest \in Seq(Bytes) /\ job.source \in Seq(Bytes)
  BY <1>1, WritingFacts, InvFacts
<1>5. /\ n \in 0..Len(left) /\ Front(left, n) = Front(job.rest, n)
      /\ Back(left, n) = Back(job.rest, n) \o job.source
  <2> DEFINE a == job.rest
             b == job.source
  <2>1. a \in Seq(Bytes) /\ b \in Seq(Bytes) /\ n \in 0..Len(a) BY <1>4
  <2> HIDE DEF a, b
  <2>2. /\ n \in 0..Len(a \o b) /\ Front(a \o b, n) = Front(a, n)
        /\ Back(a \o b, n) = Back(a, n) \o b
    BY ONLY <2>1, Parts
  <2> QED BY <1>3, <2>2 DEF a, b
<1>6. Storing(r, Back(left, n), before, data)
  <2>1. StoresPiece(stream, r, Front(left, n)) /\ n \in 0..Len(left) BY <1>2, <1>5
  <2>2. Storing(stream, left, before, data) /\ left \in Seq(Bytes) /\ r \in Fields BY <1>3
  <2>3. /\ r.size = stream.size /\ r.currentPosition = stream.currentPosition + n
        /\ r.currentPosition <= EntireSize(stream) /\ EntireSize(stream) <= EntireSize(r)
        /\ stream \in Fields /\ stream.size <= EntireSize(stream) /\ before \in Calls
    BY <1>2, <1>4
  <2> QED BY ONLY <2>1, <2>2, <2>3, StoringMore
<1> DEFINE rest == Back(job.rest, n)
           todo == [job EXCEPT !.rest = rest]
<1>7. job' = todo BY <1>2
<1>8. todo.rest = rest /\ todo.source = job.source
  <2> HIDE DEF rest
  <2> QED BY <1>4 DEF Jobs
<1> HIDE DEF todo
<1>9. Storing(r, todo.rest \o todo.source, before, data) BY <1>5, <1>6, <1>8
<1> QED BY <1>1, <1>2, <1>7, <1>9, CallGoesOn

\* The size of before, and what was written behind it.
LEMMA StoringEnds ==
    ASSUME IInv, CallAgrees, pc \in {"writing", "filling"}, pc = "filling" => job.rest = <<>>,
           NEW size, size = IF pc = "writing" THEN Larger(stream.size, stream.currentPosition)
                                              ELSE stream.currentPosition,
           NEW r, r = EndedWriting(Resized(stream, size))
    PROVE  /\ Ready(r) /\ r.seekToPosition = -1 /\ before \in Calls
           /\ \E data \in Sources : Storing(r, job.rest \o job.source, before, data)
<1>1. /\ Ready(r) /\ r.size = size /\ r.currentPosition = stream.currentPosition
      /\ r.seekToPosition = -1 /\ Agree(stream.bytes, r.bytes, size) /\ size \in Nat
  BY WriteEndFacts
<1>2. PICK data \in Sources, left \in Seq(Bytes) :
              /\ Storing(stream, left, before, data) /\ left = job.rest \o job.source
              /\ Len(before.content) <= stream.size /\ Len(before.content) \in Nat
              /\ Larger(stream.size, stream.currentPosition)
                    = Larger(Len(before.content), stream.currentPosition)
  BY StoringNow
<1>3. /\ stream \in Fields /\ stream.size \in Nat /\ stream.currentPosition \in Nat
      /\ before \in Calls
  BY WritingFacts, InvFacts
<1> DEFINE c == stream.currentPosition
           z == stream.size
           m == Len(before.content)
<1>4. /\ c \in Nat /\ z \in Nat /\ m \in Nat /\ m <= z /\ Larger(z, c) = Larger(m, c)
      /\ pc = "writing" => size = Larger(z, c)
      /\ pc = "filling" => size = c /\ z <= c
  BY <1>2, <1>3 DEF IInv, LoopAgrees, Filling
<1> HIDE DEF c, z, m
<1>5. c <= size /\ m <= size /\ Larger(size, c) = Larger(m, c)
  <2>1. CASE pc = "writing" BY <1>4, <2>1 DEF Larger
  <2>2. CASE pc = "filling" BY <1>4, <2>2 DEF Larger
  <2> QED BY <2>1, <2>2
<1>6. r \in Fields BY <1>1 DEF Ready, Sound
<1>7. Storing(r, left, before, data)
  <2>1. /\ stream.currentPosition <= size /\ Len(before.content) <= size
        /\ Larger(r.size, stream.currentPosition)
              = Larger(Len(before.content), stream.currentPosition)
    BY <1>1, <1>5 DEF c, m
  <2> QED BY <1>1, <1>2, <1>3, <1>6, <2>1, StoringKept
<1> QED BY <1>1, <1>2, <1>3, <1>7

LEMMA WriteReturnFollows ==
    ASSUME BelowMaximum, IInv, CallAgrees, WriteReturn
    PROVE  Follows
<1> DEFINE size == Larger(stream.size, stream.currentPosition)
           r == EndedWriting(Resized(stream, size))
<1>1. pc = "writing" /\ job.rest = <<>> BY DEF WriteReturn
<1>2. IF job.source # <<>> THEN Continue(r, "copying", job) ELSE Return(r, Array!Nothing)
  BY DEF WriteReturn, Resized
<1>3. size = IF pc = "writing" THEN Larger(stream.size, stream.currentPosition)
                               ELSE stream.currentPosition
  BY <1>1
<1>4. r = EndedWriting(Resized(stream, size)) OBVIOUS
<1> HIDE DEF size, r
<1>5. Ready(r) /\ r.seekToPosition = -1 /\ before \in Calls BY <1>1, <1>3, <1>4, StoringEnds
<1>6. PICK data \in Sources : Storing(r, job.rest \o job.source, before, data)
  BY <1>1, <1>3, <1>4, StoringEnds
<1>7. CASE job.source # <<>>
  <2>1. Continue(r, "copying", job) BY <1>2, <1>7
  <2>2. r \in Fields BY <1>5 DEF Ready, Sound
  <2>3. /\ stream' = r /\ pc' = "copying" /\ job' = job /\ before' = before
        /\ answer' = answer
    BY <2>1, <2>2, ContinueFacts
  <2> QED BY <1>1, <1>6, <2>3, CallGoesOn
<1>8. CASE job.source = <<>>
  <2>1. Return(r, Array!Nothing) BY <1>2, <1>8
  <2>2. <<>> \o <<>> = <<>> OBVIOUS
  <2>3. Storing(r, <<>>, before, data) BY <1>1, <1>6, <1>8, <2>2
  <2> QED BY <1>1, <1>5, <2>1, <2>3, WrittenFollows
<1> QED BY <1>7, <1>8

-----------------------------------------------------------------------------
(* Every step is a step of one array: writeFromInputStream                 *)

LEMMA WriteFromInputStreamFollows ==
    ASSUME BelowMaximum, IInv, NEW source \in Sources, WriteFromInputStream(source)
    PROVE  Follows
<1> DEFINE call == [content |-> Content(stream), position |-> Position(stream)]
<1>1. PICK n \in 0..Len(source), r \in Fields :
              /\ pc = "idle" /\ stream' = r /\ job' = [NoJob EXCEPT !.source = Back(source, n)]
              /\ before' = call /\ answer' = answer /\ Sound(r)
              /\ \/ /\ pc' = "starting" /\ stream.size = 0 /\ Position(stream) = 0
                    /\ r.size = n /\ r.currentPosition = n /\ Agree(source, r.bytes, n)
                 \/ /\ pc' = "copying" /\ n = 0 /\ r.currentPosition = Position(stream)
                    /\ r.size = Larger(stream.size, Position(stream))
                    /\ Agree(stream.bytes, r.bytes, stream.size)
  BY FromInputStream
<1>2. Ready(stream) BY <1>1, InvFacts DEF Between
<1>3. source \in Seq(Bytes) /\ Len(source) \in Nat BY SourceTypes
<1> DEFINE left == Back(source, n)
           todo == [NoJob EXCEPT !.source = left]
<1>4. /\ left \in Seq(Bytes) /\ Len(left) = Len(source) - n /\ n \in Nat
      /\ \A k \in 1..(Len(source) - n) : left[k] = source[n + k]
  BY <1>3, Pieces
<1>5. call = [content |-> Content(stream), position |-> Position(stream)] OBVIOUS
<1>6. stream' = r /\ job' = todo /\ before' = call BY <1>1
<1>7. todo.rest = <<>> /\ todo.rest \o todo.source = left
  <2> HIDE DEF left
  <2>1. todo.rest = <<>> /\ todo.source = left BY DEF NoJob
  <2>2. <<>> \o left = left BY <1>4
  <2> QED BY <2>1, <2>2
<1> HIDE DEF left, todo, call
<1>8. CASE pc' = "starting"
  <2>1. /\ stream.size = 0 /\ Position(stream) = 0 /\ r.size = n /\ r.currentPosition = n
        /\ Agree(source, r.bytes, n)
    BY <1>1, <1>8
  <2>2. call.position = 0 /\ Len(call.content) = 0
    <3>1. Len(Content(stream)) = 0 BY <1>2, <2>1, SeenTypes
    <3> QED BY <1>5, <2>1, <3>1
  <2>3. n <= EntireSize(r) /\ \A k \in 1..n : r.bytes[k] = source[k]
    BY <2>1 DEF Agree, EntireSize
  <2>4. n - 0 = n /\ Len(source) = n + Len(left) /\ Larger(n, n) = Larger(0, n)
    BY <1>3, <1>4 DEF Larger
  <2>5. /\ \A k \in 1..Len(left) : left[k] = source[n + k]
        /\ \A k \in 1..n : r.bytes[0 + k] = source[k]
    BY <1>4, <2>3
  <2>6. Storing(r, left, call, source)
    BY <1>4, <2>1, <2>2, <2>3, <2>4, <2>5 DEF Storing
  <2>7. Storing(r, todo.rest \o todo.source, call, source) BY <1>7, <2>6
  <2> QED BY <1>1, <1>5, <1>6, <1>8, <2>7, CallGoesOn
<1>9. CASE pc' = "copying"
  <2>1. /\ n = 0 /\ r.currentPosition = Position(stream)
        /\ r.size = Larger(stream.size, Position(stream))
        /\ Agree(stream.bytes, r.bytes, stream.size)
    BY <1>1, <1>9
  <2>2. r.size <= EntireSize(r) BY <1>1 DEF Sound
  <2>3. left = source
    <3>1. Back(source, 0) = SubSeq(source, 1, Len(source)) BY <1>3 DEF Back
    <3> QED BY <1>3, <2>1, <3>1 DEF left
  <2>4. Storing(r, source, call, source) BY <1>2, <1>3, <1>5, <2>1, <2>2, StoringBegins
  <2>5. Storing(r, todo.rest \o todo.source, call, source) BY <1>7, <2>3, <2>4
  <2> QED BY <1>1, <1>5, <1>6, <1>7, <1>9, <2>5, CallGoesOn
<1> QED BY <1>1, <1>8, <1>9

LEMMA FillChunkFollows ==
    ASSUME BelowMaximum, IInv, CallAgrees, FillChunk
    PROVE  Follows
<1>1. pc = "filling" BY DEF FillChunk
<1>2. PICK n \in 1..Len(job.source), r \in Fields :
              /\ stream' = r /\ pc' = "filling" /\ before' = before /\ answer' = answer
              /\ job' = [job EXCEPT !.source = Back(@, n)] /\ r.size = stream.size
              /\ r.currentPosition = stream.currentPosition + n
              /\ r.currentPosition <= EntireSize(stream) /\ EntireSize(stream) <= EntireSize(r)
              /\ StoresPiece(stream, r, Front(job.source, n))
  BY FillTurn
<1>3. /\ stream \in Fields /\ stream.size <= EntireSize(stream) /\ before \in Calls
      /\ job \in Jobs /\ job.source \in Seq(Bytes) /\ Len(job.source) \in Nat
  BY <1>1, WritingFacts, InvFacts
<1>4. job.rest = <<>> BY <1>1 DEF IInv, LoopAgrees, Filling
<1> DEFINE source == job.source
           left == Back(source, n)
           todo == [job EXCEPT !.source = left]
<1>5. PICK data \in Sources : Storing(stream, source, before, data)
  <2>1. PICK data \in Sources, all \in Seq(Bytes) :
                Storing(stream, all, before, data) /\ all = job.rest \o job.source
    BY <1>1, StoringNow
  <2>2. <<>> \o source = source BY <1>3
  <2> QED BY <1>4, <2>1, <2>2
<1>6. n \in 0..Len(source) BY <1>2, <1>3
<1>7. job' = todo BY <1>2
<1>8. left \in Seq(Bytes)
  <2> HIDE DEF source
  <2>1. source \in Seq(Bytes) BY <1>3 DEF source
  <2> QED BY <1>6, <2>1, Pieces
<1>9. Storing(r, left, before, data)
  <2>1. /\ StoresPiece(stream, r, Front(source, n)) /\ source \in Seq(Bytes) /\ r \in Fields
        /\ r.size = stream.size /\ r.currentPosition = stream.currentPosition + n
        /\ r.currentPosition <= EntireSize(stream) /\ EntireSize(stream) <= EntireSize(r)
        /\ stream \in Fields /\ stream.size <= EntireSize(stream) /\ before \in Calls
    BY <1>2, <1>3
  <2> HIDE DEF source
  <2> QED BY ONLY <1>5, <1>6, <2>1, StoringMore DEF left
<1>10. todo.rest = <<>> /\ todo.source = left
  <2> HIDE DEF left
  <2> QED BY <1>3, <1>4 DEF Jobs
<1> HIDE DEF left, todo
<1>11. todo.rest \o todo.source = left
  <2>1. <<>> \o left = left BY <1>8
  <2> QED BY <1>10, <2>1
<1>12. Storing(r, todo.rest \o todo.source, before, data) BY <1>9, <1>11
<1> QED BY <1>1, <1>2, <1>7, <1>12, CallGoesOn

LEMMA FillReturnFollows ==
    ASSUME BelowMaximum, IInv, CallAgrees, FillReturn
    PROVE  Follows
<1> DEFINE size == stream.currentPosition
           r == EndedWriting(Resized(stream, size))
<1>1. pc = "filling" /\ job.source = <<>> BY DEF FillReturn
<1>2. Return(r, Array!Nothing) BY DEF FillReturn, Resized
<1>3. size = IF pc = "writing" THEN Larger(stream.size, stream.currentPosition)
                               ELSE stream.currentPosition
  BY <1>1
<1>4. r = EndedWriting(Resized(stream, size)) OBVIOUS
<1> HIDE DEF size, r
<1>5. job.rest = <<>> BY <1>1 DEF IInv, LoopAgrees, Filling
<1>6. Ready(r) /\ r.seekToPosition = -1 /\ before \in Calls
  BY <1>1, <1>3, <1>4, <1>5, StoringEnds
<1>7. PICK data \in Sources : Storing(r, job.rest \o job.source, before, data)
  BY <1>1, <1>3, <1>4, <1>5, StoringEnds
<1>8. <<>> \o <<>> = <<>> OBVIOUS
<1>9. Storing(r, <<>>, before, data) BY <1>1, <1>5, <1>7, <1>8
<1> QED BY <1>1, <1>2, <1>6, <1>9, WrittenFollows

\* Between two pieces of an InputStream.
LEMMA CopyingNow ==
    ASSUME IInv, CallAgrees, pc = "copying"
    PROVE  /\ Ready(stream) /\ stream.seekToPosition = -1 /\ before \in Calls
           /\ job.rest = <<>> /\ job.source \in Seq(Bytes) /\ Len(job.source) \in Nat
           /\ \E data \in Sources : Storing(stream, job.source, before, data)
<1>1. Ready(stream) /\ before \in Calls BY InvFacts DEF Between
<1>2. /\ job.source \in Seq(Bytes) /\ Len(job.source) \in Nat
      /\ stream.seekToPosition = -1
  BY WritingFacts
<1>3. job.rest = <<>> BY DEF CallAgrees
<1>4. PICK data \in Sources, all \in Seq(Bytes) :
              Storing(stream, all, before, data) /\ all = job.rest \o job.source
  BY StoringNow
<1>5. <<>> \o job.source = job.source BY <1>2
<1> QED BY <1>1, <1>2, <1>3, <1>4, <1>5

LEMMA CopyNextFollows ==
    ASSUME BelowMaximum, IInv, CallAgrees, CopyNext
    PROVE  Follows
<1>1. pc = "copying" BY DEF CopyNext
<1>2. PICK n \in 1..Len(job.source), r \in Fields :
              /\ stream' = r /\ pc' = "starting" /\ before' = before /\ answer' = answer
              /\ job' = [job EXCEPT !.rest = Front(job.source, n), !.source = Back(@, n)]
              /\ Ready(r) /\ r.currentPosition = stream.currentPosition
              /\ r.size = Larger(stream.size, stream.currentPosition)
              /\ Agree(stream.bytes, r.bytes, stream.size)
  BY CopyTurn
<1> DEFINE source == job.source
           piece == Front(source, n)
           left == Back(source, n)
           todo == [job EXCEPT !.rest = piece, !.source = left]
<1>3. source \in Seq(Bytes) /\ Len(source) \in Nat /\ Ready(stream) /\ before \in Calls
  BY <1>1, CopyingNow
<1>4. PICK data \in Sources : Storing(stream, source, before, data) BY <1>1, CopyingNow
<1>5. job' = todo BY <1>2
<1>6. todo.rest = piece /\ todo.source = left
  <2>1. job \in Jobs BY InvFacts
  <2> HIDE DEF piece, left
  <2> QED BY <2>1 DEF Jobs
<1>7. piece \o left = source
  <2>1. n \in 0..Len(source) BY <1>2, <1>3
  <2> HIDE DEF source
  <2> QED BY <1>3, <2>1, Parts
<1> HIDE DEF source, piece, left, todo
<1> DEFINE c == stream.currentPosition
           z == stream.size
           m == Len(before.content)
<1>8. stream \in Fields /\ c \in Nat /\ z \in Nat /\ c <= z
  <2>1. stream \in Fields /\ c <= z BY <1>3 DEF Ready, Sound, Settled
  <2> QED BY <2>1, FieldTypes
<1>9. m \in Nat /\ m <= z /\ Larger(z, c) = Larger(m, c)
  <2>1. m <= z /\ Larger(z, c) = Larger(m, c) BY <1>4 DEF Storing
  <2>2. before.content \in Seq(Bytes) BY <1>3 DEF Calls
  <2> QED BY <2>1, <2>2
<1>10. r.size = Larger(z, c) /\ r.currentPosition = c /\ Agree(stream.bytes, r.bytes, z)
  BY <1>2
<1>11. r \in Fields OBVIOUS
<1>12. r.size = z
  <2> HIDE DEF c, z
  <2> QED BY <1>8, <1>10 DEF Larger
<1>13. Storing(r, source, before, data)
  BY <1>3, <1>4, <1>8, <1>9, <1>10, <1>11, <1>12, StoringKept
<1>14. Storing(r, todo.rest \o todo.source, before, data) BY <1>6, <1>7, <1>13
<1> QED BY <1>1, <1>2, <1>5, <1>14, CallGoesOn

LEMMA CopyReturnFollows ==
    ASSUME BelowMaximum, IInv, CallAgrees, CopyReturn
    PROVE  Follows
<1>1. pc = "copying" /\ job.source = <<>> /\ Return(stream, Array!Nothing) BY DEF CopyReturn
<1>2. Ready(stream) /\ stream.seekToPosition = -1 /\ before \in Calls BY <1>1, CopyingNow
<1>3. PICK data \in Sources : Storing(stream, <<>>, before, data) BY <1>1, CopyingNow
<1> QED BY <1>1, <1>2, <1>3, WrittenFollows

\* What the InputStream delivered before it failed is in the stream, nothing else.
LEMMA CopyInterruptedFollows ==
    ASSUME BelowMaximum, IInv, CallAgrees, CopyInterrupted
    PROVE  Follows
<1>1. pc = "copying" /\ Return(stream, Array!Interrupted) BY DEF CopyInterrupted
<1>2. /\ Ready(stream) /\ stream.seekToPosition = -1 /\ before \in Calls
      /\ job.source \in Seq(Bytes)
  BY <1>1, CopyingNow
<1>3. PICK data \in Sources : Storing(stream, job.source, before, data) BY <1>1, CopyingNow
<1>4. stream' = stream /\ pc' = "idle" /\ answer' = Array!Interrupted
  BY <1>1, <1>2, ReturnKeeps
<1>5. data \in Seq(Bytes) BY SourceTypes
<1> DEFINE n == stream.currentPosition - before.position
<1>6. n = stream.currentPosition - before.position /\ pc # "idle" BY <1>1
<1> HIDE DEF n
<1>7. n \in 0..Len(data) /\ Array!Stores(Front(data, n))
  BY <1>2, <1>3, <1>4, <1>5, <1>6, StoresFacts
<1>8. Array!Interrupt(data) BY <1>4, <1>7 DEF Array!Interrupt, Front
<1>9. Array!Next BY <1>8 DEF Array!Next, Sources
<1>10. CallAgrees' BY <1>4, SeenAfter
<1> QED BY <1>9, <1>10 DEF Follows

-----------------------------------------------------------------------------
(* The refinement                                                          *)

LEMMA NextFollows ==
    ASSUME BelowMaximum, IInv, CallAgrees, [Next]_vars
    PROVE  Follows
<1>1. CASE UNCHANGED vars
  <2>1. CallAgrees'
    BY <1>1 DEF vars, CallAgrees, Delivering, Storing, Content, EntireSize, Reached
  <2>2. UNCHANGED Array!streamVars BY <1>1 DEF vars, Array!streamVars, Content, Position
  <2> QED BY <2>1, <2>2 DEF Follows
<1>2. ASSUME NEW origin \in Array!Origins, NEW offset \in Offsets, Seek(origin, offset)
      PROVE  Follows
  BY <1>2, SeekFollows
<1>3. ASSUME NEW length \in Lengths, Read(length) \/ SetSize(length) \/ SetSizeTooFar(length)
      PROVE  Follows
  BY <1>3, ReadFollows, SetSizeFollows, SetSizeTooFarFollows
<1>4. ASSUME NEW data \in Contents, SetBytes(data) \/ Write(data) PROVE Follows
  BY <1>4, SetBytesFollows, WriteFollows
<1>5. ASSUME NEW source \in Contents \cup {<<>>}, WriteFromInputStream(source) PROVE Follows
  BY <1>5, WriteFromInputStreamFollows DEF Sources
<1>6. CASE Rewind \/ Inspect BY <1>6, RewindFollows, InspectFollows
<1>7. CASE Loop
  BY <1>7, ReadChunkFollows, ReadReturnFollows, StartWritingFollows, WriteChunkFollows,
     WriteReturnFollows, FillChunkFollows, FillReturnFollows, CopyNextFollows, CopyReturnFollows,
     CopyInterruptedFollows
     DEF Loop
<1> QED BY <1>1, <1>2, <1>3, <1>4, <1>5, <1>6, <1>7 DEF Next

LEMMA InitFollows == Init => Array!Init /\ CallAgrees
<1> SUFFICES ASSUME Init PROVE Array!Init /\ CallAgrees
  OBVIOUS
<1>1. stream = Empty /\ pc = "idle" /\ answer = Array!Nothing BY DEF Init
<1>2. Content(Empty) = <<>>
  <2>1. Empty.bytes = <<>> /\ Empty.size = 0 BY EmptyReady
  <2> QED BY <2>1 DEF Content
<1>3. Position(Empty) = 0 BY EmptyReady DEF Position
<1> QED BY <1>1, <1>2, <1>3 DEF Array!Init, CallAgrees

\* For callers who stay below the maximal size and are careful, the chunks of
\* ByteArrayStream are one array: each read delivers the bytes that were written
\* last at its places, each write stores all its bytes where the seeks before it
\* say, and no other byte changes, whatever the turns of the loops over chunks do.
THEOREM Refinement == BelowMaximum => (Spec => ImplementsArray)
<1> SUFFICES ASSUME BelowMaximum PROVE Spec => ImplementsArray
  OBVIOUS
<1>1. Init => IInv /\ CallAgrees /\ Array!Init BY InitHolds, InitFollows
<1>2. IInv /\ CallAgrees /\ [Next]_vars => IInv' /\ CallAgrees'
  BY NextKeeps, NextFollows DEF Follows
<1>3. IInv /\ CallAgrees /\ [Next]_vars => [Array!Next]_(Array!streamVars)
  BY NextFollows DEF Follows
<1> QED BY <1>1, <1>2, <1>3, PTL DEF Spec, ImplementsArray, Array!Spec

===============================================================================
