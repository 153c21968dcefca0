-------------------------- MODULE Extraction_proofs --------------------------
(***************************************************************************)
(* Extractions from an archive of any layout, with any indices and any     *)
(* failures: what sorting the indices and cutting them into entries gives, *)
(* the inductive invariant of Extraction, and what follows from it.        *)
(***************************************************************************)
EXTENDS Extraction, FiniteSetTheorems, SequenceTheorems, WellFoundedInduction, TLAPS

-----------------------------------------------------------------------------
(* Least elements                                                          *)

LEMMA Least ==
    ASSUME NEW S \in SUBSET Nat, S # {}
    PROVE  \E m \in S : \A x \in S : m <= x
<1> DEFINE R == {ss \in Nat \X Nat : ss[1] < ss[2]}
<1>1. IsWellFoundedOn(R, Nat) BY NatLessThanWellFounded DEF OpToRel
<1>2. PICK m \in S : \A x \in S : ~ (<<x, m>> \in R)
  <2> HIDE DEF R
  <2> QED BY <1>1, WFMin
<1>3. ASSUME NEW x \in S PROVE m <= x
  <2>1. x \in Nat /\ m \in Nat /\ <<x, m>> \notin R BY <1>2
  <2>2. ~ (x < m) BY <2>1
  <2> QED BY <2>1, <2>2
<1> QED BY <1>3

-----------------------------------------------------------------------------
(* Sorted                                                                  *)

\* The places of the elements below x, and of those up to x.
Below(s, x) == {j \in DOMAIN s : s[j] < x}
UpTo(s, x) == {j \in DOMAIN s : s[j] <= x}
\* x is the k-th element.
IsKth(s, k, x) == Cardinality(Below(s, x)) < k /\ k <= Cardinality(UpTo(s, x))
Elements(s) == {s[j] : j \in DOMAIN s}

LEMMA PlacesCounted ==
    ASSUME NEW s \in Seq(Items), NEW x \in Int
    PROVE  /\ IsFiniteSet(Below(s, x)) /\ IsFiniteSet(UpTo(s, x))
           /\ Cardinality(Below(s, x)) \in Nat /\ Cardinality(UpTo(s, x)) \in Nat
           /\ Cardinality(Below(s, x)) <= Cardinality(UpTo(s, x))
           /\ Cardinality(UpTo(s, x)) <= Len(s)
           /\ Below(s, x) = UpTo(s, x - 1)
           /\ \A y \in Int : y < x => Cardinality(UpTo(s, y)) <= Cardinality(Below(s, x))
<1>1. IsFiniteSet(DOMAIN s) /\ Cardinality(DOMAIN s) = Len(s)
  <2>1. DOMAIN s = 1..Len(s) /\ Len(s) \in Nat OBVIOUS
  <2>2. IsFiniteSet(1..Len(s)) /\ Cardinality(1..Len(s)) = IF 1 > Len(s) THEN 0 ELSE Len(s) - 1 + 1
    BY <2>1, FS_Interval
  <2> QED BY <2>1, <2>2
<1>2. \A j \in DOMAIN s : s[j] \in Nat BY LayoutAssumption DEF Items
<1>3. UpTo(s, x) \in SUBSET DOMAIN s BY DEF UpTo
<1>4. Below(s, x) \in SUBSET UpTo(s, x) BY <1>2 DEF UpTo, Below
<1>5. IsFiniteSet(UpTo(s, x)) /\ Cardinality(UpTo(s, x)) <= Cardinality(DOMAIN s)
  BY <1>1, <1>3, FS_Subset
<1>6. IsFiniteSet(Below(s, x)) /\ Cardinality(Below(s, x)) <= Cardinality(UpTo(s, x))
  BY <1>4, <1>5, FS_Subset
<1>7. Below(s, x) = UpTo(s, x - 1)
  <2>1. \A j \in DOMAIN s : s[j] < x <=> s[j] <= x - 1 BY <1>2
  <2> QED BY <2>1 DEF Below, UpTo
<1>8. ASSUME NEW y \in Int, y < x PROVE Cardinality(UpTo(s, y)) <= Cardinality(Below(s, x))
  <2>1. UpTo(s, y) \in SUBSET Below(s, x) BY <1>2, <1>8 DEF UpTo, Below
  <2> QED BY <1>6, <2>1, FS_Subset
<1> QED BY <1>1, <1>5, <1>6, <1>7, <1>8, FS_CardinalityType

\* Every place of a sequence has an element.
LEMMA KthExists ==
    ASSUME NEW s \in Seq(Items), NEW k \in 1..Len(s)
    PROVE  \E x \in Elements(s) : IsKth(s, k, x)
<1> DEFINE S == {x \in Nat : k <= Cardinality(UpTo(s, x))}
<1>1. Len(Layout) \in Nat /\ Items = 1..Len(Layout) BY LayoutAssumption DEF Items
<1>2. DOMAIN s = 1..Len(s) /\ Len(s) \in Nat /\ \A j \in DOMAIN s : s[j] \in 1..Len(Layout)
  BY <1>1
<1>3. S # {}
  <2>1. UpTo(s, Len(Layout)) = 1..Len(s) BY <1>1, <1>2 DEF UpTo
  <2>2. Cardinality(1..Len(s)) = IF 1 > Len(s) THEN 0 ELSE Len(s) - 1 + 1 BY <1>2, FS_Interval
  <2>3. k <= Cardinality(UpTo(s, Len(Layout))) BY <1>2, <2>1, <2>2
  <2> QED BY <1>1, <2>3
<1>4. PICK x \in S : \A y \in S : x <= y
  <2>1. S \in SUBSET Nat OBVIOUS
  <2> HIDE DEF S
  <2> QED BY <1>3, <2>1, Least
<1>5. x \in Nat /\ k <= Cardinality(UpTo(s, x)) BY <1>4
<1>6. Cardinality(Below(s, x)) < k
  <2>1. Below(s, x) = UpTo(s, x - 1) BY <1>5, PlacesCounted
  <2>2. CASE x = 0
    <3>1. Below(s, x) = {} BY <1>2, <2>2 DEF Below
    <3> QED BY <3>1, FS_EmptySet
  <2>3. CASE x > 0
    <3>1. x - 1 \in Nat /\ ~ (x <= x - 1) BY <1>5, <2>3
    <3>2. ~ (k <= Cardinality(UpTo(s, x - 1))) BY <1>4, <3>1
    <3>3. Cardinality(UpTo(s, x - 1)) \in Nat BY <3>1, PlacesCounted
    <3> QED BY <2>1, <3>2, <3>3
  <2> QED BY <1>5, <2>2, <2>3
<1>7. x \in Elements(s)
  <2>1. PICK j \in UpTo(s, x) : j \notin Below(s, x)
    <3>1. Below(s, x) # UpTo(s, x)
      <4>1. Cardinality(UpTo(s, x)) \in Nat /\ Cardinality(Below(s, x)) \in Nat
        BY <1>5, PlacesCounted
      <4> QED BY <1>5, <1>6, <4>1
    <3>2. Below(s, x) \subseteq UpTo(s, x) BY <1>2, <1>5 DEF Below, UpTo
    <3> QED BY <3>1, <3>2
  <2>2. j \in DOMAIN s /\ s[j] <= x /\ ~ (s[j] < x) BY <2>1 DEF Below, UpTo
  <2>3. s[j] = x BY <1>2, <1>5, <2>2
  <2> QED BY <2>2, <2>3 DEF Elements
<1> QED BY <1>5, <1>6, <1>7 DEF IsKth

LEMMA SortedKth ==
    ASSUME NEW s \in Seq(Items)
    PROVE  /\ Sorted(s) \in Seq(Items) /\ Len(Sorted(s)) = Len(s)
           /\ \A k \in 1..Len(s) : Sorted(s)[k] \in Elements(s) /\ IsKth(s, k, Sorted(s)[k])
<1>1. Sorted(s) = [k \in 1..Len(s) |-> CHOOSE x \in Elements(s) : IsKth(s, k, x)]
  BY DEF Sorted, Elements, IsKth, Below, UpTo
<1>2. \A k \in 1..Len(s) : Sorted(s)[k] \in Elements(s) /\ IsKth(s, k, Sorted(s)[k])
  BY <1>1, KthExists
<1>3. Elements(s) \subseteq Items BY DEF Elements
<1>4. Sorted(s) \in [1..Len(s) -> Items] BY <1>1, <1>2, <1>3
<1> QED BY <1>2, <1>4

\* CompareIndicies and qsort: the same indices, in ascending order.
LEMMA SortedProperties ==
    ASSUME NEW s \in Seq(Items)
    PROVE  /\ Sorted(s) \in Seq(Items) /\ Len(Sorted(s)) = Len(s)
           /\ \A j, k \in DOMAIN Sorted(s) : j <= k => Sorted(s)[j] <= Sorted(s)[k]
           /\ Elements(Sorted(s)) = Elements(s)
<1> DEFINE t == Sorted(s)
<1>1. /\ t \in Seq(Items) /\ Len(t) = Len(s)
      /\ \A k \in 1..Len(s) : t[k] \in Elements(s) /\ IsKth(s, k, t[k])
  BY SortedKth
<1>2. DOMAIN t = 1..Len(s) /\ DOMAIN s = 1..Len(s) /\ Len(s) \in Nat BY <1>1
<1>3. Items \subseteq Int /\ \A k \in 1..Len(s) : t[k] \in Items /\ s[k] \in Items
  <2>1. Items \subseteq Int BY LayoutAssumption DEF Items
  <2>2. t \in [1..Len(s) -> Items] /\ s \in [1..Len(s) -> Items] BY <1>1
  <2> QED BY <2>1, <2>2
<1> HIDE DEF t
<1>4. ASSUME NEW j \in 1..Len(s), NEW k \in 1..Len(s), j <= k PROVE t[j] <= t[k]
  <2>0. t[j] \in Int /\ t[k] \in Int BY <1>3
  <2> SUFFICES ASSUME t[k] < t[j] PROVE FALSE BY <2>0
  <2>1. Cardinality(UpTo(s, t[k])) <= Cardinality(Below(s, t[j])) BY <1>3, PlacesCounted
  <2>2. Cardinality(Below(s, t[j])) < j /\ k <= Cardinality(UpTo(s, t[k])) BY <1>1 DEF IsKth
  <2>3. Cardinality(UpTo(s, t[k])) \in Nat /\ Cardinality(Below(s, t[j])) \in Nat
    BY <1>3, PlacesCounted
  <2> QED BY <1>2, <1>4, <2>1, <2>2, <2>3
<1>5. Elements(t) \subseteq Elements(s) BY <1>1, <1>2 DEF Elements
<1>6. ASSUME NEW x \in Elements(s) PROVE x \in Elements(t)
  <2> DEFINE k == Cardinality(UpTo(s, x))
             b == Cardinality(Below(s, x))
  <2>1. PICK j \in 1..Len(s) : s[j] = x BY <1>2 DEF Elements
  <2>2. x \in Items /\ x \in Int BY <1>3, <2>1
  <2>3. k \in Nat /\ b \in Nat /\ b <= k /\ k <= Len(s) BY <2>2, PlacesCounted
  <2>4. b # k
    <3>1. Below(s, x) \in SUBSET UpTo(s, x)
      <4>1. \A i \in DOMAIN s : s[i] \in Int BY <1>2, <1>3
      <4> QED BY <2>2, <4>1 DEF Below, UpTo
    <3>2. j \in UpTo(s, x) /\ j \notin Below(s, x) BY <1>2, <2>1, <2>2 DEF Below, UpTo
    <3> QED BY <2>2, <3>1, <3>2, PlacesCounted, FS_Subset
  <2> HIDE DEF k, b
  <2>5. k \in 1..Len(s) BY <1>2, <2>3, <2>4
  <2>6. t[k] \in Int /\ IsKth(s, k, t[k]) BY <1>1, <1>3, <2>5
  <2>7. ~ (t[k] < x)
    <3> SUFFICES ASSUME t[k] < x PROVE FALSE OBVIOUS
    <3>1. Cardinality(UpTo(s, t[k])) <= b BY <2>2, <2>6, PlacesCounted DEF b
    <3>2. k <= Cardinality(UpTo(s, t[k])) /\ Cardinality(UpTo(s, t[k])) \in Nat
      BY <2>6, PlacesCounted DEF IsKth
    <3> QED BY <2>3, <2>4, <3>1, <3>2
  <2>8. ~ (x < t[k])
    <3> SUFFICES ASSUME x < t[k] PROVE FALSE OBVIOUS
    <3>1. k <= Cardinality(Below(s, t[k])) BY <2>2, <2>6, PlacesCounted DEF k
    <3>2. Cardinality(Below(s, t[k])) < k /\ Cardinality(Below(s, t[k])) \in Nat
      BY <2>6, PlacesCounted DEF IsKth
    <3> QED BY <2>3, <3>1, <3>2
  <2>9. t[k] = x BY <2>2, <2>6, <2>7, <2>8
  <2> QED BY <1>2, <2>5, <2>9 DEF Elements
<1> QED BY <1>1, <1>2, <1>4, <1>5, <1>6 DEF t

-----------------------------------------------------------------------------
(* The layout                                                              *)

LEMMA ItemTypes ==
    /\ Len(Layout) \in Nat /\ Items = 1..Len(Layout) /\ Items \subseteq Nat \ {0}
    /\ \A i \in Items : /\ Size(i) \in Nat /\ Layout[i].first \in Nat
                        /\ Folder(i) = NoFolder => Size(i) = 0
<1>1. Len(Layout) \in Nat /\ Items = 1..Len(Layout) /\ Items \subseteq Nat \ {0}
  BY LayoutAssumption DEF Items
<1>2. ASSUME NEW i \in Items PROVE Size(i) \in Nat /\ Layout[i].first \in Nat
  <2> DEFINE R == [folder : Nat \cup {NoFolder}, first : Nat, size : Nat]
  <2>1. Layout \in Seq(R) BY LayoutAssumption
  <2>2. Layout[i] \in R
    <3> HIDE DEF R
    <3> QED BY <1>1, <2>1
  <2> QED BY <2>2 DEF Size
<1>3. ASSUME NEW i \in Items, Folder(i) = NoFolder PROVE Size(i) = 0
  BY <1>3, LayoutAssumption
<1> QED BY <1>1, <1>2, <1>3

\* Where the layout says that a folder begins, or goes on.
LEMMA LayoutStep ==
    ASSUME NEW i \in Items, Folder(i) # NoFolder
    PROVE  /\ i > 1 /\ Folder(i - 1) = Folder(i) =>
                  Layout[i].first = Layout[i - 1].first + Size(i - 1)
           /\ ~ (i > 1 /\ Folder(i - 1) = Folder(i)) =>
                  /\ Layout[i].first = 0 /\ Size(i) > 0
                  /\ \A j \in 1..(i - 1) : Folder(j) # Folder(i)
BY LayoutAssumption

\* The items of a folder are consecutive.
LEMMA FolderTogether ==
    ASSUME NEW i \in Items, NEW k \in Items, NEW j \in i..k,
           Folder(i) = Folder(k), Folder(k) # NoFolder
    PROVE  Folder(j) = Folder(k)
<1> SUFFICES ASSUME Folder(j) # Folder(k) PROVE FALSE OBVIOUS
<1> DEFINE S == {x \in j..k : Folder(x) = Folder(k)}
<1>1. i \in Nat /\ k \in Nat /\ j \in Nat /\ i >= 1 /\ k <= Len(Layout) /\ i <= j /\ j <= k
  BY ItemTypes
<1>2. k \in S /\ S \in SUBSET Nat BY <1>1
<1>3. PICK m \in S : \A x \in S : m <= x
  <2> HIDE DEF S
  <2> QED BY <1>2, Least
<1>4. m \in j..k /\ Folder(m) = Folder(k) /\ m # j BY <1>3
<1>5. m \in Items /\ m - 1 \in j..k /\ ~ (m <= m - 1) /\ m > 1
  BY <1>1, <1>4, ItemTypes
<1>6. Folder(m - 1) # Folder(k) BY <1>3, <1>5
<1>7. \A x \in 1..(m - 1) : Folder(x) # Folder(m) BY <1>4, <1>6, <1>5, LayoutStep
<1>8. i \in 1..(m - 1) BY <1>1, <1>4
<1> QED BY <1>4, <1>7, <1>8

\* The first item of a folder has bytes, from the first on.
LEMMA StartOfFolder ==
    ASSUME NEW x \in Items, Folder(x) # NoFolder
    PROVE  /\ FolderStart(Folder(x)) \in 1..x
           /\ Folder(FolderStart(Folder(x))) = Folder(x)
           /\ Layout[FolderStart(Folder(x))].first = 0 /\ Size(FolderStart(Folder(x))) > 0
<1> DEFINE S == {i \in Items : Folder(i) = Folder(x)}
           start == FolderStart(Folder(x))
<1>1. PICK m \in S : \A i \in S : m <= i
  <2>1. x \in S /\ S \in SUBSET Nat BY ItemTypes
  <2> HIDE DEF S
  <2> QED BY <2>1, Least
<1>2. \A j \in 1..(m - 1) : Folder(j) # Folder(x)
  <2> SUFFICES ASSUME NEW j \in 1..(m - 1), Folder(j) = Folder(x) PROVE FALSE OBVIOUS
  <2>1. m \in Items BY <1>1
  <2>2. j \in Items /\ ~ (m <= j) BY <2>1, ItemTypes
  <2> QED BY <1>1, <2>2
<1>3. /\ start \in Items /\ Folder(start) = Folder(x)
      /\ \A j \in 1..(start - 1) : Folder(j) # Folder(x)
  BY <1>1, <1>2 DEF FolderStart
<1> HIDE DEF start
<1>4. start <= x
  <2> SUFFICES ASSUME x < start PROVE FALSE BY <1>3, ItemTypes
  <2>1. x \in 1..(start - 1) BY <1>3, ItemTypes
  <2> QED BY <1>3, <2>1
<1>5. ~ (start > 1 /\ Folder(start - 1) = Folder(start))
  <2> SUFFICES ASSUME start > 1 PROVE Folder(start - 1) # Folder(start) OBVIOUS
  <2>1. start - 1 \in 1..(start - 1) BY <1>3, ItemTypes
  <2> QED BY <1>3, <2>1
<1>6. Layout[start].first = 0 /\ Size(start) > 0 BY <1>3, <1>5, LayoutStep
<1> QED BY <1>3, <1>4, <1>6, ItemTypes DEF start

-----------------------------------------------------------------------------
(* The entries                                                             *)

\* The first indices of a list that go into one entry.
LEMMA TogetherExists ==
    ASSUME NEW s \in Seq(Items), s # <<>>
    PROVE  /\ Together(s) \in 1..Len(s)
           /\ Together(s) > 1 => Folder(s[1]) # NoFolder
           /\ \A k \in 1..Together(s) : Folder(s[k]) = Folder(s[1])
           /\ Together(s) < Len(s) /\ Folder(s[1]) # NoFolder =>
                  Folder(s[Together(s) + 1]) # Folder(s[1])
<1> DEFINE P(n) == /\ n > 1 => Folder(s[1]) # NoFolder
                   /\ \A k \in 1..n : Folder(s[k]) = Folder(s[1])
                   /\ n < Len(s) /\ Folder(s[1]) # NoFolder => Folder(s[n + 1]) # Folder(s[1])
<1>1. Len(s) \in Nat /\ Len(s) > 0 OBVIOUS
<1>2. \E n \in 1..Len(s) : P(n)
  <2>1. CASE Folder(s[1]) = NoFolder
    <3>1. P(1) BY <2>1
    <3> QED BY <1>1, <3>1
  <2>2. CASE Folder(s[1]) # NoFolder
    <3> DEFINE S == {n \in 1..Len(s) : n = Len(s) \/ Folder(s[n + 1]) # Folder(s[1])}
    <3>1. Len(s) \in S /\ S \in SUBSET Nat BY <1>1
    <3>2. PICK m \in S : \A n \in S : m <= n
      <4> HIDE DEF S
      <4> QED BY <3>1, Least
    <3>3. ASSUME NEW k \in 1..m PROVE Folder(s[k]) = Folder(s[1])
      <4>1. CASE k = 1 BY <4>1
      <4>2. CASE k > 1
        <5>1. k - 1 \in 1..Len(s) /\ ~ (m <= k - 1) /\ k - 1 # Len(s) BY <1>1, <4>2, <3>2
        <5>2. k - 1 \notin S BY <3>2, <5>1
        <5>3. k - 1 + 1 = k OBVIOUS
        <5> QED BY <5>1, <5>2, <5>3
      <4> QED BY <4>1, <4>2
    <3>4. P(m) BY <2>2, <3>2, <3>3
    <3> QED BY <3>2, <3>4
  <2> QED BY <2>1, <2>2
<1>3. Together(s) = CHOOSE n \in 1..Len(s) : P(n) BY DEF Together
<1>4. Together(s) \in 1..Len(s) /\ P(Together(s)) 
  <2> HIDE DEF P
  <2> QED BY <1>2, <1>3
<1> QED BY <1>4

Ascending(s) == \A j, k \in DOMAIN s : j <= k => s[j] <= s[k]

\* FillFolderStartFileIndex and the loop that makes the entries: an entry is one
\* item without a folder, or the items of a folder up to the last one wanted.
LEMMA EntryRange ==
    ASSUME NEW s \in Seq(Items), s # <<>>, Ascending(s)
    PROVE  /\ EntryStart(s) \in Items /\ EntryEnd(s) \in Items
           /\ EntryStart(s) <= EntryEnd(s)
           /\ EntryEnd(s) = s[Together(s)]
           /\ Chosen(s) \subseteq EntryStart(s)..EntryEnd(s) /\ EntryEnd(s) \in Chosen(s)
           /\ \A i \in EntryStart(s)..EntryEnd(s) : i \in Items /\ Folder(i) = Folder(s[1])
           /\ Folder(s[1]) = NoFolder => EntryStart(s) = EntryEnd(s)
           /\ Folder(s[1]) # NoFolder =>
                 /\ EntryStart(s) = FolderStart(Folder(s[1]))
                 /\ Layout[EntryStart(s)].first = 0 /\ Size(EntryStart(s)) > 0
<1> DEFINE n == Together(s)
           b == EntryStart(s)
<1>1. /\ n \in 1..Len(s)
      /\ n > 1 => Folder(s[1]) # NoFolder
      /\ \A k \in 1..n : Folder(s[k]) = Folder(s[1])
  BY TogetherExists
<1>2. Len(s) \in Nat /\ Len(s) > 0 /\ DOMAIN s = 1..Len(s) OBVIOUS
<1>3. \A k \in 1..n : k \in DOMAIN s /\ s[k] \in Items BY <1>1, <1>2
<1>4. 1 \in DOMAIN s /\ 1 \in 1..n /\ n \in 1..n /\ n \in DOMAIN s BY <1>1, <1>2
<1>5. EntryEnd(s) = s[n] /\ Chosen(s) = {s[k] : k \in 1..n} BY DEF EntryEnd, Chosen
<1> HIDE DEF n
<1>6. \A k \in 1..n : s[1] <= s[k] /\ s[k] <= s[n]
  <2> TAKE k \in 1..n
  <2>1. 1 <= k /\ k <= n BY <1>1
  <2> QED BY <1>3, <1>4, <2>1 DEF Ascending
<1>7. CASE Folder(s[1]) = NoFolder
  <2>1. b = s[1] /\ n = 1 BY <1>1, <1>7 DEF EntryStart
  <2>2. s[1] \in Items /\ s[1] \in Nat BY <1>3, <1>4, ItemTypes
  <2>3. \A i \in b..s[n] : i = s[1] BY <2>1, <2>2
  <2>4. Chosen(s) = {s[1]} BY <1>5, <2>1
  <2> QED BY <1>5, <1>7, <2>1, <2>2, <2>3, <2>4 DEF n
<1>8. CASE Folder(s[1]) # NoFolder
  <2>1. b = FolderStart(Folder(s[1])) BY <1>8 DEF EntryStart
  <2>2. /\ b \in 1..s[1] /\ Folder(b) = Folder(s[1])
        /\ Layout[b].first = 0 /\ Size(b) > 0
    BY <1>3, <1>4, <1>8, <2>1, StartOfFolder
  <2> HIDE DEF b
  <2>3. \A k \in 1..n : s[k] \in Nat /\ b <= s[k] /\ s[k] <= s[n]
    <3> TAKE k \in 1..n
    <3>1. s[1] \in Nat /\ s[k] \in Nat /\ s[n] \in Nat BY <1>3, <1>4, ItemTypes
    <3> QED BY <1>6, <2>2, <3>1
  <2>4. b \in Items /\ s[n] \in Items
    <3>1. s[1] \in Items BY <1>3, <1>4
    <3>2. s[n] \in Items BY <1>3, <1>4
    <3> QED BY <2>2, <3>1, <3>2, ItemTypes
  <2>5. ASSUME NEW i \in b..s[n] PROVE i \in Items /\ Folder(i) = Folder(s[1])
    <3>1. i \in Items BY <2>4, ItemTypes
    <3>2. Folder(s[n]) = Folder(s[1]) BY <1>1, <1>4
    <3>3. Folder(i) = Folder(s[n]) BY <1>8, <2>2, <2>4, <3>2, FolderTogether
    <3> QED BY <3>1, <3>2, <3>3
  <2>6. Chosen(s) \subseteq b..s[n] /\ s[n] \in Chosen(s) /\ b <= s[n]
    <3>1. b \in Nat /\ s[n] \in Nat BY <2>4, ItemTypes
    <3>2. \A k \in 1..n : s[k] \in b..s[n] BY <2>3, <3>1
    <3> QED BY <1>4, <1>5, <2>3, <3>2
  <2>7. b = EntryStart(s) /\ n = Together(s) BY DEF b, n
  <2> QED BY <1>5, <1>8, <2>1, <2>2, <2>4, <2>5, <2>6, <2>7
<1> QED BY <1>7, <1>8

LEMMA EntryMade ==
    ASSUME NEW s \in Seq(Items), s # <<>>, Ascending(s), NEW e, e = EntryOf(s)
    PROVE  /\ e \in [start : Nat \ {0}, wanted : Seq(BOOLEAN)]
           /\ e.start = EntryStart(s) /\ e.wanted # <<>>
           /\ e.start + Len(e.wanted) - 1 = EntryEnd(s)
           /\ \A k \in DOMAIN e.wanted : e.wanted[k] => e.start + k - 1 \in Chosen(s)
<1> DEFINE b == EntryStart(s)
           n == EntryEnd(s) - EntryStart(s) + 1
           w == [k \in 1..n |-> b + k - 1 \in Chosen(s)]
<1>1. b \in Nat \ {0} /\ EntryEnd(s) \in Nat /\ b <= EntryEnd(s) BY EntryRange, ItemTypes
<1>2. e = [start |-> b, wanted |-> w] BY DEF EntryOf
<1>3. n \in Nat \ {0} /\ b + n - 1 = EntryEnd(s) BY <1>1
<1> HIDE DEF b, n
<1>4. w \in Seq(BOOLEAN) /\ Len(w) = n /\ DOMAIN w = 1..n /\ w # <<>>
  <2>1. w \in [1..n -> BOOLEAN] OBVIOUS
  <2>2. w \in Seq(BOOLEAN) BY <1>3, <2>1
  <2>3. DOMAIN w = 1..n OBVIOUS
  <2>4. Len(w) = n BY <1>3, <2>2, <2>3
  <2> QED BY <1>3, <2>2, <2>3, <2>4
<1>5. \A k \in DOMAIN w : w[k] => b + k - 1 \in Chosen(s) OBVIOUS
<1> HIDE DEF w
<1>6. e.start = b /\ e.wanted = w BY <1>2
<1>7. e \in [start : Nat \ {0}, wanted : Seq(BOOLEAN)] BY <1>1, <1>2, <1>4
<1> QED BY <1>3, <1>4, <1>5, <1>6, <1>7 DEF b

\* r is s without the indices that the entry took.
IsRest(r, s) ==
    /\ r \in Seq(Items) /\ Len(r) = Len(s) - Together(s)
    /\ \A k \in 1..(Len(s) - Together(s)) : r[k] = s[Together(s) + k]

LEMMA RestOf ==
    ASSUME NEW s \in Seq(Items), s # <<>>
    PROVE  IsRest(SubSeq(s, Together(s) + 1, Len(s)), s)
<1> DEFINE m == Together(s) + 1
           l == Len(s)
<1>1. /\ Together(s) \in Nat /\ l \in Nat /\ m \in Int /\ l \in Int
      /\ m = Together(s) + 1 /\ m <= l + 1
  BY TogetherExists
<1>2. \A i \in m..l : s[i] \in Items
  <2>1. 1 <= m BY <1>1
  <2> QED BY <1>1, <2>1
<1>3. SubSeq(s, m, l) = SubSeq(s, Together(s) + 1, Len(s)) OBVIOUS
<1>4. Len(s) = l OBVIOUS
<1> HIDE DEF m, l
<1>5. /\ SubSeq(s, m, l) \in Seq(Items)
      /\ Len(SubSeq(s, m, l)) = IF m <= l THEN l - m + 1 ELSE 0
      /\ \A i \in 1..(l - m + 1) : SubSeq(s, m, l)[i] = s[m + i - 1]
  BY <1>1, <1>2, SubSeqProperties
<1> DEFINE r == SubSeq(s, m, l)
           n == Together(s)
<1>6. /\ r \in Seq(Items) /\ Len(r) = IF m <= l THEN l - m + 1 ELSE 0
      /\ \A i \in 1..(l - m + 1) : r[i] = s[m + i - 1]
  BY <1>5
<1>7. n \in Nat /\ m = n + 1 /\ m <= l + 1 /\ l \in Nat BY <1>1
<1> HIDE DEF r, n
<1>8. Len(r) = l - n /\ l - m + 1 = l - n BY <1>6, <1>7
<1>9. \A k \in 1..(l - n) : r[k] = s[n + k]
  <2>1. \A k \in 1..(l - n) : m + k - 1 = n + k BY <1>7
  <2> QED BY <1>6, <1>8, <2>1
<1> QED BY <1>3, <1>4, <1>6, <1>8, <1>9 DEF r, n, IsRest

\* What is left of the list: it comes after the entry, in later folders.
LEMMA TodoLeft ==
    ASSUME NEW s \in Seq(Items), s # <<>>, Ascending(s),
           NEW r, IsRest(r, s)
    PROVE  /\ r \in Seq(Items) /\ Ascending(r)
           /\ \A k \in DOMAIN r :
                 /\ r[k] \in Elements(s) /\ r[k] >= EntryEnd(s)
                 /\ Folder(r[k]) # NoFolder => FolderStart(Folder(r[k])) > EntryEnd(s)
           /\ \A x \in Elements(s) : x \in Chosen(s) \/ x \in Elements(r)
<1> DEFINE n == Together(s)
           l == Len(s)
<1>1. /\ n \in 1..l
      /\ n > 1 => Folder(s[1]) # NoFolder
      /\ \A k \in 1..n : Folder(s[k]) = Folder(s[1])
      /\ n < l /\ Folder(s[1]) # NoFolder => Folder(s[n + 1]) # Folder(s[1])
  BY TogetherExists
<1>2. l \in Nat /\ DOMAIN s = 1..l /\ \A k \in 1..l : s[k] \in Items OBVIOUS
<1>3. EntryEnd(s) = s[n] /\ Chosen(s) = {s[k] : k \in 1..n} BY DEF EntryEnd, Chosen
<1>0. n \in Nat /\ l \in Nat /\ 1 <= n /\ n <= l BY <1>1, <1>2
<1>5. /\ r \in Seq(Items) /\ Len(r) = l - n
      /\ \A k \in 1..(l - n) : r[k] = s[n + k]
  BY DEF IsRest
<1> HIDE DEF n, l
<1>6. DOMAIN r = 1..(l - n) BY <1>5
<1>7. \A k \in DOMAIN r : n + k \in 1..l /\ r[k] = s[n + k] BY <1>0, <1>5, <1>6
<1>8. Ascending(r)
  <2> SUFFICES ASSUME NEW j \in DOMAIN r, NEW k \in DOMAIN r, j <= k PROVE r[j] <= r[k]
    BY DEF Ascending
  <2>1. n + j <= n + k BY <1>0, <1>6
  <2> QED BY <1>2, <1>7, <2>1 DEF Ascending
<1>9. ASSUME NEW k \in DOMAIN r PROVE r[k] \in Elements(s) /\ r[k] >= s[n]
  <2>1. n <= n + k /\ n \in 1..l BY <1>0, <1>6
  <2>2. s[n] <= r[k] BY <1>2, <1>7, <2>1 DEF Ascending
  <2>3. s[n] \in Nat /\ r[k] \in Nat BY <1>2, <1>7, <2>1, ItemTypes
  <2> QED BY <1>2, <1>7, <2>2, <2>3 DEF Elements
<1>10. ASSUME NEW k \in DOMAIN r, Folder(r[k]) # NoFolder
       PROVE  FolderStart(Folder(r[k])) > s[n]
  <2> DEFINE f == Folder(r[k])
             start == FolderStart(f)
  <2>1. /\ start \in 1..r[k] /\ Folder(start) = f
        /\ r[k] \in Items /\ s[n] \in Items /\ s[n + 1] \in Items
    <3>1. 1 <= n + 1 /\ n + 1 <= l BY <1>0, <1>6
    <3>2. r[k] \in Items /\ s[n] \in Items /\ s[n + 1] \in Items BY <1>0, <1>2, <1>7, <3>1
    <3> QED BY <1>10, <3>2, StartOfFolder
  <2>2. s[n] <= s[n + 1] /\ s[n + 1] <= r[k] /\ n < l
    <3>1. n \in 1..l /\ n + 1 \in 1..l /\ n <= n + 1 /\ n + 1 <= n + k /\ n < l
      BY <1>0, <1>6
    <3> QED BY <1>2, <1>7, <3>1 DEF Ascending
  <2>3. Folder(s[n]) = Folder(s[1]) BY <1>1
  <2>4. r[k] \in Nat /\ s[n] \in Nat /\ s[n + 1] \in Nat /\ start \in Nat BY <2>1, ItemTypes
  <2> HIDE DEF start
  <2>5. Folder(s[n]) # f
    <3> SUFFICES ASSUME Folder(s[n]) = f PROVE FALSE OBVIOUS
    <3>1. Folder(s[n + 1]) # f BY <1>1, <1>10, <2>2, <2>3
    <3>2. s[n + 1] \in s[n]..r[k] BY <2>2, <2>4
    <3>3. Folder(s[n + 1]) = Folder(r[k]) BY <1>10, <2>1, <3>2, FolderTogether
    <3> QED BY <3>1, <3>3
  <2>6. ~ (start <= s[n])
    <3> SUFFICES ASSUME start <= s[n] PROVE FALSE OBVIOUS
    <3>1. s[n] \in start..r[k] /\ start \in Items BY <2>1, <2>2, <2>4, ItemTypes
    <3>2. Folder(s[n]) = Folder(r[k]) BY <1>10, <2>1, <3>1, FolderTogether
    <3> QED BY <2>5, <3>2
  <2> QED BY <2>4, <2>6 DEF start
<1>11. ASSUME NEW x \in Elements(s) PROVE x \in Chosen(s) \/ x \in Elements(r)
  <2>1. PICK j \in 1..l : s[j] = x BY <1>2 DEF Elements
  <2>2. CASE j <= n
    <3>1. j \in 1..n BY <1>0, <2>2
    <3> QED BY <1>3, <2>1, <3>1
  <2>3. CASE j > n
    <3>1. j - n \in DOMAIN r /\ n + (j - n) = j BY <1>0, <1>6, <2>3
    <3>2. r[j - n] = x BY <1>7, <2>1, <3>1
    <3> QED BY <3>1, <3>2 DEF Elements
  <2> QED BY <1>0, <2>1, <2>2, <2>3
<1> QED BY <1>3, <1>5, <1>8, <1>9, <1>10, <1>11

-----------------------------------------------------------------------------
(* Steps that change only where the call is                                *)

\* The item at hand is one of the entry.
LEMMA AtHand ==
    ASSUME TypeOK, EntryAgrees
    PROVE  /\ Item \in Nat /\ Item >= 1 /\ entry.start \in Nat /\ entry.start >= 1
           /\ Last \in Nat /\ Len(entry.wanted) \in Nat /\ at \in Nat /\ at >= 1
           /\ Item = entry.start + at - 1 /\ Last = entry.start + Len(entry.wanted) - 1
           /\ ~More => at = Len(entry.wanted) + 1 /\ Item = Last + 1
           /\ More => /\ at \in DOMAIN entry.wanted /\ entry.wanted # <<>>
                      /\ Item \in entry.start..Last /\ Item \in Items
                      /\ IF Folder(entry.start) = NoFolder
                         THEN at = 1 /\ Item = Last /\ Item = entry.start /\ Size(Item) = 0
                         ELSE Folder(Item) = Folder(entry.start)
<1>1. entry.start \in Nat \ {0} /\ entry.wanted \in Seq(BOOLEAN)
  <2>1. entry \in [start : Nat \ {0}, wanted : Seq(BOOLEAN)] BY DEF TypeOK
  <2> QED BY <2>1
<1>2. Len(entry.wanted) \in Nat /\ at \in 1..(Len(entry.wanted) + 1) BY <1>1 DEF TypeOK
<1>3. Item = entry.start + at - 1 /\ Last = entry.start + Len(entry.wanted) - 1
  BY DEF Item, Last
<1>4. More <=> at <= Len(entry.wanted) BY DEF More
<1>5. ASSUME More
      PROVE  /\ at \in DOMAIN entry.wanted /\ entry.wanted # <<>>
             /\ Item \in entry.start..Last /\ Item \in Items
             /\ IF Folder(entry.start) = NoFolder
                THEN at = 1 /\ Item = Last /\ Item = entry.start /\ Size(Item) = 0
                ELSE Folder(Item) = Folder(entry.start)
  <2>1. at \in DOMAIN entry.wanted BY <1>1, <1>2, <1>4, <1>5
  <2>2. entry.wanted # <<>> BY <2>1
  <2>3. Item \in entry.start..Last BY <1>1, <1>2, <1>3, <1>4, <1>5
  <2>4. Last \in Items BY <2>2 DEF EntryAgrees
  <2>5. Item \in Items BY <1>1, <2>3, <2>4, ItemTypes
  <2>6. CASE Folder(entry.start) = NoFolder
    <3>1. Last = entry.start BY <2>2, <2>6 DEF EntryAgrees
    <3>2. Item = entry.start /\ at = 1 BY <1>1, <1>2, <1>3, <1>4, <1>5, <3>1
    <3>3. Size(Item) = 0 BY <2>5, <2>6, <3>2, ItemTypes
    <3> QED BY <2>1, <2>2, <2>3, <2>5, <2>6, <3>1, <3>2, <3>3
  <2>7. CASE Folder(entry.start) # NoFolder
    <3>1. Folder(Item) = Folder(entry.start) BY <2>2, <2>3, <2>7 DEF EntryAgrees
    <3> QED BY <2>1, <2>2, <2>3, <2>5, <2>7, <3>1
  <2> QED BY <2>6, <2>7
<1> QED BY <1>1, <1>2, <1>3, <1>4, <1>5

Fixed == UNCHANGED <<todo, entry, at, file, made, asked, sinks, stored, results, request, outcome>>

LEMMA KeptWhenFixed ==
    ASSUME IInv, Fixed, pc # "idle"
    PROVE  /\ EntryAgrees' /\ TodoAgrees' /\ Untouched' /\ OkMeansStored'
           /\ (sinks \subseteq request)'
           /\ Item' = Item /\ Last' = Last /\ More' = More /\ AllDone' = AllDone
           /\ outcome' # "returned"
           /\ \A i : Done(i)' = Done(i)
<1> USE DEF Fixed
<1>1. Item' = Item /\ Last' = Last /\ More' = More BY DEF Item, Last, More
<1>2. \A i : Done(i)' = Done(i) BY DEF Done
<1>3. AllDone' = AllDone BY DEF AllDone, Done
<1>4. EntryAgrees' BY <1>1 DEF IInv, EntryAgrees
<1>5. TodoAgrees' BY <1>1 DEF IInv, TodoAgrees
<1>6. Untouched' BY <1>1 DEF IInv, Untouched
<1>7. OkMeansStored' BY DEF IInv, OkMeansStored
<1>8. (sinks \subseteq request)' BY DEF IInv
<1>9. outcome' # "returned" BY DEF IInv, ControlAgrees
<1> QED BY <1>1, <1>2, <1>3, <1>4, <1>5, <1>6, <1>7, <1>8, <1>9

\* Extract of the handler ends with an error.
LEMMA Ending ==
    ASSUME IInv, TypeOK', Fixed, pc # "idle", pc' = "ending", recorded' \/ hresult' # "S_OK",
           phase' = "flush" => verdict' # "OK"
    PROVE  IInv'
<1>1. /\ Item' = Item /\ More' = More /\ outcome' # "returned" /\ ~InEntry' /\ ~InHandler'
      /\ file' = file /\ asked' = asked /\ stored' = stored /\ sinks' = sinks
  BY KeptWhenFixed DEF Fixed, InEntry, InHandler
<1>2. ControlAgrees' BY <1>1 DEF IInv, ControlAgrees
<1>3. AskedAgrees' BY <1>1 DEF IInv, AskedAgrees
<1>4. BytesAgree' BY <1>1 DEF IInv, BytesAgree
<1>5. RequestAgrees' BY <1>1 DEF RequestAgrees
<1> QED BY <1>2, <1>3, <1>4, <1>5, KeptWhenFixed DEF IInv

\* Damaged data: the rest of the entry will be reported.
LEMMA Flushing ==
    ASSUME IInv, TypeOK', Fixed, InEntry, pc' = "file", phase' = "flush", verdict' # "OK",
           file.open => ready' \/ recorded'
    PROVE  IInv'
<1>1. pc # "idle" /\ InHandler BY DEF InEntry, InHandler
<1>2. /\ Item' = Item /\ More' = More /\ Last' = Last /\ outcome' # "returned"
      /\ InEntry' /\ InHandler' /\ \A i : Done(i)' = Done(i)
      /\ file' = file /\ asked' = asked /\ stored' = stored /\ sinks' = sinks /\ at' = at
      /\ entry' = entry /\ todo' = todo /\ request' = request
  BY <1>1, KeptWhenFixed DEF Fixed, InEntry, InHandler
<1>3. ControlAgrees' BY <1>2 DEF IInv, ControlAgrees
<1>4. AskedAgrees' BY <1>2 DEF IInv, AskedAgrees
<1>5. BytesAgree' BY <1>2 DEF IInv, BytesAgree
<1>6. RequestAgrees' BY <1>1, <1>2 DEF IInv, RequestAgrees
<1> QED BY <1>1, <1>3, <1>4, <1>5, <1>6, KeptWhenFixed DEF IInv

\* The loop over the items of the entry is at its end.
LEMMA ToNext ==
    ASSUME IInv, TypeOK', Fixed, pc = "file", pc' = "next", ~file.open, ~More,
           UNCHANGED <<phase, verdict>>
    PROVE  IInv'
<1>1. pc # "idle" /\ InHandler /\ InEntry BY DEF InEntry, InHandler
<1>2. /\ Item' = Item /\ More' = More /\ Last' = Last /\ outcome' # "returned"
      /\ ~InEntry' /\ InHandler' /\ \A i : Done(i)' = Done(i)
      /\ file' = file /\ asked' = asked /\ stored' = stored /\ sinks' = sinks /\ at' = at
      /\ entry' = entry /\ todo' = todo /\ request' = request
  BY <1>1, KeptWhenFixed DEF Fixed, InEntry, InHandler
<1>3. ControlAgrees' BY <1>1, <1>2 DEF IInv, ControlAgrees
<1>4. AskedAgrees' BY <1>1, <1>2 DEF IInv, AskedAgrees
<1>5. BytesAgree' BY <1>2 DEF IInv, BytesAgree
<1>6. RequestAgrees' BY <1>1, <1>2 DEF IInv, RequestAgrees
<1> QED BY <1>1, <1>3, <1>4, <1>5, <1>6, KeptWhenFixed DEF IInv

LEMMA FixedTypes ==
    ASSUME TypeOK, Fixed, UNCHANGED mode,
           pc' \in {"idle", "total", "next", "file", "prepare", "ending"},
           phase' \in {"init", "decode", "flush"}, verdict' \in Results \ {"CRCERROR"},
           hresult' \in {"S_OK", "S_FALSE", "E_FAIL"}, ready' \in BOOLEAN,
           recorded' \in BOOLEAN, faults' \in 0..MaxFaults
    PROVE  TypeOK'
BY DEF TypeOK, Fixed

LEMMA FaultTypes ==
    ASSUME TypeOK
    PROVE  /\ NoFault => faults' \in 0..MaxFaults /\ recorded' = recorded /\ recorded' \in BOOLEAN
           /\ \A kind : Recorded(kind) => faults' \in 0..MaxFaults /\ recorded' = TRUE
           /\ \A kind : Fault(kind) => faults' \in 0..MaxFaults
<1>1. MaxFaults \in Nat /\ faults \in 0..MaxFaults /\ recorded \in BOOLEAN
  BY CallerAssumption DEF TypeOK
<1>2. \A kind : Fault(kind) => faults' \in 0..MaxFaults BY <1>1 DEF Fault
<1> QED BY <1>1, <1>2 DEF NoFault, Recorded

\* A call of Java that came back with S_FALSE, and changed nothing else.
LEMMA FailedKeeps ==
    ASSUME IInv, Failed, Fixed, UNCHANGED <<mode, ready>>, pc # "idle",
           recorded' = TRUE, faults' \in 0..MaxFaults
    PROVE  IInv'
<1>1. TypeOK /\ (phase = "flush" => verdict # "OK") BY DEF IInv, ControlAgrees
<1>2. /\ phase \in {"init", "decode", "flush"} /\ verdict \in Results \ {"CRCERROR"}
      /\ hresult \in {"S_OK", "S_FALSE", "E_FAIL"} /\ ready \in BOOLEAN
  BY <1>1 DEF TypeOK
<1>3. CASE pc \in {"file", "prepare"} /\ phase = "decode"
  <2>1. /\ pc' = "file" /\ phase' = "flush" /\ verdict' = "DATAERROR" /\ hresult' = hresult
    BY <1>3 DEF Failed
  <2>2. TypeOK' BY <1>1, <1>2, <2>1, FixedTypes DEF Results
  <2>3. InEntry BY <1>3 DEF InEntry
  <2> QED BY <2>1, <2>2, <2>3, Flushing
<1>4. CASE ~ (pc \in {"file", "prepare"} /\ phase = "decode")
  <2>1. pc' = "ending" /\ hresult' = "S_FALSE" /\ phase' = phase /\ verdict' = verdict
    BY <1>4 DEF Failed
  <2>2. TypeOK' BY <1>1, <1>2, <2>1, FixedTypes
  <2> QED BY <1>1, <2>1, <2>2, Ending
<1> QED BY <1>3, <1>4

LEMMA SetTotalKeeps == ASSUME IInv, SetTotal PROVE IInv'
<1>1. /\ TypeOK /\ pc = "total" /\ Fixed /\ UNCHANGED <<mode, ready>>
      /\ phase \in {"init", "decode", "flush"} /\ verdict \in Results \ {"CRCERROR"}
      /\ hresult \in {"S_OK", "S_FALSE", "E_FAIL"} /\ ready \in BOOLEAN
  BY DEF IInv, SetTotal, Fixed, TypeOK, seen
<1>2. CASE pc' = "next" /\ NoFault /\ UNCHANGED <<phase, verdict, hresult>>
  <2>1. TypeOK' BY <1>1, <1>2, FaultTypes, FixedTypes
  <2>2. /\ Item' = Item /\ More' = More /\ Last' = Last /\ outcome' # "returned"
        /\ ~InEntry' /\ InHandler /\ InHandler' /\ \A i : Done(i)' = Done(i)
        /\ file' = file /\ asked' = asked /\ stored' = stored /\ sinks' = sinks /\ at' = at
        /\ entry' = entry /\ todo' = todo /\ request' = request
    BY <1>1, <1>2, KeptWhenFixed DEF Fixed, InEntry, InHandler
  <2>3. entry = NoEntry /\ at = 1 /\ file = NoFile /\ todo # <<>> /\ asked = 0
    BY <1>1 DEF IInv, ControlAgrees
  <2>4. ~file.open /\ ~More /\ Item = 1
    <3>1. entry.start = 1 /\ entry.wanted = <<>> /\ Len(entry.wanted) = 0 BY <2>3 DEF NoEntry
    <3> QED BY <2>3, <3>1 DEF NoFile, More, Item
  <2>5. ControlAgrees' BY <1>1, <1>2, <2>2, <2>3, <2>4 DEF IInv, ControlAgrees
  <2>6. AskedAgrees' BY <1>1, <1>2, <2>2, <2>3, <2>4 DEF AskedAgrees
  <2>7. BytesAgree' BY <2>2, <2>4 DEF BytesAgree
  <2>8. RequestAgrees' BY <1>1, <1>2, <2>2 DEF IInv, RequestAgrees
  <2> QED BY <1>1, <2>1, <2>5, <2>6, <2>7, <2>8, KeptWhenFixed DEF IInv
<1>3. CASE Recorded("progress") /\ Failed
  BY <1>1, <1>3, FailedKeeps, FaultTypes
<1> QED BY <1>2, <1>3 DEF SetTotal

LEMMA BeginDecodeKeeps == ASSUME IInv, BeginDecode PROVE IInv'
<1>1. /\ TypeOK /\ EntryAgrees /\ pc = "file" /\ phase = "init" /\ InEntry
      /\ ~file.open /\ ~EmptyNext /\ Fixed /\ UNCHANGED <<mode, ready>>
      /\ verdict \in Results \ {"CRCERROR"} /\ recorded \in BOOLEAN
      /\ hresult \in {"S_OK", "S_FALSE", "E_FAIL"} /\ ready \in BOOLEAN
  BY DEF IInv, BeginDecode, Fixed, TypeOK, seen, InEntry
<1>2. CASE Folder(entry.start) = NoFolder /\ pc' = "next" /\ NoFault
           /\ UNCHANGED <<phase, verdict, hresult>>
  <2>1. TypeOK' BY <1>1, <1>2, FaultTypes, FixedTypes
  <2>2. ~More BY <1>1, <1>2, AtHand DEF EmptyNext
  <2> QED BY <1>1, <1>2, <2>1, <2>2, ToNext
<1>3. CASE Folder(entry.start) # NoFolder /\ phase' = "decode" /\ NoFault
           /\ UNCHANGED <<pc, verdict, hresult>>
  <2>1. TypeOK' BY <1>1, <1>3, FaultTypes, FixedTypes
  <2>2. /\ Item' = Item /\ More' = More /\ Last' = Last /\ outcome' # "returned"
        /\ InEntry' /\ InHandler /\ InHandler' /\ \A i : Done(i)' = Done(i) /\ made' = made
        /\ file' = file /\ asked' = asked /\ stored' = stored /\ sinks' = sinks /\ at' = at
        /\ entry' = entry /\ todo' = todo /\ request' = request
    BY <1>1, <1>3, KeptWhenFixed DEF Fixed, InEntry, InHandler
  <2>3. at = 1 /\ made = 0 BY <1>1, <1>3 DEF IInv, BytesAgree
  <2>4. Item = entry.start /\ Layout[entry.start].first = 0
    <3>1. entry.wanted # <<>> BY <1>1 DEF IInv, ControlAgrees
    <3> QED BY <1>1, <1>3, <2>3, <3>1, AtHand DEF EntryAgrees
  <2>5. ControlAgrees' BY <1>1, <1>3, <2>2 DEF IInv, ControlAgrees
  <2>6. AskedAgrees' BY <1>1, <1>3, <2>2 DEF IInv, AskedAgrees
  <2>7. BytesAgree' BY <1>1, <1>3, <2>2, <2>3, <2>4 DEF BytesAgree
  <2>8. RequestAgrees' BY <1>1, <1>3, <2>2 DEF IInv, RequestAgrees
  <2> QED BY <1>1, <2>1, <2>5, <2>6, <2>7, <2>8, KeptWhenFixed DEF IInv
<1>4. ASSUME phase' = "flush", verdict' \in {"DATAERROR", "UNSUPPORTEDMETHOD"},
             UNCHANGED <<pc, hresult>>, recorded' \in BOOLEAN, faults' \in 0..MaxFaults
      PROVE  IInv'
  <2>1. TypeOK' BY <1>1, <1>4, FixedTypes DEF Results
  <2> QED BY <1>1, <1>4, <2>1, Flushing
<1>5. CASE Folder(entry.start) # NoFolder /\ Recorded("password") /\ phase' = "flush"
           /\ verdict' = "DATAERROR" /\ UNCHANGED <<pc, hresult>>
  BY <1>1, <1>4, <1>5, FaultTypes
<1>6. CASE Fault("unsupported") /\ UNCHANGED <<recorded, pc, hresult>>
           /\ phase' = "flush" /\ verdict' = "UNSUPPORTEDMETHOD"
  BY <1>1, <1>4, <1>6, FaultTypes
<1>7. CASE Fault("fatal") /\ UNCHANGED <<recorded, phase, verdict>>
           /\ pc' = "ending" /\ hresult' = "E_FAIL"
  <2>1. TypeOK' BY <1>1, <1>7, FaultTypes, FixedTypes
  <2> QED BY <1>1, <1>7, <2>1, Ending
<1> QED BY <1>2, <1>3, <1>5, <1>6, <1>7 DEF BeginDecode

LEMMA EndDecodeKeeps == ASSUME IInv, EndDecode PROVE IInv'
<1>1. /\ TypeOK /\ EntryAgrees /\ pc = "file" /\ phase = "decode" /\ InEntry
      /\ Fixed /\ UNCHANGED <<mode, ready>>
      /\ verdict \in Results \ {"CRCERROR"} /\ recorded \in BOOLEAN
      /\ hresult \in {"S_OK", "S_FALSE", "E_FAIL"} /\ ready \in BOOLEAN
  BY DEF IInv, EndDecode, Decoding, Fixed, TypeOK, seen, InEntry
<1>2. CASE Finished /\ pc' = "next" /\ NoFault /\ UNCHANGED <<phase, verdict, hresult>>
  <2>1. TypeOK' BY <1>1, <1>2, FaultTypes, FixedTypes
  <2>2. ~More BY <1>2 DEF Finished
  <2>3. ~file.open BY <2>2 DEF IInv, ControlAgrees
  <2> QED BY <1>1, <1>2, <2>1, <2>2, <2>3, ToNext
<1>3. CASE /\ \/ Recorded("progress")
              \/ Fault("damaged") /\ UNCHANGED recorded
              \/ ~Finished /\ Fault("short") /\ UNCHANGED recorded
           /\ phase' = "flush" /\ verdict' = "DATAERROR" /\ UNCHANGED <<pc, hresult>>
  <2>1. faults' \in 0..MaxFaults /\ recorded' \in BOOLEAN /\ (recorded' = recorded \/ recorded' = TRUE)
    BY <1>1, <1>3, FaultTypes
  <2>2. TypeOK' BY <1>1, <1>3, <2>1, FixedTypes DEF Results
  <2>3. file.open => ready' \/ recorded' BY <1>1, <2>1 DEF IInv, ControlAgrees
  <2> QED BY <1>1, <1>3, <2>2, <2>3, Flushing
<1>4. CASE Fault("fatal") /\ pc' = "ending" /\ hresult' = "E_FAIL"
           /\ UNCHANGED <<recorded, phase, verdict>>
  <2>1. TypeOK' BY <1>1, <1>4, FaultTypes, FixedTypes
  <2> QED BY <1>1, <1>4, <2>1, Ending
<1> QED BY <1>2, <1>3, <1>4 DEF EndDecode

LEMMA EndFlushKeeps == ASSUME IInv, EndFlush PROVE IInv'
<1>1. /\ pc = "file" /\ pc' = "next" /\ ~file.open /\ ~More /\ Fixed
      /\ UNCHANGED <<mode, ready, phase, verdict, hresult, recorded, faults>>
  BY DEF EndFlush, Fixed, seen
<1>2. TypeOK' BY <1>1 DEF IInv, TypeOK, Fixed
<1> QED BY <1>1, <1>2, ToNext

LEMMA PrepareKeeps == ASSUME IInv, Prepare PROVE IInv'
<1>1. /\ TypeOK /\ pc = "prepare" /\ Fixed /\ UNCHANGED mode /\ InEntry
      /\ phase \in {"init", "decode", "flush"} /\ verdict \in Results \ {"CRCERROR"}
      /\ hresult \in {"S_OK", "S_FALSE", "E_FAIL"} /\ ready \in BOOLEAN
  BY DEF IInv, Prepare, Fixed, TypeOK, InEntry
<1>2. CASE pc' = "file" /\ ready' = TRUE /\ NoFault /\ UNCHANGED <<phase, verdict, hresult>>
  <2>1. TypeOK' BY <1>1, <1>2, FaultTypes, FixedTypes
  <2>2. /\ Item' = Item /\ More' = More /\ Last' = Last /\ outcome' # "returned"
        /\ InEntry' /\ InHandler /\ InHandler' /\ \A i : Done(i)' = Done(i) /\ made' = made
        /\ file' = file /\ asked' = asked /\ stored' = stored /\ sinks' = sinks /\ at' = at
        /\ entry' = entry /\ todo' = todo /\ request' = request
    BY <1>1, <1>2, KeptWhenFixed DEF Fixed, InEntry, InHandler
  <2>3. ControlAgrees' BY <1>1, <1>2, <2>2 DEF IInv, ControlAgrees
  <2>4. AskedAgrees' BY <1>1, <1>2, <2>2 DEF IInv, AskedAgrees
  <2>5. BytesAgree' BY <1>1, <1>2, <2>2 DEF IInv, BytesAgree
  <2>6. RequestAgrees' BY <1>1, <1>2, <2>2 DEF IInv, RequestAgrees
  <2> QED BY <1>1, <2>1, <2>3, <2>4, <2>5, <2>6, KeptWhenFixed DEF IInv
<1>3. CASE Recorded("prepareOperation") /\ Failed /\ UNCHANGED ready
  BY <1>1, <1>3, FailedKeeps, FaultTypes
<1> QED BY <1>2, <1>3 DEF Prepare

-----------------------------------------------------------------------------
(* The beginning and the end of a native call                              *)

LEMMA NothingAtHand ==
    /\ NoEntry \in [start : Nat \ {0}, wanted : Seq(BOOLEAN)]
    /\ NoEntry.start = 1 /\ NoEntry.wanted = <<>> /\ Len(NoEntry.wanted) = 0
    /\ NoFile \in [open : BOOLEAN, rem : Nat, sink : BOOLEAN, intact : BOOLEAN]
    /\ ~NoFile.open /\ "OK" \in Results \ {"CRCERROR"}
<1>1. <<>> \in Seq(BOOLEAN) OBVIOUS
<1> QED BY <1>1 DEF NoEntry, NoFile, Results

LEMMA InitKeeps == ASSUME Init PROVE IInv
<1>1. /\ entry.start = 1 /\ entry.wanted = <<>> /\ Len(entry.wanted) = 0 /\ ~file.open
      /\ ~InEntry /\ ~InHandler /\ DOMAIN todo = {} /\ DOMAIN entry.wanted = {}
  BY NothingAtHand DEF Init, InEntry, InHandler
<1>2. TypeOK
  <2>1. todo \in Seq(Items) BY DEF Init
  <2>2. [i \in Items |-> <<>>] \in [Items -> Seq(Nat)] OBVIOUS
  <2>3. [i \in Items |-> <<>>] \in [Items -> Seq(Results)] OBVIOUS
  <2>4. 0 \in 0..MaxFaults BY CallerAssumption
  <2>5. at \in 1..(Len(entry.wanted) + 1) BY <1>1 DEF Init
  <2>6. /\ entry \in [start : Nat \ {0}, wanted : Seq(BOOLEAN)]
        /\ file \in [open : BOOLEAN, rem : Nat, sink : BOOLEAN, intact : BOOLEAN]
        /\ verdict \in Results \ {"CRCERROR"}
    BY NothingAtHand DEF Init
  <2>7. stored \in [Items -> Seq(Nat)] /\ results \in [Items -> Seq(Results)]
    BY <2>2, <2>3 DEF Init
  <2> QED BY <2>1, <2>4, <2>5, <2>6, <2>7 DEF Init, TypeOK, Modes
<1>3. ControlAgrees BY <1>1 DEF Init, ControlAgrees
<1>4. EntryAgrees BY <1>1 DEF EntryAgrees
<1>5. TodoAgrees BY <1>1 DEF TodoAgrees
<1>6. AskedAgrees BY <1>1 DEF Init, AskedAgrees
<1>7. Untouched BY DEF Init, Untouched
<1>8. BytesAgree BY <1>1 DEF BytesAgree
<1>9. RequestAgrees BY <1>1 DEF Init, RequestAgrees
<1>10. OkMeansStored /\ sinks \subseteq request BY DEF Init, OkMeansStored
<1> QED BY <1>2, <1>3, <1>4, <1>5, <1>6, <1>7, <1>8, <1>9, <1>10 DEF IInv

LEMMA ReturnKeeps == ASSUME IInv, Return PROVE IInv'
<1>1. /\ pc = "ending" /\ pc' = "idle" /\ phase' = "init" /\ todo' = <<>> /\ entry' = NoEntry
      /\ at' = 1 /\ file' = NoFile /\ made' = 0 /\ verdict' = "OK" /\ recorded' = FALSE
      /\ outcome' = IF recorded \/ hresult # "S_OK" THEN "thrown" ELSE "returned"
      /\ UNCHANGED <<mode, hresult, faults, request, asked, ready, sinks, stored, results>>
  BY DEF Return, seen
<1>2. /\ entry'.start = 1 /\ entry'.wanted = <<>> /\ Len(entry'.wanted) = 0 /\ ~file'.open
      /\ ~InEntry' /\ ~InHandler' /\ DOMAIN todo' = {} /\ DOMAIN entry'.wanted = {}
  BY <1>1, NothingAtHand DEF InEntry, InHandler
<1>3. TypeOK'
  <2>1. todo' \in Seq(Items) BY <1>1
  <2>2. at' \in 1..(Len(entry'.wanted) + 1) BY <1>1, <1>2
  <2>3. /\ entry' \in [start : Nat \ {0}, wanted : Seq(BOOLEAN)]
        /\ file' \in [open : BOOLEAN, rem : Nat, sink : BOOLEAN, intact : BOOLEAN]
        /\ verdict' \in Results \ {"CRCERROR"}
    BY <1>1, NothingAtHand
  <2> QED BY <1>1, <2>1, <2>2, <2>3 DEF IInv, TypeOK
<1>4. ControlAgrees' BY <1>1, <1>2 DEF ControlAgrees
<1>5. EntryAgrees' BY <1>2 DEF EntryAgrees
<1>6. TodoAgrees' BY <1>2 DEF TodoAgrees
<1>7. AskedAgrees' BY <1>1, <1>2 DEF AskedAgrees
<1>8. Untouched' BY <1>1 DEF IInv, Untouched
<1>9. BytesAgree' BY <1>2 DEF BytesAgree
<1>10. RequestAgrees'
  <2>1. AllDone' = AllDone BY <1>1 DEF AllDone, Done
  <2>2. outcome' = "returned" => hresult = "S_OK" /\ ~recorded BY <1>1
  <2>3. outcome' = "returned" => AllDone BY <1>1, <2>2 DEF IInv, RequestAgrees
  <2> QED BY <1>1, <1>2, <2>1, <2>3 DEF RequestAgrees
<1>11. OkMeansStored' /\ (sinks \subseteq request)' BY <1>1 DEF IInv, OkMeansStored
<1> QED BY <1>3, <1>4, <1>5, <1>6, <1>7, <1>8, <1>9, <1>10, <1>11 DEF IInv

LEMMA ExtractKeeps ==
    ASSUME IInv, NEW indices \in Requests \cup {[i \in Items |-> i]}, NEW askMode \in Modes,
           Extract(indices, askMode)
    PROVE  IInv'
<1>1. indices \in Seq(Int)
  <2>1. [i \in Items |-> i] \in Seq(Int)
    <3>1. [i \in Items |-> i] \in [1..Len(Layout) -> Int] BY ItemTypes
    <3> QED BY <3>1, ItemTypes
  <2> QED BY <2>1, CallerAssumption
<1>2. /\ pc = "idle" /\ faults' = 0 /\ mode' = askMode /\ asked' = 0 /\ ready' = FALSE
      /\ sinks' = {} /\ stored' = [i \in Items |-> <<>>] /\ results' = [i \in Items |-> <<>>]
      /\ request' = {indices[k] : k \in 1..Len(indices)}
      /\ hresult' = "S_OK" /\ outcome' = "none"
      /\ UNCHANGED <<phase, entry, at, file, made, verdict>>
  BY DEF Extract
<1>3. /\ TypeOK /\ entry = NoEntry /\ at = 1 /\ file = NoFile /\ todo = <<>>
      /\ (phase = "flush" => verdict # "OK")
  BY <1>2 DEF IInv, ControlAgrees
<1>4. /\ entry'.start = 1 /\ entry'.wanted = <<>> /\ Len(entry'.wanted) = 0 /\ ~file'.open
      /\ DOMAIN entry'.wanted = {} /\ Last' = 0
  <2>1. /\ entry'.start = 1 /\ entry'.wanted = <<>> /\ Len(entry'.wanted) = 0 /\ ~file'.open
    BY <1>2, <1>3, NothingAtHand
  <2> QED BY <2>1 DEF Last
\* The three ways: nothing to do, indices that are refused, indices to extract.
<1>5. /\ todo' \in Seq(Items) /\ Ascending(todo') /\ recorded' \in BOOLEAN
      /\ \A k \in DOMAIN todo' : todo'[k] \in request' /\ todo'[k] \in Items
      /\ \/ pc' = "ending" /\ (recorded' = FALSE => request' = {})
         \/ /\ pc' = "total" /\ todo' # <<>> /\ request' \subseteq Items
            /\ \A i \in request' : \E k \in DOMAIN todo' : todo'[k] = i
  <2>1. CASE request' \subseteq Items
    <3>1. indices \in Seq(Items)
      <4>1. \A k \in 1..Len(indices) : indices[k] \in Items BY <1>2, <2>1
      <4> QED BY <1>1, <4>1
    <3>2. todo' = Sorted(indices) /\ recorded' = FALSE
          /\ pc' = (IF indices = <<>> THEN "ending" ELSE "total")
      BY <2>1 DEF Extract
    <3>3. /\ todo' \in Seq(Items) /\ Len(todo') = Len(indices) /\ Ascending(todo')
          /\ Elements(todo') = Elements(indices)
      BY <3>1, <3>2, SortedProperties DEF Ascending
    <3>4. request' = Elements(indices) /\ DOMAIN indices = 1..Len(indices)
      BY <1>1, <1>2 DEF Elements
    <3>5. \A k \in DOMAIN todo' : todo'[k] \in request' BY <3>3, <3>4 DEF Elements
    <3>6. \A i \in request' : \E k \in DOMAIN todo' : todo'[k] = i BY <3>3, <3>4 DEF Elements
    <3>7. CASE indices = <<>>
      <4>1. request' = {} BY <1>2, <3>7
      <4> QED BY <2>1, <3>2, <3>3, <3>5, <3>7, <4>1
    <3>8. CASE indices # <<>>
      <4>1. todo' # <<>>
        <5>1. Len(indices) # 0 BY <3>1, <3>8
        <5> QED BY <3>3, <5>1
      <4> QED BY <2>1, <3>2, <3>3, <3>5, <3>6, <3>8, <4>1
    <3> QED BY <3>7, <3>8
  <2>2. CASE ~ (request' \subseteq Items)
    <3>1. todo' = <<>> /\ recorded' = TRUE /\ pc' = "ending" BY <1>3, <2>2 DEF Extract
    <3> QED BY <3>1 DEF Ascending
  <2> QED BY <2>1, <2>2
<1>6. TypeOK'
  <2>1. [i \in Items |-> <<>>] \in [Items -> Seq(Nat)] OBVIOUS
  <2>2. [i \in Items |-> <<>>] \in [Items -> Seq(Results)] OBVIOUS
  <2>3. 0 \in 0..MaxFaults BY CallerAssumption
  <2>4. request' \subseteq Int BY <1>1, <1>2
  <2>5. pc' \in {"idle", "total", "next", "file", "prepare", "ending"} BY <1>5
  <2> QED BY <1>2, <1>3, <1>5, <2>1, <2>2, <2>3, <2>4, <2>5 DEF TypeOK
<1>7. ~InEntry' /\ pc' # "next" /\ pc' # "idle" BY <1>5 DEF InEntry
<1>8. ControlAgrees' BY <1>2, <1>3, <1>4, <1>5, <1>7 DEF ControlAgrees
<1>9. EntryAgrees' BY <1>4 DEF EntryAgrees
<1>10. TodoAgrees'
  <2>1. ASSUME NEW k \in DOMAIN todo'
        PROVE  /\ todo'[k] \in request' /\ todo'[k] >= Last'
               /\ Folder(todo'[k]) # NoFolder => FolderStart(Folder(todo'[k])) > Last'
    <3>1. todo'[k] \in Items /\ todo'[k] \in Nat BY <1>5, ItemTypes
    <3>2. ASSUME Folder(todo'[k]) # NoFolder
          PROVE  FolderStart(Folder(todo'[k])) > 0
      <4>1. FolderStart(Folder(todo'[k])) \in 1..todo'[k] BY <3>1, <3>2, StartOfFolder
      <4> QED BY <3>1, <4>1
    <3> QED BY <1>4, <1>5, <3>1, <3>2
  <2> QED BY <1>5, <2>1 DEF TodoAgrees, Ascending
<1>11. AskedAgrees' BY <1>4, <1>7 DEF AskedAgrees
<1>12. Untouched' BY <1>2 DEF Untouched
<1>13. BytesAgree' BY <1>4, <1>7 DEF BytesAgree
<1>14. RequestAgrees'
  <2>1. pc' = "ending" /\ ~recorded' => AllDone' BY <1>5 DEF AllDone
  <2> QED BY <1>2, <1>5, <1>7, <2>1 DEF RequestAgrees, InHandler
<1>15. OkMeansStored' /\ (sinks \subseteq request)' BY <1>2 DEF OkMeansStored
<1> QED BY <1>6, <1>8, <1>9, <1>10, <1>11, <1>12, <1>13, <1>14, <1>15 DEF IInv

-----------------------------------------------------------------------------
(* The loop over the entries                                               *)

LEMMA NoMoreEntries ==
    ASSUME IInv, pc = "next", todo = <<>>, pc' = "ending", Fixed, NoFault,
           UNCHANGED <<mode, ready, phase, verdict, hresult>>
    PROVE  IInv'
<1>1. TypeOK /\ EntryAgrees /\ ~file.open /\ ~More /\ entry.wanted # <<>> /\ InHandler
  BY DEF IInv, ControlAgrees, InHandler
<1>2. at = Len(entry.wanted) + 1 /\ Item = Last + 1 /\ Last \in Nat /\ at \in Nat
  BY <1>1, AtHand
<1>3. Last \in request BY <1>1 DEF EntryAgrees
<1>4. asked = Last
  <2>1. at > 1
    <3>1. entry.wanted \in Seq(BOOLEAN)
      <4>1. entry \in [start : Nat \ {0}, wanted : Seq(BOOLEAN)] BY <1>1 DEF TypeOK
      <4> QED BY <4>1
    <3>2. Len(entry.wanted) \in Nat /\ Len(entry.wanted) # 0 BY <1>1, <3>1
    <3> QED BY <1>2, <3>2
  <2>2. asked = Item - 1 BY <1>1, <2>1 DEF IInv, AskedAgrees
  <2> QED BY <1>2, <2>2
<1>5. AllDone
  <2>1. ~ \E k \in DOMAIN todo : TRUE OBVIOUS
  <2>2. \A i : i \notin Item..Last BY <1>2
  <2>3. request \subseteq Items /\ \A i \in request : Done(i)
    BY <1>1, <2>1, <2>2 DEF IInv, RequestAgrees
  <2> QED BY <1>3, <1>4, <2>3 DEF AllDone
<1>6. /\ phase \in {"init", "decode", "flush"} /\ verdict \in Results \ {"CRCERROR"}
      /\ hresult \in {"S_OK", "S_FALSE", "E_FAIL"} /\ ready \in BOOLEAN
  BY <1>1 DEF TypeOK
<1>7. TypeOK' BY <1>1, <1>6, FaultTypes, FixedTypes
<1>8. /\ Item' = Item /\ More' = More /\ Last' = Last /\ outcome' # "returned"
      /\ ~InEntry' /\ ~InHandler' /\ AllDone' = AllDone
      /\ file' = file /\ asked' = asked /\ stored' = stored /\ sinks' = sinks
  BY KeptWhenFixed DEF Fixed, InEntry, InHandler
<1>9. ControlAgrees' BY <1>1, <1>8 DEF IInv, ControlAgrees
<1>10. AskedAgrees' BY <1>1, <1>8 DEF AskedAgrees
<1>11. BytesAgree' BY <1>1, <1>8 DEF BytesAgree
<1>12. RequestAgrees' BY <1>5, <1>8 DEF RequestAgrees
<1> QED BY <1>7, <1>9, <1>10, <1>11, <1>12, KeptWhenFixed DEF IInv

LEMMA EntryBegins ==
    ASSUME IInv, pc = "next", todo # <<>>, NoFault,
           entry' = EntryOf(todo), todo' = SubSeq(todo, Together(todo) + 1, Len(todo)),
           pc' = "file", phase' = "init", at' = 1, file' = NoFile, made' = 0,
           UNCHANGED <<verdict, hresult, mode, seen, request, outcome>>
    PROVE  IInv'
<1>1. /\ TypeOK /\ EntryAgrees /\ ~file.open /\ ~More /\ InHandler /\ pc # "idle" /\ ~InEntry
      /\ outcome # "returned" /\ InEntry' /\ InHandler'
      /\ UNCHANGED <<asked, ready, sinks, stored, results>>
  BY DEF IInv, ControlAgrees, InHandler, InEntry, seen
<1>2. /\ at = Len(entry.wanted) + 1 /\ Item = Last + 1 /\ Last \in Nat /\ at \in Nat
      /\ Len(entry.wanted) \in Nat
  BY <1>1, AtHand
<1>3. todo \in Seq(Items) /\ Ascending(todo) BY <1>1 DEF IInv, TypeOK, TodoAgrees, Ascending
<1>4. Elements(todo) \subseteq request BY DEF IInv, TodoAgrees, Elements
<1> DEFINE b == EntryStart(todo)
           last == EntryEnd(todo)
<1>5. /\ b \in Items /\ last \in Items /\ b <= last /\ b \in Nat /\ last \in Nat
      /\ Chosen(todo) \subseteq b..last /\ last \in Chosen(todo)
      /\ \A i \in b..last : i \in Items /\ Folder(i) = Folder(todo[1])
      /\ Folder(todo[1]) = NoFolder => b = last /\ b = todo[1]
      /\ Folder(todo[1]) # NoFolder =>
            b = FolderStart(Folder(todo[1])) /\ Layout[b].first = 0 /\ Size(b) > 0
  BY <1>3, EntryRange, ItemTypes DEF EntryStart
<1>6. /\ entry' \in [start : Nat \ {0}, wanted : Seq(BOOLEAN)]
      /\ entry'.start = b /\ entry'.wanted # <<>> /\ entry'.start + Len(entry'.wanted) - 1 = last
      /\ \A k \in DOMAIN entry'.wanted : entry'.wanted[k] => entry'.start + k - 1 \in Chosen(todo)
  BY <1>3, EntryMade
<1>7. /\ todo' \in Seq(Items) /\ Ascending(todo')
      /\ \A k \in DOMAIN todo' :
            /\ todo'[k] \in Elements(todo) /\ todo'[k] >= last
            /\ Folder(todo'[k]) # NoFolder => FolderStart(Folder(todo'[k])) > last
      /\ \A x \in Elements(todo) : x \in Chosen(todo) \/ x \in Elements(todo')
  <2>1. IsRest(todo', todo) BY <1>3, RestOf
  <2> QED BY <1>3, <2>1, TodoLeft
<1>8. Chosen(todo) \subseteq request
  <2>1. Chosen(todo) \subseteq Elements(todo)
    <3>1. Together(todo) \in 1..Len(todo) BY <1>3, TogetherExists
    <3> QED BY <1>3, <3>1 DEF Chosen, Elements
  <2> QED BY <1>4, <2>1
<1>9. b >= Last /\ (Folder(b) # NoFolder => b > Last) /\ Folder(b) = Folder(todo[1])
  <2>1. 1 \in DOMAIN todo BY <1>3
  <2>2. /\ todo[1] >= Last
        /\ Folder(todo[1]) # NoFolder => FolderStart(Folder(todo[1])) > Last
    BY <2>1 DEF IInv, TodoAgrees
  <2>3. Folder(b) = Folder(todo[1]) BY <1>5
  <2> QED BY <1>2, <1>5, <2>2, <2>3
<1> HIDE DEF b, last
<1>10. Item' = b /\ Last' = last /\ ~file'.open
  <2>1. Item' = entry'.start + 1 - 1 BY DEF Item
  <2>2. Last' = last BY <1>6 DEF Last
  <2> QED BY <1>5, <1>6, <2>1, <2>2, NothingAtHand
<1>11. TypeOK'
  <2>1. Len(entry'.wanted) \in Nat
    <3>1. entry'.wanted \in Seq(BOOLEAN) BY <1>6
    <3> QED BY <3>1
  <2>2. at' \in 1..(Len(entry'.wanted) + 1) BY <2>1
  <2>3. faults' \in 0..MaxFaults /\ recorded' \in BOOLEAN BY <1>1, FaultTypes
  <2>4. file' \in [open : BOOLEAN, rem : Nat, sink : BOOLEAN, intact : BOOLEAN]
    BY NothingAtHand
  <2> QED BY <1>1, <1>6, <1>7, <2>2, <2>3, <2>4 DEF TypeOK
<1>12. ControlAgrees' BY <1>1, <1>6, <1>10 DEF ControlAgrees
<1>13. EntryAgrees'
  <2>1. entry'.start = b /\ Last' \in Items \cap request'
    BY <1>5, <1>6, <1>8, <1>10
  <2>2. \A k \in DOMAIN entry'.wanted : entry'.wanted[k] => entry'.start + k - 1 \in request'
    BY <1>6, <1>8
  <2>3. IF Folder(b) = NoFolder THEN Last' = b
        ELSE Layout[b].first = 0 /\ Size(b) > 0 /\ \A i \in b..Last' : Folder(i) = Folder(b)
    BY <1>5, <1>9, <1>10
  <2> QED BY <2>1, <2>2, <2>3 DEF EntryAgrees
<1>14. TodoAgrees' BY <1>4, <1>7, <1>10 DEF TodoAgrees, Ascending
<1>15. AskedAgrees'
  <2>1. asked <= b
    <3>1. CASE at > 1
      <4>1. asked = Item - 1 BY <1>1, <3>1 DEF IInv, AskedAgrees
      <4> QED BY <1>2, <1>5, <1>9, <4>1
    <3>2. CASE ~ (at > 1)
      <4>1. Len(entry.wanted) = 0 BY <1>2, <3>2
      <4>2. entry.wanted = <<>>
        <5>1. entry \in [start : Nat \ {0}, wanted : Seq(BOOLEAN)] BY <1>1 DEF TypeOK
        <5>2. entry.wanted \in Seq(BOOLEAN) BY <5>1
        <5> QED BY <4>1, <5>2
      <4>3. asked = 0 BY <4>2 DEF IInv, ControlAgrees
      <4> QED BY <1>5, <4>3
    <3> QED BY <3>1, <3>2
  <2> QED BY <1>1, <1>10, <2>1 DEF AskedAgrees
<1>16. Untouched'
  <2>1. ASSUME NEW i \in Items, i >= b, Folder(i) # NoFolder
        PROVE  results[i] = <<>> /\ stored[i] = <<>> /\ i \notin sinks
    <3>1. i >= Item
      <4>1. i \in Nat BY ItemTypes
      <4>2. CASE i = b BY <1>2, <1>5, <1>9, <2>1, <4>2
      <4>3. CASE i > b BY <1>2, <1>5, <1>9, <4>1, <4>3
      <4> QED BY <1>5, <2>1, <4>1, <4>2, <4>3
    <3> QED BY <1>1, <2>1, <3>1 DEF IInv, Untouched
  <2> QED BY <1>1, <1>10, <2>1 DEF IInv, Untouched
<1>17. BytesAgree' BY <1>10 DEF BytesAgree
<1>18. RequestAgrees'
  <2>1. request \subseteq Items BY <1>1 DEF IInv, RequestAgrees
  <2>2. \A i : Done(i)' = Done(i) BY <1>1 DEF Done
  <2>3. ASSUME NEW i \in request
        PROVE  (\E k \in DOMAIN todo' : todo'[k] = i) \/ i \in b..last \/ Done(i)
    <3>1. CASE \E k \in DOMAIN todo : todo[k] = i
      <4>1. i \in Elements(todo) BY <3>1 DEF Elements
      <4> QED BY <1>5, <1>7, <4>1 DEF Elements
    <3>2. CASE i \in Item..Last BY <1>2, <3>2
    <3> QED BY <1>1, <3>1, <3>2 DEF IInv, RequestAgrees
  <2> QED BY <1>1, <1>10, <2>1, <2>2, <2>3 DEF RequestAgrees
<1>19. OkMeansStored' /\ (sinks \subseteq request)' BY <1>1 DEF IInv, OkMeansStored
<1> QED BY <1>11, <1>12, <1>13, <1>14, <1>15, <1>16, <1>17, <1>18, <1>19 DEF IInv

LEMMA NextEntryKeeps == ASSUME IInv, NextEntry PROVE IInv'
<1>1. pc = "next" /\ UNCHANGED <<mode, seen, request, outcome>> BY DEF NextEntry
<1>2. CASE /\ todo # <<>>
           /\ entry' = EntryOf(todo) /\ todo' = SubSeq(todo, Together(todo) + 1, Len(todo))
           /\ pc' = "file" /\ phase' = "init" /\ at' = 1 /\ file' = NoFile /\ made' = 0
           /\ NoFault /\ UNCHANGED <<verdict, hresult>>
  BY <1>1, <1>2, EntryBegins
<1>3. CASE /\ todo = <<>> /\ pc' = "ending"
           /\ NoFault /\ UNCHANGED <<phase, todo, entry, at, file, made, verdict, hresult>>
  <2>1. Fixed /\ UNCHANGED <<mode, ready, phase, verdict, hresult>> BY <1>1, <1>3 DEF Fixed, seen
  <2> QED BY <1>1, <1>3, <2>1, NoMoreEntries
<1>4. CASE Recorded("progress") /\ Failed /\ UNCHANGED <<todo, entry, at, file, made>>
  <2>1. Fixed /\ UNCHANGED <<mode, ready>> BY <1>1, <1>4 DEF Fixed, seen
  <2>2. faults' \in 0..MaxFaults /\ recorded' = TRUE BY <1>4, FaultTypes DEF IInv
  <2> QED BY <1>1, <1>4, <2>1, <2>2, FailedKeeps
<1> QED BY <1>2, <1>3, <1>4 DEF NextEntry

-----------------------------------------------------------------------------
(* The stream that cuts a folder into its items                            *)

LEMMA StreamGotten ==
    ASSUME IInv, pc = "file", ~file.open, More, phase = "init" => Size(Item) = 0,
           NEW sink \in BOOLEAN, sink => AskMode = "EXTRACT", NoFault,
           file' = [open |-> TRUE, rem |-> Size(Item), sink |-> sink, intact |-> TRUE],
           sinks' = IF sink THEN sinks \cup {Item} ELSE sinks,
           asked' = Item, ready' = FALSE, pc' = "prepare",
           UNCHANGED <<phase, verdict, hresult, todo, mode, entry, at, made, stored, results,
                       request, outcome>>
    PROVE  IInv'
<1>1. /\ TypeOK /\ EntryAgrees /\ InEntry /\ InHandler /\ InEntry' /\ InHandler' /\ pc # "idle"
      /\ outcome # "returned" /\ entry.wanted # <<>>
  BY DEF IInv, ControlAgrees, InEntry, InHandler
<1>2. /\ Item \in Nat /\ Item \in Items /\ Size(Item) \in Nat /\ at \in DOMAIN entry.wanted
      /\ IF Folder(entry.start) = NoFolder
         THEN at = 1 /\ Item = Last /\ Item = entry.start /\ Size(Item) = 0
         ELSE Folder(Item) = Folder(entry.start)
  BY <1>1, AtHand, ItemTypes
<1>3. /\ file'.open /\ file'.rem = Size(Item) /\ file'.sink = sink /\ file'.intact
      /\ Item' = Item /\ Last' = Last /\ More' = More /\ \A i : Done(i)' = Done(i)
  BY DEF Item, Last, More, Done
<1>4. stored[Item] = <<>> /\ (Folder(Item) # NoFolder => results[Item] = <<>> /\ Item \notin sinks)
  <2>1. CASE Folder(Item) = NoFolder BY <1>2, <2>1 DEF IInv, Untouched
  <2>2. CASE Folder(Item) # NoFolder
    <3>1. Item >= Item BY <1>2
    <3> QED BY <1>1, <1>2, <2>2, <3>1 DEF IInv, Untouched
  <2> QED BY <2>1, <2>2
<1>5. sinks' \subseteq sinks \cup {Item} OBVIOUS
<1>6. TypeOK'
  <2>1. faults' \in 0..MaxFaults /\ recorded' \in BOOLEAN BY <1>1, FaultTypes
  <2>2. file' \in [open : BOOLEAN, rem : Nat, sink : BOOLEAN, intact : BOOLEAN] BY <1>2
  <2>3. sinks' \subseteq Items /\ asked' \in {0} \cup Items BY <1>1, <1>2, <1>5 DEF TypeOK
  <2> QED BY <1>1, <2>1, <2>2, <2>3 DEF TypeOK
<1>7. ControlAgrees'
  <2>1. file'.rem <= Size(Item') BY <1>2, <1>3
  <2> QED BY <1>1, <1>3, <2>1 DEF IInv, ControlAgrees
<1>8. EntryAgrees' BY <1>1, <1>3 DEF EntryAgrees
<1>9. TodoAgrees' BY <1>3 DEF IInv, TodoAgrees
<1>10. AskedAgrees' BY <1>3 DEF AskedAgrees
<1>11. Untouched'
  <2>1. \A i \in Items : i > Item /\ i \notin sinks => i \notin sinks' BY <1>2, <1>5
  <2>2. ASSUME NEW i \in Items, i >= Item, Folder(i) # NoFolder
        PROVE  results[i] = <<>> /\ (i > Item => stored[i] = <<>> /\ i \notin sinks')
    BY <1>1, <2>1, <2>2 DEF IInv, Untouched
  <2> QED BY <1>3, <2>2 DEF IInv, Untouched
<1>12. BytesAgree'
  <2>1. ~ (phase = "init" /\ Folder(entry.start) # NoFolder)
    <3> SUFFICES ASSUME phase = "init", Folder(entry.start) # NoFolder PROVE FALSE OBVIOUS
    <3>1. at = 1 BY <1>1 DEF IInv, BytesAgree
    <3>2. Item = entry.start BY <1>1, <3>1, AtHand
    <3>3. Size(entry.start) > 0 BY <1>1 DEF EntryAgrees
    <3> QED BY <3>2, <3>3
  <2>2. phase = "decode" => Folder(entry.start) # NoFolder /\ made = Layout[Item].first
    <3>1. phase = "decode" => made = Layout[Item].first + 0 BY <1>1 DEF IInv, BytesAgree
    <3>2. Layout[Item].first \in Nat BY <1>2, ItemTypes
    <3> QED BY <1>1, <3>1, <3>2 DEF IInv, BytesAgree
  <2>3. Size(Item) - Size(Item) = 0 BY <1>2
  <2>4. Layout[Item].first + 0 = Layout[Item].first BY <1>2, ItemTypes
  <2>5. [k \in 1..0 |-> Layout[Item].first + k] = <<>> OBVIOUS
  <2>6. Item \in sinks' => sink \/ Folder(Item) = NoFolder BY <1>4
  <2>7. Len(stored[Item]) = 0 BY <1>4
  <2> QED BY <1>3, <1>4, <2>1, <2>2, <2>3, <2>4, <2>5, <2>6, <2>7 DEF BytesAgree
<1>13. RequestAgrees' BY <1>1, <1>3 DEF IInv, RequestAgrees
<1>14. OkMeansStored'
  <2>1. ASSUME NEW i \in sinks', \E k \in DOMAIN results[i] : results[i][k] = "OK"
        PROVE  Len(stored[i]) = Size(i) /\ (i \notin Unchecked => stored[i] = BytesOf(i))
    <3>1. CASE i \in sinks BY <2>1, <3>1 DEF IInv, OkMeansStored
    <3>2. CASE i = Item
      <4>1. results[i] # <<>> BY <2>1
      <4>2. Folder(Item) = NoFolder BY <1>4, <3>2, <4>1
      <4>3. Size(Item) = 0 BY <1>2, <4>2, ItemTypes
      <4>4. BytesOf(Item) = <<>> BY <4>3 DEF BytesOf
      <4> QED BY <1>4, <3>2, <4>3, <4>4
    <3> QED BY <1>5, <3>1, <3>2
  <2> QED BY <2>1 DEF OkMeansStored
<1>15. (sinks \subseteq request)'
  <2>1. sink => Item \in request
    <3> SUFFICES ASSUME sink PROVE Item \in request OBVIOUS
    <3>1. entry.wanted[at] BY DEF AskMode
    <3>2. entry.start + at - 1 \in request BY <1>1, <1>2, <3>1 DEF EntryAgrees
    <3> QED BY <3>2 DEF Item
  <2> QED BY <2>1 DEF IInv
<1> QED BY <1>6, <1>7, <1>8, <1>9, <1>10, <1>11, <1>12, <1>13, <1>14, <1>15 DEF IInv

LEMMA GetStreamKeeps == ASSUME IInv, GetStream PROVE IInv'
<1>1. /\ pc = "file" /\ ~file.open /\ More /\ (phase = "init" => Size(Item) = 0)
      /\ UNCHANGED <<todo, mode, entry, at, made, stored, results, request, outcome>>
  BY DEF GetStream
<1>2. ASSUME NEW sink \in IF AskMode = "EXTRACT" THEN BOOLEAN ELSE {FALSE},
             file' = [open |-> TRUE, rem |-> Size(Item), sink |-> sink, intact |-> TRUE],
             sinks' = IF sink THEN sinks \cup {Item} ELSE sinks,
             asked' = Item, ready' = FALSE, pc' = "prepare",
             NoFault, UNCHANGED <<phase, verdict, hresult>>
      PROVE  IInv'
  <2>1. sink \in BOOLEAN /\ (sink => AskMode = "EXTRACT")
    BY <1>2
  <2> QED BY <1>1, <1>2, <2>1, StreamGotten
<1>3. CASE Recorded("getStream") /\ Failed /\ UNCHANGED <<file, sinks, asked, ready>>
  <2>1. Fixed /\ UNCHANGED <<mode, ready>> BY <1>1, <1>3 DEF Fixed
  <2>2. faults' \in 0..MaxFaults /\ recorded' = TRUE BY <1>3, FaultTypes DEF IInv
  <2> QED BY <1>1, <1>3, <2>1, <2>2, FailedKeeps
<1> QED BY <1>2, <1>3 DEF GetStream

\* n bytes of a folder from a place on, and that a write appends the next ones.
BytesFrom(first, n) == [k \in 1..n |-> first + k]

Appends(new, old, chunk) ==
    /\ new \in Seq(Nat) /\ Len(new) = Len(old) + Len(chunk)
    /\ \A k \in 1..(Len(old) + Len(chunk)) :
          new[k] = IF k <= Len(old) THEN old[k] ELSE chunk[k - Len(old)]

LEMMA ConcatAppends ==
    ASSUME NEW old \in Seq(Nat), NEW chunk \in Seq(Nat)
    PROVE  Appends(old \o chunk, old, chunk)
<1>1. /\ old \o chunk \in Seq(Nat) /\ Len(old \o chunk) = Len(old) + Len(chunk)
      /\ \A k \in 1..(Len(old) + Len(chunk)) :
            (old \o chunk)[k] = IF k <= Len(old) THEN old[k] ELSE chunk[k - Len(old)]
  BY ConcatProperties
<1> QED BY <1>1 DEF Appends

LEMMA AppendedBytes ==
    ASSUME NEW old \in Seq(Nat), NEW chunk \in Seq(Nat), NEW first \in Nat, NEW m \in Nat,
           NEW n \in Nat, NEW place, NEW total, Len(old) = m, Len(chunk) = n,
           place = first + m, total = m + n, NEW new, Appends(new, old, chunk)
    PROVE  /\ Len(new) = total
           /\ old = BytesFrom(first, m) /\ chunk = BytesFrom(place, n) =>
                  new = BytesFrom(first, total)
<1>1. /\ new \in Seq(Nat) /\ Len(new) = m + n
      /\ \A k \in 1..(m + n) : new[k] = IF k <= m THEN old[k] ELSE chunk[k - m]
  BY DEF Appends
<1>2. ASSUME old = BytesFrom(first, m), chunk = BytesFrom(place, n)
      PROVE  new = BytesFrom(first, m + n)
  <2>1. ASSUME NEW k \in 1..(m + n) PROVE new[k] = first + k
    <3>1. CASE k <= m
      <4>1. k \in 1..m BY <3>1
      <4> QED BY <1>1, <1>2, <3>1, <4>1 DEF BytesFrom
    <3>2. CASE k > m
      <4>1. k - m \in 1..n BY <3>2
      <4>2. new[k] = chunk[k - m] BY <1>1, <3>2
      <4>3. chunk[k - m] = first + m + (k - m) BY <1>2, <4>1 DEF BytesFrom
      <4> QED BY <4>1, <4>2, <4>3
    <3> QED BY <3>1, <3>2
  <2>2. new \in [1..(m + n) -> Nat] BY <1>1
  <2> QED BY <2>1, <2>2 DEF BytesFrom
<1> QED BY <1>1, <1>2

LEMMA Delivered ==
    ASSUME IInv, Decoding, file.open, NEW n \in Takes, NEW right \in BOOLEAN,
           IF right THEN NoFault ELSE Fault("wrong") /\ UNCHANGED recorded,
           made' = made + n,
           file' = [file EXCEPT !.rem = @ - n, !.intact = @ /\ right],
           stored' = IF file.sink
                     THEN [stored EXCEPT ![Item] = @ \o
                             IF right THEN Accepted(n) ELSE [k \in 1..n |-> Wrong]]
                     ELSE stored,
           UNCHANGED <<pc, phase, verdict, hresult, todo, mode, entry, at, asked, ready, sinks,
                       results, request, outcome>>
    PROVE  IInv'
<1>1. /\ TypeOK /\ EntryAgrees /\ pc = "file" /\ phase = "decode" /\ InEntry /\ InHandler
      /\ InEntry' /\ InHandler' /\ More /\ outcome # "returned" /\ file.rem <= Size(Item)
      /\ entry.wanted # <<>> /\ asked = Item /\ (ready \/ recorded)
      /\ Folder(entry.start) # NoFolder
  BY DEF IInv, ControlAgrees, AskedAgrees, BytesAgree, Decoding, InEntry, InHandler
<1>2. /\ Item \in Nat /\ Item \in Items /\ Size(Item) \in Nat /\ Layout[Item].first \in Nat
      /\ Folder(Item) # NoFolder
  BY <1>1, AtHand, ItemTypes
<1>3. /\ file \in [open : BOOLEAN, rem : Nat, sink : BOOLEAN, intact : BOOLEAN]
      /\ file.rem \in Nat /\ n \in Nat \ {0} /\ n <= file.rem /\ made \in Nat
  <2>1. file \in [open : BOOLEAN, rem : Nat, sink : BOOLEAN, intact : BOOLEAN] /\ made \in Nat
    BY <1>1 DEF TypeOK
  <2>2. file.rem \in Nat BY <2>1
  <2> QED BY <2>1, <2>2 DEF Takes
<1>4. /\ file'.open /\ file'.rem = file.rem - n /\ file'.sink = file.sink
      /\ (file'.intact => file.intact /\ right)
      /\ file' \in [open : BOOLEAN, rem : Nat, sink : BOOLEAN, intact : BOOLEAN]
  <2>1. (file.intact /\ right) \in BOOLEAN OBVIOUS
  <2>2. file.rem - n \in Nat BY <1>3
  <2> QED BY <1>3, <2>1, <2>2
<1>5. /\ Item' = Item /\ Last' = Last /\ More' = More /\ \A i : Done(i)' = Done(i)
  BY DEF Item, Last, More, Done
<1> DEFINE first == Layout[Item].first
           got == Size(Item) - file.rem
           chunk == IF right THEN Accepted(n) ELSE [k \in 1..n |-> Wrong]
<1>6. made = first + got BY <1>1 DEF IInv, BytesAgree
<1>7. results[Item] = <<>>
  <2>1. Item >= Item BY <1>2
  <2> QED BY <1>1, <1>2, <2>1 DEF IInv, Untouched
<1>8. /\ chunk \in Seq(Nat) /\ Len(chunk) = n
      /\ right => chunk = BytesFrom(made, n)
  <2>1. [k \in 1..n |-> made + k] \in [1..n -> Nat] /\ [k \in 1..n |-> Wrong] \in [1..n -> Nat]
    BY <1>3 DEF Wrong
  <2>2. chunk \in [1..n -> Nat] BY <2>1 DEF Accepted
  <2>3. right => chunk = BytesFrom(made, n) BY DEF Accepted, BytesFrom
  <2> HIDE DEF chunk
  <2>4. n \in Nat BY <1>3
  <2>5. chunk \in Seq(Nat) /\ Len(chunk) = n BY <2>2, <2>4
  <2> QED BY <2>3, <2>5
<1>9. got \in Nat /\ got + n = Size(Item) - file'.rem BY <1>1, <1>2, <1>3, <1>4
<1>10. stored \in [Items -> Seq(Nat)] BY <1>1 DEF TypeOK
<1>11. stored' = IF file.sink THEN [stored EXCEPT ![Item] = @ \o chunk] ELSE stored OBVIOUS
<1> HIDE DEF first, got, chunk
<1>12. /\ stored' \in [Items -> Seq(Nat)]
       /\ \A i \in Items : i # Item => stored'[i] = stored[i]
       /\ file.sink => stored'[Item] = stored[Item] \o chunk
  <2>1. stored[Item] \o chunk \in Seq(Nat)
    <3>1. stored[Item] \in Seq(Nat) BY <1>2, <1>10
    <3> QED BY <1>8, <3>1
  <2>2. stored' = IF file.sink THEN [stored EXCEPT ![Item] = stored[Item] \o chunk] ELSE stored
    BY <1>11
  <2> DEFINE new == stored[Item] \o chunk
  <2>3. new \in Seq(Nat) /\ stored' = IF file.sink THEN [stored EXCEPT ![Item] = new] ELSE stored
    BY <2>1, <2>2
  <2>4. file.sink => stored'[Item] = new BY <1>2, <1>10, <2>3
  <2> HIDE DEF new
  <2>5. stored' \in [Items -> Seq(Nat)] /\ \A i \in Items : i # Item => stored'[i] = stored[i]
    BY <1>2, <1>10, <2>3
  <2> QED BY <2>4, <2>5 DEF new
<1>13. TypeOK'
  <2>1. faults' \in 0..MaxFaults /\ recorded' \in BOOLEAN
    BY <1>1, FaultTypes DEF TypeOK
  <2>2. made' \in Nat BY <1>3
  <2> QED BY <1>1, <1>4, <1>12, <2>1, <2>2 DEF TypeOK
<1>14. ControlAgrees'
  <2>1. file'.rem <= Size(Item') BY <1>1, <1>2, <1>3, <1>4, <1>5
  <2>2. ready' \/ recorded'
    <3>1. recorded => recorded' BY <1>1, FaultTypes
    <3> QED BY <1>1, <3>1
  <2> QED BY <1>1, <1>5, <2>1, <2>2 DEF ControlAgrees
<1>15. EntryAgrees' /\ TodoAgrees' BY <1>1, <1>5 DEF IInv, EntryAgrees, TodoAgrees
<1>16. AskedAgrees' BY <1>1, <1>4, <1>5 DEF AskedAgrees
<1>17. Untouched'
  <2>1. \A i \in Items : Folder(i) = NoFolder => stored'[i] = <<>>
    BY <1>2, <1>12 DEF IInv, Untouched
  <2>2. ASSUME NEW i \in Items, i >= Item, Folder(i) # NoFolder
        PROVE  /\ results'[i] = <<>>
               /\ i > Item => stored'[i] = <<>> /\ i \notin sinks'
    <3>1. results[i] = <<>> /\ (i > Item => stored[i] = <<>> /\ i \notin sinks)
      BY <1>1, <2>2 DEF IInv, Untouched
    <3>2. i > Item => i # Item BY <1>2
    <3> QED BY <1>12, <3>1, <3>2
  <2> QED BY <1>4, <1>5, <2>1, <2>2 DEF Untouched
<1>18. BytesAgree'
  <2>1. made' = Layout[Item].first + (Size(Item) - file'.rem)
    BY <1>2, <1>3, <1>4, <1>6 DEF first, got
  <2>2. ASSUME Item \in sinks
        PROVE  /\ file.sink /\ Len(stored'[Item]) = Size(Item) - file'.rem
               /\ file'.intact => stored'[Item] = BytesFrom(first, Size(Item) - file'.rem)
    <3>1. /\ file.sink /\ Len(stored[Item]) = got
          /\ file.intact => stored[Item] = BytesFrom(first, got)
      BY <1>2, <2>2 DEF IInv, BytesAgree, first, got, BytesFrom
    <3>2. stored[Item] \in Seq(Nat) /\ first \in Nat BY <1>2, <1>10 DEF first
    <3>3. /\ Len(stored[Item] \o chunk) = got + n
          /\ stored[Item] = BytesFrom(first, got) /\ chunk = BytesFrom(made, n) =>
                 stored[Item] \o chunk = BytesFrom(first, got + n)
      <4> DEFINE old == stored[Item]
                 new == stored[Item] \o chunk
                 total == got + n
      <4>1. n \in Nat /\ got \in Nat /\ total = got + n BY <1>3, <1>9
      <4>2. old \in Seq(Nat) /\ Len(old) = got BY <3>1, <3>2
      <4>3. chunk \in Seq(Nat) /\ Len(chunk) = n BY <1>8
      <4>4. Appends(new, old, chunk) BY <4>2, <4>3, ConcatAppends
      <4> HIDE DEF old, new, total
      <4>5. /\ Len(new) = total
            /\ old = BytesFrom(first, got) /\ chunk = BytesFrom(made, n) =>
                   new = BytesFrom(first, total)
        BY ONLY <1>6, <3>2, <4>1, <4>2, <4>3, <4>4, AppendedBytes
      <4> QED BY <4>5 DEF old, new, total
    <3> QED BY <1>4, <1>8, <1>9, <1>12, <3>1, <3>3
  <2> QED BY <1>1, <1>4, <1>5, <2>1, <2>2 DEF BytesAgree, first, BytesFrom
<1>19. RequestAgrees' BY <1>1, <1>5 DEF IInv, RequestAgrees
<1>20. OkMeansStored'
  <2>1. ASSUME NEW i \in sinks, \E k \in DOMAIN results[i] : results[i][k] = "OK"
        PROVE  stored'[i] = stored[i]
    <3>1. i # Item BY <1>7, <2>1
    <3>2. i \in Items BY <1>1 DEF TypeOK
    <3> QED BY <1>12, <3>1, <3>2
  <2> QED BY <2>1 DEF IInv, OkMeansStored
<1> QED BY <1>13, <1>14, <1>15, <1>16, <1>17, <1>18, <1>19, <1>20 DEF IInv

LEMMA DeliverKeeps == ASSUME IInv, Deliver PROVE IInv'
<1>1. /\ Decoding /\ file.open
      /\ UNCHANGED <<todo, mode, entry, at, asked, ready, sinks, results, request, outcome>>
  BY DEF Deliver
<1>2. ASSUME NEW n \in Takes, NEW right \in BOOLEAN,
             IF right THEN NoFault ELSE Fault("wrong") /\ UNCHANGED recorded,
             made' = made + n,
             file' = [file EXCEPT !.rem = @ - n, !.intact = @ /\ right],
             stored' = IF file.sink
                       THEN [stored EXCEPT ![Item] = @ \o
                               IF right THEN Accepted(n) ELSE [k \in 1..n |-> Wrong]]
                       ELSE stored,
             UNCHANGED <<pc, phase, verdict, hresult>>
      PROVE  IInv'
  BY <1>1, <1>2, Delivered
<1>3. CASE /\ Recorded("write") \/ Recorded("noByte")
           /\ Failed /\ UNCHANGED <<made, file, stored>>
  <2>1. Fixed /\ UNCHANGED <<mode, ready>> /\ pc # "idle" BY <1>1, <1>3 DEF Fixed, Decoding
  <2>2. faults' \in 0..MaxFaults /\ recorded' = TRUE BY <1>3, FaultTypes DEF IInv
  <2> QED BY <1>3, <2>1, <2>2, FailedKeeps
<1> QED BY <1>2, <1>3 DEF Deliver

\* The results of an item with one more: the first two are kept.
WithResult(old, res) == IF Len(old) < 2 THEN Append(old, res) ELSE old

LEMMA ResultAppended ==
    ASSUME NEW old \in Seq(Results), NEW res \in Results
    PROVE  /\ WithResult(old, res) \in Seq(Results) /\ WithResult(old, res) # <<>>
           /\ old = <<>> => Len(WithResult(old, res)) = 1
           /\ \A k \in DOMAIN WithResult(old, res) :
                 WithResult(old, res)[k] = res \/ \E j \in DOMAIN old : old[j] = WithResult(old, res)[k]
<1>1. CASE Len(old) < 2
  <2>1. WithResult(old, res) = Append(old, res) BY <1>1 DEF WithResult
  <2>2. /\ Append(old, res) \in Seq(Results) /\ Len(Append(old, res)) = Len(old) + 1
        /\ \A k \in 1..Len(old) : Append(old, res)[k] = old[k]
        /\ Append(old, res)[Len(old) + 1] = res
    BY AppendProperties
  <2> DEFINE new == Append(old, res)
  <2>3. /\ new \in Seq(Results) /\ Len(new) = Len(old) + 1 /\ new[Len(old) + 1] = res
        /\ \A k \in 1..Len(old) : new[k] = old[k]
    BY <2>2
  <2> HIDE DEF new
  <2>4. Len(old) \in Nat /\ DOMAIN old = 1..Len(old) /\ DOMAIN new = 1..(Len(old) + 1) BY <2>3
  <2>5. \A k \in DOMAIN new : new[k] = res \/ \E j \in DOMAIN old : old[j] = new[k]
    <3> TAKE k \in DOMAIN new
    <3>1. CASE k = Len(old) + 1 BY <2>3, <3>1
    <3>2. CASE k \in 1..Len(old) BY <2>3, <2>4, <3>2
    <3> QED BY <2>4, <3>1, <3>2
  <2>6. new # <<>> /\ (old = <<>> => Len(new) = 1) BY <2>3, <2>4
  <2>7. WithResult(old, res) = new BY <2>1 DEF new
  <2> QED BY <2>3, <2>5, <2>6, <2>7
<1>2. CASE ~ (Len(old) < 2)
  <2>1. WithResult(old, res) = old BY <1>2 DEF WithResult
  <2>2. old # <<>> BY <1>2
  <2> QED BY <2>1, <2>2
<1> QED BY <1>1, <1>2

LEMMA ResultGiven ==
    ASSUME IInv, pc = "file", file.open, phase = "flush" \/ file.rem = 0, NEW res \in Results,
           res = "OK" => phase # "flush" /\ (file.intact \/ Item \in Unchecked),
           results' = [results EXCEPT ![Item] = WithResult(@, res)],
           file' = NoFile, at' = at + 1,
           UNCHANGED <<todo, mode, entry, made, asked, ready, sinks, stored, request, outcome>>,
           recorded' \in BOOLEAN, faults' \in 0..MaxFaults,
           phase' \in {"init", "decode", "flush"}, verdict' \in Results \ {"CRCERROR"},
           hresult' \in {"S_OK", "S_FALSE", "E_FAIL"}, phase' = "flush" => verdict' # "OK",
           \/ pc' = "file" /\ phase' \in {phase, "flush"}
           \/ pc' = "ending" /\ hresult' = "S_FALSE"
    PROVE  IInv'
<1>1. /\ TypeOK /\ EntryAgrees /\ More /\ InEntry /\ InHandler /\ outcome # "returned"
      /\ entry.wanted # <<>> /\ asked = Item /\ pc # "idle"
  BY DEF IInv, ControlAgrees, AskedAgrees, InEntry, InHandler
<1>2. /\ Item \in Nat /\ Item \in Items /\ Item \in entry.start..Last /\ Last \in Nat
      /\ Size(Item) \in Nat /\ Layout[Item].first \in Nat /\ at \in Nat /\ at >= 1
      /\ entry.start \in Nat /\ Len(entry.wanted) \in Nat /\ Item = entry.start + at - 1
      /\ Last = entry.start + Len(entry.wanted) - 1
      /\ IF Folder(entry.start) = NoFolder
         THEN Item = Last ELSE Folder(Item) = Folder(entry.start)
  BY <1>1, AtHand, ItemTypes
<1>3. at <= Len(entry.wanted) BY <1>1 DEF More
<1>4. Item' = Item + 1 /\ Last' = Last
  <2>1. Item' = entry.start + (at + 1) - 1 BY DEF Item
  <2> QED BY <1>2, <2>1 DEF Last
<1>5. ~file'.open BY NothingAtHand
<1>6. results \in [Items -> Seq(Results)] BY <1>1 DEF TypeOK
<1> DEFINE new == WithResult(results[Item], res)
<1>7. /\ new \in Seq(Results) /\ new # <<>> /\ (results[Item] = <<>> => Len(new) = 1)
      /\ \A k \in DOMAIN new : new[k] = res \/ \E j \in DOMAIN results[Item] : results[Item][j] = new[k]
  BY <1>2, <1>6, ResultAppended
<1> HIDE DEF new
<1>8. /\ results' \in [Items -> Seq(Results)] /\ results'[Item] = new
      /\ \A i \in Items : i # Item => results'[i] = results[i]
  <2>1. results' = [results EXCEPT ![Item] = new] BY DEF new
  <2> QED BY <1>2, <1>6, <1>7, <2>1
<1>9. Folder(Item) # NoFolder => results[Item] = <<>>
  <2>1. Item >= Item BY <1>2
  <2> QED BY <1>1, <1>2, <2>1 DEF IInv, Untouched
<1>10. TypeOK'
  <2>1. at' \in 1..(Len(entry'.wanted) + 1) BY <1>2, <1>3
  <2>2. file' \in [open : BOOLEAN, rem : Nat, sink : BOOLEAN, intact : BOOLEAN]
    BY NothingAtHand
  <2>3. pc' \in {"idle", "total", "next", "file", "prepare", "ending"} OBVIOUS
  <2> QED BY <1>1, <1>8, <2>1, <2>2, <2>3 DEF TypeOK
<1>11. ControlAgrees' BY <1>1, <1>5 DEF ControlAgrees, InEntry
<1>12. EntryAgrees' /\ TodoAgrees' BY <1>1, <1>4 DEF IInv, EntryAgrees, TodoAgrees
<1>13. AskedAgrees'
  <2>1. at' > 1 /\ asked' = Item' - 1 BY <1>1, <1>2, <1>4
  <2> QED BY <1>5, <2>1 DEF AskedAgrees
<1>14. Untouched'
  <2>1. ASSUME NEW i \in Items, i >= Item + 1, Folder(i) # NoFolder
        PROVE  results'[i] = <<>> /\ stored'[i] = <<>> /\ i \notin sinks'
    <3>1. i \in Nat BY ItemTypes
    <3>2. i > Item /\ i >= Item /\ i # Item BY <1>2, <2>1, <3>1
    <3> QED BY <1>1, <1>8, <2>1, <3>2 DEF IInv, Untouched
  <2> QED BY <1>4, <2>1 DEF IInv, Untouched
<1>15. BytesAgree'
  <2>1. phase = "init" => Folder(entry.start) = NoFolder BY <1>1 DEF IInv, BytesAgree
  <2>2. ASSUME phase = "decode" 
        PROVE  /\ Folder(entry.start) # NoFolder
               /\ More' => made = Layout[Item + 1].first + 0
    <3>1. /\ Folder(entry.start) # NoFolder
          /\ made = Layout[Item].first + (Size(Item) - file.rem)
      BY <1>1, <2>2 DEF IInv, BytesAgree
    <3>2. file.rem = 0 BY <2>2
    <3>3. made = Layout[Item].first + Size(Item) BY <1>2, <3>1, <3>2
    <3>4. ASSUME More' PROVE made = Layout[Item + 1].first + 0
      <4>1. Item + 1 \in entry.start..Last
        <5>1. at + 1 <= Len(entry.wanted) BY <3>4 DEF More
        <5> QED BY <1>2, <5>1
      <4>2. Folder(Item + 1) = Folder(entry.start) /\ Item + 1 \in Items
        <5>1. Last \in Items BY <1>1 DEF EntryAgrees
        <5>2. Item + 1 \in Items BY <1>2, <4>1, <5>1, ItemTypes
        <5> QED BY <1>1, <3>1, <4>1, <5>2 DEF EntryAgrees
      <4>3. Folder(Item) = Folder(Item + 1) BY <1>2, <3>1, <4>2
      <4> DEFINE i == Item + 1
      <4>4. i > 1 /\ i - 1 = Item BY <1>2, ItemTypes
      <4>5. Layout[i].first = Layout[Item].first + Size(Item)
        <5>1. i \in Items /\ Folder(i) # NoFolder BY <3>1, <4>2
        <5>2. Folder(i - 1) = Folder(i) BY <4>3, <4>4
        <5> HIDE DEF i
        <5>3. Layout[i].first = Layout[i - 1].first + Size(i - 1)
          BY <4>4, <5>1, <5>2, LayoutStep
        <5> QED BY <4>4, <5>3
      <4>6. Layout[Item + 1].first \in Nat BY <4>2, ItemTypes
      <4> QED BY <3>3, <4>5, <4>6
    <3> QED BY <3>1, <3>4
  <2>3. InEntry' => pc' = "file" /\ phase' \in {phase, "flush"} BY DEF InEntry
  <2> QED BY <1>4, <1>5, <2>1, <2>2, <2>3 DEF BytesAgree
<1>16. RequestAgrees'
  <2>1. ASSUME NEW i \in Items, i # Item PROVE Done(i)' <=> Done(i)
    BY <1>8, <2>1 DEF Done
  <2>2. ASSUME NEW i, i = Item PROVE Done(i)'
    <3>1. results'[i] # <<>> /\ (Folder(i) # NoFolder => Len(results'[i]) = 1)
      BY <1>7, <1>8, <1>9, <2>2
    <3> QED BY <3>1 DEF Done
  <2>3. request \subseteq Items BY <1>1 DEF IInv, RequestAgrees
  <2>4. ASSUME NEW i \in request
        PROVE  (\E k \in DOMAIN todo : todo[k] = i) \/ i \in (Item + 1)..Last \/ Done(i)'
    <3>1. CASE i = Item BY <2>2, <3>1
    <3>2. CASE i # Item
      <4>1. i \in Nat BY <2>3, ItemTypes
      <4>2. i \in Item..Last => i \in (Item + 1)..Last BY <1>2, <3>2, <4>1
      <4>3. Done(i)' <=> Done(i) BY <2>1, <2>3, <3>2
      <4> QED BY <1>1, <4>2, <4>3 DEF IInv, RequestAgrees
    <3> QED BY <3>1, <3>2
  <2>5. ~ (pc' = "ending" /\ hresult' = "S_OK" /\ ~recorded') OBVIOUS
  <2> QED BY <1>1, <1>4, <2>3, <2>4, <2>5 DEF RequestAgrees, InHandler
<1>17. OkMeansStored'
  <2>1. ASSUME NEW i \in sinks, \E k \in DOMAIN results'[i] : results'[i][k] = "OK"
        PROVE  Len(stored[i]) = Size(i) /\ (i \notin Unchecked => stored[i] = BytesOf(i))
    <3>1. i \in Items BY <1>1 DEF TypeOK
    <3>2. CASE \E j \in DOMAIN results[i] : results[i][j] = "OK"
      BY <3>2 DEF IInv, OkMeansStored
    <3>3. CASE ~ \E j \in DOMAIN results[i] : results[i][j] = "OK"
      <4>1. i = Item BY <1>8, <2>1, <3>1, <3>3
      <4>2. res = "OK" BY <1>7, <1>8, <2>1, <3>3, <4>1
      <4>3. file.rem = 0 /\ (file.intact \/ Item \in Unchecked) BY <4>2
      <4>4. Size(Item) - file.rem = Size(Item) BY <1>2, <4>3
      <4>5. /\ Len(stored[Item]) = Size(Item)
            /\ file.intact => stored[Item] = BytesOf(Item)
        BY <2>1, <4>1, <4>4 DEF IInv, BytesAgree, BytesOf
      <4> QED BY <4>1, <4>3, <4>5
    <3> QED BY <3>2, <3>3
  <2> QED BY <2>1 DEF OkMeansStored
<1>18. (sinks \subseteq request)' BY DEF IInv
<1> QED BY <1>10, <1>11, <1>12, <1>13, <1>14, <1>15, <1>16, <1>17, <1>18 DEF IInv

LEMMA SetResultKeeps == ASSUME IInv, SetResult PROVE IInv'
<1> DEFINE res == IF phase = "flush" THEN verdict
                  ELSE IF file.intact \/ Item \in Unchecked THEN "OK" ELSE "CRCERROR"
<1>1. /\ TypeOK /\ pc = "file" /\ file.open /\ (phase = "flush" \/ file.rem = 0)
      /\ file' = NoFile /\ at' = at + 1
      /\ UNCHANGED <<todo, mode, entry, made, asked, ready, sinks, stored, request, outcome>>
      /\ asked = Item /\ (phase = "flush" => verdict # "OK")
  BY DEF IInv, SetResult, NextIndex, AskedAgrees, ControlAgrees
<1>2. /\ phase \in {"init", "decode", "flush"} /\ verdict \in Results \ {"CRCERROR"}
      /\ hresult \in {"S_OK", "S_FALSE", "E_FAIL"} /\ recorded \in BOOLEAN
  BY <1>1 DEF TypeOK
<1>3. /\ res \in Results
      /\ res = "OK" => phase # "flush" /\ (file.intact \/ Item \in Unchecked)
  BY <1>1, <1>2 DEF Results
<1>4. results' = [results EXCEPT ![Item] = WithResult(@, res)]
  BY <1>1 DEF SetResult, WithResult
<1> HIDE DEF res
<1>5. CASE NoFault /\ UNCHANGED <<pc, phase, verdict, hresult>>
  <2>1. faults' \in 0..MaxFaults /\ recorded' \in BOOLEAN BY <1>1, <1>5, FaultTypes
  <2> QED BY <1>1, <1>2, <1>3, <1>4, <1>5, <2>1, ResultGiven
<1>6. CASE Recorded("setOperationResult") /\ Failed
  <2>1. faults' \in 0..MaxFaults /\ recorded' \in BOOLEAN BY <1>1, <1>6, FaultTypes
  <2>2. /\ phase' \in {"init", "decode", "flush"} /\ verdict' \in Results \ {"CRCERROR"}
        /\ hresult' \in {"S_OK", "S_FALSE", "E_FAIL"} /\ (phase' = "flush" => verdict' # "OK")
        /\ \/ pc' = "file" /\ phase' \in {phase, "flush"}
           \/ pc' = "ending" /\ hresult' = "S_FALSE"
    BY <1>1, <1>2, <1>6 DEF Failed, Results
  <2> QED BY <1>1, <1>3, <1>4, <2>1, <2>2, ResultGiven
<1> QED BY <1>5, <1>6 DEF SetResult

-----------------------------------------------------------------------------
(* Theorems                                                                *)

\* The loops over the indices, the entries and the items agree with each other in
\* every state of every extraction.  (7zExtract.cpp:133-287)
THEOREM Invariance == Spec => []IInv
<1>1. Init => IInv BY InitKeeps
<1>2. IInv /\ [Next]_vars => IInv'
  <2> SUFFICES ASSUME IInv, [Next]_vars PROVE IInv' OBVIOUS
  <2>1. CASE UNCHANGED vars
    <3>1. Fixed /\ UNCHANGED <<pc, phase, mode, verdict, hresult, ready, recorded, faults>>
      BY <2>1 DEF vars, control, seen, Fixed
    <3>2. /\ TypeOK' /\ ControlAgrees' /\ EntryAgrees' /\ TodoAgrees' /\ AskedAgrees'
          /\ OkMeansStored' /\ (sinks \subseteq request)'
      BY <3>1 DEF Fixed, IInv, TypeOK, ControlAgrees, EntryAgrees, TodoAgrees, AskedAgrees,
                  OkMeansStored, Item, Last, More, InEntry
    <3>3. Untouched' /\ BytesAgree'
      BY <3>1 DEF Fixed, IInv, Untouched, BytesAgree, Item, More, InEntry
    <3>4. RequestAgrees'
      BY <3>1 DEF Fixed, IInv, RequestAgrees, AllDone, Done, Item, Last, InHandler, InEntry
    <3> QED BY <3>2, <3>3, <3>4 DEF IInv
  <2>2. CASE SetTotal BY <2>2, SetTotalKeeps
  <2>3. CASE NextEntry BY <2>3, NextEntryKeeps
  <2>4. CASE BeginDecode BY <2>4, BeginDecodeKeeps
  <2>5. CASE EndDecode BY <2>5, EndDecodeKeeps
  <2>6. CASE EndFlush BY <2>6, EndFlushKeeps
  <2>7. CASE Return BY <2>7, ReturnKeeps
  <2>8. CASE GetStream BY <2>8, GetStreamKeeps
  <2>9. CASE Prepare BY <2>9, PrepareKeeps
  <2>10. CASE Deliver BY <2>10, DeliverKeeps
  <2>11. CASE SetResult BY <2>11, SetResultKeeps
  <2>12. CASE \E indices \in Requests \cup {[i \in Items |-> i]}, askMode \in Modes :
                 Extract(indices, askMode)
    BY <2>12, ExtractKeeps
  <2> QED BY <2>1, <2>2, <2>3, <2>4, <2>5, <2>6, <2>7, <2>8, <2>9, <2>10, <2>11, <2>12
          DEF Next, InCall
<1> QED BY <1>1, <1>2, PTL DEF Spec

\* No file is owed less than nothing, and no loop leaves its entry.
THEOREM TypeCorrect == Spec => []TypeOK
<1>1. IInv => TypeOK BY DEF IInv
<1> QED BY <1>1, Invariance, PTL

\* An item that was reported as OK has got all of its bytes, in every archive and
\* however the decoder cuts its output.  (7zFolderOutStream.cpp:84-122)
THEOREM OkIsStored == Spec => []OkMeansStored
<1>1. IInv => OkMeansStored BY DEF IInv
<1> QED BY <1>1, Invariance, PTL

\* An extraction that returns has told a result for every item asked for.
\* (7zExtract.cpp:205-258)
THEOREM ReturnedIsExtracted == Spec => []ReturnedMeansExtracted
<1>1. IInv => ReturnedMeansExtracted
  BY DEF IInv, RequestAgrees, AllDone, Done, ReturnedMeansExtracted
<1> QED BY <1>1, Invariance, PTL

\* A result is about the item of the last getStream, and streams to write to are
\* asked for items of the request.  (7zFolderOutStream.cpp:37-77)
THEOREM CallbacksPaired == Spec => []CallbacksAgree
<1>1. IInv => CallbacksAgree BY DEF IInv, AskedAgrees, CallbacksAgree
<1> QED BY <1>1, Invariance, PTL

\* extractSlow returns a result of the item that it was called for.
\* (InArchiveImpl.java:51-53, 109-133)
THEOREM SlowResultIsItems == Spec => []SlowResult
<1>1. IInv => SlowResult
  <2> SUFFICES ASSUME IInv, NEW i \in Items, outcome = "returned", request = {i}
               PROVE  asked = i /\ results[i] # <<>>
    BY DEF SlowResult
  <2>1. AllDone BY DEF IInv, RequestAgrees
  <2> QED BY <2>1 DEF AllDone, Done
<1> QED BY <1>1, Invariance, PTL

\* Items are asked for in ascending order, and an item gets no result before
\* prepareOperation, unless an exception is waiting to be thrown.
THEOREM CallbackOrder == Spec => CallbackProtocol
<1> DEFINE Ordered == pc # "idle" => /\ asked' >= asked
                                     /\ results' # results => ready \/ recorded
<1>1. IInv /\ [Next]_vars => [Ordered]_vars
  <2> SUFFICES ASSUME IInv, Next, pc # "idle" PROVE Ordered BY DEF Ordered
  <2>1. asked \in Nat
    <3>1. asked \in {0} \cup Items BY DEF IInv, TypeOK
    <3> QED BY <3>1, ItemTypes
  <2>2. CASE results' = results /\ asked' = asked BY <2>1, <2>2
  <2>3. CASE GetStream
    <3>1. results' = results BY <2>3 DEF GetStream
    <3>2. asked' = asked \/ asked' = Item BY <2>3 DEF GetStream
    <3>3. Item >= asked /\ Item \in Nat
      <4>1. InEntry /\ ~file.open BY <2>3 DEF GetStream, InEntry
      <4>2. IF at > 1 THEN asked = Item - 1 ELSE asked <= Item
        BY <4>1 DEF IInv, AskedAgrees
      <4>3. Item \in Nat BY AtHand DEF IInv
      <4> QED BY <2>1, <4>2, <4>3
    <3> QED BY <2>1, <3>1, <3>2, <3>3
  <2>4. CASE SetResult
    <3>1. asked' = asked /\ pc = "file" /\ file.open BY <2>4 DEF SetResult
    <3>2. ready \/ recorded BY <3>1 DEF IInv, ControlAgrees
    <3> QED BY <2>1, <3>1, <3>2
  <2>5. \/ SetTotal \/ NextEntry \/ BeginDecode \/ EndDecode \/ EndFlush \/ Return
        \/ GetStream \/ Prepare \/ Deliver \/ SetResult
    BY DEF Next, InCall, Extract
  <2>6. SetTotal \/ NextEntry \/ BeginDecode \/ EndDecode \/ EndFlush =>
           results' = results /\ asked' = asked
    BY DEF SetTotal, NextEntry, BeginDecode, EndDecode, EndFlush, seen
  <2>7. Return \/ Prepare \/ Deliver => results' = results /\ asked' = asked
    BY DEF Return, Prepare, Deliver, seen
  <2> QED BY <2>2, <2>3, <2>4, <2>5, <2>6, <2>7
<1> QED BY <1>1, Invariance, PTL DEF Spec, CallbackProtocol
=============================================================================
