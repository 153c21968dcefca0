---------------------------- MODULE OutArchive_proofs ----------------------------
(***************************************************************************)
(* Updates of an archive of any number of items, with any settings: the    *)
(* inductive invariant of OutArchive and what follows from it.             *)
(***************************************************************************)
EXTENDS OutArchive, TLAPS

-----------------------------------------------------------------------------
(* Items                                                                   *)

LEMMA OutItemFacts ==
    ASSUME NEW s \in OutItem
    PROVE  /\ Len(s) \in {0, 1} /\ (s = << >> <=> Len(s) = 0)
           /\ s # << >> => s[1] \in Items
<1>1. CASE s = << >> BY <1>1
<1>2. CASE s # << >>
  <2>1. PICK item \in Items : s = <<item>> BY <1>2 DEF OutItem
  <2> QED BY <2>1
<1> QED BY <1>1, <1>2

\* What the handler is told of a verified item.
LEMMA InfoFacts ==
    ASSUME connected \in BOOLEAN, NEW item \in Items, Verify(item)
    PROVE  /\ Info(item) \in Told
           /\ Info(item).old = -1 => Info(item).data /\ Info(item).props
           /\ Info(item).data => Info(item).props
           /\ ~connected => Info(item).data /\ Info(item).old = -1
<1>1. /\ item.old \in {Null} \cup (-1)..OldItems /\ item.content \in BOOLEAN
      /\ item.data \in {"new", "old", "null"} /\ item.props \in {"new", "old", "null"}
  BY DEF Items
<1>2. CASE connected
  <2>1. Info(item) = [known |-> TRUE, content |-> FALSE, data |-> (item.data = "new"),
                      props |-> (item.props = "new"), old |-> item.old]
    BY <1>2 DEF Info
  <2>2. item.old \in (-1)..OldItems BY <1>1, <1>2 DEF Verify
  <2>3. Info(item) \in Told
    <3>1. (item.data = "new") \in BOOLEAN /\ (item.props = "new") \in BOOLEAN
      OBVIOUS
    <3> QED BY <2>1, <2>2, <3>1 DEF Told
  <2>4. /\ item.old = -1 => item.data = "new" /\ item.props = "new"
        /\ item.data = "new" => item.props = "new"
    BY <1>2 DEF Verify
  <2>5. /\ Info(item).old = item.old /\ Info(item).data = (item.data = "new")
        /\ Info(item).props = (item.props = "new")
    BY <2>1
  <2> QED BY <1>2, <2>3, <2>4, <2>5
<1>3. CASE ~connected
  <2>1. Info(item) = [known |-> TRUE, content |-> FALSE, data |-> TRUE, props |-> TRUE, old |-> -1]
    BY <1>3 DEF Info
  <2>2. -1 \in (-1)..OldItems BY OutArchiveAssumption
  <2> QED BY <2>1, <2>2 DEF Told
<1> QED BY <1>2, <1>3

\* getOrUpdateOutItem for an item that is at hand or was not asked for before.
LEMMA ItemStep ==
    ASSUME TypeOK, OneObjectPerItem, ItemReleased, CacheAgrees, NEW i \in Indices,
           NEW result \in OutItem, GetOrUpdateOutItem(i, result),
           IsCached(i) \/ asked[i] = 0
    PROVE  /\ outItem' = result /\ references' = Len(result)
           /\ result # << >> => Verify(result[1]) /\ outItemLastIndex' = i
           /\ asked' \in [Indices -> Nat] /\ \A j \in Indices : asked'[j] <= 1
           /\ \A j \in Indices : j # i => asked'[j] = asked[j]
           /\ outItemLastIndex' \in {i, outItemLastIndex}
<1>1. asked \in [Indices -> Nat] /\ \A j \in Indices : asked[j] <= 1
  BY DEF TypeOK, OneObjectPerItem
<1>2. references = Len(outItem) /\ outItem \in OutItem BY DEF TypeOK, ItemReleased
<1>3. CASE IsCached(i)
  <2>1. /\ result = outItem /\ outItem' = outItem /\ outItemLastIndex' = outItemLastIndex
        /\ references' = references /\ asked' = asked
    BY <1>3 DEF GetOrUpdateOutItem, callback
  <2>2. outItemLastIndex = i BY <1>3 DEF IsCached
  <2>3. result # << >> => Verify(result[1]) BY <2>1 DEF CacheAgrees
  <2> QED BY <1>1, <1>2, <2>1, <2>2, <2>3
<1>4. CASE ~IsCached(i)
  <2>1. /\ result # << >> => Verify(result[1])
        /\ asked' = [asked EXCEPT ![i] = @ + 1] /\ outItem' = result
        /\ references' = references - Len(outItem) + Len(result)
        /\ outItemLastIndex' = IF result = << >> THEN outItemLastIndex ELSE i
    BY <1>4 DEF GetOrUpdateOutItem
  <2>2. asked[i] = 0 BY <1>4
  <2>3. asked'[i] = 1 /\ \A j \in Indices : j # i => asked'[j] = asked[j]
    BY <1>1, <2>1, <2>2
  <2>4. asked' \in [Indices -> Nat] BY <1>1, <2>1
  <2>5. references' = Len(result) BY <1>2, <2>1, OutItemFacts
  <2> QED BY <1>1, <2>1, <2>3, <2>4, <2>5
<1> QED BY <1>3, <1>4

\* The handler goes on to the next item, or to the streams.
LEMMA NextItemFacts ==
    ASSUME TypeOK, NEW known \in [Indices -> Told], NextItem(known), at < NumItems
    PROVE  /\ told' = known /\ at' = at + 1 /\ at' \in 0..NumItems
           /\ pc' \in {"info", "streams"} /\ (pc' = "info" => at' < NumItems)
           /\ left' \subseteq Indices
<1>1. at \in 0..NumItems /\ left \subseteq Indices BY DEF TypeOK
<1>2. CASE at + 1 < NumItems BY <1>1, <1>2, OutArchiveAssumption DEF NextItem
<1>3. CASE ~(at + 1 < NumItems) BY <1>1, <1>3, OutArchiveAssumption DEF NextItem
<1> QED BY <1>2, <1>3

-----------------------------------------------------------------------------
(* Settings                                                                *)

Features == [level : Levels \cup {Unset}, threads : ThreadCounts \cup {Unset},
             solid : BOOLEAN, block : Block]
Settings == [level : Levels \cup {5}, threads : ThreadCounts \cup {Processors}, block : Block]
SettingCalls == {"level", "threads", "block", "off"}

\* Calls with what was set, and no others.
OnlySet(f, s) ==
    /\ s \in Seq(SettingCalls)
    /\ \A k \in 1..Len(s) : /\ s[k] = "level" => f.level # Unset
                            /\ s[k] = "threads" => f.threads # Unset

LEMMA OnlySetConcat ==
    ASSUME NEW f, NEW s, NEW t, OnlySet(f, s), OnlySet(f, t)
    PROVE  OnlySet(f, s \o t)
<1>1. /\ s \in Seq(SettingCalls) /\ t \in Seq(SettingCalls) BY DEF OnlySet
<1>2. /\ s \o t \in Seq(SettingCalls) /\ Len(s \o t) = Len(s) + Len(t)
      /\ Len(s) \in Nat /\ Len(t) \in Nat
  BY <1>1
<1>3. ASSUME NEW k \in 1..Len(s \o t)
      PROVE  /\ (s \o t)[k] = "level" => f.level # Unset
             /\ (s \o t)[k] = "threads" => f.threads # Unset
  <2>1. CASE k <= Len(s)
    <3>1. (s \o t)[k] = s[k] /\ k \in 1..Len(s) BY <1>1, <1>2, <2>1
    <3> QED BY <3>1 DEF OnlySet
  <2>2. CASE ~(k <= Len(s))
    <3>1. (s \o t)[k] = t[k - Len(s)] /\ k - Len(s) \in 1..Len(t) BY <1>1, <1>2, <2>2
    <3> QED BY <3>1 DEF OnlySet
  <2> QED BY <2>1, <2>2
<1> QED BY <1>2, <1>3 DEF OnlySet

\* What applyFeatures sends: only what was set, and last that the archive is
\* not to be solid.
LEMMA PendingFacts ==
    ASSUME NEW f \in Features
    PROVE  /\ OnlySet(f, Pending(f))
           /\ ~f.solid => Pending(f) # << >> /\ Pending(f)[Len(Pending(f))] = "off"
<1> DEFINE a == IF f.level # Unset THEN <<"level">> ELSE << >>
           b == IF f.threads # Unset THEN <<"threads">> ELSE << >>
           c == IF f.block # Default THEN <<"block">> ELSE << >>
           d == IF ~f.solid THEN <<"off">> ELSE << >>
<1>1. Pending(f) = ((a \o b) \o c) \o d BY DEF Pending
<1>2. OnlySet(f, a)
  <2>1. CASE f.level # Unset
    <3>1. a = <<"level">> BY <2>1
    <3> QED BY <2>1, <3>1 DEF OnlySet, SettingCalls
  <2>2. CASE ~(f.level # Unset) BY <2>2 DEF OnlySet
  <2> QED BY <2>1, <2>2
<1>3. OnlySet(f, b)
  <2>1. CASE f.threads # Unset
    <3>1. b = <<"threads">> BY <2>1
    <3> QED BY <2>1, <3>1 DEF OnlySet, SettingCalls
  <2>2. CASE ~(f.threads # Unset) BY <2>2 DEF OnlySet
  <2> QED BY <2>1, <2>2
<1>4. OnlySet(f, c)
  <2>1. CASE f.block # Default
    <3>1. c = <<"block">> BY <2>1
    <3> HIDE DEF c
    <3> QED BY <3>1 DEF OnlySet, SettingCalls
  <2>2. CASE ~(f.block # Default) BY <2>2 DEF OnlySet
  <2> QED BY <2>1, <2>2
<1>5. OnlySet(f, d)
  <2>1. CASE ~f.solid
    <3>1. d = <<"off">> BY <2>1
    <3> QED BY <3>1 DEF OnlySet, SettingCalls
  <2>2. CASE f.solid BY <2>2 DEF OnlySet
  <2> QED BY <2>1, <2>2
<1>6. ~f.solid => d = <<"off">> OBVIOUS
<1> HIDE DEF a, b, c, d
<1>7. OnlySet(f, a \o b) BY <1>2, <1>3, OnlySetConcat
<1>8. OnlySet(f, (a \o b) \o c) BY <1>4, <1>7, OnlySetConcat
<1>9. OnlySet(f, ((a \o b) \o c) \o d) BY <1>5, <1>8, OnlySetConcat
<1>10. ASSUME ~f.solid PROVE Pending(f) # << >> /\ Pending(f)[Len(Pending(f))] = "off"
  <2>1. PICK s \in Seq(SettingCalls) : Pending(f) = s \o <<"off">>
    BY <1>1, <1>6, <1>8, <1>10 DEF OnlySet
  <2>2. /\ Len(s \o <<"off">>) = Len(s) + 1 /\ (s \o <<"off">>)[Len(s) + 1] = "off"
        /\ Len(s) \in Nat
    OBVIOUS
  <2> QED BY <2>1, <2>2
<1> QED BY <1>1, <1>9, <1>10

\* The settings after a call of SetProperties with something that was set.
LEMMA SetPropertiesFacts ==
    ASSUME TypeOK, NEW call \in SettingCalls,
           call = "level" => features.level # Unset,
           call = "threads" => features.threads # Unset
    PROVE  /\ SetProperties(call) \in Settings
           /\ call = "off" => SetProperties(call).block = "off"
<1>1. /\ features.level \in Levels \cup {Unset} /\ features.threads \in ThreadCounts \cup {Unset}
      /\ features.block \in Block
  BY DEF TypeOK
<1>2. /\ DefaultSettings = [level |-> 5, threads |-> Processors, block |-> Default]
      /\ Default \in Block /\ "off" \in Block
  BY DEF DefaultSettings, Block
<1>3. CASE call = "level"
  <2>1. SetProperties(call) = [level |-> features.level, threads |-> Processors, block |-> Default]
    BY <1>2, <1>3 DEF SetProperties
  <2> QED BY <1>1, <1>2, <1>3, <2>1 DEF Settings
<1>4. CASE call = "threads"
  <2>1. SetProperties(call) = [level |-> 5, threads |-> features.threads, block |-> Default]
    BY <1>2, <1>4 DEF SetProperties
  <2> QED BY <1>1, <1>2, <1>4, <2>1 DEF Settings
<1>5. CASE call = "block"
  <2>1. SetProperties(call) = [level |-> 5, threads |-> Processors, block |-> features.block]
    BY <1>2, <1>5 DEF SetProperties
  <2> QED BY <1>1, <1>2, <1>5, <2>1 DEF Settings
<1>6. CASE call = "off"
  <2>1. SetProperties(call) = [level |-> 5, threads |-> Processors, block |-> "off"]
    BY <1>2, <1>6 DEF SetProperties
  <2> QED BY <1>2, <1>6, <2>1 DEF Settings
<1> QED BY <1>3, <1>4, <1>5, <1>6 DEF SettingCalls

-----------------------------------------------------------------------------
(* The invariant is kept: the settings                                     *)

LEMMA InitIInv == ASSUME Init PROVE IInv
<1>1. TypeOK
  <2>1. Unknown \in Told BY OutArchiveAssumption DEF Unknown, Told
  <2>2. told \in [Indices -> Told] BY <2>1 DEF Init
  <2>3. asked \in [Indices -> Nat] BY DEF Init
  <2>4. features \in Features BY DEF Init, NoFeatures, Features, Block
  <2>5. settings \in Settings BY DEF Init, DefaultSettings, Settings, Block
  <2>6. pending \in Seq(SettingCalls) BY DEF Init
  <2>7. at \in 0..NumItems BY OutArchiveAssumption DEF Init
  <2> QED BY <2>2, <2>3, <2>4, <2>5, <2>6, <2>7
       DEF Init, TypeOK, OutItem, Features, Settings, SettingCalls
<1>2. OneObjectPerItem BY DEF Init, OneObjectPerItem
<1>3. ItemReleased BY DEF Init, ItemReleased
<1>4. ToldIsConsistent BY DEF Init, ToldIsConsistent, Unknown
<1>5. CacheAgrees BY DEF Init, CacheAgrees
<1>6. SkipsNoted BY DEF Init, SkipsNoted
<1>7. PendingAgrees BY DEF Init, PendingAgrees
<1> QED BY <1>1, <1>2, <1>3, <1>4, <1>5, <1>6, <1>7 DEF IInv

LEMMA StutterStep == ASSUME IInv, UNCHANGED vars PROVE IInv'
<1> USE DEF IInv, vars, java, callback, update
<1>1. TypeOK' BY DEF TypeOK
<1>2. OneObjectPerItem' BY DEF OneObjectPerItem
<1>3. ItemReleased' BY DEF ItemReleased
<1>4. ToldIsConsistent' BY DEF ToldIsConsistent
<1>5. CacheAgrees' BY DEF CacheAgrees, Verify, IsCached
<1>6. SkipsNoted' BY DEF SkipsNoted
<1>7. PendingAgrees' BY DEF PendingAgrees
<1> QED BY <1>1, <1>2, <1>3, <1>4, <1>5, <1>6, <1>7

LEMMA CreateCloseStep == ASSUME IInv, Create \/ Close PROVE IInv'
<1> USE DEF IInv, callback, update, Create, Close
<1>1. TypeOK' BY DEF TypeOK
<1>2. OneObjectPerItem' BY DEF OneObjectPerItem
<1>3. ItemReleased' BY DEF ItemReleased
<1>4. ToldIsConsistent' BY DEF ToldIsConsistent
<1>5. CacheAgrees' BY DEF CacheAgrees, Verify, IsCached
<1>6. SkipsNoted' BY DEF SkipsNoted
<1>7. PendingAgrees' BY DEF PendingAgrees
<1> QED BY <1>1, <1>2, <1>3, <1>4, <1>5, <1>6, <1>7

\* A setting is changed while no update runs.
LEMMA SetFeatureStep ==
    ASSUME IInv, NEW name, NEW value, SetFeature(name, value),
           [features EXCEPT ![name] = value] \in Features
    PROVE  IInv'
<1> USE DEF IInv, callback, update, SetFeature
<1>1. TypeOK' BY DEF TypeOK, Features
<1>2. OneObjectPerItem' BY DEF OneObjectPerItem
<1>3. ItemReleased' BY DEF ItemReleased
<1>4. ToldIsConsistent' BY DEF ToldIsConsistent
<1>5. CacheAgrees' BY DEF CacheAgrees, Verify, IsCached
<1>6. SkipsNoted' BY DEF SkipsNoted
<1>7. PendingAgrees'
  <2>1. pc' = "idle" /\ pending' = << >> BY DEF PendingAgrees
  <2> QED BY <2>1 DEF PendingAgrees
<1> QED BY <1>1, <1>2, <1>3, <1>4, <1>5, <1>6, <1>7

LEMMA BeginUpdateStep == ASSUME IInv, BeginUpdate PROVE IInv'
<1>1. features \in Features BY DEF IInv, TypeOK, Features
<1>2. /\ OnlySet(features, Pending(features))
      /\ ~features.solid => /\ Pending(features) # << >>
                            /\ Pending(features)[Len(Pending(features))] = "off"
  BY <1>1, PendingFacts
<1>3. /\ pending' = Pending(features) /\ pc = "idle" /\ pc' = "apply"
      /\ UNCHANGED <<java, settings, callback, update, noted, outcome>>
  BY DEF BeginUpdate
<1> USE <1>3 DEF IInv, java, callback, update
<1>4. TypeOK' BY <1>2 DEF TypeOK, OnlySet, SettingCalls
<1>5. OneObjectPerItem' BY DEF OneObjectPerItem
<1>6. ItemReleased' BY DEF ItemReleased
<1>7. ToldIsConsistent' BY DEF ToldIsConsistent
<1>8. CacheAgrees' BY DEF CacheAgrees, Verify, IsCached
<1>9. SkipsNoted' BY DEF SkipsNoted
<1>10. PendingAgrees' BY <1>2 DEF PendingAgrees, OnlySet
<1> QED BY <1>4, <1>5, <1>6, <1>7, <1>8, <1>9, <1>10

LEMMA ApplyStep == ASSUME IInv, Apply PROVE IInv'
<1>1. /\ pc = "apply" /\ pending # << >> /\ pending \in Seq(SettingCalls)
      /\ settings \in Settings
      /\ UNCHANGED <<java, callback, update, noted>>
  BY DEF Apply, IInv, TypeOK, SettingCalls, Settings
<1>2. DefaultSettings \in Settings BY DEF DefaultSettings, Settings, Block
<1>3. CASE /\ settings' = SetProperties(Head(pending)) /\ pending' = Tail(pending)
           /\ UNCHANGED <<pc, outcome>>
  <2>1. /\ Len(pending) \in Nat \ {0} /\ pending[1] \in SettingCalls /\ Head(pending) = pending[1]
        /\ Tail(pending) \in Seq(SettingCalls) /\ Len(Tail(pending)) = Len(pending) - 1
        /\ \A k \in 1..Len(Tail(pending)) : Tail(pending)[k] = pending[k + 1]
    BY <1>1
  <2>2. /\ Head(pending) = "level" => features.level # Unset
        /\ Head(pending) = "threads" => features.threads # Unset
    BY <2>1 DEF IInv, PendingAgrees
  <2>3. /\ SetProperties(Head(pending)) \in Settings
        /\ Head(pending) = "off" => SetProperties(Head(pending)).block = "off"
    BY <2>1, <2>2, SetPropertiesFacts DEF IInv
  <2>4. TypeOK'
    BY <1>1, <1>3, <2>1, <2>3 DEF IInv, TypeOK, java, callback, update, Settings, SettingCalls
  <2>5. PendingAgrees'
    <3>1. \A k \in 1..Len(pending') : /\ pending'[k] = "level" => features'.level # Unset
                                      /\ pending'[k] = "threads" => features'.threads # Unset
      <4>1. \A k \in 1..Len(Tail(pending)) : k + 1 \in 1..Len(pending) BY <2>1
      <4> QED BY <1>1, <1>3, <2>1, <4>1 DEF IInv, PendingAgrees, java
    <3>2. ASSUME ~features.solid
          PROVE  IF Tail(pending) = << >> THEN SetProperties(Head(pending)).block = "off"
                 ELSE Tail(pending)[Len(Tail(pending))] = "off"
      <4>1. pending[Len(pending)] = "off" BY <1>1, <3>2 DEF IInv, PendingAgrees
      <4>2. CASE Tail(pending) = << >>
        <5>1. Len(pending) = 1 BY <2>1, <4>2
        <5> QED BY <2>1, <2>3, <4>1, <4>2, <5>1
      <4>3. CASE Tail(pending) # << >>
        <5>1. Len(Tail(pending)) \in 1..Len(Tail(pending)) BY <2>1, <4>3
        <5> QED BY <2>1, <4>1, <4>3, <5>1
      <4> QED BY <4>2, <4>3
    <3> QED BY <1>1, <1>3, <3>1, <3>2 DEF PendingAgrees, java
  <2> QED BY <1>1, <1>3, <2>4, <2>5
       DEF IInv, OneObjectPerItem, ItemReleased, ToldIsConsistent, CacheAgrees, SkipsNoted,
           Verify, IsCached, java, callback, update
<1>4. CASE /\ settings' \in {settings, DefaultSettings}
           /\ pending' = << >> /\ pc' = "idle" /\ outcome' = "thrown"
  <2>1. settings' \in Settings /\ pending' \in Seq(SettingCalls) BY <1>1, <1>2, <1>4
  <2>2. TypeOK'
    BY <1>1, <1>4, <2>1 DEF IInv, TypeOK, java, callback, update, Settings, SettingCalls
  <2>3. PendingAgrees' BY <1>4 DEF PendingAgrees
  <2>4. outItem = << >> BY <1>1 DEF IInv, CacheAgrees
  <2>5. CacheAgrees' BY <1>1, <1>4, <2>4 DEF CacheAgrees, callback
  <2>6. ItemReleased' BY <1>1, <1>4, <2>4 DEF IInv, ItemReleased, callback
  <2> QED BY <1>1, <1>4, <2>2, <2>3, <2>5, <2>6
       DEF IInv, OneObjectPerItem, ToldIsConsistent, SkipsNoted, java, callback, update
<1> QED BY <1>3, <1>4 DEF Apply

LEMMA StartStep == ASSUME IInv, Start PROVE IInv'
<1>1. /\ pc = "apply" /\ pending = << >> /\ pc' = (IF NumItems = 0 THEN "streams" ELSE "info")
      /\ at' = 0 /\ told' = [i \in Indices |-> Unknown] /\ left' = {} /\ skipped' = {}
      /\ noStream' = {} /\ outItem' = << >> /\ outItemLastIndex' = -1
      /\ asked' = [i \in Indices |-> 0] /\ noted' = FALSE
      /\ UNCHANGED <<java, settings, pending, outcome, references>>
  BY DEF Start
<1>2. Unknown \in Told /\ ~Unknown.known BY OutArchiveAssumption DEF Unknown, Told
<1>3. outItem = << >> /\ references = 0 BY <1>1 DEF IInv, CacheAgrees, ItemReleased
<1>4. TypeOK'
  <2>1. told' \in [Indices -> Told] /\ asked' \in [Indices -> Nat] BY <1>1, <1>2
  <2>2. at' \in 0..NumItems BY <1>1, OutArchiveAssumption
  <2> QED BY <1>1, <1>3, <2>1, <2>2 DEF IInv, TypeOK, java, OutItem
<1>5. OneObjectPerItem' BY <1>1 DEF OneObjectPerItem
<1>6. ItemReleased' BY <1>1, <1>3 DEF ItemReleased
<1>7. ToldIsConsistent' BY <1>1, <1>2 DEF ToldIsConsistent
<1>8. CacheAgrees' BY <1>1, OutArchiveAssumption DEF CacheAgrees
<1>9. SkipsNoted' BY <1>1 DEF SkipsNoted
<1>10. PendingAgrees' BY <1>1 DEF IInv, PendingAgrees, java
<1> QED BY <1>4, <1>5, <1>6, <1>7, <1>8, <1>9, <1>10 DEF IInv

-----------------------------------------------------------------------------
(* The invariant is kept: the update callback                              *)

\* Every item that is known is told consistently when one is added that is.
LEMMA ToldStep ==
    ASSUME TypeOK, ToldIsConsistent, NEW i \in Indices, NEW item \in Items, Verify(item)
    PROVE  LET known == [told EXCEPT ![i] = Info(item)]
           IN /\ known \in [Indices -> Told]
              /\ told' = known /\ connected' = connected => ToldIsConsistent'
<1> DEFINE known == [told EXCEPT ![i] = Info(item)]
<1>1. /\ Info(item) \in Told
      /\ Info(item).old = -1 => Info(item).data /\ Info(item).props
      /\ Info(item).data => Info(item).props
      /\ ~connected => Info(item).data /\ Info(item).old = -1
  BY InfoFacts DEF TypeOK
<1>2. told \in [Indices -> Told] BY DEF TypeOK
<1>3. /\ known \in [Indices -> Told] /\ known[i] = Info(item)
      /\ \A j \in Indices : j # i => known[j] = told[j]
  BY <1>1, <1>2
<1> HIDE DEF known
<1>4. ASSUME told' = known, connected' = connected PROVE ToldIsConsistent'
  <2> SUFFICES ASSUME NEW j \in Indices, told'[j].known
               PROVE  /\ told'[j].old = -1 => told'[j].data /\ told'[j].props
                      /\ told'[j].data => told'[j].props
                      /\ ~connected => told'[j].data /\ told'[j].old = -1
    BY <1>4 DEF ToldIsConsistent
  <2>1. CASE j = i BY <1>1, <1>3, <1>4, <2>1
  <2>2. CASE j # i BY <1>3, <1>4, <2>2 DEF ToldIsConsistent
  <2> QED BY <2>1, <2>2
<1> QED BY <1>3, <1>4 DEF known

LEMMA GetUpdateItemInfoStep == ASSUME IInv, GetUpdateItemInfo PROVE IInv'
<1>1. PICK result \in OutItem :
        /\ GetOrUpdateOutItem(at, result)
        /\ noted' = (noted \/ result = << >>)
        /\ IF result = << >> THEN HandlerFails /\ UNCHANGED <<at, told, left>>
           ELSE LET info == Info(result[1])
                    known == [told EXCEPT ![at] = info]
                IN \/ info.old >= OldItems /\ HandlerFails /\ told' = known /\ UNCHANGED <<at, left>>
                   \/ /\ info.old < OldItems /\ (info.props \/ info.data)
                      /\ pc' = "property" /\ told' = known /\ UNCHANGED <<at, left>>
                   \/ info.old < OldItems /\ ~info.props /\ ~info.data /\ NextItem(known)
  BY DEF GetUpdateItemInfo
<1>2. pc = "info" /\ UNCHANGED <<java, settings, pending, skipped, noStream, outcome>>
  BY DEF GetUpdateItemInfo
<1>3. /\ TypeOK /\ OneObjectPerItem /\ ItemReleased /\ ToldIsConsistent /\ CacheAgrees
      /\ noted \in BOOLEAN /\ at \in 0..NumItems /\ outItemLastIndex \in Indices \cup {-1}
      /\ told \in [Indices -> Told] /\ left \subseteq Indices
  BY DEF IInv, TypeOK
<1>4. /\ at \in Indices /\ at < NumItems /\ outItemLastIndex < at
      /\ \A j \in Indices : j >= at => asked[j] = 0
  BY <1>2, <1>3, OutArchiveAssumption DEF CacheAgrees, Indices
<1>5. asked[at] = 0 BY <1>4, OutArchiveAssumption DEF Indices
<1>6. /\ outItem' = result /\ references' = Len(result)
      /\ result # << >> => Verify(result[1]) /\ outItemLastIndex' = at
      /\ asked' \in [Indices -> Nat] /\ \A j \in Indices : asked'[j] <= 1
      /\ \A j \in Indices : j # at => asked'[j] = asked[j]
      /\ outItemLastIndex' \in {at, outItemLastIndex}
  BY <1>1, <1>3, <1>4, <1>5, ItemStep
<1>7. Len(result) \in Nat /\ (result # << >> => result[1] \in Items) BY OutItemFacts
<1>8. \A j \in Indices : j > at => asked'[j] = 0
  <2>1. \A j \in Indices : j > at => j >= at /\ j # at
    BY <1>4, OutArchiveAssumption DEF Indices
  <2> QED BY <1>4, <1>6, <2>1
<1>9. result # << >> => Verify(result[1])'
  BY <1>2, <1>6 DEF Verify, java
<1>10. /\ told' \in [Indices -> Told] /\ at' \in 0..NumItems /\ left' \subseteq Indices
       /\ pc' \in {"info", "property", "streams", "failed"}
       /\ ToldIsConsistent'
       /\ pc' = "info" => at' = at + 1 /\ at' < NumItems /\ result # << >>
       /\ pc' = "property" => at' = at /\ result # << >>
  <2>1. CASE result = << >>
    BY <1>1, <1>2, <1>3, <2>1 DEF HandlerFails, ToldIsConsistent, java
  <2>2. CASE result # << >>
    <3> DEFINE known == [told EXCEPT ![at] = Info(result[1])]
    <3>1. /\ known \in [Indices -> Told]
          /\ told' = known /\ connected' = connected => ToldIsConsistent'
      BY <1>3, <1>4, <1>6, <1>7, <2>2, ToldStep
    <3>2. \/ HandlerFails /\ told' = known /\ UNCHANGED <<at, left>>
          \/ pc' = "property" /\ told' = known /\ UNCHANGED <<at, left>>
          \/ NextItem(known)
      BY <1>1, <2>2
    <3> HIDE DEF known
    <3>3. connected' = connected BY <1>2 DEF java
    <3>4. CASE HandlerFails /\ told' = known /\ UNCHANGED <<at, left>>
      BY <1>3, <3>1, <3>3, <3>4 DEF HandlerFails
    <3>5. CASE pc' = "property" /\ told' = known /\ UNCHANGED <<at, left>>
      BY <1>3, <2>2, <3>1, <3>3, <3>5
    <3>6. CASE NextItem(known)
      <4>1. /\ told' = known /\ at' = at + 1 /\ at' \in 0..NumItems
            /\ pc' \in {"info", "streams"} /\ (pc' = "info" => at' < NumItems)
            /\ left' \subseteq Indices
        BY <1>3, <1>4, <3>1, <3>6, NextItemFacts
      <4> QED BY <2>2, <3>1, <3>3, <4>1
    <3> QED BY <3>2, <3>4, <3>5, <3>6
  <2> QED BY <2>1, <2>2
<1>11. noted' \in BOOLEAN BY <1>1, <1>3
<1>12. TypeOK'
  <2>1. outItemLastIndex' \in Indices \cup {-1} BY <1>3, <1>4, <1>6
  <2> QED BY <1>2, <1>3, <1>6, <1>7, <1>10, <1>11, <2>1 DEF TypeOK, java
<1>13. OneObjectPerItem' BY <1>6 DEF OneObjectPerItem
<1>14. ItemReleased' BY <1>6, <1>10 DEF ItemReleased
<1>15. CacheAgrees'
  <2>1. pc' = "info" => /\ at' < NumItems /\ outItemLastIndex' < at'
                        /\ \A j \in Indices : j >= at' => asked'[j] = 0
    BY <1>3, <1>6, <1>8, <1>10, OutArchiveAssumption DEF Indices
  <2>2. pc' = "property" => /\ at' < NumItems /\ IsCached(at)'
                            /\ \A j \in Indices : j > at' => asked'[j] = 0
    BY <1>4, <1>6, <1>8, <1>10 DEF IsCached
  <2> QED BY <1>6, <1>9, <1>10, <2>1, <2>2 DEF CacheAgrees
<1>16. SkipsNoted'
  <2>1. skipped # noStream => noted BY <1>2 DEF IInv, SkipsNoted
  <2>2. noted => noted' BY <1>1, <1>3
  <2> QED BY <1>2, <1>10, <2>1, <2>2 DEF SkipsNoted
<1>17. PendingAgrees' BY <1>2, <1>10 DEF IInv, PendingAgrees, java
<1> QED BY <1>10, <1>12, <1>13, <1>14, <1>15, <1>16, <1>17 DEF IInv

LEMMA GetPropertyStep == ASSUME IInv, GetProperty PROVE IInv'
<1>1. PICK result \in OutItem :
        /\ GetOrUpdateOutItem(at, result)
        /\ \/ /\ result # << >> /\ UNCHANGED noted
              /\ NextItem([told EXCEPT ![at].content = result[1].content])
           \/ /\ HandlerFails /\ noted' \in {noted \/ result = << >>, TRUE}
              /\ UNCHANGED <<at, told, left>>
  BY DEF GetProperty
<1>2. pc = "property" /\ UNCHANGED <<java, settings, pending, skipped, noStream, outcome>>
  BY DEF GetProperty
<1>3. /\ TypeOK /\ OneObjectPerItem /\ ItemReleased /\ ToldIsConsistent /\ CacheAgrees
      /\ noted \in BOOLEAN /\ at \in 0..NumItems /\ outItemLastIndex \in Indices \cup {-1}
      /\ told \in [Indices -> Told] /\ left \subseteq Indices
  BY DEF IInv, TypeOK
<1>4. /\ at \in Indices /\ at < NumItems /\ IsCached(at)
      /\ \A j \in Indices : j > at => asked[j] = 0
  BY <1>2, <1>3, OutArchiveAssumption DEF CacheAgrees, Indices
<1>5. /\ outItem' = result /\ references' = Len(result)
      /\ result # << >> => Verify(result[1]) /\ outItemLastIndex' = at
      /\ asked' \in [Indices -> Nat] /\ \A j \in Indices : asked'[j] <= 1
      /\ \A j \in Indices : j # at => asked'[j] = asked[j]
      /\ outItemLastIndex' \in {at, outItemLastIndex}
  BY <1>1, <1>3, <1>4, ItemStep
<1>6. Len(result) \in Nat /\ (result # << >> => result[1] \in Items) BY OutItemFacts
<1>7. \A j \in Indices : j > at => asked'[j] = 0
  <2>1. \A j \in Indices : j > at => j # at
    BY <1>4, OutArchiveAssumption DEF Indices
  <2> QED BY <1>4, <1>5, <2>1
<1>8. result # << >> => Verify(result[1])' BY <1>2, <1>5 DEF Verify, java
<1>9. /\ told' \in [Indices -> Told] /\ at' \in 0..NumItems /\ left' \subseteq Indices
      /\ pc' \in {"info", "streams", "failed"} /\ ToldIsConsistent'
      /\ pc' = "info" => at' = at + 1 /\ at' < NumItems /\ result # << >>
      /\ noted' \in BOOLEAN /\ (noted => noted')
  <2>1. connected' = connected BY <1>2 DEF java
  <2>2. CASE /\ HandlerFails /\ noted' \in {noted \/ result = << >>, TRUE}
             /\ UNCHANGED <<at, told, left>>
    BY <1>3, <2>1, <2>2 DEF HandlerFails, ToldIsConsistent
  <2>3. CASE /\ result # << >> /\ UNCHANGED noted
             /\ NextItem([told EXCEPT ![at].content = result[1].content])
    <3> DEFINE known == [told EXCEPT ![at].content = result[1].content]
    <3>1. told[at] \in Told /\ result[1].content \in BOOLEAN
      BY <1>3, <1>4, <1>6, <2>3 DEF Items
    <3>2. [told[at] EXCEPT !.content = result[1].content] \in Told BY <3>1 DEF Told
    <3>3. /\ known \in [Indices -> Told]
          /\ known[at] = [told[at] EXCEPT !.content = result[1].content]
          /\ \A j \in Indices : j # at => known[j] = told[j]
      BY <1>3, <1>4, <3>2
    <3>4. \A j \in Indices : /\ known[j].known = told[j].known /\ known[j].data = told[j].data
                             /\ known[j].props = told[j].props /\ known[j].old = told[j].old
      <4>1. /\ known[at].known = told[at].known /\ known[at].data = told[at].data
            /\ known[at].props = told[at].props /\ known[at].old = told[at].old
        <5> HIDE DEF known
        <5> QED BY <3>1, <3>3 DEF Told
      <4> HIDE DEF known
      <4> QED BY <3>3, <4>1
    <3>5. NextItem(known) BY <2>3
    <3> HIDE DEF known
    <3>6. /\ told' = known /\ at' = at + 1 /\ at' \in 0..NumItems
          /\ pc' \in {"info", "streams"} /\ (pc' = "info" => at' < NumItems)
          /\ left' \subseteq Indices
      BY <1>3, <1>4, <3>3, <3>5, NextItemFacts
    <3>7. ToldIsConsistent' BY <1>3, <2>1, <3>4, <3>6 DEF ToldIsConsistent
    <3> QED BY <1>3, <2>3, <3>3, <3>6, <3>7
  <2> QED BY <1>1, <2>2, <2>3
<1>10. TypeOK'
  <2>1. outItemLastIndex' \in Indices \cup {-1} BY <1>3, <1>4, <1>5
  <2> QED BY <1>2, <1>3, <1>5, <1>6, <1>9, <2>1 DEF TypeOK, java
<1>11. OneObjectPerItem' BY <1>5 DEF OneObjectPerItem
<1>12. ItemReleased' BY <1>5, <1>9 DEF ItemReleased
<1>13. CacheAgrees'
  <2>1. pc' = "info" => /\ at' < NumItems /\ outItemLastIndex' < at'
                        /\ \A j \in Indices : j >= at' => asked'[j] = 0
    BY <1>3, <1>5, <1>7, <1>9, OutArchiveAssumption DEF Indices
  <2> QED BY <1>5, <1>8, <1>9, <2>1 DEF CacheAgrees
<1>14. SkipsNoted'
  <2>1. skipped # noStream => noted BY <1>2 DEF IInv, SkipsNoted
  <2> QED BY <1>2, <1>9, <2>1 DEF SkipsNoted
<1>15. PendingAgrees' BY <1>2, <1>9 DEF IInv, PendingAgrees, java
<1> QED BY <1>9, <1>10, <1>11, <1>12, <1>13, <1>14, <1>15 DEF IInv

-----------------------------------------------------------------------------
(* The invariant is kept: the streams and the end of the update            *)

\* The steps that leave alone what the handler was told and the settings.
LEMMA StreamStep ==
    ASSUME IInv, UNCHANGED <<java, settings, pending, callback, told, outcome>>,
           pc \in {"streams", "read", "result"},
           pc' \in {"streams", "read", "result", "written", "failed"},
           at' \in 0..NumItems, left' \subseteq Indices, skipped' \subseteq Indices,
           noStream' \subseteq skipped', noted' \in BOOLEAN, noted => noted',
           skipped' # noStream' => noted' \/ skipped # noStream
    PROVE  IInv'
<1> USE DEF IInv, java, callback
<1>1. TypeOK' BY DEF TypeOK
<1>2. OneObjectPerItem' BY DEF OneObjectPerItem
<1>3. ItemReleased' BY DEF ItemReleased
<1>4. ToldIsConsistent' BY DEF ToldIsConsistent
<1>5. CacheAgrees' BY DEF CacheAgrees, Verify
<1>6. SkipsNoted' BY DEF SkipsNoted
<1>7. PendingAgrees' BY DEF PendingAgrees
<1> QED BY <1>1, <1>2, <1>3, <1>4, <1>5, <1>6, <1>7

LEMMA GetStreamStep == ASSUME IInv, NEW i \in Indices, GetStream(i) PROVE IInv'
<1>1. /\ skipped \subseteq Indices /\ noStream \subseteq skipped /\ noted \in BOOLEAN
      /\ left \subseteq Indices
  BY DEF IInv, TypeOK
<1>2. i \in 0..NumItems BY OutArchiveAssumption DEF Indices
<1>3. /\ pc = "streams" /\ at' = i /\ left' = left \ {i}
      /\ UNCHANGED <<java, settings, pending, callback, told, outcome>>
  BY DEF GetStream
<1>4. /\ pc' \in {"read", "result"} /\ noted' \in BOOLEAN /\ (noted => noted')
      /\ skipped' \subseteq Indices /\ noStream' \subseteq skipped'
      /\ skipped' # noStream' => noted' \/ skipped # noStream
  BY <1>1 DEF GetStream
<1> QED BY <1>1, <1>2, <1>3, <1>4, StreamStep

LEMMA OtherStreamSteps ==
    ASSUME IInv, ReadStream \/ SetOperationResult \/ Finish PROVE IInv'
<1>1. /\ skipped \subseteq Indices /\ noStream \subseteq skipped /\ noted \in BOOLEAN
      /\ left \subseteq Indices /\ at \in 0..NumItems
  BY DEF IInv, TypeOK
<1>2. /\ pc \in {"streams", "read", "result"}
      /\ pc' \in {"streams", "read", "result", "written", "failed"}
      /\ UNCHANGED <<java, settings, pending, callback, told, outcome>>
      /\ UNCHANGED <<at, left, skipped, noStream>>
      /\ noted' \in BOOLEAN /\ (noted => noted')
  BY <1>1 DEF ReadStream, SetOperationResult, Finish, HandlerFails, update
<1> QED BY <1>1, <1>2, StreamStep

LEMMA EndUpdateStep == ASSUME IInv, EndUpdate PROVE IInv'
<1>1. /\ pc \in {"written", "failed"} /\ pc' = "idle"
      /\ outcome' = (IF noted \/ pc = "failed" THEN "thrown" ELSE "returned")
      /\ outItem' = << >> /\ references' = references - Len(outItem)
      /\ UNCHANGED <<java, settings, pending, outItemLastIndex, asked, update, noted>>
  BY DEF EndUpdate
<1>2. Len(outItem) \in Nat /\ references = Len(outItem)
  BY OutItemFacts DEF IInv, TypeOK, ItemReleased
<1>3. references' = 0 BY <1>1, <1>2
<1>4. TypeOK' BY <1>1, <1>3 DEF IInv, TypeOK, java, update, OutItem
<1>5. OneObjectPerItem' BY <1>1 DEF IInv, OneObjectPerItem
<1>6. ItemReleased' BY <1>1, <1>3 DEF ItemReleased
<1>7. ToldIsConsistent' BY <1>1 DEF IInv, ToldIsConsistent, java, update
<1>8. CacheAgrees' BY <1>1 DEF CacheAgrees
<1>9. SkipsNoted' BY <1>1 DEF IInv, SkipsNoted, update
<1>10. PendingAgrees' BY <1>1 DEF IInv, PendingAgrees, java
<1> QED BY <1>4, <1>5, <1>6, <1>7, <1>8, <1>9, <1>10 DEF IInv

-----------------------------------------------------------------------------
(* The theorems                                                            *)

LEMMA NextIInv == ASSUME IInv, Next PROVE IInv'
<1>1. CASE Create \/ Close BY <1>1, CreateCloseStep
<1>2. CASE Closed BY <1>2, StutterStep DEF Closed
<1>3. ASSUME NEW l \in Levels \cup {Unset}, SetFeature("level", l) PROVE IInv'
  <2>1. [features EXCEPT !["level"] = l] \in Features BY DEF IInv, TypeOK, Features
  <2> QED BY <1>3, <2>1, SetFeatureStep
<1>4. ASSUME NEW n \in ThreadCounts \cup {Unset}, SetFeature("threads", n) PROVE IInv'
  <2>1. [features EXCEPT !["threads"] = n] \in Features BY DEF IInv, TypeOK, Features
  <2> QED BY <1>4, <2>1, SetFeatureStep
<1>5. ASSUME NEW solid \in BOOLEAN, SetFeature("solid", solid) PROVE IInv'
  <2>1. [features EXCEPT !["solid"] = solid] \in Features BY DEF IInv, TypeOK, Features
  <2> QED BY <1>5, <2>1, SetFeatureStep
<1>6. ASSUME NEW b \in Blocks \cup {Default}, SetFeature("block", b) PROVE IInv'
  <2>1. [features EXCEPT !["block"] = b] \in Features BY DEF IInv, TypeOK, Features, Block
  <2> QED BY <1>6, <2>1, SetFeatureStep
<1>7. CASE BeginUpdate BY <1>7, BeginUpdateStep
<1>8. CASE Apply BY <1>8, ApplyStep
<1>9. CASE Start BY <1>9, StartStep
<1>10. CASE GetUpdateItemInfo BY <1>10, GetUpdateItemInfoStep
<1>11. CASE GetProperty BY <1>11, GetPropertyStep
<1>12. ASSUME NEW i \in Indices, GetStream(i) PROVE IInv' BY <1>12, GetStreamStep
<1>13. CASE ReadStream \/ SetOperationResult \/ Finish BY <1>13, OtherStreamSteps
<1>14. CASE EndUpdate BY <1>14, EndUpdateStep
<1> QED
  BY <1>1, <1>2, <1>3, <1>4, <1>5, <1>6, <1>7, <1>8, <1>9, <1>10, <1>11, <1>12, <1>13, <1>14
  DEF Next

\* The inductive invariant: for any number of items, for new archives and for
\* changed copies, and for any sequence of updates and settings.
THEOREM OutArchiveInvariant == Spec => []IInv
<1>1. IInv /\ [Next]_vars => IInv' BY NextIInv, StutterStep
<1> QED BY InitIInv, <1>1, PTL DEF Spec

\* The settings, the callback and what the handler knows have their types.
THEOREM OutArchiveTypes == Spec => []TypeOK
<1>1. IInv => TypeOK BY DEF IInv
<1> QED BY OutArchiveInvariant, <1>1, PTL

\* When updateItems returns, only items whose stream was null are not in the
\* archive: no exception of getStream is lost, whatever the handler makes of
\* it.
THEOREM NothingLostSilently == Spec => []ReturnedMeansWritten
<1>1. IInv => ReturnedMeansWritten BY DEF IInv, SkipsNoted, ReturnedMeansWritten
<1> QED BY OutArchiveInvariant, <1>1, PTL

\* What the handler is told of an item is consistent, however it is filled.
THEOREM HandlerToldConsistently == Spec => []ToldIsConsistent
<1>1. IInv => ToldIsConsistent BY DEF IInv
<1> QED BY OutArchiveInvariant, <1>1, PTL

\* In an update Java is asked at most once for each item.
THEOREM ItemsAskedForOnce == Spec => []OneObjectPerItem
<1>1. IInv => OneObjectPerItem BY DEF IInv
<1> QED BY OutArchiveInvariant, <1>1, PTL

\* There is a global reference to the item in use only, and none after the
\* update.
THEOREM ItemsAreReleased == Spec => []ItemReleased
<1>1. IInv => ItemReleased BY DEF IInv
<1> QED BY OutArchiveInvariant, <1>1, PTL

\* An archive that is not to be solid is not, whatever else is set.
THEOREM NotSolidStays == Spec => []NotSolidIsKept
<1>1. IInv => NotSolidIsKept BY DEF IInv, PendingAgrees, NotSolidIsKept
<1> QED BY OutArchiveInvariant, <1>1, PTL
=============================================================================
