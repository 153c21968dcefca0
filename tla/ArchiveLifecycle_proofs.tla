------------------------ MODULE ArchiveLifecycle_proofs ------------------------
(***************************************************************************)
(* Archives of any number of codecs, calls nested to any depth: the        *)
(* inductive invariant of ArchiveLifecycle and what follows from it.       *)
(*                                                                         *)
(* The proof is about counting.  Each action moves references between the  *)
(* locals of a call, the fields of the Java objects, the calls under way   *)
(* and the handlers; the lemmas of the first part say by how much the      *)
(* holders of an object change, those of the second that one action keeps  *)
(* the invariant.                                                          *)
(***************************************************************************)
EXTENDS ArchiveLifecycle, FiniteSetTheorems, TLAPS

-----------------------------------------------------------------------------
(* Counting holders                                                        *)

Keepers(k, x) == {f \in Formats : x \in k[f]}
Kept(x) == Cardinality(Keepers(keeps, x))
StreamCallsOf(s) == Cardinality({k \in DOMAIN s : HoldsStream(s[k])})
StreamCalls == StreamCallsOf(calls)

LEMMA FormatsFinite == IsFiniteSet(Formats) /\ Formats \subseteq Nat \ {0}
<1>1. 1 \in Int /\ NumFormats \in Int BY FormatsAssumption
<1>2. IsFiniteSet(1..NumFormats) BY <1>1, FS_Interval
<1> QED BY <1>2, FormatsAssumption DEF Formats

LEMMA KeptNat ==
    ASSUME NEW x, NEW k
    PROVE  IsFiniteSet(Keepers(k, x)) /\ Cardinality(Keepers(k, x)) \in Nat
<1>1. Keepers(k, x) \in SUBSET Formats BY DEF Keepers
<1>2. IsFiniteSet(Keepers(k, x)) BY <1>1, FormatsFinite, FS_Subset
<1> QED BY <1>2, FS_CardinalityType

\* What one handler keeps is replaced by a set S.
LEMMA KeptChange ==
    ASSUME keeps \in [Formats -> SUBSET Adapters], NEW f \in Formats, NEW S,
           keeps' = [keeps EXCEPT ![f] = S]
    PROVE  \A x : /\ Kept(x) \in Nat /\ Kept(x)' \in Nat
                  /\ x \in keeps[f] /\ x \notin S => Kept(x)' = Kept(x) - 1
                  /\ x \notin keeps[f] /\ x \in S => Kept(x)' = Kept(x) + 1
                  /\ (x \in keeps[f] <=> x \in S) => Kept(x)' = Kept(x)
<1> SUFFICES ASSUME NEW x
             PROVE  /\ Kept(x) \in Nat /\ Kept(x)' \in Nat
                    /\ x \in keeps[f] /\ x \notin S => Kept(x)' = Kept(x) - 1
                    /\ x \notin keeps[f] /\ x \in S => Kept(x)' = Kept(x) + 1
                    /\ (x \in keeps[f] <=> x \in S) => Kept(x)' = Kept(x)
  OBVIOUS
<1> DEFINE old == Keepers(keeps, x)
           new == Keepers(keeps', x)
<1>1. IsFiniteSet(old) /\ Cardinality(old) \in Nat /\ IsFiniteSet(new) /\ Cardinality(new) \in Nat
  BY KeptNat
<1>2. \A g \in Formats : keeps'[g] = IF g = f THEN S ELSE keeps[g]
  OBVIOUS
<1>3. /\ x \in keeps[f] /\ x \notin S => new = old \ {f} /\ f \in old
      /\ x \notin keeps[f] /\ x \in S => new = old \cup {f} /\ f \notin old
      /\ (x \in keeps[f] <=> x \in S) => new = old
  BY <1>2 DEF Keepers
<1>4. Kept(x) = Cardinality(old) /\ Kept(x)' = Cardinality(new) BY DEF Kept
<1> HIDE DEF old, new
<1>5. /\ f \in old => Cardinality(old \ {f}) = Cardinality(old) - 1
      /\ f \notin old => Cardinality(old \cup {f}) = Cardinality(old) + 1
  BY <1>1, FS_AddElement, FS_RemoveElement
<1> QED BY <1>1, <1>3, <1>4, <1>5

\* The calls that hold the stream, when one begins and when the innermost ends.
LEMMA StreamCallsNat ==
    ASSUME NEW s \in Seq(Calls)
    PROVE  /\ IsFiniteSet({k \in DOMAIN s : HoldsStream(s[k])})
           /\ Cardinality({k \in DOMAIN s : HoldsStream(s[k])}) \in Nat
<1>1. DOMAIN s = 1..Len(s) /\ Len(s) \in Nat
  OBVIOUS
<1>2. IsFiniteSet(DOMAIN s) BY <1>1, FS_Interval
<1>3. {k \in DOMAIN s : HoldsStream(s[k])} \in SUBSET DOMAIN s
  OBVIOUS
<1>4. IsFiniteSet({k \in DOMAIN s : HoldsStream(s[k])}) BY <1>2, <1>3, FS_Subset
<1> QED BY <1>4, FS_CardinalityType

LEMMA StreamCallsAppend ==
    ASSUME NEW s \in Seq(Calls), NEW c \in Calls
    PROVE  StreamCallsOf(Append(s, c)) = StreamCallsOf(s) + One(HoldsStream(c))
<1> DEFINE n == Len(s) + 1
           t == Append(s, c)
           old == {k \in DOMAIN s : HoldsStream(s[k])}
           new == {k \in DOMAIN t : HoldsStream(t[k])}
<1>1. /\ DOMAIN s = 1..Len(s) /\ Len(s) \in Nat /\ DOMAIN t = 1..n
      /\ t[n] = c /\ \A k \in DOMAIN s : t[k] = s[k]
  OBVIOUS
<1>2. IsFiniteSet(old) /\ Cardinality(old) \in Nat BY StreamCallsNat
<1>3. n \notin old /\ \A k : k \in 1..n <=> k \in 1..Len(s) \/ k = n BY <1>1
<1>4. new = IF HoldsStream(c) THEN old \cup {n} ELSE old BY <1>1, <1>3
<1>5. Cardinality(new) = Cardinality(old) + One(HoldsStream(c))
  <2> HIDE DEF new, old, n
  <2>1. Cardinality(old \cup {n}) = Cardinality(old) + 1 BY <1>2, <1>3, FS_AddElement
  <2> QED BY <1>2, <1>4, <2>1 DEF One
<1> QED BY <1>5 DEF StreamCallsOf

LEMMA SeqEqual ==
    ASSUME NEW S, NEW s \in Seq(S), NEW t \in Seq(S), Len(s) = Len(t),
           \A k \in 1..Len(t) : s[k] = t[k]
    PROVE  s = t
<1>1. DOMAIN s = 1..Len(s) /\ DOMAIN t = 1..Len(t)
  OBVIOUS
<1>2. s = [k \in DOMAIN s |-> s[k]] /\ t = [k \in DOMAIN t |-> t[k]]
  OBVIOUS
<1> QED BY <1>1, <1>2

LEMMA FrontAndLast ==
    ASSUME NEW S, NEW s \in Seq(S), NEW t \in Seq(S), NEW c \in S,
           Len(s) > 0, Len(t) = Len(s) - 1,
           \A k \in 1..(Len(s) - 1) : t[k] = s[k], c = s[Len(s)]
    PROVE  s = Append(t, c)
<1> DEFINE n == Len(s)
<1>1. n \in Nat /\ Len(t) = n - 1
  OBVIOUS
<1>2. /\ Append(t, c) \in Seq(S) /\ Len(Append(t, c)) = n
      /\ Append(t, c)[n] = c /\ \A k \in 1..(n - 1) : Append(t, c)[k] = t[k]
  BY <1>1
<1>3. ASSUME NEW k \in 1..n
      PROVE  s[k] = Append(t, c)[k]
  <2>1. k = n \/ k \in 1..(n - 1)
    <3> HIDE DEF n
    <3> QED BY <1>1
  <2> QED BY <1>2, <2>1
<1> QED BY <1>2, <1>3, SeqEqual

LEMMA StreamCallsFront ==
    ASSUME NEW s \in Seq(Calls), s # << >>, NEW t, t = SubSeq(s, 1, Len(s) - 1),
           NEW c, c = s[Len(s)]
    PROVE  /\ t \in Seq(Calls) /\ Len(t) = Len(s) - 1
           /\ HoldsStream(c) => StreamCallsOf(s) = StreamCallsOf(t) + 1
           /\ ~HoldsStream(c) => StreamCallsOf(s) = StreamCallsOf(t)
<1>1. Len(s) \in Nat /\ Len(s) > 0 /\ DOMAIN s = 1..Len(s)
  OBVIOUS
<1>2. c \in Calls BY <1>1
<1>3. t \in Seq(Calls) /\ Len(t) = Len(s) - 1 /\ \A k \in 1..(Len(s) - 1) : t[k] = s[k] BY <1>1
<1>4. s = Append(t, c) BY <1>1, <1>2, <1>3, FrontAndLast
<1>5. StreamCallsOf(s) = StreamCallsOf(t) + One(HoldsStream(c))
  BY <1>2, <1>3, <1>4, StreamCallsAppend
<1>6. StreamCallsOf(t) \in Nat BY <1>3, StreamCallsNat DEF StreamCallsOf
<1> QED BY <1>3, <1>5, <1>6 DEF One

-----------------------------------------------------------------------------
(* What the lemmas on the actions share                                    *)

HandlersAgree == \A f \in Formats : handler[f] = HandlerHolders(f)
AdaptersAgree == \A x \in Adapters : adapter[x] = AdapterHolders(x)
UnheldIsEmpty == \A f \in Formats : handler[f] = 0 => keeps[f] = {} /\ f \notin opened

\* The holders of an adapter that are not handlers.
Direct(x) ==
    One(x \in op.locals) + One(x = "stream" /\ inArchive # Null)
    + (IF x = "stream" THEN StreamCalls ELSE 0)

OpType == [pc : {"idle", "codec", "created", "opened", "leave", "close", "closed"},
           asked : Formats \cup {AnyFormat, Unknown}, current : Formats \cup {Null},
           locals : SUBSET {"archive", "stream", "callback"},
           thrown : BOOLEAN, delete : BOOLEAN, simple : BOOLEAN, failed : BOOLEAN]

Agreements == IdleAgrees /\ OpenAgrees /\ CloseAgrees /\ FieldsAgree

\* Every holder counts.
LEMMA HoldersNat ==
    ASSUME TypeOK
    PROVE  /\ \A f \in Formats : HandlerHolders(f) \in Nat
           /\ \A x \in Adapters : Direct(x) \in Nat /\ Kept(x) \in Nat
           /\ \A x \in Adapters : AdapterHolders(x) = Direct(x) + Kept(x)
           /\ inArchive # Null => Direct("stream") > 0
           /\ inArchive \in Formats => HandlerHolders(inArchive) > 0
<1>1. Len(calls) \in Nat BY DEF TypeOK
<1>2. StreamCalls \in Nat BY StreamCallsNat DEF TypeOK, StreamCalls, StreamCallsOf
<1>3. \A x : Kept(x) \in Nat BY KeptNat DEF Kept
<1>4. \A f \in Formats : HandlerHolders(f) \in Nat
  <2> DEFINE n == Len(calls)
  <2>1. ASSUME NEW f \in Formats
        PROVE  HandlerHolders(f) = One("archive" \in op.locals /\ op.current = f) + One(inArchive = f)
                                   + One(outArchive = f) + (IF inArchive = f THEN n ELSE 0)
    BY DEF HandlerHolders
  <2>2. n \in Nat BY <1>1
  <2> HIDE DEF n
  <2> QED BY <2>1, <2>2 DEF One
<1>5. \A x \in Adapters : Direct(x) \in Nat BY <1>2 DEF Direct, One
<1>6. \A x \in Adapters : AdapterHolders(x) = Direct(x) + Kept(x)
  BY DEF AdapterHolders, Direct, Kept, Keepers, StreamCalls, StreamCallsOf
<1>7. inArchive # Null => Direct("stream") > 0 BY <1>2 DEF Direct, One
<1>8. inArchive \in Formats => HandlerHolders(inArchive) > 0 BY <1>1 DEF HandlerHolders, One
<1> QED BY <1>3, <1>4, <1>5, <1>6, <1>7, <1>8

\* The types of the counts follow from what they count.
LEMMA CountTypes ==
    ASSUME /\ session' \in {"none", "live", "deleted"}
           /\ opened' \subseteq Formats /\ keeps' \in [Formats -> SUBSET Adapters]
           /\ position' \in {"start", "moved"}
           /\ inArchive' \in Formats \cup {Null} /\ outArchive' \in Formats \cup {Null, NoObject}
           /\ op' \in OpType /\ calls' \in Seq(Calls)
           /\ {counted', wasClosed', crashed'} \subseteq BOOLEAN
           /\ simpleClose' \in {"none", "returned", "thrown"},
           handler' = [f \in Formats |-> handler'[f]], adapter' = [x \in Adapters |-> adapter'[x]],
           HandlersAgree', AdaptersAgree', UnheldIsEmpty'
    PROVE  TypeOK' /\ CountsAgree'
<1>1. Len(calls') \in Nat
  OBVIOUS
<1>2. StreamCalls' \in Nat BY StreamCallsNat DEF StreamCalls, StreamCallsOf
<1>3. \A f \in Formats : HandlerHolders(f)' \in Nat
  <2> SUFFICES ASSUME NEW f \in Formats
               PROVE  HandlerHolders(f)' \in Nat
    OBVIOUS
  <2> DEFINE a == One("archive" \in op'.locals /\ op'.current = f)
             b == One(inArchive' = f)
             c == One(outArchive' = f)
             d == IF inArchive' = f THEN Len(calls') ELSE 0
  <2>1. HandlerHolders(f)' = a + b + c + d BY DEF HandlerHolders
  <2>2. a \in Nat /\ b \in Nat /\ c \in Nat /\ d \in Nat BY <1>1 DEF One
  <2> HIDE DEF a, b, c, d
  <2> QED BY <2>1, <2>2
<1>4. \A x \in Adapters : AdapterHolders(x)' = Direct(x)' + Kept(x)'
  BY DEF AdapterHolders, Direct, Kept, Keepers, StreamCalls, StreamCallsOf
<1>5. \A x \in Adapters : AdapterHolders(x)' \in Nat
  <2>1. \A x : Kept(x)' \in Nat BY KeptNat DEF Kept
  <2> QED BY <1>2, <1>4, <2>1 DEF Direct, One
<1>6. handler' \in [Formats -> Nat] /\ adapter' \in [Adapters -> Nat]
  <2>1. \A f \in Formats : handler'[f] \in Nat BY <1>3 DEF HandlersAgree
  <2>2. \A x \in Adapters : adapter'[x] \in Nat BY <1>5 DEF AdaptersAgree
  <2> QED BY <2>1, <2>2
<1> QED BY <1>6 DEF TypeOK, OpType, CountsAgree, HandlersAgree, AdaptersAgree, UnheldIsEmpty

\* A handler lets go of all it keeps but rest: its adapters lose just these
\* holders.
LEMMA LetsGo ==
    ASSUME TypeOK, NEW f \in Formats, NEW rest \in SUBSET keeps[f], HandlerLetsGo(f, rest)
    PROVE  /\ keeps' \in [Formats -> SUBSET Adapters] /\ keeps'[f] = rest
           /\ \A g \in Formats : g # f => keeps'[g] = keeps[g]
           /\ opened' = opened \ {f}
           /\ adapter' = [x \in Adapters |-> adapter'[x]]
           /\ \A x \in Adapters : adapter'[x] = adapter[x] - Kept(x) + Kept(x)'
<1>1. /\ keeps' = [keeps EXCEPT ![f] = rest] /\ opened' = opened \ {f}
      /\ adapter' = Minus(adapter, keeps[f] \ rest)
  BY DEF HandlerLetsGo
<1>2. keeps \in [Formats -> SUBSET Adapters] /\ adapter \in [Adapters -> Nat] BY DEF TypeOK
<1>3. /\ keeps' \in [Formats -> SUBSET Adapters] /\ keeps'[f] = rest
      /\ \A g \in Formats : g # f => keeps'[g] = keeps[g]
  BY <1>1, <1>2
<1>4. /\ adapter' = [x \in Adapters |-> adapter'[x]]
      /\ \A x \in Adapters : adapter'[x] = adapter[x] - One(x \in keeps[f]) + One(x \in rest)
  BY <1>1, <1>2 DEF Minus, One
<1>5. \A x : /\ Kept(x) \in Nat /\ Kept(x)' \in Nat
             /\ x \in keeps[f] /\ x \notin rest => Kept(x)' = Kept(x) - 1
             /\ x \notin keeps[f] /\ x \in rest => Kept(x)' = Kept(x) + 1
             /\ (x \in keeps[f] <=> x \in rest) => Kept(x)' = Kept(x)
  BY <1>1, <1>2, KeptChange
<1>6. ASSUME NEW x \in Adapters
      PROVE  adapter'[x] = adapter[x] - Kept(x) + Kept(x)'
  <2>1. adapter[x] \in Nat BY <1>2
  <2> QED BY <1>4, <1>5, <2>1 DEF One
<1> QED BY <1>1, <1>3, <1>4, <1>6

\* The adapters agree when what changes are only handlers, in this way.
LEMMA OnlyKeptChanges ==
    ASSUME TypeOK, AdaptersAgree,
           \A x \in Adapters : adapter'[x] = adapter[x] - Kept(x) + Kept(x)',
           \A x \in Adapters : Direct(x)' = Direct(x)
    PROVE  AdaptersAgree'
<1>1. ASSUME NEW x \in Adapters
      PROVE  adapter'[x] = AdapterHolders(x)'
  <2>1. AdapterHolders(x) = Direct(x) + Kept(x) /\ Direct(x) \in Nat /\ Kept(x) \in Nat
    BY HoldersNat
  <2>2. AdapterHolders(x)' = Direct(x)' + Kept(x)'
    BY DEF AdapterHolders, Direct, Kept, Keepers, StreamCalls, StreamCallsOf
  <2>3. Kept(x)' \in Nat BY KeptNat DEF Kept
  <2>4. adapter[x] = Direct(x) + Kept(x) BY <2>1 DEF AdaptersAgree
  <2>5. adapter'[x] = adapter[x] - Kept(x) + Kept(x)' /\ Direct(x)' = Direct(x)
    OBVIOUS
  <2> QED BY <2>1, <2>2, <2>3, <2>4, <2>5
<1> QED BY <1>1 DEF AdaptersAgree

\* The adapters agree when no handler changes what it keeps and each count changes
\* as the other holders do.
LEMMA OnlyDirectChanges ==
    ASSUME TypeOK, AdaptersAgree, keeps' = keeps,
           \A x \in Adapters : adapter'[x] = adapter[x] - Direct(x) + Direct(x)',
           \A x \in Adapters : Direct(x)' \in Int
    PROVE  AdaptersAgree'
<1>1. ASSUME NEW x \in Adapters
      PROVE  adapter'[x] = AdapterHolders(x)'
  <2>1. AdapterHolders(x) = Direct(x) + Kept(x) /\ Direct(x) \in Nat /\ Kept(x) \in Nat
    BY HoldersNat
  <2>2. AdapterHolders(x)' = Direct(x)' + Kept(x)'
    BY DEF AdapterHolders, Direct, Kept, Keepers, StreamCalls, StreamCallsOf
  <2>3. Kept(x)' = Kept(x) BY DEF Kept
  <2>4. adapter[x] = Direct(x) + Kept(x) BY <2>1 DEF AdaptersAgree
  <2>5. adapter'[x] = adapter[x] - Direct(x) + Direct(x)' /\ Direct(x)' \in Int
    OBVIOUS
  <2> QED BY <2>1, <2>2, <2>3, <2>4, <2>5
<1> QED BY <1>1 DEF AdaptersAgree

-----------------------------------------------------------------------------
(* Opening                                                                 *)

LEMMA OpenKeeps ==
    ASSUME IInv, NEW asked \in Formats \cup {AnyFormat, Unknown}, Open(asked)
    PROVE  IInv'
<1> USE DEF IInv
<1>1. /\ ~crashed /\ op = Idle /\ inArchive = Null /\ outArchive \notin Formats /\ calls = << >>
      /\ session' = "live" /\ position' = "start" /\ outArchive' = NoObject
      /\ counted' = FALSE /\ wasClosed' = FALSE /\ simpleClose' = "none"
      /\ handler' = handler /\ opened' = opened /\ keeps' = keeps /\ inArchive' = Null
      /\ calls' = << >> /\ ~crashed' /\ crashed' = crashed
  BY DEF Open, CanCall, IdleAgrees, FieldsAgree
<1>2. \/ /\ asked = Unknown /\ adapter' = adapter
         /\ op' = [Idle EXCEPT !.pc = "leave", !.thrown = TRUE, !.delete = TRUE]
      \/ /\ asked # Unknown /\ adapter' = Plus(adapter, {"stream", "callback"})
         /\ op' = [Idle EXCEPT !.pc = "codec", !.asked = asked,
                               !.locals = {"stream", "callback"}]
  BY DEF Open
<1>3. /\ op' \in OpType /\ op'.current = Null /\ "archive" \notin op'.locals /\ ~op'.failed
      /\ \/ op'.pc = "leave" /\ op'.locals = {} /\ adapter' = adapter /\ op'.delete
         \/ /\ op'.pc = "codec" /\ op'.locals = {"stream", "callback"} /\ ~op'.delete
            /\ adapter' = Plus(adapter, {"stream", "callback"}) /\ op'.asked # Unknown
            /\ op'.asked = AnyFormat \/ op'.asked \in Formats
  <2>1. CASE asked = Unknown
    BY <1>2, <2>1 DEF Idle, OpType, AnyFormat, Unknown, Null
  <2>2. CASE asked # Unknown
    <3>1. /\ op' = [pc |-> "codec", asked |-> asked, current |-> Null,
                    locals |-> {"stream", "callback"}, thrown |-> FALSE, delete |-> FALSE,
                    simple |-> FALSE, failed |-> FALSE]
          /\ adapter' = Plus(adapter, {"stream", "callback"})
      BY <1>2, <2>2 DEF Idle
    <3>2. asked = AnyFormat \/ asked \in Formats BY <2>2
    <3> QED BY <2>2, <3>1, <3>2 DEF OpType
  <2> QED BY <2>1, <2>2
<1>4. op.locals = {} /\ op.current = Null BY <1>1 DEF Idle
<1>5. HandlersAgree'
  <2>1. ASSUME NEW f \in Formats
        PROVE  handler'[f] = HandlerHolders(f)'
    <3>1. handler[f] = HandlerHolders(f) BY DEF CountsAgree
    <3>2. f # Null /\ f # NoObject /\ outArchive # f BY <1>1, FormatsFinite DEF Null, NoObject
    <3>3. HandlerHolders(f) = 0 BY <1>1, <1>4, <3>2 DEF HandlerHolders, One
    <3>4. HandlerHolders(f)' = 0 BY <1>1, <1>3, <3>2 DEF HandlerHolders, One
    <3> QED BY <1>1, <3>1, <3>3, <3>4
  <2> QED BY <2>1 DEF HandlersAgree
<1>6. AdaptersAgree'
  <2>1. AdaptersAgree BY DEF CountsAgree, AdaptersAgree
  <2>2. ASSUME NEW x \in Adapters
        PROVE  /\ Direct(x)' \in Int
               /\ adapter'[x] = adapter[x] - Direct(x) + Direct(x)'
    <3>1. StreamCalls \in Nat BY StreamCallsNat DEF TypeOK, StreamCalls, StreamCallsOf
    <3>2. StreamCalls' = StreamCalls BY <1>1 DEF StreamCalls
    <3>3. adapter[x] \in Nat BY DEF TypeOK
    <3>4. Direct(x) = IF x = "stream" THEN StreamCalls ELSE 0
      BY <1>1, <1>4, <3>1 DEF Direct, One
    <3>5. CASE op'.locals = {} /\ adapter' = adapter
      BY <1>1, <3>1, <3>2, <3>3, <3>4, <3>5 DEF Direct, One
    <3>6. CASE op'.locals = {"stream", "callback"} /\ adapter' = Plus(adapter, {"stream", "callback"})
      BY <1>1, <3>1, <3>2, <3>3, <3>4, <3>6 DEF Direct, One, Plus
    <3> QED BY <1>3, <3>5, <3>6
  <2> QED BY <1>1, <2>1, <2>2, OnlyDirectChanges
<1>7. TypeOK' /\ CountsAgree'
  <2>1. UnheldIsEmpty' BY <1>1 DEF CountsAgree, UnheldIsEmpty
  <2>2. adapter' = [x \in Adapters |-> adapter'[x]] /\ handler' = [f \in Formats |-> handler'[f]]
    BY <1>1, <1>3 DEF Plus, TypeOK
  <2> QED BY <1>1, <1>3, <1>5, <1>6, <2>1, <2>2, CountTypes DEF TypeOK
<1>8. Agreements'
  BY <1>1, <1>3, FormatsAssumption
  DEF Agreements, IdleAgrees, OpenAgrees, CloseAgrees, FieldsAgree, Null, NoObject, AnyFormat
<1>9. HandedOutIsOpen' /\ CodecsStartAtZero'
  BY <1>1 DEF HandedOutIsOpen, CodecsStartAtZero
<1> QED BY <1>7, <1>8, <1>9 DEF Agreements

\* The next handler is made, and the one before goes.
LEMMA CreateHandlerKeeps ==
    ASSUME IInv, op.pc = "codec", NEW f \in Formats, f # op.current, CreateHandler(f),
           position' \in {"start", "moved"}, op' \in OpType, op'.current = f,
           op'.locals = op.locals \cup {"archive"},
           UNCHANGED <<session, java, calls, crashed, simpleClose>>
    PROVE  TypeOK' /\ CountsAgree' /\ keeps'[f] = {}
<1> USE DEF IInv
<1>1. /\ inArchive = Null /\ outArchive = NoObject /\ calls = << >>
      /\ inArchive' = Null /\ outArchive' = NoObject /\ calls' = << >>
  BY DEF OpenAgrees, IdleAgrees, java
<1>2. handler' = [g \in Formats |-> IF g = f THEN 1 ELSE IF g = op.current THEN 0 ELSE handler[g]]
  BY DEF CreateHandler
<1>3. "archive" \in op.locals <=> op.current # Null BY DEF IdleAgrees
<1>4. ASSUME NEW g \in Formats
      PROVE  handler[g] = IF g = op.current THEN 1 ELSE 0
  <2>1. g # Null /\ g # NoObject BY FormatsFinite DEF Null, NoObject
  <2>2. HandlerHolders(g) = IF g = op.current THEN 1 ELSE 0
    BY <1>1, <1>3, <2>1 DEF HandlerHolders, One
  <2> QED BY <2>2 DEF CountsAgree
<1>5. HandlersAgree'
  <2>1. ASSUME NEW g \in Formats
        PROVE  handler'[g] = HandlerHolders(g)'
    <3>1. g # Null /\ g # NoObject BY FormatsFinite DEF Null, NoObject
    <3>2. HandlerHolders(g)' = IF g = f THEN 1 ELSE 0
      BY <1>1, <3>1 DEF HandlerHolders, One
    <3>3. handler'[g] = IF g = f THEN 1 ELSE 0 BY <1>2, <1>4
    <3> QED BY <3>2, <3>3
  <2> QED BY <2>1 DEF HandlersAgree
<1>6. /\ keeps' \in [Formats -> SUBSET Adapters] /\ keeps'[f] = {}
      /\ \A g \in Formats : g # op.current => keeps'[g] = keeps[g]
      /\ op.current \in Formats => keeps'[op.current] = {} /\ op.current \notin opened'
      /\ opened' \subseteq opened
      /\ adapter' = [x \in Adapters |-> adapter'[x]]
      /\ \A x \in Adapters : adapter'[x] = adapter[x] - Kept(x) + Kept(x)'
  <2>1. keeps[f] = {} BY <1>4 DEF CountsAgree
  <2>2. CASE op.current = Null
    <3>1. UNCHANGED <<opened, keeps, adapter>> BY <2>2 DEF CreateHandler
    <3>2. \A x \in Adapters : Kept(x) \in Nat /\ Kept(x)' = Kept(x)
      BY <3>1, KeptNat DEF Kept
    <3>3. op.current \notin Formats BY <2>2, FormatsFinite DEF Null
    <3> QED BY <2>1, <3>1, <3>2, <3>3 DEF TypeOK
  <2>3. CASE op.current # Null
    <3>1. HandlerLetsGo(op.current, {}) /\ op.current \in Formats
      BY <2>3 DEF CreateHandler, TypeOK
    <3> QED BY <2>1, <3>1, LetsGo
  <2> QED BY <2>2, <2>3
<1>7. AdaptersAgree'
  <2>1. AdaptersAgree BY DEF CountsAgree, AdaptersAgree
  <2>2. ASSUME NEW x \in Adapters
        PROVE  Direct(x)' = Direct(x)
    <3>1. x \in op'.locals <=> x \in op.locals BY DEF Adapters
    <3>2. StreamCalls' = StreamCalls BY <1>1 DEF StreamCalls
    <3> QED BY <1>1, <3>1, <3>2 DEF Direct
  <2> QED BY <1>6, <2>1, <2>2, OnlyKeptChanges
<1>8. UnheldIsEmpty'
  <2>1. ASSUME NEW g \in Formats, handler'[g] = 0
        PROVE  keeps'[g] = {} /\ g \notin opened'
    <3>1. g # f BY <1>2, <2>1
    <3>2. CASE g = op.current BY <1>6, <3>2
    <3>3. CASE g # op.current
      <4>1. handler[g] = 0 BY <1>4, <3>3
      <4>2. keeps[g] = {} /\ g \notin opened BY <4>1 DEF CountsAgree
      <4> QED BY <1>6, <3>3, <4>2
    <3> QED BY <3>2, <3>3
  <2> QED BY <2>1 DEF UnheldIsEmpty
<1>9. TypeOK' /\ CountsAgree'
  BY <1>1, <1>2, <1>5, <1>6, <1>7, <1>8, CountTypes DEF TypeOK, java
<1> QED BY <1>6, <1>9

LEMMA NextCodecKeeps ==
    ASSUME IInv, NextCodec
    PROVE  IInv'
<1> USE DEF IInv
<1>1. PICK threw \in BOOLEAN :
         /\ position' = IF threw THEN position ELSE "start"
         /\ op' = [op EXCEPT !.pc = "created", !.current = @ + 1, !.locals = @ \cup {"archive"},
                             !.thrown = @ \/ threw, !.failed = @ \/ threw]
  BY DEF NextCodec
<1>2. /\ op.pc = "codec" /\ op.asked = AnyFormat /\ CreateHandler(op.current + 1)
      /\ UNCHANGED <<session, java, calls, crashed, simpleClose>>
  BY DEF NextCodec
<1>3. op \in OpType /\ position \in {"start", "moved"} BY DEF TypeOK, OpType
<1>4. /\ op.current < NumFormats /\ inArchive = Null /\ outArchive = NoObject /\ ~op.delete
      /\ {"stream", "callback"} \subseteq op.locals /\ (op.failed => op.thrown)
      /\ session = "live" /\ calls = << >> /\ ~crashed
  BY <1>2 DEF OpenAgrees, IdleAgrees
<1>5. op.current + 1 \in Formats /\ op.current # op.current + 1 /\ op.current + 1 # Null
  <2>1. op.current = 0 \/ op.current \in 1..NumFormats BY <1>3 DEF OpType, Formats, Null
  <2> QED BY <1>4, <2>1, FormatsAssumption DEF Formats, Null
<1>6. /\ op' \in OpType /\ op'.current = op.current + 1 /\ op'.pc = "created"
      /\ op'.locals = op.locals \cup {"archive"} /\ op'.asked = AnyFormat
      /\ op'.delete = op.delete /\ op'.thrown = (op.thrown \/ threw)
      /\ op'.failed = (op.failed \/ threw)
  BY <1>1, <1>2, <1>3, <1>5 DEF OpType
<1>7. position' \in {"start", "moved"} BY <1>1, <1>3
<1>8. TypeOK' /\ CountsAgree' /\ keeps'[op.current + 1] = {}
  BY <1>2, <1>5, <1>6, <1>7, CreateHandlerKeeps
<1>9. /\ inArchive' = Null /\ outArchive' = NoObject /\ session' = "live" /\ calls' = << >>
      /\ ~crashed' /\ simpleClose' = simpleClose /\ wasClosed' = wasClosed
  BY <1>2, <1>4 DEF java
<1>10. Agreements'
  BY <1>4, <1>5, <1>6, <1>8, <1>9
  DEF Agreements, IdleAgrees, OpenAgrees, CloseAgrees, FieldsAgree, Null, AnyFormat, Unknown
<1>11. CodecsStartAtZero'
  <2>1. op.thrown \in BOOLEAN BY <1>3 DEF OpType
  <2>2. threw => op'.thrown BY <1>6, <2>1
  <2>3. ~threw => position' = "start" BY <1>1
  <2> QED BY <2>2, <2>3 DEF CodecsStartAtZero
<1>12. HandedOutIsOpen'
  BY <1>9 DEF HandedOutIsOpen
<1> QED BY <1>8, <1>10, <1>11, <1>12 DEF Agreements

LEMMA GivenCodecKeeps ==
    ASSUME IInv, GivenCodec
    PROVE  IInv'
<1> USE DEF IInv
<1>1. /\ op.pc = "codec" /\ op.asked # AnyFormat /\ CreateHandler(op.asked)
      /\ op' = [op EXCEPT !.pc = "created", !.current = op.asked, !.locals = @ \cup {"archive"}]
      /\ position' = position /\ UNCHANGED <<session, java, calls, crashed, simpleClose>>
  BY DEF GivenCodec
<1>2. op \in OpType /\ position \in {"start", "moved"} BY DEF TypeOK, OpType
<1>3. /\ op.current = Null /\ inArchive = Null /\ outArchive = NoObject /\ ~op.delete
      /\ {"stream", "callback"} \subseteq op.locals /\ (op.failed => op.thrown)
      /\ session = "live" /\ calls = << >> /\ ~crashed /\ op.asked # Unknown
  BY <1>1 DEF OpenAgrees, IdleAgrees
<1>4. op.asked \in Formats /\ op.asked # Null
  BY <1>1, <1>2, <1>3, FormatsFinite DEF OpType, Null
<1>5. /\ op' \in OpType /\ op'.current = op.asked /\ op'.pc = "created"
      /\ op'.locals = op.locals \cup {"archive"} /\ op'.asked = op.asked
      /\ op'.delete = op.delete /\ op'.thrown = op.thrown /\ op'.failed = op.failed
  BY <1>1, <1>2, <1>4 DEF OpType
<1>6. TypeOK' /\ CountsAgree' /\ keeps'[op.asked] = {}
  BY <1>1, <1>2, <1>3, <1>4, <1>5, CreateHandlerKeeps
<1>7. /\ inArchive' = Null /\ outArchive' = NoObject /\ session' = "live" /\ calls' = << >>
      /\ ~crashed' /\ simpleClose' = simpleClose /\ wasClosed' = wasClosed
  BY <1>1, <1>3 DEF java
<1>8. Agreements'
  BY <1>3, <1>4, <1>5, <1>6, <1>7
  DEF Agreements, IdleAgrees, OpenAgrees, CloseAgrees, FieldsAgree, Null, AnyFormat, Unknown
<1>9. HandedOutIsOpen' /\ CodecsStartAtZero'
  BY <1>1, <1>5, <1>7 DEF HandedOutIsOpen, CodecsStartAtZero
<1> QED BY <1>6, <1>8, <1>9 DEF Agreements

LEMMA TryOpenKeeps ==
    ASSUME IInv, TryOpen
    PROVE  IInv'
<1> USE DEF IInv
<1> DEFINE f == op.current
<1>1. PICK accepted \in BOOLEAN, threw \in BOOLEAN, kept \in SUBSET Adapters :
         LET next == IF accepted THEN "opened"
                     ELSE IF op.asked = AnyFormat /\ op.current < NumFormats THEN "codec" ELSE "leave"
         IN /\ keeps' = [keeps EXCEPT ![f] = kept]
            /\ adapter' = Plus(adapter, kept)
            /\ opened' = IF accepted THEN opened \cup {f} ELSE opened
            /\ op' = [op EXCEPT !.pc = next, !.thrown = @ \/ threw \/ next = "leave",
                                !.failed = @ \/ threw, !.delete = (next = "leave")]
  BY DEF TryOpen
<1> DEFINE next == IF accepted THEN "opened"
                   ELSE IF op.asked = AnyFormat /\ op.current < NumFormats THEN "codec" ELSE "leave"
<1>2. /\ op.pc = "created" /\ position' = "moved"
      /\ UNCHANGED <<session, handler, java, calls, crashed, simpleClose>>
  BY DEF TryOpen
<1>3. op \in OpType BY DEF TypeOK, OpType
<1>4. /\ f # Null /\ f \in Formats /\ keeps[f] = {} /\ "archive" \in op.locals
      /\ inArchive = Null /\ outArchive = NoObject /\ calls = << >> /\ session = "live" /\ ~crashed
      /\ ~op.delete /\ op.asked # Unknown /\ {"stream", "callback"} \subseteq op.locals
      /\ op.failed => op.thrown
  BY <1>2, <1>3 DEF OpenAgrees, IdleAgrees, OpType
<1>5. /\ op' \in OpType /\ op'.pc = next /\ op'.current = f /\ op'.locals = op.locals
      /\ op'.asked = op.asked /\ op'.failed = (op.failed \/ threw)
      /\ op'.thrown = (op.thrown \/ threw \/ next = "leave") /\ op'.delete = (next = "leave")
  <2>1. next \in {"opened", "codec", "leave"}
    OBVIOUS
  <2>2. op' = [op EXCEPT !.pc = next, !.thrown = @ \/ threw \/ next = "leave",
                         !.failed = @ \/ threw, !.delete = (next = "leave")]
    BY <1>1
  <2> HIDE DEF next
  <2> QED BY <1>3, <2>1, <2>2 DEF OpType
<1>6. /\ inArchive' = Null /\ outArchive' = NoObject /\ calls' = << >> /\ session' = "live"
      /\ ~crashed' /\ handler' = handler /\ wasClosed' = wasClosed /\ simpleClose' = simpleClose
  BY <1>2, <1>4 DEF java
<1>7. keeps \in [Formats -> SUBSET Adapters] /\ adapter \in [Adapters -> Nat] BY DEF TypeOK
<1>8. HandlersAgree'
  <2>1. ASSUME NEW g \in Formats
        PROVE  handler'[g] = HandlerHolders(g)'
    <3>1. HandlerHolders(g)' = HandlerHolders(g) BY <1>4, <1>5, <1>6 DEF HandlerHolders
    <3> QED BY <1>6, <3>1 DEF CountsAgree
  <2> QED BY <2>1 DEF HandlersAgree
<1>9. AdaptersAgree'
  <2>1. keeps' = [keeps EXCEPT ![f] = kept] /\ adapter' = Plus(adapter, kept) BY <1>1
  <2>2. \A x : /\ Kept(x) \in Nat /\ Kept(x)' \in Nat
               /\ x \notin keeps[f] /\ x \in kept => Kept(x)' = Kept(x) + 1
               /\ (x \in keeps[f] <=> x \in kept) => Kept(x)' = Kept(x)
    BY <1>4, <1>7, <2>1, KeptChange
  <2>3. ASSUME NEW x \in Adapters
        PROVE  adapter'[x] = adapter[x] - Kept(x) + Kept(x)'
    <3>1. adapter[x] \in Nat BY <1>7
    <3> QED BY <1>4, <2>1, <2>2, <3>1 DEF Plus
  <2>4. \A x \in Adapters : Direct(x)' = Direct(x)
    BY <1>4, <1>5, <1>6 DEF Direct, StreamCalls
  <2>5. AdaptersAgree BY DEF CountsAgree, AdaptersAgree
  <2> QED BY <2>3, <2>4, <2>5, OnlyKeptChanges
<1>10. UnheldIsEmpty'
  <2>1. handler[f] > 0
    <3>1. f # NoObject BY <1>4, FormatsFinite DEF NoObject
    <3>2. HandlerHolders(f) = 1 BY <1>4, <3>1 DEF HandlerHolders, One
    <3> QED BY <1>4, <3>2 DEF CountsAgree
  <2>2. ASSUME NEW g \in Formats, handler'[g] = 0
        PROVE  keeps'[g] = {} /\ g \notin opened'
    <3>1. g # f BY <1>6, <2>1, <2>2
    <3>2. keeps[g] = {} /\ g \notin opened BY <1>6, <2>2 DEF CountsAgree
    <3> QED BY <1>1, <1>7, <3>1, <3>2
  <2> QED BY <2>2 DEF UnheldIsEmpty
<1>11. TypeOK' /\ CountsAgree'
  <2>1. keeps' \in [Formats -> SUBSET Adapters] BY <1>1, <1>4, <1>7
  <2>2. opened' \subseteq Formats BY <1>1, <1>4 DEF TypeOK
  <2>3. adapter' = [x \in Adapters |-> adapter'[x]] /\ handler' = [g \in Formats |-> handler'[g]]
    BY <1>1, <1>6 DEF Plus, TypeOK
  <2> QED BY <1>2, <1>5, <1>6, <1>8, <1>9, <1>10, <2>1, <2>2, <2>3, CountTypes DEF TypeOK, java
<1>12. f \in opened' \/ ~accepted BY <1>1
<1>13. f < NumFormats \/ next # "codec" \/ op.asked # AnyFormat
  OBVIOUS
<1>14. Agreements'
  <2>1. next \in {"opened", "codec", "leave"} /\ (next = "opened" => accepted)
        /\ (next = "codec" => op.asked = AnyFormat)
    OBVIOUS
  <2>2. op.thrown \in BOOLEAN /\ op.failed \in BOOLEAN BY <1>3 DEF OpType
  <2> HIDE DEF next
  <2>3. IdleAgrees' BY <1>4, <1>5, <1>6, <2>1 DEF IdleAgrees
  <2>4. OpenAgrees' BY <1>4, <1>5, <1>6, <1>12, <1>13, <2>1, <2>2 DEF OpenAgrees
  <2>5. CloseAgrees' BY <1>5, <1>6, <2>1 DEF CloseAgrees
  <2>6. FieldsAgree' BY <1>6 DEF FieldsAgree, Null, NoObject
  <2> QED BY <2>3, <2>4, <2>5, <2>6 DEF Agreements
<1>15. HandedOutIsOpen' /\ CodecsStartAtZero'
  BY <1>5, <1>6 DEF HandedOutIsOpen, CodecsStartAtZero
<1> QED BY <1>11, <1>14, <1>15 DEF Agreements

LEMMA RefuseOpenedKeeps ==
    ASSUME IInv, RefuseOpened
    PROVE  IInv'
<1> USE DEF IInv
<1> DEFINE f == op.current
<1>1. PICK rest \in SUBSET keeps[f] : HandlerLetsGo(f, rest)
  BY DEF RefuseOpened
<1>2. /\ op.pc = "opened" /\ op' = [op EXCEPT !.pc = "leave", !.thrown = TRUE, !.delete = TRUE]
      /\ UNCHANGED <<session, handler, position, java, calls, crashed, simpleClose>>
  BY DEF RefuseOpened
<1>3. op \in OpType /\ op' \in OpType BY <1>2 DEF TypeOK, OpType
<1>4. /\ f \in Formats /\ f # Null /\ "archive" \in op.locals
      /\ inArchive = Null /\ outArchive = NoObject /\ calls = << >> /\ session = "live" /\ ~crashed
  BY <1>2, FormatsFinite DEF OpenAgrees, IdleAgrees, TypeOK, Null
<1>5. /\ op'.pc = "leave" /\ op'.current = f /\ op'.locals = op.locals /\ op'.delete
  BY <1>2, <1>3 DEF OpType
<1>6. /\ inArchive' = Null /\ outArchive' = NoObject /\ calls' = << >> /\ session' = "live"
      /\ ~crashed' /\ handler' = handler /\ wasClosed' = wasClosed /\ simpleClose' = simpleClose
  BY <1>2, <1>4 DEF java
<1>7. /\ keeps' \in [Formats -> SUBSET Adapters]
      /\ \A g \in Formats : g # f => keeps'[g] = keeps[g]
      /\ opened' = opened \ {f} /\ adapter' = [x \in Adapters |-> adapter'[x]]
      /\ \A x \in Adapters : adapter'[x] = adapter[x] - Kept(x) + Kept(x)'
  BY <1>1, <1>4, LetsGo
<1>8. HandlersAgree'
  <2>1. ASSUME NEW g \in Formats
        PROVE  handler'[g] = HandlerHolders(g)'
    <3>1. HandlerHolders(g)' = HandlerHolders(g) BY <1>4, <1>5, <1>6 DEF HandlerHolders
    <3> QED BY <1>6, <3>1 DEF CountsAgree
  <2> QED BY <2>1 DEF HandlersAgree
<1>9. AdaptersAgree'
  <2>1. \A x \in Adapters : Direct(x)' = Direct(x)
    BY <1>4, <1>5, <1>6 DEF Direct, StreamCalls
  <2>2. AdaptersAgree BY DEF CountsAgree, AdaptersAgree
  <2> QED BY <1>7, <2>1, <2>2, OnlyKeptChanges
<1>10. UnheldIsEmpty'
  <2>1. handler[f] > 0
    <3>1. f # NoObject BY <1>4, FormatsFinite DEF NoObject
    <3>2. HandlerHolders(f) = 1 BY <1>4, <3>1 DEF HandlerHolders, One
    <3> QED BY <1>4, <3>2 DEF CountsAgree
  <2>2. ASSUME NEW g \in Formats, handler'[g] = 0
        PROVE  keeps'[g] = {} /\ g \notin opened'
    <3>1. g # f BY <1>6, <2>1, <2>2
    <3>2. keeps[g] = {} /\ g \notin opened BY <1>6, <2>2 DEF CountsAgree
    <3> QED BY <1>7, <3>1, <3>2
  <2> QED BY <2>2 DEF UnheldIsEmpty
<1>11. TypeOK' /\ CountsAgree'
  BY <1>2, <1>3, <1>6, <1>7, <1>8, <1>9, <1>10, CountTypes DEF TypeOK, java
<1>12. Agreements'
  BY <1>4, <1>5, <1>6
  DEF Agreements, IdleAgrees, OpenAgrees, CloseAgrees, FieldsAgree, Null, NoObject
<1>13. HandedOutIsOpen' /\ CodecsStartAtZero'
  BY <1>5, <1>6 DEF HandedOutIsOpen, CodecsStartAtZero
<1> QED BY <1>11, <1>12, <1>13 DEF Agreements

LEMMA HandOutKeeps ==
    ASSUME IInv, HandOut
    PROVE  IInv'
<1> USE DEF IInv
<1>1. /\ op.pc = "opened" /\ ~op.thrown /\ inArchive' = op.current
      /\ op' = [op EXCEPT !.pc = "leave", !.current = Null, !.locals = {"callback"}]
      /\ UNCHANGED <<heap, position, outArchive, counted, wasClosed, calls, crashed, simpleClose>>
  BY DEF HandOut
<1>2. op \in OpType /\ op' \in OpType BY <1>1 DEF TypeOK, OpType
<1>3. /\ op.current \in Formats /\ op.current \in opened /\ op.current # Null
      /\ inArchive = Null /\ outArchive = NoObject /\ calls = << >> /\ session = "live" /\ ~crashed
      /\ ~op.delete /\ {"archive", "stream", "callback"} \subseteq op.locals
  BY <1>1, FormatsFinite DEF OpenAgrees, IdleAgrees, TypeOK, Null
<1>4. /\ op'.pc = "leave" /\ op'.current = Null /\ op'.locals = {"callback"} /\ ~op'.delete
  BY <1>1, <1>2, <1>3 DEF OpType
<1>5. /\ outArchive' = NoObject /\ calls' = << >> /\ session' = "live" /\ ~crashed'
      /\ handler' = handler /\ opened' = opened /\ keeps' = keeps /\ adapter' = adapter
      /\ wasClosed' = wasClosed /\ simpleClose' = simpleClose /\ counted' = counted
  BY <1>1, <1>3 DEF heap
<1>6. HandlersAgree'
  <2>1. ASSUME NEW g \in Formats
        PROVE  handler'[g] = HandlerHolders(g)'
    <3>1. g # Null /\ g # NoObject BY FormatsFinite DEF Null, NoObject
    <3>2. HandlerHolders(g) = IF g = op.current THEN 1 ELSE 0
      BY <1>3, <3>1 DEF HandlerHolders, One
    <3>3. HandlerHolders(g)' = IF g = op.current THEN 1 ELSE 0
      BY <1>1, <1>4, <1>5, <3>1 DEF HandlerHolders, One
    <3> QED BY <1>5, <3>2, <3>3 DEF CountsAgree
  <2> QED BY <2>1 DEF HandlersAgree
<1>7. AdaptersAgree'
  <2>1. AdaptersAgree BY DEF CountsAgree, AdaptersAgree
  <2>2. ASSUME NEW x \in Adapters
        PROVE  /\ Direct(x)' \in Int
               /\ adapter'[x] = adapter[x] - Direct(x) + Direct(x)'
    <3>1. StreamCalls \in Nat BY StreamCallsNat DEF TypeOK, StreamCalls, StreamCallsOf
    <3>2. StreamCalls' = StreamCalls BY <1>3, <1>5 DEF StreamCalls
    <3>3. Direct(x) = IF x = "stream" THEN 1 + StreamCalls ELSE IF x = "callback" THEN 1 ELSE 0
      <4>1. "volume" \notin op.locals BY <1>2 DEF OpType
      <4> QED BY <1>3, <3>1, <4>1 DEF Direct, One, Adapters
    <3>4. Direct(x)' = Direct(x)
      BY <1>1, <1>3, <1>4, <3>1, <3>2, <3>3 DEF Direct, One, Adapters
    <3>5. adapter[x] \in Nat BY DEF TypeOK
    <3> QED BY <1>5, <3>1, <3>3, <3>4, <3>5
  <2> QED BY <1>5, <2>1, <2>2, OnlyDirectChanges
<1>8. TypeOK' /\ CountsAgree'
  <2>1. UnheldIsEmpty' BY <1>5 DEF CountsAgree, UnheldIsEmpty
  <2> QED BY <1>1, <1>2, <1>3, <1>5, <1>6, <1>7, <2>1, CountTypes DEF TypeOK
<1>9. Agreements'
  <2>1. IdleAgrees' BY <1>3, <1>4, <1>5 DEF IdleAgrees
  <2>2. OpenAgrees' /\ CloseAgrees' BY <1>1, <1>3, <1>4 DEF OpenAgrees, CloseAgrees
  <2>3. NoObject \notin Formats BY FormatsFinite DEF NoObject
  <2>4. FieldsAgree' BY <1>1, <1>3, <1>5, <2>3 DEF FieldsAgree
  <2> QED BY <2>1, <2>2, <2>4 DEF Agreements
<1>10. HandedOutIsOpen'
  <2>1. adapter["stream"] > 0
    <3>1. StreamCalls \in Nat BY StreamCallsNat DEF TypeOK, StreamCalls, StreamCallsOf
    <3>2. Direct("stream") > 0 BY <1>3, <3>1 DEF Direct, One
    <3> QED BY <3>2, HoldersNat DEF CountsAgree, Adapters
  <2> QED BY <1>1, <1>3, <1>5, <2>1 DEF HandedOutIsOpen
<1>11. CodecsStartAtZero'
  BY <1>4, <1>5 DEF CodecsStartAtZero
<1> QED BY <1>8, <1>9, <1>10, <1>11 DEF Agreements

-----------------------------------------------------------------------------
(* The destructors                                                         *)

\* A step that only takes local adapters away.
LEMMA AdapterDestroyed ==
    ASSUME IInv, NEW x \in {"callback", "stream"}, x \in op.locals, op.pc = "leave",
           adapter' = Minus(adapter, {x}), op' = [op EXCEPT !.locals = @ \ {x}],
           UNCHANGED <<session, handler, opened, keeps, position, java, calls, crashed, simpleClose>>
    PROVE  IInv'
<1> USE DEF IInv
<1>1. op \in OpType BY DEF TypeOK, OpType
<1>2. /\ op' \in OpType /\ op'.locals = op.locals \ {x} /\ op'.pc = "leave" /\ op'.delete = op.delete
      /\ op'.current = op.current
  BY <1>1 DEF OpType
<1>3. session = "live" /\ calls = << >> /\ ~crashed BY DEF IdleAgrees
<1>4. HandlersAgree'
  <2>1. ASSUME NEW g \in Formats
        PROVE  handler'[g] = HandlerHolders(g)'
    <3>1. HandlerHolders(g)' = HandlerHolders(g) BY <1>2 DEF HandlerHolders, java
    <3> QED BY <3>1 DEF CountsAgree
  <2> QED BY <2>1 DEF HandlersAgree
<1>5. AdaptersAgree'
  <2>1. AdaptersAgree BY DEF CountsAgree, AdaptersAgree
  <2>2. ASSUME NEW y \in Adapters
        PROVE  /\ Direct(y)' \in Int
               /\ adapter'[y] = adapter[y] - Direct(y) + Direct(y)'
    <3>1. StreamCalls \in Nat BY StreamCallsNat DEF TypeOK, StreamCalls, StreamCallsOf
    <3>2. StreamCalls' = StreamCalls BY DEF StreamCalls
    <3>3. adapter[y] \in Nat BY DEF TypeOK
    <3>4. inArchive' = inArchive BY DEF java
    <3>5. adapter'[y] = IF y = x THEN adapter[y] - 1 ELSE adapter[y] BY DEF Minus
    <3>6. CASE y = x BY <1>2, <3>1, <3>2, <3>3, <3>4, <3>5, <3>6 DEF Direct, One
    <3>7. CASE y # x
      <4>1. Direct(y)' = Direct(y) BY <1>2, <3>2, <3>4, <3>7 DEF Direct
      <4>2. Direct(y) \in Nat BY HoldersNat
      <4> QED BY <3>3, <3>5, <3>7, <4>1, <4>2
    <3> QED BY <3>6, <3>7
  <2> QED BY <2>1, <2>2, OnlyDirectChanges
<1>6. TypeOK' /\ CountsAgree'
  <2>1. UnheldIsEmpty' BY DEF CountsAgree, UnheldIsEmpty
  <2>2. adapter' = [y \in Adapters |-> adapter'[y]] /\ handler' = [g \in Formats |-> handler'[g]]
    BY DEF Minus, TypeOK
  <2> QED BY <1>2, <1>4, <1>5, <2>1, <2>2, CountTypes DEF TypeOK, java
<1>7. Agreements'
  BY <1>2, <1>3 DEF Agreements, IdleAgrees, OpenAgrees, CloseAgrees, FieldsAgree, java
<1>8. HandedOutIsOpen'
  <2>1. SUFFICES ASSUME inArchive # Null
                 PROVE  adapter'["stream"] > 0
    BY <1>2, <1>3 DEF HandedOutIsOpen, java
  <2>2. op.locals \subseteq {"callback"} BY <2>1 DEF CloseAgrees
  <2>3. adapter'["stream"] = adapter["stream"] BY <2>2 DEF Minus, Adapters
  <2> QED BY <2>1, <2>3 DEF HandedOutIsOpen
<1>9. CodecsStartAtZero'
  BY <1>2, <1>3 DEF CodecsStartAtZero
<1> QED BY <1>6, <1>7, <1>8, <1>9 DEF Agreements

LEMMA DestroyCallbackKeeps ==
    ASSUME IInv, DestroyCallback
    PROVE  IInv'
  BY AdapterDestroyed DEF DestroyCallback

LEMMA DestroyStreamKeeps ==
    ASSUME IInv, DestroyStream
    PROVE  IInv'
  BY AdapterDestroyed DEF DestroyStream

\* The last pointer to a handler that no codec or close has left in a field: the
\* connected out-archive may still hold the handler.
LEMMA DestroyArchiveKeeps ==
    ASSUME IInv, DestroyArchive
    PROVE  IInv'
<1> USE DEF IInv
<1> DEFINE f == op.current
<1>1. /\ op.pc = "leave" /\ op.locals = {"archive"} /\ ReleaseHandler(f)
      /\ op' = [op EXCEPT !.locals = {}, !.current = Null]
      /\ UNCHANGED <<session, position, java, calls, crashed, simpleClose>>
  BY DEF DestroyArchive
<1>2. op \in OpType BY DEF TypeOK, OpType
<1>3. /\ op' \in OpType /\ op'.locals = {} /\ op'.pc = "leave" /\ op'.delete = op.delete
      /\ op'.current = Null
  BY <1>1, <1>2 DEF OpType
<1>4. /\ session = "live" /\ calls = << >> /\ ~crashed /\ f \in Formats /\ f # Null
      /\ inArchive = Null /\ op.delete
  BY <1>1, FormatsFinite DEF IdleAgrees, CloseAgrees, TypeOK, Null
<1>5. /\ handler' = [handler EXCEPT ![f] = @ - 1]
      /\ IF handler[f] = 1 THEN HandlerLetsGo(f, {}) ELSE UNCHANGED <<opened, keeps, adapter>>
  BY <1>1 DEF ReleaseHandler
<1>6. /\ session' = "live" /\ calls' = << >> /\ ~crashed' /\ inArchive' = Null
      /\ outArchive' = outArchive /\ wasClosed' = wasClosed /\ simpleClose' = simpleClose
  BY <1>1, <1>4 DEF java
<1>7. handler \in [Formats -> Nat] BY DEF TypeOK
<1>8. ASSUME NEW g \in Formats
      PROVE  /\ handler[g] = (IF g = f THEN 1 ELSE 0) + (IF outArchive = g THEN 1 ELSE 0)
             /\ handler'[g] = HandlerHolders(g)'
             /\ handler'[g] = IF outArchive = g THEN 1 ELSE 0
  <2>1. g # Null /\ g # NoObject BY FormatsFinite DEF Null, NoObject
  <2>2. HandlerHolders(g) = (IF g = f THEN 1 ELSE 0) + (IF outArchive = g THEN 1 ELSE 0)
    BY <1>1, <1>4, <2>1 DEF HandlerHolders, One
  <2>3. HandlerHolders(g)' = IF outArchive = g THEN 1 ELSE 0
    BY <1>3, <1>6, <2>1 DEF HandlerHolders, One
  <2>4. handler[g] = HandlerHolders(g) BY DEF CountsAgree
  <2>5. handler'[g] = IF g = f THEN handler[g] - 1 ELSE handler[g] BY <1>5, <1>7
  <2> QED BY <2>2, <2>3, <2>4, <2>5
<1>9. /\ keeps' \in [Formats -> SUBSET Adapters]
      /\ \A g \in Formats : g # f => keeps'[g] = keeps[g]
      /\ handler[f] = 1 => keeps'[f] = {} /\ f \notin opened'
      /\ opened' \subseteq opened /\ adapter' = [x \in Adapters |-> adapter'[x]]
      /\ \A x \in Adapters : adapter'[x] = adapter[x] - Kept(x) + Kept(x)'
  <2>1. CASE handler[f] = 1
    <3>1. HandlerLetsGo(f, {}) BY <1>5, <2>1
    <3> QED BY <1>4, <3>1, LetsGo
  <2>2. CASE handler[f] # 1
    <3>1. UNCHANGED <<opened, keeps, adapter>> BY <1>5, <2>2
    <3>2. \A x \in Adapters : Kept(x) \in Nat /\ Kept(x)' = Kept(x)
      BY <3>1, KeptNat DEF Kept
    <3> QED BY <2>2, <3>1, <3>2 DEF TypeOK
  <2> QED BY <2>1, <2>2
<1>10. HandlersAgree' BY <1>8 DEF HandlersAgree
<1>11. AdaptersAgree'
  <2>1. \A x \in Adapters : Direct(x)' = Direct(x)
    BY <1>1, <1>3, <1>4, <1>6 DEF Direct, StreamCalls, Adapters
  <2>2. AdaptersAgree BY DEF CountsAgree, AdaptersAgree
  <2> QED BY <1>9, <2>1, <2>2, OnlyKeptChanges
<1>12. UnheldIsEmpty'
  <2>1. ASSUME NEW g \in Formats, handler'[g] = 0
        PROVE  keeps'[g] = {} /\ g \notin opened'
    <3>1. outArchive # g BY <1>8, <2>1
    <3>2. CASE g = f
      <4>1. handler[f] = 1 BY <1>8, <3>1, <3>2
      <4> QED BY <1>9, <3>2, <4>1
    <3>3. CASE g # f
      <4>1. handler[g] = 0 BY <1>8, <3>1, <3>3
      <4>2. keeps[g] = {} /\ g \notin opened BY <4>1 DEF CountsAgree
      <4> QED BY <1>9, <3>3, <4>2
    <3> QED BY <3>2, <3>3
  <2> QED BY <2>1 DEF UnheldIsEmpty
<1>13. TypeOK' /\ CountsAgree'
  <2>1. handler' = [g \in Formats |-> handler'[g]] BY <1>5, <1>7
  <2> QED BY <1>1, <1>3, <1>6, <1>9, <1>10, <1>11, <1>12, <2>1, CountTypes DEF TypeOK, java
<1>14. Agreements'
  BY <1>3, <1>4, <1>6 DEF Agreements, IdleAgrees, OpenAgrees, CloseAgrees, FieldsAgree
<1>15. HandedOutIsOpen' /\ CodecsStartAtZero'
  BY <1>3, <1>6 DEF HandedOutIsOpen, CodecsStartAtZero
<1> QED BY <1>13, <1>14, <1>15 DEF Agreements

LEMMA ReturnKeeps ==
    ASSUME IInv, Return
    PROVE  IInv'
<1> USE DEF IInv
<1>1. /\ op.pc = "leave" /\ op.locals = {} /\ op' = Idle
      /\ session' = IF op.delete THEN "deleted" ELSE session
      /\ wasClosed' = (wasClosed \/ (op.simple /\ ~op.thrown))
      /\ simpleClose' = IF ~op.simple THEN simpleClose ELSE IF op.thrown THEN "thrown" ELSE "returned"
      /\ handler' = handler /\ opened' = opened /\ keeps' = keeps /\ adapter' = adapter
      /\ position' = position /\ inArchive' = inArchive /\ outArchive' = outArchive
      /\ counted' = counted /\ calls' = calls /\ crashed' = crashed
  BY DEF Return
<1>2. op \in OpType BY DEF TypeOK, OpType
<1>3. op' \in OpType /\ op'.locals = {} /\ op'.pc = "idle" /\ op'.current = Null
  BY <1>1 DEF OpType, Idle, AnyFormat, Null
<1>4. /\ session = "live" /\ calls = << >> /\ ~crashed /\ op.current = Null
      /\ IF inArchive = Null THEN op.delete ELSE ~op.delete
  BY <1>1 DEF IdleAgrees, CloseAgrees
<1>5. HandlersAgree'
  <2>1. ASSUME NEW g \in Formats
        PROVE  handler'[g] = HandlerHolders(g)'
    <3>1. HandlerHolders(g)' = HandlerHolders(g) BY <1>1, <1>3, <1>4 DEF HandlerHolders
    <3> QED BY <1>1, <3>1 DEF CountsAgree
  <2> QED BY <2>1 DEF HandlersAgree
<1>6. AdaptersAgree'
  <2>1. AdaptersAgree BY DEF CountsAgree, AdaptersAgree
  <2>2. ASSUME NEW x \in Adapters
        PROVE  /\ Direct(x)' \in Int
               /\ adapter'[x] = adapter[x] - Direct(x) + Direct(x)'
    <3>1. Direct(x)' = Direct(x) BY <1>1, <1>3 DEF Direct, StreamCalls
    <3>2. Direct(x) \in Nat /\ adapter[x] \in Nat BY HoldersNat DEF TypeOK
    <3> QED BY <1>1, <3>1, <3>2
  <2> QED BY <1>1, <2>1, <2>2, OnlyDirectChanges
<1>7. TypeOK' /\ CountsAgree'
  <2>1. UnheldIsEmpty' BY <1>1 DEF CountsAgree, UnheldIsEmpty
  <2>2. op.simple \in BOOLEAN /\ op.thrown \in BOOLEAN BY <1>2 DEF OpType
  <2>3. wasClosed' \in BOOLEAN BY <1>1, <2>2 DEF TypeOK
  <2> QED BY <1>1, <1>3, <1>5, <1>6, <2>1, <2>3, CountTypes DEF TypeOK
<1>8. Agreements'
  <2>1. IdleAgrees' BY <1>1, <1>3, <1>4 DEF IdleAgrees
  <2>2. OpenAgrees' /\ CloseAgrees' BY <1>3 DEF OpenAgrees, CloseAgrees
  <2>3. op.simple \in BOOLEAN /\ op.thrown \in BOOLEAN BY <1>2 DEF OpType
  <2>4. FieldsAgree' BY <1>1, <1>4, <2>3 DEF FieldsAgree
  <2> QED BY <2>1, <2>2, <2>4 DEF Agreements
<1>9. HandedOutIsOpen' /\ CodecsStartAtZero'
  BY <1>1, <1>3, <1>4 DEF HandedOutIsOpen, CodecsStartAtZero
<1> QED BY <1>7, <1>8, <1>9 DEF Agreements

-----------------------------------------------------------------------------
(* Calls and the connected out-archive                                     *)

\* Who holds a handler when no open or close does.
LEMMA CalledHolders ==
    ASSUME NEW g \in Formats, NEW n \in Nat, n = Len(calls), "archive" \notin op.locals
    PROVE  /\ inArchive # g /\ outArchive # g => HandlerHolders(g) = 0
           /\ inArchive # g /\ outArchive = g => HandlerHolders(g) = 1
           /\ inArchive = g /\ outArchive # g => HandlerHolders(g) = n + 1
           /\ inArchive = g /\ outArchive = g => HandlerHolders(g) = n + 2
<1> DEFINE a == One("archive" \in op.locals /\ op.current = g)
           b == One(inArchive = g)
           c == One(outArchive = g)
           d == IF inArchive = g THEN n ELSE 0
<1>1. HandlerHolders(g) = a + b + c + d BY DEF HandlerHolders
<1>2. /\ a = 0 /\ (inArchive = g => b = 1 /\ d = n) /\ (inArchive # g => b = 0 /\ d = 0)
      /\ (outArchive = g => c = 1) /\ (outArchive # g => c = 0)
  BY DEF One
<1> HIDE DEF a, b, c, d
<1> QED BY <1>1, <1>2

LEMMA CalledHoldersNext ==
    ASSUME NEW g \in Formats, NEW n \in Nat, n = Len(calls'), "archive" \notin op'.locals
    PROVE  /\ inArchive' # g /\ outArchive' # g => HandlerHolders(g)' = 0
           /\ inArchive' # g /\ outArchive' = g => HandlerHolders(g)' = 1
           /\ inArchive' = g /\ outArchive' # g => HandlerHolders(g)' = n + 1
           /\ inArchive' = g /\ outArchive' = g => HandlerHolders(g)' = n + 2
<1> DEFINE a == One("archive" \in op'.locals /\ op'.current = g)
           b == One(inArchive' = g)
           c == One(outArchive' = g)
           d == IF inArchive' = g THEN n ELSE 0
<1>1. HandlerHolders(g)' = a + b + c + d BY DEF HandlerHolders
<1>2. /\ a = 0 /\ (inArchive' = g => b = 1 /\ d = n) /\ (inArchive' # g => b = 0 /\ d = 0)
      /\ (outArchive' = g => c = 1) /\ (outArchive' # g => c = 0)
  BY DEF One
<1> HIDE DEF a, b, c, d
<1> QED BY <1>1, <1>2

\* What is known when a call of Java begins.
LEMMA CanCallFacts ==
    ASSUME IInv, CanCall
    PROVE  /\ op = Idle /\ op.pc = "idle" /\ op.locals = {} /\ op.current = Null /\ ~crashed
           /\ session = "live" <=> inArchive # Null
           /\ inArchive # Null => inArchive \in Formats
           /\ \A f \in Formats : /\ f # Null /\ f # NoObject /\ handler[f] = HandlerHolders(f)
                                 /\ handler[f] \in Nat
           /\ handler \in [Formats -> Nat] /\ AdaptersAgree
<1>1. op = Idle /\ op.pc = "idle" /\ ~crashed /\ (session = "live" <=> inArchive # Null)
  BY DEF CanCall, IInv, IdleAgrees
<1>2. op.locals = {} /\ op.current = Null BY <1>1 DEF Idle
<1>3. AdaptersAgree /\ \A f \in Formats : handler[f] = HandlerHolders(f)
  BY DEF IInv, CountsAgree, AdaptersAgree
<1>4. handler \in [Formats -> Nat] BY DEF IInv, TypeOK
<1>5. \A f \in Formats : f # Null /\ f # NoObject BY FormatsFinite DEF Null, NoObject
<1> QED BY <1>1, <1>2, <1>3, <1>4, <1>5 DEF IInv, TypeOK

\* A call begins on the handler f: it holds the handler and maybe the stream.
LEMMA CallBegins ==
    ASSUME IInv, CanCall, inArchive # Null, NEW c \in Calls,
           handler' = [handler EXCEPT ![inArchive] = @ + 1],
           adapter' = IF HoldsStream(c) THEN Plus(adapter, {"stream"}) ELSE adapter,
           calls' = Append(calls, c),
           UNCHANGED <<session, opened, keeps, position, java, op, crashed, simpleClose>>
    PROVE  IInv'
<1> USE DEF IInv
<1>1. /\ op.pc = "idle" /\ op.locals = {} /\ op.current = Null /\ ~crashed /\ op = Idle
      /\ session = "live" /\ inArchive \in Formats /\ handler \in [Formats -> Nat] /\ AdaptersAgree
      /\ \A f \in Formats : f # Null /\ f # NoObject /\ handler[f] = HandlerHolders(f)
  BY CanCallFacts
<1>2. /\ inArchive' = inArchive /\ outArchive' = outArchive /\ wasClosed' = wasClosed
      /\ counted' = counted
  BY DEF java
<1>3. calls \in Seq(Calls) /\ calls' \in Seq(Calls) /\ Len(calls) \in Nat /\ Len(calls') = Len(calls) + 1
  BY DEF TypeOK
<1>4. HandlersAgree'
  <2>1. ASSUME NEW g \in Formats
        PROVE  handler'[g] = HandlerHolders(g)'
    <3> DEFINE n == Len(calls)
               m == Len(calls')
    <3>1. handler'[g] = IF g = inArchive THEN handler[g] + 1 ELSE handler[g] BY <1>1
    <3>2. n \in Nat /\ m = n + 1 BY <1>3
    <3>3. n = Len(calls) /\ m = Len(calls') /\ op' = op
      OBVIOUS
    <3> HIDE DEF n, m
    <3> QED BY <1>1, <1>2, <3>1, <3>2, <3>3, CalledHolders, CalledHoldersNext
  <2> QED BY <2>1 DEF HandlersAgree
<1>5. AdaptersAgree'
  <2>1. StreamCalls \in Nat BY StreamCallsNat DEF TypeOK, StreamCalls, StreamCallsOf
  <2>2. StreamCalls' = StreamCalls + One(HoldsStream(c))
    BY <1>3, StreamCallsAppend DEF StreamCalls
  <2>3. ASSUME NEW x \in Adapters
        PROVE  /\ Direct(x)' \in Int
               /\ adapter'[x] = adapter[x] - Direct(x) + Direct(x)'
    <3>1. Direct(x) = IF x = "stream" THEN 1 + StreamCalls ELSE 0 BY <1>1, <2>1 DEF Direct, One
    <3>2. Direct(x)' = IF x = "stream" THEN 1 + StreamCalls' ELSE 0
      BY <1>1, <1>2, <2>1, <2>2 DEF Direct, One
    <3>3. adapter[x] \in Nat /\ adapter \in [Adapters -> Nat] BY DEF TypeOK
    <3>4. CASE HoldsStream(c) BY <2>1, <2>2, <3>1, <3>2, <3>3, <3>4 DEF Plus, One
    <3>5. CASE ~HoldsStream(c) BY <2>1, <2>2, <3>1, <3>2, <3>3, <3>5 DEF One
    <3> QED BY <3>4, <3>5
  <2> QED BY <1>1, <2>3, OnlyDirectChanges
<1>6. TypeOK' /\ CountsAgree'
  <2>1. UnheldIsEmpty'
    <3>1. ASSUME NEW g \in Formats, handler'[g] = 0
          PROVE  handler[g] = 0
      BY <1>1, <3>1
    <3> QED BY <3>1 DEF CountsAgree, UnheldIsEmpty
  <2>2. adapter' = [x \in Adapters |-> adapter'[x]] /\ handler' = [g \in Formats |-> handler'[g]]
    BY <1>1 DEF Plus, TypeOK
  <2> QED BY <1>2, <1>3, <1>4, <1>5, <2>1, <2>2, CountTypes DEF TypeOK, OpType
<1>7. Agreements'
  BY <1>1, <1>2 DEF Agreements, IdleAgrees, OpenAgrees, CloseAgrees, FieldsAgree
<1>8. HandedOutIsOpen'
  <2>1. adapter["stream"] > 0 /\ adapter \in [Adapters -> Nat] BY <1>1 DEF HandedOutIsOpen, TypeOK
  <2>2. adapter'["stream"] > 0 BY <2>1 DEF Plus, Adapters
  <2> QED BY <1>1, <1>2, <2>2 DEF HandedOutIsOpen
<1>9. CodecsStartAtZero'
  BY <1>1 DEF CodecsStartAtZero
<1> QED BY <1>6, <1>7, <1>8, <1>9 DEF Agreements

LEMMA BeginCallKeeps ==
    ASSUME IInv, NEW c \in Calls \ {"update"}, BeginCall(c)
    PROVE  IInv'
  BY CallBegins DEF BeginCall

LEMMA BeginUpdateKeeps ==
    ASSUME IInv, BeginUpdate
    PROVE  IInv'
<1>1. outArchive = inArchive BY DEF BeginUpdate, IInv, FieldsAgree
<1>2. "update" \in Calls /\ ~HoldsStream("update") BY DEF Calls, HoldsStream
<1> QED BY <1>1, <1>2, CallBegins DEF BeginUpdate

LEMMA EndCallKeeps ==
    ASSUME IInv, EndCall
    PROVE  IInv'
<1> USE DEF IInv
<1> DEFINE c == calls[Len(calls)]
<1>1. /\ CanCall /\ calls # << >> /\ handler' = [handler EXCEPT ![inArchive] = @ - 1]
      /\ adapter' = IF HoldsStream(c) THEN Minus(adapter, {"stream"}) ELSE adapter
      /\ counted' \in {counted, TRUE}
      /\ calls' = SubSeq(calls, 1, Len(calls) - 1)
      /\ UNCHANGED <<session, opened, keeps, position, inArchive, outArchive, wasClosed, op, crashed,
                     simpleClose>>
  BY DEF EndCall
<1>2. inArchive # Null BY <1>1 DEF FieldsAgree
<1>3. /\ op.pc = "idle" /\ op.locals = {} /\ op.current = Null /\ ~crashed /\ op = Idle
      /\ session = "live" /\ inArchive \in Formats /\ handler \in [Formats -> Nat] /\ AdaptersAgree
      /\ \A f \in Formats : f # Null /\ f # NoObject /\ handler[f] = HandlerHolders(f)
  BY <1>1, <1>2, CanCallFacts
<1>4. calls \in Seq(Calls) BY DEF TypeOK
<1>5. /\ calls' \in Seq(Calls) /\ Len(calls') = Len(calls) - 1 /\ Len(calls) \in Nat /\ Len(calls') \in Nat
      /\ HoldsStream(c) => StreamCalls = StreamCalls' + 1
      /\ ~HoldsStream(c) => StreamCalls = StreamCalls'
      /\ StreamCalls' \in Nat
  <2>1. /\ calls' \in Seq(Calls) /\ Len(calls') = Len(calls) - 1
        /\ HoldsStream(c) => StreamCalls = StreamCalls' + 1
        /\ ~HoldsStream(c) => StreamCalls = StreamCalls'
    BY <1>1, <1>4, StreamCallsFront DEF StreamCalls
  <2>2. StreamCalls' \in Nat BY <2>1, StreamCallsNat DEF StreamCalls, StreamCallsOf
  <2>3. Len(calls) \in Nat /\ Len(calls') \in Nat BY <1>4, <2>1
  <2> QED BY <2>1, <2>2, <2>3
<1>6. HandlersAgree'
  <2>1. ASSUME NEW g \in Formats
        PROVE  handler'[g] = HandlerHolders(g)'
    <3> DEFINE n == Len(calls)
               m == Len(calls')
    <3>1. handler'[g] = IF g = inArchive THEN handler[g] - 1 ELSE handler[g] BY <1>1, <1>3
    <3>2. n \in Nat /\ m \in Nat /\ m = n - 1 BY <1>5
    <3>3. n = Len(calls) /\ m = Len(calls') /\ op' = op /\ inArchive' = inArchive /\ outArchive' = outArchive
      BY <1>1
    <3> HIDE DEF n, m
    <3> QED BY <1>3, <3>1, <3>2, <3>3, CalledHolders, CalledHoldersNext
  <2> QED BY <2>1 DEF HandlersAgree
<1>7. ASSUME NEW x \in Adapters
      PROVE  /\ Direct(x)' \in Int
             /\ adapter'[x] = adapter[x] - Direct(x) + Direct(x)'
             /\ x = "stream" => Direct(x)' > 0
  <2>1. StreamCalls \in Nat BY StreamCallsNat DEF TypeOK, StreamCalls, StreamCallsOf
  <2>2. Direct(x) = IF x = "stream" THEN 1 + StreamCalls ELSE 0
    BY <1>2, <1>3, <2>1 DEF Direct, One
  <2>3. Direct(x)' = IF x = "stream" THEN 1 + StreamCalls' ELSE 0
    BY <1>1, <1>2, <1>3, <1>5 DEF Direct, One
  <2>4. adapter[x] \in Nat /\ adapter \in [Adapters -> Nat] BY DEF TypeOK
  <2> HIDE DEF c
  <2>5. adapter'[x] = IF HoldsStream(c) /\ x = "stream" THEN adapter[x] - 1 ELSE adapter[x]
    BY <1>1, <2>4 DEF Minus
  <2>6. /\ HoldsStream(c) => StreamCalls = StreamCalls' + 1
        /\ ~HoldsStream(c) => StreamCalls = StreamCalls' BY <1>5
  <2>7. StreamCalls' \in Nat BY <1>5
  <2>8. CASE x = "stream" /\ HoldsStream(c)
    <3> DEFINE a == adapter[x]
               r == StreamCalls'
    <3>1. /\ adapter'[x] = a - 1 /\ Direct(x) = 1 + (r + 1) /\ Direct(x)' = 1 + r
      BY <2>2, <2>3, <2>5, <2>6, <2>8
    <3>2. a \in Nat /\ r \in Nat BY <2>4, <2>7
    <3>3. Direct(x)' \in Int /\ Direct(x)' > 0 /\ adapter'[x] = a - Direct(x) + Direct(x)'
      <4> HIDE DEF a, r
      <4> QED BY <3>1, <3>2
    <3> QED BY <3>3
  <2>9. CASE x = "stream" /\ ~HoldsStream(c)
    <3> DEFINE a == adapter[x]
               r == StreamCalls'
    <3>1. /\ adapter'[x] = a /\ Direct(x) = 1 + r /\ Direct(x)' = 1 + r
      BY <2>2, <2>3, <2>5, <2>6, <2>9
    <3>2. a \in Nat /\ r \in Nat BY <2>4, <2>7
    <3>3. Direct(x)' \in Int /\ Direct(x)' > 0 /\ adapter'[x] = a - Direct(x) + Direct(x)'
      <4> HIDE DEF a, r
      <4> QED BY <3>1, <3>2
    <3> QED BY <3>3
  <2>10. CASE x # "stream"
    <3>1. adapter'[x] = adapter[x] /\ Direct(x) = 0 /\ Direct(x)' = 0 BY <2>2, <2>3, <2>5, <2>10
    <3> QED BY <2>4, <2>10, <3>1
  <2> QED BY <2>8, <2>9, <2>10
<1>8. AdaptersAgree' BY <1>1, <1>3, <1>7, OnlyDirectChanges
<1>9. TypeOK' /\ CountsAgree'
  <2>1. UnheldIsEmpty'
    <3>1. ASSUME NEW g \in Formats, handler'[g] = 0
          PROVE  handler[g] = 0
      <4>1. g # inArchive
        <5> DEFINE m == Len(calls')
        <5>1. m \in Nat /\ m = Len(calls') BY <1>5
        <5>2. inArchive' = inArchive /\ "archive" \notin op'.locals BY <1>1, <1>3
        <5> HIDE DEF m
        <5>3. inArchive = g => HandlerHolders(g)' \in {m + 1, m + 2} BY <5>1, <5>2, CalledHoldersNext
        <5>4. handler'[g] = HandlerHolders(g)' BY <1>6 DEF HandlersAgree
        <5> QED BY <3>1, <5>1, <5>3, <5>4
      <4> QED BY <1>1, <1>3, <3>1, <4>1
    <3> QED BY <1>1, <3>1 DEF CountsAgree, UnheldIsEmpty
  <2>2. adapter' = [x \in Adapters |-> adapter'[x]] /\ handler' = [g \in Formats |-> handler'[g]]
    BY <1>1, <1>3 DEF Minus, TypeOK
  <2>3. counted' \in BOOLEAN BY <1>1 DEF TypeOK
  <2> QED BY <1>1, <1>5, <1>6, <1>8, <2>1, <2>2, <2>3, CountTypes DEF TypeOK, OpType
<1>10. Agreements'
  BY <1>1, <1>2, <1>3 DEF Agreements, IdleAgrees, OpenAgrees, CloseAgrees, FieldsAgree
<1>11. HandedOutIsOpen'
  <2>1. Direct("stream")' > 0 /\ Direct("stream")' \in Int BY <1>7 DEF Adapters
  <2>2. Kept("stream")' \in Nat BY KeptNat DEF Kept
  <2>3. AdapterHolders("stream")' = Direct("stream")' + Kept("stream")'
    BY DEF AdapterHolders, Direct, Kept, Keepers, StreamCalls, StreamCallsOf
  <2>4. adapter'["stream"] > 0 BY <1>8, <2>1, <2>2, <2>3 DEF AdaptersAgree, Adapters
  <2> QED BY <1>1, <1>2, <1>3, <2>4 DEF HandedOutIsOpen
<1>12. CodecsStartAtZero'
  BY <1>1, <1>3 DEF CodecsStartAtZero
<1> QED BY <1>9, <1>10, <1>11, <1>12 DEF Agreements

LEMMA ConnectKeeps ==
    ASSUME IInv, Connect
    PROVE  IInv'
<1> USE DEF IInv
<1>1. /\ CanCall /\ inArchive \in Updatable /\ outArchive = NoObject
      /\ \/ /\ outArchive' = inArchive /\ handler' = [handler EXCEPT ![inArchive] = @ + 1]
         \/ outArchive' = Null /\ handler' = handler
      /\ UNCHANGED <<session, opened, keeps, adapter, position, inArchive, counted, wasClosed, op, calls,
                     crashed, simpleClose>>
  BY DEF Connect
<1>2. inArchive \in Formats /\ inArchive # Null
  BY <1>1, FormatsAssumption, FormatsFinite DEF Null
<1>3. /\ op.pc = "idle" /\ op.locals = {} /\ op.current = Null /\ ~crashed /\ op = Idle
      /\ session = "live" /\ handler \in [Formats -> Nat] /\ AdaptersAgree
      /\ \A f \in Formats : f # Null /\ f # NoObject /\ handler[f] = HandlerHolders(f)
  BY <1>1, <1>2, CanCallFacts
<1>4. Len(calls) \in Nat BY DEF TypeOK
<1>5. HandlersAgree'
  <2>1. ASSUME NEW g \in Formats
        PROVE  handler'[g] = HandlerHolders(g)'
    <3> DEFINE n == Len(calls)
    <3>1. n \in Nat /\ n = Len(calls) /\ n = Len(calls') BY <1>1, <1>4
    <3>2. inArchive' = inArchive /\ op' = op BY <1>1
    <3>3. handler[g] = HandlerHolders(g) /\ g # Null /\ g # NoObject /\ outArchive # g BY <1>1, <1>3
    <3> HIDE DEF n
    <3>4. HandlerHolders(g) = IF inArchive = g THEN n + 1 ELSE 0
      BY <1>3, <3>1, <3>3, CalledHolders
    <3>5. /\ inArchive # g /\ outArchive' # g => HandlerHolders(g)' = 0
          /\ inArchive = g /\ outArchive' # g => HandlerHolders(g)' = n + 1
          /\ inArchive = g /\ outArchive' = g => HandlerHolders(g)' = n + 2
      BY <1>3, <3>1, <3>2, CalledHoldersNext
    <3>6. CASE outArchive' = inArchive /\ handler' = [handler EXCEPT ![inArchive] = @ + 1]
      BY <1>2, <1>3, <3>1, <3>3, <3>4, <3>5, <3>6
    <3>7. CASE outArchive' = Null /\ handler' = handler BY <3>1, <3>3, <3>4, <3>5, <3>7
    <3> QED BY <1>1, <3>6, <3>7
  <2> QED BY <2>1 DEF HandlersAgree
<1>6. AdaptersAgree'
  <2>1. ASSUME NEW x \in Adapters
        PROVE  /\ Direct(x)' \in Int
               /\ adapter'[x] = adapter[x] - Direct(x) + Direct(x)'
    <3>1. Direct(x)' = Direct(x) BY <1>1 DEF Direct, StreamCalls
    <3>2. Direct(x) \in Nat /\ adapter[x] \in Nat BY HoldersNat DEF TypeOK
    <3> QED BY <1>1, <3>1, <3>2
  <2> QED BY <1>1, <1>3, <2>1, OnlyDirectChanges
<1>7. TypeOK' /\ CountsAgree'
  <2>1. UnheldIsEmpty'
    <3>1. ASSUME NEW g \in Formats, handler'[g] = 0
          PROVE  handler[g] = 0
      BY <1>1, <1>3, <3>1
    <3> QED BY <1>1, <3>1 DEF CountsAgree, UnheldIsEmpty
  <2>2. adapter' = [x \in Adapters |-> adapter'[x]] /\ handler' = [g \in Formats |-> handler'[g]]
    BY <1>1, <1>3 DEF TypeOK
  <2> QED BY <1>1, <1>2, <1>5, <1>6, <2>1, <2>2, CountTypes DEF TypeOK, OpType
<1>8. Agreements'
  <2>1. IdleAgrees' /\ OpenAgrees' /\ CloseAgrees'
    BY <1>1, <1>2, <1>3 DEF IdleAgrees, OpenAgrees, CloseAgrees
  <2>2. FieldsAgree' BY <1>1, <1>2, <1>3 DEF FieldsAgree
  <2> QED BY <2>1, <2>2 DEF Agreements
<1>9. HandedOutIsOpen' /\ CodecsStartAtZero'
  BY <1>1, <1>3 DEF HandedOutIsOpen, CodecsStartAtZero
<1> QED BY <1>7, <1>8, <1>9 DEF Agreements

\* The steps that may only stop the process.
LEMMA MayStop ==
    ASSUME IInv, CanCall, crashed' \in BOOLEAN,
           UNCHANGED <<heap, position, java, op, calls, simpleClose>>
    PROVE  IInv'
<1> USE DEF IInv
<1>1. /\ UNCHANGED <<session, handler, opened, keeps, adapter, position, inArchive, outArchive, counted,
                     wasClosed, op, calls, simpleClose>>
      /\ op.pc = "idle"
  BY DEF heap, java, CanCall
<1>2. TypeOK' BY <1>1 DEF TypeOK
<1>3. CountsAgree'
  <2>1. \A f \in Formats : HandlerHolders(f)' = HandlerHolders(f) BY <1>1 DEF HandlerHolders
  <2>2. \A x \in Adapters : AdapterHolders(x)' = AdapterHolders(x) BY <1>1 DEF AdapterHolders
  <2> QED BY <1>1, <2>1, <2>2 DEF CountsAgree
<1>4. Agreements'
  BY <1>1 DEF Agreements, IdleAgrees, OpenAgrees, CloseAgrees, FieldsAgree
<1>5. HandedOutIsOpen' /\ CodecsStartAtZero'
  BY <1>1 DEF HandedOutIsOpen, CodecsStartAtZero
<1> QED BY <1>2, <1>3, <1>4, <1>5 DEF Agreements

LEMMA UpdateUnconnectedKeeps ==
    ASSUME IInv, UpdateUnconnected
    PROVE  IInv'
BY MayStop DEF UpdateUnconnected

LEMMA SimpleAfterCloseKeeps ==
    ASSUME IInv, SimpleAfterClose
    PROVE  IInv'
<1>1. wasClosed \in BOOLEAN BY DEF IInv, TypeOK
<1> QED BY <1>1, MayStop DEF SimpleAfterClose

LEMMA ItemAfterCloseKeeps ==
    ASSUME IInv, ItemAfterClose
    PROVE  IInv'
<1>1. counted \in BOOLEAN BY DEF IInv, TypeOK
<1> QED BY <1>1, MayStop DEF ItemAfterClose

-----------------------------------------------------------------------------
(* Closing                                                                 *)

LEMMA CloseKeeps ==
    ASSUME IInv, NEW simple \in BOOLEAN, Close(simple)
    PROVE  IInv'
<1> USE DEF IInv
<1> DEFINE f == inArchive
<1>1. /\ CanCall /\ f # Null /\ calls = << >> /\ handler' = [handler EXCEPT ![f] = @ + 1]
      /\ adapter' = Plus(adapter, {"stream"})
      /\ op' = [Idle EXCEPT !.pc = "close", !.current = f, !.locals = {"archive", "stream"},
                            !.delete = TRUE, !.simple = simple]
      /\ UNCHANGED <<session, opened, keeps, position, java, calls, crashed, simpleClose>>
  BY DEF Close
<1>2. /\ op.pc = "idle" /\ op.locals = {} /\ op.current = Null /\ ~crashed /\ op = Idle
      /\ session = "live" /\ f \in Formats /\ handler \in [Formats -> Nat] /\ AdaptersAgree
      /\ \A g \in Formats : g # Null /\ g # NoObject /\ handler[g] = HandlerHolders(g)
  BY <1>1, CanCallFacts
<1>3. /\ op' \in OpType /\ op'.pc = "close" /\ op'.current = f /\ op'.locals = {"archive", "stream"}
      /\ op'.delete
  <2>1. op' = [pc |-> "close", asked |-> AnyFormat, current |-> f, locals |-> {"archive", "stream"},
               thrown |-> FALSE, delete |-> TRUE, simple |-> simple, failed |-> FALSE]
    BY <1>1 DEF Idle
  <2> QED BY <1>2, <2>1 DEF OpType
<1>4. /\ inArchive' = inArchive /\ outArchive' = outArchive /\ wasClosed' = wasClosed
      /\ counted' = counted /\ calls' = << >>
  BY <1>1 DEF java
<1>5. HandlersAgree'
  <2>1. ASSUME NEW g \in Formats
        PROVE  handler'[g] = HandlerHolders(g)'
    <3>1. handler'[g] = IF g = f THEN handler[g] + 1 ELSE handler[g] BY <1>1, <1>2
    <3>2. HandlerHolders(g) = (IF f = g THEN 1 ELSE 0) + (IF outArchive = g THEN 1 ELSE 0)
      BY <1>1, <1>2 DEF HandlerHolders, One
    <3>3. HandlerHolders(g)' = (IF f = g THEN 2 ELSE 0) + (IF outArchive = g THEN 1 ELSE 0)
      BY <1>1, <1>3, <1>4 DEF HandlerHolders, One
    <3> QED BY <1>2, <3>1, <3>2, <3>3
  <2> QED BY <2>1 DEF HandlersAgree
<1>6. ASSUME NEW x \in Adapters
      PROVE  /\ Direct(x)' \in Int
             /\ adapter'[x] = adapter[x] - Direct(x) + Direct(x)'
  <2>1. StreamCalls \in Nat /\ StreamCalls' = StreamCalls
    BY <1>1, StreamCallsNat DEF TypeOK, StreamCalls, StreamCallsOf
  <2>2. Direct(x) = IF x = "stream" THEN 1 + StreamCalls ELSE 0 BY <1>1, <1>2, <2>1 DEF Direct, One
  <2>3. Direct(x)' = IF x = "stream" THEN 2 + StreamCalls ELSE 0
    BY <1>1, <1>3, <1>4, <2>1 DEF Direct, One, Adapters
  <2>4. adapter[x] \in Nat BY DEF TypeOK
  <2>5. adapter'[x] = IF x = "stream" THEN adapter[x] + 1 ELSE adapter[x] BY <1>1 DEF Plus
  <2> QED BY <2>1, <2>2, <2>3, <2>4, <2>5
<1>7. AdaptersAgree' BY <1>1, <1>2, <1>6, OnlyDirectChanges
<1>8. TypeOK' /\ CountsAgree'
  <2>1. UnheldIsEmpty'
    <3>1. ASSUME NEW g \in Formats, handler'[g] = 0
          PROVE  handler[g] = 0
      BY <1>1, <1>2, <3>1
    <3> QED BY <1>1, <3>1 DEF CountsAgree, UnheldIsEmpty
  <2>2. adapter' = [x \in Adapters |-> adapter'[x]] /\ handler' = [g \in Formats |-> handler'[g]]
    BY <1>1, <1>2 DEF Plus
  <2> QED BY <1>1, <1>3, <1>4, <1>5, <1>7, <2>1, <2>2, CountTypes DEF TypeOK
<1>9. Agreements'
  <2>1. IdleAgrees' BY <1>1, <1>2, <1>3, <1>4 DEF IdleAgrees
  <2>2. OpenAgrees' /\ CloseAgrees' BY <1>1, <1>3, <1>4 DEF OpenAgrees, CloseAgrees
  <2>3. FieldsAgree' BY <1>1, <1>4 DEF FieldsAgree
  <2> QED BY <2>1, <2>2, <2>3 DEF Agreements
<1>10. HandedOutIsOpen'
  <2>1. adapter["stream"] > 0 /\ adapter["stream"] \in Nat /\ inArchive \in opened
    BY <1>1, <1>2 DEF HandedOutIsOpen, TypeOK, Adapters
  <2>2. adapter'["stream"] > 0 BY <1>1, <2>1 DEF Plus, Adapters
  <2> QED BY <1>1, <1>2, <1>4, <2>1, <2>2 DEF HandedOutIsOpen
<1>11. CodecsStartAtZero'
  BY <1>1, <1>2, <1>3 DEF CodecsStartAtZero
<1> QED BY <1>8, <1>9, <1>10, <1>11 DEF Agreements

LEMMA CloseHandlerKeeps ==
    ASSUME IInv, CloseHandler
    PROVE  IInv'
<1> USE DEF IInv
<1> DEFINE f == op.current
<1>1. PICK ok \in BOOLEAN, rest \in SUBSET keeps[f] :
         HandlerLetsGo(f, rest) /\ op' = [op EXCEPT !.pc = "closed", !.thrown = ~ok]
  BY DEF CloseHandler
<1>2. /\ op.pc = "close" /\ UNCHANGED <<session, handler, position, java, calls, crashed, simpleClose>>
  BY DEF CloseHandler
<1>3. op \in OpType BY DEF TypeOK, OpType
<1>4. /\ inArchive # Null /\ f = inArchive /\ f \in Formats /\ op.delete /\ op.locals = {"archive", "stream"}
      /\ calls = << >> /\ session = "live" /\ ~crashed
  BY <1>2 DEF CloseAgrees, IdleAgrees, TypeOK
<1>5. /\ op' \in OpType /\ op'.pc = "closed" /\ op'.current = f /\ op'.locals = op.locals
      /\ op'.delete = op.delete
  BY <1>1, <1>3 DEF OpType
<1>6. /\ inArchive' = inArchive /\ outArchive' = outArchive /\ calls' = << >> /\ session' = "live"
      /\ ~crashed' /\ handler' = handler /\ wasClosed' = wasClosed /\ simpleClose' = simpleClose
  BY <1>2, <1>4 DEF java
<1>7. /\ keeps' \in [Formats -> SUBSET Adapters]
      /\ \A g \in Formats : g # f => keeps'[g] = keeps[g]
      /\ opened' = opened \ {f} /\ adapter' = [x \in Adapters |-> adapter'[x]]
      /\ \A x \in Adapters : adapter'[x] = adapter[x] - Kept(x) + Kept(x)'
  BY <1>1, <1>4, LetsGo
<1>8. HandlersAgree'
  <2>1. ASSUME NEW g \in Formats
        PROVE  handler'[g] = HandlerHolders(g)'
    <3>1. HandlerHolders(g)' = HandlerHolders(g) BY <1>4, <1>5, <1>6 DEF HandlerHolders
    <3> QED BY <1>6, <3>1 DEF CountsAgree
  <2> QED BY <2>1 DEF HandlersAgree
<1>9. AdaptersAgree'
  <2>1. \A x \in Adapters : Direct(x)' = Direct(x)
    BY <1>4, <1>5, <1>6 DEF Direct, StreamCalls
  <2>2. AdaptersAgree BY DEF CountsAgree, AdaptersAgree
  <2> QED BY <1>7, <2>1, <2>2, OnlyKeptChanges
<1>10. UnheldIsEmpty'
  <2>1. handler[f] > 0
    <3>1. HandlerHolders(inArchive) > 0 BY <1>4, HoldersNat
    <3> QED BY <1>4, <3>1 DEF CountsAgree
  <2>2. ASSUME NEW g \in Formats, handler'[g] = 0
        PROVE  keeps'[g] = {} /\ g \notin opened'
    <3>1. g # f BY <1>6, <2>1, <2>2
    <3>2. keeps[g] = {} /\ g \notin opened BY <1>6, <2>2 DEF CountsAgree
    <3> QED BY <1>7, <3>1, <3>2
  <2> QED BY <2>2 DEF UnheldIsEmpty
<1>11. TypeOK' /\ CountsAgree'
  BY <1>2, <1>5, <1>6, <1>7, <1>8, <1>9, <1>10, CountTypes DEF TypeOK, java
<1>12. Agreements'
  BY <1>4, <1>5, <1>6 DEF Agreements, IdleAgrees, OpenAgrees, CloseAgrees, FieldsAgree
<1>13. HandedOutIsOpen'
  <2>1. Direct("stream")' > 0 /\ Direct("stream")' \in Nat
    <3>1. StreamCalls' \in Nat BY <1>11, StreamCallsNat DEF TypeOK, StreamCalls, StreamCallsOf
    <3> QED BY <1>4, <1>5, <1>6, <3>1 DEF Direct, One
  <2>2. Kept("stream")' \in Nat BY KeptNat DEF Kept
  <2>3. AdapterHolders("stream")' = Direct("stream")' + Kept("stream")'
    BY DEF AdapterHolders, Direct, Kept, Keepers, StreamCalls, StreamCallsOf
  <2>4. adapter'["stream"] > 0 BY <1>9, <2>1, <2>2, <2>3 DEF AdaptersAgree, Adapters
  <2> QED BY <1>5, <1>6, <2>4 DEF HandedOutIsOpen
<1>14. CodecsStartAtZero'
  BY <1>5, <1>6 DEF CodecsStartAtZero
<1> QED BY <1>11, <1>12, <1>13, <1>14 DEF Agreements

LEMMA ReleaseFieldsKeeps ==
    ASSUME IInv, ReleaseFields
    PROVE  IInv'
<1> USE DEF IInv
<1> DEFINE f == op.current
<1>1. /\ op.pc = "closed" /\ handler' = [handler EXCEPT ![f] = @ - 1]
      /\ adapter' = Minus(adapter, {"stream"}) /\ inArchive' = Null
      /\ op' = [op EXCEPT !.pc = "leave"]
      /\ UNCHANGED <<session, opened, keeps, position, outArchive, counted, wasClosed, calls, crashed,
                     simpleClose>>
  BY DEF ReleaseFields
<1>2. op \in OpType /\ handler \in [Formats -> Nat] BY DEF TypeOK, OpType
<1>3. /\ inArchive # Null /\ f = inArchive /\ f \in Formats /\ op.delete /\ op.locals = {"archive", "stream"}
      /\ calls = << >> /\ session = "live" /\ ~crashed
  BY <1>1 DEF CloseAgrees, IdleAgrees, TypeOK
<1>4. /\ op' \in OpType /\ op'.pc = "leave" /\ op'.current = f /\ op'.locals = op.locals
      /\ op'.delete
  BY <1>1, <1>2, <1>3 DEF OpType
<1>5. ASSUME NEW g \in Formats
      PROVE  /\ handler'[g] = HandlerHolders(g)'
             /\ handler'[g] = 0 => handler[g] = 0
  <2>1. g # Null /\ handler[g] = HandlerHolders(g) BY FormatsFinite DEF Null, CountsAgree
  <2>2. handler'[g] = IF g = f THEN handler[g] - 1 ELSE handler[g] BY <1>1, <1>2
  <2>3. HandlerHolders(g) = (IF f = g THEN 2 ELSE 0) + (IF outArchive = g THEN 1 ELSE 0)
    BY <1>3 DEF HandlerHolders, One
  <2>4. HandlerHolders(g)' = (IF f = g THEN 1 ELSE 0) + (IF outArchive = g THEN 1 ELSE 0)
    BY <1>1, <1>3, <1>4, <2>1 DEF HandlerHolders, One
  <2> QED BY <2>1, <2>2, <2>3, <2>4
<1>6. HandlersAgree' BY <1>5 DEF HandlersAgree
<1>7. ASSUME NEW x \in Adapters
      PROVE  /\ Direct(x)' \in Int
             /\ adapter'[x] = adapter[x] - Direct(x) + Direct(x)'
  <2>1. StreamCalls \in Nat /\ StreamCalls' = StreamCalls
    BY <1>1, StreamCallsNat DEF TypeOK, StreamCalls, StreamCallsOf
  <2>2. Direct(x) = IF x = "stream" THEN 2 + StreamCalls ELSE 0 BY <1>3, <2>1 DEF Direct, One, Adapters
  <2>3. Direct(x)' = IF x = "stream" THEN 1 + StreamCalls ELSE 0
    BY <1>1, <1>3, <1>4, <2>1 DEF Direct, One, Adapters
  <2>4. adapter[x] \in Nat BY DEF TypeOK
  <2>5. adapter'[x] = IF x = "stream" THEN adapter[x] - 1 ELSE adapter[x] BY <1>1 DEF Minus
  <2> QED BY <2>1, <2>2, <2>3, <2>4, <2>5
<1>8. AdaptersAgree'
  <2>1. AdaptersAgree BY DEF CountsAgree, AdaptersAgree
  <2> QED BY <1>1, <1>7, <2>1, OnlyDirectChanges
<1>9. TypeOK' /\ CountsAgree'
  <2>1. UnheldIsEmpty' BY <1>1, <1>5 DEF CountsAgree, UnheldIsEmpty
  <2>2. adapter' = [x \in Adapters |-> adapter'[x]] /\ handler' = [g \in Formats |-> handler'[g]]
    BY <1>1, <1>2 DEF Minus
  <2> QED BY <1>1, <1>4, <1>6, <1>8, <2>1, <2>2, CountTypes DEF TypeOK
<1>10. Agreements'
  BY <1>1, <1>3, <1>4 DEF Agreements, IdleAgrees, OpenAgrees, CloseAgrees, FieldsAgree
<1>11. HandedOutIsOpen' /\ CodecsStartAtZero'
  BY <1>1, <1>3, <1>4 DEF HandedOutIsOpen, CodecsStartAtZero
<1> QED BY <1>9, <1>10, <1>11 DEF Agreements

-----------------------------------------------------------------------------
(* The theorems                                                            *)

LEMMA InitIInv == Init => IInv
<1> SUFFICES ASSUME Init
             PROVE  IInv
  OBVIOUS
<1> USE DEF Init
<1>1. op.pc = "idle" /\ op.locals = {} /\ op.current = Null /\ op \in OpType
  BY DEF Idle, OpType, AnyFormat, Null
<1>2. TypeOK
  <2>1. calls \in Seq(Calls)
    OBVIOUS
  <2> QED BY <1>1, <2>1 DEF TypeOK, OpType
<1>3. \A f \in Formats : f # Null /\ f # NoObject BY FormatsFinite DEF Null, NoObject
<1>4. \A f \in Formats : handler[f] = HandlerHolders(f)
  BY <1>1, <1>3 DEF HandlerHolders, One
<1>5. ASSUME NEW x \in Adapters
      PROVE  adapter[x] = AdapterHolders(x)
  <2>1. Kept(x) = 0
    <3>1. Keepers(keeps, x) = {} BY DEF Keepers
    <3> QED BY <3>1, FS_EmptySet DEF Kept
  <2>2. StreamCalls = 0
    <3>1. {k \in DOMAIN calls : HoldsStream(calls[k])} = {}
      OBVIOUS
    <3> QED BY <3>1, FS_EmptySet DEF StreamCalls, StreamCallsOf
  <2>3. Direct(x) = 0 BY <1>1, <2>2 DEF Direct, One
  <2> QED BY <1>2, <2>1, <2>3, HoldersNat
<1>6. CountsAgree BY <1>4, <1>5 DEF CountsAgree
<1>7. Agreements
  BY <1>1 DEF Agreements, IdleAgrees, OpenAgrees, CloseAgrees, FieldsAgree, Null
<1>8. HandedOutIsOpen /\ CodecsStartAtZero
  BY <1>1 DEF HandedOutIsOpen, CodecsStartAtZero
<1> QED BY <1>2, <1>6, <1>7, <1>8 DEF IInv, Agreements

LEMMA StutterIInv ==
    ASSUME IInv, UNCHANGED vars
    PROVE  IInv'
<1> USE DEF IInv
<1>1. UNCHANGED <<session, handler, opened, keeps, adapter, position, inArchive, outArchive, counted,
                  wasClosed, op, calls, crashed, simpleClose>>
  BY DEF vars, heap, java
<1>2. TypeOK' BY <1>1 DEF TypeOK
<1>3. CountsAgree'
  <2>1. \A f \in Formats : HandlerHolders(f)' = HandlerHolders(f) BY <1>1 DEF HandlerHolders
  <2>2. \A x \in Adapters : AdapterHolders(x)' = AdapterHolders(x) BY <1>1 DEF AdapterHolders
  <2> QED BY <1>1, <2>1, <2>2 DEF CountsAgree
<1>4. Agreements'
  BY <1>1 DEF Agreements, IdleAgrees, OpenAgrees, CloseAgrees, FieldsAgree
<1>5. HandedOutIsOpen' /\ CodecsStartAtZero' BY <1>1 DEF HandedOutIsOpen, CodecsStartAtZero
<1> QED BY <1>2, <1>3, <1>4, <1>5 DEF Agreements

LEMMA NextIInv == IInv /\ [Next]_vars => IInv'
<1> SUFFICES ASSUME IInv, [Next]_vars
             PROVE  IInv'
  OBVIOUS
<1>1. ASSUME NEW asked \in Formats \cup {AnyFormat, Unknown}, Open(asked)
      PROVE  IInv'
  BY <1>1, OpenKeeps
<1>2. CASE InNative
  BY <1>2, NextCodecKeeps, GivenCodecKeeps, TryOpenKeeps, RefuseOpenedKeeps, HandOutKeeps,
     DestroyCallbackKeeps, DestroyStreamKeeps, DestroyArchiveKeeps, ReturnKeeps, CloseHandlerKeeps,
     ReleaseFieldsKeeps
  DEF InNative
<1>3. ASSUME NEW c \in Calls \ {"update"}, BeginCall(c)
      PROVE  IInv'
  BY <1>3, BeginCallKeeps
<1>4. CASE BeginUpdate BY <1>4, BeginUpdateKeeps
<1>5. CASE EndCall BY <1>5, EndCallKeeps
<1>6. CASE Connect BY <1>6, ConnectKeeps
<1>7. CASE UpdateUnconnected BY <1>7, UpdateUnconnectedKeeps
<1>8. CASE SimpleAfterClose BY <1>8, SimpleAfterCloseKeeps
<1>9. CASE ItemAfterClose BY <1>9, ItemAfterCloseKeeps
<1>10. ASSUME NEW simple \in BOOLEAN, Close(simple)
       PROVE  IInv'
  BY <1>10, CloseKeeps
<1>11. CASE Ended \/ UNCHANGED vars BY <1>11, StutterIInv DEF Ended
<1> QED BY <1>1, <1>2, <1>3, <1>4, <1>5, <1>6, <1>7, <1>8, <1>9, <1>10, <1>11 DEF Next

\* The inductive invariant: the references are counted, and the locals of an open
\* or a close, the fields and the session fit each other at every step.
THEOREM Invariance == Spec => []IInv
<1>1. Init => IInv BY InitIInv
<1>2. IInv /\ [Next]_vars => IInv' BY NextIInv
<1> QED BY <1>1, <1>2, PTL DEF Spec

\* The counts never leave the naturals and the fields keep their types.
THEOREM TypeCorrect == Spec => []TypeOK
<1>1. IInv => TypeOK BY DEF IInv
<1> QED BY <1>1, Invariance, PTL

\* Every reference to a handler or an adapter is counted, and every count is of
\* a reference, at any depth of nested calls.
THEOREM ReferencesCounted == Spec => []CountsAgree
<1>1. IInv => CountsAgree BY DEF IInv
<1> QED BY <1>1, Invariance, PTL

\* What is in the fields is an open archive with its session and its stream.
THEOREM HandedOut == Spec => []HandedOutIsOpen
<1>1. IInv => HandedOutIsOpen BY DEF IInv
<1> QED BY <1>1, Invariance, PTL

\* Each codec of the auto-detection begins at the start of the stream, unless
\* the stream threw when it was asked to go there.
THEOREM StartAtZero == Spec => []CodecsStartAtZero
<1>1. IInv => CodecsStartAtZero BY DEF IInv
<1> QED BY <1>1, Invariance, PTL

\* Between calls, an archive that was closed or not opened, and has no connected
\* out-archive, has left no object and no session behind.
THEOREM NothingIsLeft == Spec => []NothingLeft
<1>1. ASSUME IInv, op.pc = "idle", inArchive = Null, outArchive \notin Formats
      PROVE  /\ session # "live"
             /\ \A f \in Formats : handler[f] = 0
             /\ \A x \in Adapters : adapter[x] = 0
  <2> USE <1>1 DEF IInv
  <2>1. session # "live" /\ op.locals = {} /\ op.current = Null /\ calls = << >>
    BY DEF IdleAgrees, FieldsAgree, Idle
  <2>2. ASSUME NEW f \in Formats
        PROVE  handler[f] = 0 /\ keeps[f] = {}
    <3>1. f # Null BY FormatsFinite DEF Null
    <3>2. HandlerHolders(f) = 0 BY <2>1, <3>1 DEF HandlerHolders, One
    <3> QED BY <3>2 DEF CountsAgree
  <2>3. ASSUME NEW x \in Adapters
        PROVE  adapter[x] = 0
    <3>1. Kept(x) = 0
      <4>1. Keepers(keeps, x) = {} BY <2>2 DEF Keepers
      <4> QED BY <4>1, FS_EmptySet DEF Kept
    <3>2. StreamCalls = 0
      <4>1. {k \in DOMAIN calls : HoldsStream(calls[k])} = {} BY <2>1
      <4> QED BY <4>1, FS_EmptySet DEF StreamCalls, StreamCallsOf
    <3>3. Direct(x) = 0 BY <2>1, <3>2 DEF Direct, One
    <3> QED BY <3>1, <3>3, HoldersNat DEF CountsAgree
  <2> QED BY <2>1, <2>2, <2>3
<1>2. IInv => NothingLeft BY <1>1 DEF NothingLeft
<1> QED BY <1>2, Invariance, PTL

\* An adapter that is destroyed has its session, before the step and after it.
LEMMA DestructorStep ==
    ASSUME IInv, [Next]_vars, NEW x \in Adapters, adapter[x] > 0, adapter'[x] = 0
    PROVE  session = "live" /\ session' = "live"
<1>1. adapter[x] \in Nat BY DEF IInv, TypeOK
<1>2. adapter' # adapter
  OBVIOUS
<1>3. op.pc # "idle" => session = "live" BY DEF IInv, IdleAgrees
<1>4. ASSUME NEW S, adapter' = Plus(adapter, S)
      PROVE  FALSE
  BY <1>1, <1>4 DEF Plus
<1>5. CASE \E asked \in Formats \cup {AnyFormat, Unknown} : Open(asked)
  BY <1>2, <1>4, <1>5 DEF Open
<1>6. CASE NextCodec \/ GivenCodec \/ TryOpen \/ RefuseOpened \/ CloseHandler \/ ReleaseFields
  BY <1>3, <1>6 DEF NextCodec, GivenCodec, TryOpen, RefuseOpened, CloseHandler, ReleaseFields
<1>7. CASE HandOut \/ Return BY <1>2, <1>7 DEF HandOut, Return, heap
<1>8. CASE DestroyCallback \/ DestroyStream \/ DestroyArchive
  BY <1>3, <1>8 DEF DestroyCallback, DestroyStream, DestroyArchive
<1>9. CASE \E c \in Calls \ {"update"} : BeginCall(c) BY <1>2, <1>4, <1>9 DEF BeginCall
<1>10. CASE BeginUpdate \/ Connect BY <1>2, <1>10 DEF BeginUpdate, Connect
<1>11. CASE EndCall
  <2>1. inArchive # Null BY <1>11 DEF EndCall, IInv, FieldsAgree
  <2>2. session = "live" BY <1>11, <2>1 DEF EndCall, CanCall, IInv, IdleAgrees
  <2> QED BY <1>11, <2>2 DEF EndCall
<1>12. CASE UpdateUnconnected \/ SimpleAfterClose \/ ItemAfterClose
  BY <1>2, <1>12 DEF UpdateUnconnected, SimpleAfterClose, ItemAfterClose, heap
<1>13. CASE \E simple \in BOOLEAN : Close(simple) BY <1>4, <1>13 DEF Close
<1>14. CASE Ended \/ UNCHANGED vars BY <1>2, <1>14 DEF Ended, vars, heap
<1> QED BY <1>5, <1>6, <1>7, <1>8, <1>9, <1>10, <1>11, <1>12, <1>13, <1>14 DEF Next, InNative

\* No destructor of an adapter calls Java without the session, however calls were
\* nested and whichever codec kept the adapter.
THEOREM DestructorsCanCall == Spec => DestructorsHaveSession
<1>1. IInv /\ [Next]_vars
      => [\A x \in Adapters : adapter[x] > 0 /\ adapter'[x] = 0
            => session = "live" /\ session' = "live"]_vars
  BY DestructorStep
<1> QED BY <1>1, Invariance, PTL DEF Spec, DestructorsHaveSession

\* Only the step that hands the archive out makes the field a pointer.
LEMMA HandOutStep ==
    ASSUME IInv, [Next]_vars, inArchive = Null, inArchive' # Null
    PROVE  ~op.failed
<1>1. CASE HandOut BY <1>1 DEF HandOut, IInv, OpenAgrees
<1>2. CASE \E asked \in Formats \cup {AnyFormat, Unknown} : Open(asked) BY <1>2 DEF Open
<1>3. CASE NextCodec \/ GivenCodec \/ TryOpen \/ RefuseOpened
  BY <1>3 DEF NextCodec, GivenCodec, TryOpen, RefuseOpened, java
<1>4. CASE DestroyCallback \/ DestroyStream \/ DestroyArchive \/ Return
  BY <1>4 DEF DestroyCallback, DestroyStream, DestroyArchive, Return, java
<1>5. CASE CloseHandler \/ ReleaseFields BY <1>5 DEF CloseHandler, ReleaseFields, java
<1>6. CASE \E c \in Calls \ {"update"} : BeginCall(c) BY <1>6 DEF BeginCall
<1>7. CASE BeginUpdate \/ EndCall \/ Connect BY <1>7 DEF BeginUpdate, EndCall, Connect, java
<1>8. CASE UpdateUnconnected \/ SimpleAfterClose \/ ItemAfterClose
  BY <1>8 DEF UpdateUnconnected, SimpleAfterClose, ItemAfterClose, java
<1>9. CASE \E simple \in BOOLEAN : Close(simple) BY <1>9 DEF Close
<1>10. CASE Ended \/ UNCHANGED vars BY <1>10 DEF Ended, vars, java
<1> QED BY <1>1, <1>2, <1>3, <1>4, <1>5, <1>6, <1>7, <1>8, <1>9, <1>10 DEF Next, InNative

\* An open in which any callback threw, for whichever codec, hands nothing out.
THEOREM FailedCallbackFails == Spec => FailedCallbackFailsOpen
<1>1. IInv /\ [Next]_vars => [inArchive = Null /\ inArchive' # Null => ~op.failed]_vars
  BY HandOutStep
<1> QED BY <1>1, Invariance, PTL DEF Spec, FailedCallbackFailsOpen
================================================================================
