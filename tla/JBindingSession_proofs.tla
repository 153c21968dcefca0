----------------------- MODULE JBindingSession_proofs -----------------------
(***************************************************************************)
(* Proofs about JBindingSession for any number of threads, any depth of    *)
(* nested calls and callbacks and any number of exceptions and messages.   *)
(***************************************************************************)
EXTENDS JBindingSession, SequenceTheorems, TLAPS

-----------------------------------------------------------------------------
(* Sequences used as stacks.                                               *)

\* Removing the last element of a stack leaves the others.
LEMMA PopProperties ==
    ASSUME NEW S, NEW s \in Seq(S), s # <<>>
    PROVE  /\ Pop(s) \in Seq(S)
           /\ Len(Pop(s)) = Len(s) - 1
           /\ \A i \in 1..(Len(s) - 1) : Pop(s)[i] = s[i]
           /\ Pop(s) = <<>> <=> Len(s) = 1
<1>1. PICK n \in Nat : Len(s) = n + 1
    <2>1. Len(s) \in Nat /\ Len(s) # 0
        OBVIOUS
    <2>2. Len(s) - 1 \in Nat /\ Len(s) = (Len(s) - 1) + 1
        BY <2>1
    <2>3. QED BY <2>2
<1>2. Len(s) - 1 = n
    BY <1>1
<1>3. \A i \in 1..n : s[i] \in S
    BY <1>1
<1>4. /\ SubSeq(s, 1, n) \in Seq(S)
      /\ Len(SubSeq(s, 1, n)) = IF 1 <= n THEN n - 1 + 1 ELSE 0
      /\ \A i \in 1..(n - 1 + 1) : SubSeq(s, 1, n)[i] = s[1 + i - 1]
    BY <1>3, SubSeqProperties
<1>5. Len(SubSeq(s, 1, n)) = n
    BY <1>4
<1>6. \A i \in 1..n : SubSeq(s, 1, n)[i] = s[i]
    BY <1>4
<1>7. SubSeq(s, 1, n) = <<>> <=> n = 0
    BY <1>4, <1>5
<1>8. QED BY <1>1, <1>2, <1>4, <1>5, <1>6, <1>7 DEF Pop

-----------------------------------------------------------------------------
(* Type facts.                                                             *)

\* The initial context and call log are well formed.
LEMMA FreshContext == NewContext \in Context /\ Report!EmptyCall \in CallLog
BY DEF NewContext, Context, CallLog, Report!EmptyCall

LEMMA NoJobType == NoJob \in Job
BY DEF NoJob, Job

\* Recording an exception keeps a context a context.
LEMMA RecordTypes ==
    ASSUME NEW c \in Context, NEW e \in Exceptions
    PROVE  /\ AddOwn(c, e) \in Context
           /\ AddOther(c, e) \in Context
           /\ AddOwn(c, e).msg = c.msg
           /\ AddOwn(c, e).firstOther = c.firstOther
           /\ AddOwn(c, e).lastOther = c.lastOther
           /\ AddOther(c, e).msg = c.msg
           /\ AddOther(c, e).first = c.first
           /\ AddOther(c, e).last = c.last
           /\ c.first = NoException => AddOwn(c, e).first = e /\ AddOwn(c, e).last = c.last
           /\ c.first # NoException => AddOwn(c, e).first = c.first /\ AddOwn(c, e).last = e
           /\ c.firstOther = NoException =>
                AddOther(c, e).firstOther = e /\ AddOther(c, e).lastOther = c.lastOther
           /\ c.firstOther # NoException =>
                AddOther(c, e).firstOther = c.firstOther /\ AddOther(c, e).lastOther = e
BY DEF Context, AddOwn, AddOther

-----------------------------------------------------------------------------
(* Frames are pushed and popped.                                           *)

\* A new frame that is linked to the top of the stack keeps frames linked.
LEMMA PushFrame ==
    ASSUME frames \in [Threads -> Seq(Frame)], FramesLinked,
           NEW t \in Threads, NEW f \in Frame,
           frames' = [frames EXCEPT ![t] = Append(@, f)],
           frames[t] = <<>> =>
              IF t \in JavaThreads THEN f.kind = "call" /\ f.ctx = 1 /\ f.cbs = 0
                                   ELSE f.kind = "callback" /\ f.ctx = 0 /\ f.cbs = 1,
           frames[t] # <<>> =>
              IF f.kind = "call" THEN f.ctx = Top(t).ctx + 1 /\ f.cbs = Top(t).cbs
                                 ELSE f.ctx = Top(t).ctx /\ f.cbs = Top(t).cbs + 1
    PROVE  /\ frames' \in [Threads -> Seq(Frame)]
           /\ FramesLinked'
           /\ \A u \in Threads : u # t => frames'[u] = frames[u]
           /\ Len(frames'[t]) = Len(frames[t]) + 1
           /\ \A i \in 1..Len(frames[t]) : frames'[t][i] = frames[t][i]
           /\ frames'[t] # <<>>
           /\ frames'[t][Len(frames[t]) + 1] = f
           /\ frames'[t][Len(frames'[t])] = f
<1>1. /\ frames'[t] \in Seq(Frame) /\ frames'[t] # <<>>
      /\ Len(frames'[t]) = Len(frames[t]) + 1
      /\ \A i \in 1..Len(frames[t]) : frames'[t][i] = frames[t][i]
      /\ frames'[t][Len(frames[t]) + 1] = f
    BY AppendProperties
<1>2. frames' \in [Threads -> Seq(Frame)] /\ \A u \in Threads : u # t => frames'[u] = frames[u]
    BY <1>1
<1>3. frames'[t][Len(frames'[t])] = f
    BY <1>1
<1>4. FramesLinked'
    <2> SUFFICES ASSUME NEW u \in Threads PROVE FramesLinked!(u)'
        BY DEF FramesLinked
    <2>1. CASE u # t
        BY <2>1, <1>2 DEF FramesLinked
    <2>2. CASE u = t /\ frames[t] = <<>>
        <3>1. Len(frames'[t]) = 1 /\ frames'[t][1] = f
            BY <1>1, <2>2
        <3>2. f.ctx <= f.ctx /\ f.cbs <= f.cbs
            BY DEF Frame
        <3>3. QED BY <1>1, <2>2, <3>1, <3>2
    <2>3. CASE u = t /\ frames[t] # <<>>
        <3> DEFINE n == Len(frames[t])
        <3>1. n \in Nat /\ n >= 1 /\ Len(frames'[t]) = n + 1
            BY <2>3, <1>1
        <3>2. \A i \in 1..n : frames[t][i] \in Frame
            OBVIOUS
        <3>3. frames'[t][1] = frames[t][1]
            BY <1>1, <3>1
        <3>4. \A i \in 2..(n + 1) : frames'[t][i-1] = frames[t][i-1]
            BY <1>1, <3>1
        <3>5. \A i \in 2..(n + 1) :
              IF frames'[t][i].kind = "call"
              THEN frames'[t][i].ctx = frames'[t][i-1].ctx + 1 /\ frames'[t][i].cbs = frames'[t][i-1].cbs
              ELSE frames'[t][i].ctx = frames'[t][i-1].ctx /\ frames'[t][i].cbs = frames'[t][i-1].cbs + 1
            <4> SUFFICES ASSUME NEW i \in 2..(n + 1) PROVE <3>5!(i)
                OBVIOUS
            <4>1. CASE i = n + 1
                BY <4>1, <1>1, <3>1, <3>4, <2>3 DEF Top
            <4>2. CASE i # n + 1
                <5>1. i \in 2..n
                    BY <4>2, <3>1
                <5>2. frames'[t][i] = frames[t][i]
                    BY <5>1, <1>1, <3>1
                <5>3. QED BY <5>1, <5>2, <3>4 DEF FramesLinked
            <4>3. QED BY <4>1, <4>2
        <3>6. frames[t][n].ctx <= f.ctx /\ frames[t][n].cbs <= f.cbs
            BY <3>1, <3>2, <2>3 DEF Top, Frame
        <3>7. \A i, j \in 1..(n + 1) :
              i <= j => frames'[t][i].ctx <= frames'[t][j].ctx /\ frames'[t][i].cbs <= frames'[t][j].cbs
            <4> SUFFICES ASSUME NEW i \in 1..(n + 1), NEW j \in 1..(n + 1), i <= j
                         PROVE  frames'[t][i].ctx <= frames'[t][j].ctx /\ frames'[t][i].cbs <= frames'[t][j].cbs
                OBVIOUS
            <4>1. CASE j \in 1..n
                BY <4>1, <1>1, <3>1 DEF FramesLinked
            <4>2. CASE j = n + 1 /\ i = n + 1
                BY <4>2, <1>1 DEF Frame
            <4>3. CASE j = n + 1 /\ i \in 1..n
                <5>1. frames[t][i].ctx <= frames[t][n].ctx /\ frames[t][i].cbs <= frames[t][n].cbs
                    BY <4>3, <3>1 DEF FramesLinked
                <5>2. frames'[t][i] = frames[t][i] /\ frames'[t][j] = f
                    BY <4>3, <1>1
                <5>3. frames[t][i] \in Frame /\ frames[t][n] \in Frame
                    BY <3>1, <3>2, <4>3
                <5>4. /\ frames[t][i].ctx \in Nat /\ frames[t][n].ctx \in Nat /\ f.ctx \in Nat
                      /\ frames[t][i].cbs \in Nat /\ frames[t][n].cbs \in Nat /\ f.cbs \in Nat
                    BY <5>3 DEF Frame
                <5>5. \A a, b, c \in Nat : a <= b /\ b <= c => a <= c
                    OBVIOUS
                <5>6. frames[t][i].ctx <= f.ctx /\ frames[t][i].cbs <= f.cbs
                    BY <5>1, <5>4, <5>5, <3>6
                <5>7. QED BY <5>2, <5>6
            <4>4. QED BY <4>1, <4>2, <4>3, <3>1
        <3>8. QED BY <2>3, <3>1, <3>3, <3>5, <3>7, <1>1 DEF FramesLinked
    <2>4. QED BY <2>1, <2>2, <2>3
<1>5. QED BY <1>1, <1>2, <1>3, <1>4

\* Popping a frame keeps the others linked.
LEMMA PopFrame ==
    ASSUME frames \in [Threads -> Seq(Frame)], FramesLinked,
           NEW t \in Threads, frames[t] # <<>>,
           frames' = [frames EXCEPT ![t] = Pop(@)]
    PROVE  /\ frames' \in [Threads -> Seq(Frame)]
           /\ FramesLinked'
           /\ \A u \in Threads : u # t => frames'[u] = frames[u]
           /\ Len(frames'[t]) = Len(frames[t]) - 1
           /\ \A i \in 1..(Len(frames[t]) - 1) : frames'[t][i] = frames[t][i]
           /\ frames'[t] = <<>> <=> Len(frames[t]) = 1
           /\ frames'[t] # <<>> =>
                 /\ Len(frames[t]) - 1 \in 1..(Len(frames[t]) - 1)
                 /\ frames'[t][Len(frames'[t])] = frames[t][Len(frames[t]) - 1]
<1>1. /\ frames'[t] \in Seq(Frame)
      /\ Len(frames'[t]) = Len(frames[t]) - 1
      /\ \A i \in 1..(Len(frames[t]) - 1) : frames'[t][i] = frames[t][i]
      /\ frames'[t] = <<>> <=> Len(frames[t]) = 1
    BY PopProperties
<1>2. frames' \in [Threads -> Seq(Frame)] /\ \A u \in Threads : u # t => frames'[u] = frames[u]
    BY <1>1
<1>3. FramesLinked'
    <2> SUFFICES ASSUME NEW u \in Threads PROVE FramesLinked!(u)'
        BY DEF FramesLinked
    <2>1. CASE u # t
        BY <2>1, <1>2 DEF FramesLinked
    <2>2. CASE u = t
        <3> DEFINE n == Len(frames[t]) - 1
        <3>1. n \in Nat /\ Len(frames[t]) = n + 1 /\ Len(frames'[t]) = n
            BY <1>1
        <3>2. \A i \in 1..n : i \in 1..Len(frames[t]) /\ frames'[t][i] = frames[t][i]
            BY <1>1, <3>1
        <3>3. \A i \in 2..n : i \in 2..Len(frames[t]) /\ i \in 1..n /\ i - 1 \in 1..n
            BY <3>1
        <3>4. frames'[t] # <<>> => 1 \in 1..n
            BY <1>1, <3>1
        <3> HIDE DEF n
        <3>5. frames'[t] # <<>> => frames'[t][1] = frames[t][1] /\ frames[t] # <<>>
            BY <3>2, <3>4
        <3>6. \A i \in 2..n : frames'[t][i] = frames[t][i] /\ frames'[t][i-1] = frames[t][i-1]
            BY <3>2, <3>3
        <3>7. FramesLinked!(t)
            BY DEF FramesLinked
        <3>8. \A i \in 2..n :
              IF frames'[t][i].kind = "call"
              THEN frames'[t][i].ctx = frames'[t][i-1].ctx + 1 /\ frames'[t][i].cbs = frames'[t][i-1].cbs
              ELSE frames'[t][i].ctx = frames'[t][i-1].ctx /\ frames'[t][i].cbs = frames'[t][i-1].cbs + 1
            BY <3>3, <3>6, <3>7
        <3>9. \A i, j \in 1..n :
              i <= j => frames'[t][i].ctx <= frames'[t][j].ctx /\ frames'[t][i].cbs <= frames'[t][j].cbs
            BY <3>2, <3>7
        <3>10. QED BY <2>2, <3>1, <3>5, <3>7, <3>8, <3>9
    <2>3. QED BY <2>1, <2>2
<1>4. frames'[t] # <<>> =>
                 /\ Len(frames[t]) - 1 \in 1..(Len(frames[t]) - 1)
                 /\ frames'[t][Len(frames'[t])] = frames[t][Len(frames[t]) - 1]
    BY <1>1
<1>5. QED BY <1>1, <1>2, <1>3, <1>4

-----------------------------------------------------------------------------
(* Every action preserves the inductive invariant.                         *)

LEMMA InitInv == Init => IInv
<1> SUFFICES ASSUME Init PROVE IInv
    OBVIOUS
<1> USE DEF Init, Report!Init
<1>1. TypeOK
    <2>1. \A S : <<>> \in Seq(S)
        OBVIOUS
    <2>2. NoCall \in (Threads \union {Nobody}) \X Nat
        BY DEF NoCall
    <2>3. QED BY <2>1, <2>2, NoJobType DEF TypeOK
<1>2. \A t \in Threads : Len(frames[t]) = 0 /\ Len(contexts[t]) = 0
    OBVIOUS
<1>3. FramesLinked /\ ContextPointersValid /\ BossIsOpen
    BY <1>2, ThreadsAssumption DEF FramesLinked, ContextPointersValid, Front, BossIsOpen, Threads
<1>4. EntryMirrorsStack /\ AttachedIffWorking
    BY DEF EntryMirrorsStack, AttachedIffWorking
<1>5. JobsConsistent
    BY ThreadsAssumption DEF JobsConsistent
<1>6. RecordsFirstAndLast
    BY <1>2 DEF RecordsFirstAndLast, Front
<1>7. QED BY <1>1, <1>3, <1>4, <1>5, <1>6 DEF IInv

LEMMA RegisterLookupInv ==
    ASSUME IInv, NEW t \in Threads, RegisterLookup(t)
    PROVE  IInv'
<1> USE DEF IInv, RegisterLookup
<1>1. TypeOK'
    BY DEF TypeOK
<1>2. FramesLinked' /\ BossIsOpen'
    BY DEF FramesLinked, BossIsOpen
<1>3. EntryMirrorsStack'
    BY DEF EntryMirrorsStack, TypeOK, Top, Front
<1>4. AttachedIffWorking'
    BY DEF AttachedIffWorking
<1>5. ContextPointersValid'
    BY DEF ContextPointersValid, Front, TypeOK
<1>6. JobsConsistent'
    BY DEF JobsConsistent, TypeOK, Top
<1>7. RecordsFirstAndLast'
    BY DEF RecordsFirstAndLast, Front
<1>8. QED BY <1>1, <1>2, <1>3, <1>4, <1>5, <1>6, <1>7

LEMMA RegisterPushInv ==
    ASSUME IInv, NEW t \in Threads, RegisterPush(t)
    PROVE  IInv'
<1> DEFINE f == [kind |-> "call", ctx |-> Front(t) + 1, cbs |-> open[t]]
<1> USE DEF IInv, RegisterPush, Report!Enter, tctx
<1>1. /\ contexts[t] \in Seq(Context) /\ log[t] \in Seq(CallLog) /\ frames[t] \in Seq(Frame)
      /\ Front(t) \in Nat /\ open[t] \in Nat /\ f \in Frame /\ pc[t] = "push"
    BY DEF TypeOK, Front, Frame
<1>2. frames[t] = <<>> => t \in JavaThreads /\ f.ctx = 1 /\ f.cbs = 0
    BY <1>1 DEF JobsConsistent, EntryMirrorsStack, Front
<1>3. frames[t] # <<>> => f.ctx = Top(t).ctx + 1 /\ f.cbs = Top(t).cbs
    BY <1>1 DEF EntryMirrorsStack
<1>4. /\ frames' \in [Threads -> Seq(Frame)]
      /\ FramesLinked'
      /\ \A u \in Threads : u # t => frames'[u] = frames[u]
      /\ Len(frames'[t]) = Len(frames[t]) + 1
      /\ \A i \in 1..Len(frames[t]) : frames'[t][i] = frames[t][i]
      /\ frames'[t] # <<>>
      /\ frames'[t][Len(frames[t]) + 1] = f
      /\ frames'[t][Len(frames'[t])] = f
    <2> HIDE DEF f
    <2>1. f.kind = "call"
        BY DEF f
    <2>2. frames' = [frames EXCEPT ![t] = Append(@, f)]
        BY DEF f
    <2>3. frames \in [Threads -> Seq(Frame)] /\ FramesLinked
        BY DEF TypeOK
    <2>4. frames[t] = <<>> =>
              IF t \in JavaThreads THEN f.kind = "call" /\ f.ctx = 1 /\ f.cbs = 0
                                   ELSE f.kind = "callback" /\ f.ctx = 0 /\ f.cbs = 1
        BY <1>2, <2>1
    <2>5. frames[t] # <<>> =>
              IF f.kind = "call" THEN f.ctx = Top(t).ctx + 1 /\ f.cbs = Top(t).cbs
                                 ELSE f.ctx = Top(t).ctx /\ f.cbs = Top(t).cbs + 1
        BY <1>3, <2>1
    <2> HIDE DEF IInv, RegisterPush
    <2>6. QED BY <1>1, <2>2, <2>3, <2>4, <2>5, PushFrame
<1>5. /\ contexts'[t] \in Seq(Context)
      /\ Len(contexts'[t]) = Front(t) + 1
      /\ \A i \in 1..Front(t) : contexts'[t][i] = contexts[t][i]
      /\ contexts'[t][Front(t) + 1] = NewContext
      /\ \A u \in Threads : u # t => contexts'[u] = contexts[u]
    BY <1>1, FreshContext, AppendProperties DEF TypeOK, Front
<1>6. /\ log'[t] \in Seq(CallLog)
      /\ Len(log'[t]) = Len(log[t]) + 1
      /\ \A i \in 1..Len(log[t]) : log'[t][i] = log[t][i]
      /\ log'[t][Len(log[t]) + 1] = Report!EmptyCall
      /\ \A u \in Threads : u # t => log'[u] = log[u]
    BY <1>1, FreshContext, AppendProperties DEF TypeOK
<1>7. TypeOK'
    BY <1>4, <1>5, <1>6 DEF TypeOK
<1>8. EntryMirrorsStack'
    <2> SUFFICES ASSUME NEW u \in Threads PROVE EntryMirrorsStack!(u)'
        BY DEF EntryMirrorsStack
    <2>1. CASE u = t
        <3>1. t \in known
            BY <1>1 DEF EntryMirrorsStack
        <3>2. QED BY <2>1, <3>1, <1>4, <1>5 DEF Front, Top
    <2>2. CASE u # t
        BY <2>2, <1>4, <1>5 DEF EntryMirrorsStack, Front, Top, TypeOK
    <2>3. QED BY <2>1, <2>2
<1>9. AttachedIffWorking'
    <2>1. t \in Workers => frames[t] # <<>>
        BY <1>2, ThreadsAssumption
    <2>2. QED BY <2>1, <1>4 DEF AttachedIffWorking
<1>10. ContextPointersValid'
    <2> SUFFICES ASSUME NEW u \in Threads PROVE ContextPointersValid!(u)'
        BY DEF ContextPointersValid
    <2>1. \A i \in 1..Len(frames'[u]) : frames'[u][i].ctx <= Front(u)'
        <3>1. CASE u # t
            BY <3>1, <1>4, <1>5 DEF ContextPointersValid, Front
        <3>2. CASE u = t
            <4> SUFFICES ASSUME NEW i \in 1..Len(frames'[t]) PROVE frames'[t][i].ctx <= Front(t)'
                BY <3>2
            <4>1. CASE i = Len(frames[t]) + 1
                BY <4>1, <1>1, <1>4, <1>5 DEF Front
            <4>2. CASE i # Len(frames[t]) + 1
                <5>1. i \in 1..Len(frames[t]) /\ frames'[t][i] = frames[t][i]
                    BY <4>2, <1>1, <1>4
                <5>2. frames[t][i].ctx <= Front(t) /\ frames[t][i] \in Frame
                    BY <5>1, <1>1 DEF ContextPointersValid
                <5>3. Front(t)' = Front(t) + 1
                    BY <1>5 DEF Front
                <5>4. QED BY <5>1, <5>2, <5>3, <1>1 DEF Frame
            <4>3. QED BY <4>1, <4>2
        <3>3. QED BY <3>1, <3>2
    <2>2. (pc[u] = "store" => job[u].at \in 1..Front(job[u].to))'
        <3> SUFFICES ASSUME pc'[u] = "store" PROVE job[u].at \in 1..Len(contexts'[job[u].to])
            BY DEF Front
        <3>1. pc[u] = "store" /\ job[u].to \in Threads /\ job[u].at \in 1..Front(job[u].to)
            BY <1>1 DEF TypeOK, JobsConsistent, ContextPointersValid
        <3>2. CASE job[u].to = t
            BY <3>1, <3>2, <1>1, <1>5 DEF Front
        <3>3. CASE job[u].to # t
            BY <3>1, <3>3, <1>5 DEF Front
        <3>4. QED BY <3>2, <3>3
    <2>3. QED BY <2>1, <2>2
<1>11. JobsConsistent'
    <2> SUFFICES ASSUME NEW u \in Threads PROVE JobsConsistent!(u)'
        BY DEF JobsConsistent
    <2>1. CASE u # t
        BY <2>1, <1>4 DEF JobsConsistent, TypeOK, Top
    <2>2. CASE u = t
        <3>1. pc'[t] = "run" /\ lock' # t
            BY <1>1 DEF JobsConsistent, TypeOK
        <3>2. QED BY <2>2, <3>1
    <2>3. QED BY <2>1, <2>2
<1>12. BossIsOpen'
    <2> SUFFICES ASSUME NEW w \in Workers, frames'[w] # <<>> PROVE BossIsOpen!(w)!2'
        BY DEF BossIsOpen
    <2>1. frames[w] # <<>>
        BY <1>2, <1>4, ThreadsAssumption DEF Threads
    <2>2. BossIsOpen!(w)!2
        BY <2>1 DEF BossIsOpen
    <2>3. CASE boss[w][1] = t
        BY <2>2, <2>3, <1>1, <1>4
    <2>4. CASE boss[w][1] # t
        BY <2>2, <2>4, <1>4
    <2>5. QED BY <2>3, <2>4
<1>13. RecordsFirstAndLast'
    <2> SUFFICES ASSUME NEW u \in Threads PROVE RecordsFirstAndLast!(u)'
        BY DEF RecordsFirstAndLast
    <2>1. CASE u # t
        BY <2>1, <1>5, <1>6 DEF RecordsFirstAndLast, Front
    <2>2. CASE u = t
        <3>1. Len(log'[t]) = Front(t)' /\ Len(log[t]) = Front(t) /\ Front(t)' = Front(t) + 1
            BY <1>5, <1>6 DEF RecordsFirstAndLast, Front
        <3> SUFFICES ASSUME NEW i \in 1..Front(t)' PROVE RecordsFirstAndLast!(t)!2!(i)'
            BY <2>2, <3>1
        <3>2. CASE i = Front(t) + 1
            BY <3>1, <3>2, <1>5, <1>6 DEF NewContext, Report!EmptyCall, Report!First, Report!LastOfMany
        <3>3. CASE i # Front(t) + 1
            <4>1. i \in 1..Front(t)
                BY <3>1, <3>3, <1>1
            <4>2. contexts'[t][i] = contexts[t][i] /\ log'[t][i] = log[t][i]
                BY <4>1, <3>1, <1>5, <1>6
            <4>3. QED BY <4>1, <4>2 DEF RecordsFirstAndLast
        <3>4. QED BY <3>2, <3>3
    <2>3. QED BY <2>1, <2>2
<1>14. QED BY <1>4, <1>7, <1>8, <1>9, <1>10, <1>11, <1>12, <1>13

LEMMA UnregisterInv ==
    ASSUME IInv, NEW t \in Threads, Unregister(t)
    PROVE  IInv'
<1> DEFINE n == Len(frames[t])
<1> USE DEF IInv, Unregister, Running, tctx
<1>1. /\ contexts[t] \in Seq(Context) /\ log[t] \in Seq(CallLog) /\ frames[t] \in Seq(Frame)
      /\ Front(t) \in Nat /\ open[t] \in Nat /\ n \in Nat /\ n >= 1
      /\ pc[t] = "run" /\ frames[t] # <<>> /\ lock = Nobody /\ Nobody # t
      /\ \A i \in 1..n : frames[t][i] \in Frame
    BY ThreadsAssumption DEF TypeOK, Front
<1>2. /\ frames' \in [Threads -> Seq(Frame)]
      /\ FramesLinked'
      /\ \A u \in Threads : u # t => frames'[u] = frames[u]
      /\ Len(frames'[t]) = n - 1
      /\ \A i \in 1..(n - 1) : frames'[t][i] = frames[t][i]
      /\ frames'[t] = <<>> <=> n = 1
      /\ frames'[t] # <<>> =>
            /\ n - 1 \in 1..(n - 1)
            /\ frames'[t][Len(frames'[t])] = frames[t][n - 1]
    <2>1. frames \in [Threads -> Seq(Frame)] /\ FramesLinked
          /\ frames' = [frames EXCEPT ![t] = Pop(@)]
        BY DEF TypeOK
    <2> HIDE DEF IInv, Unregister
    <2>2. QED BY <1>1, <2>1, PopFrame
<1>3. /\ t \in known /\ open[t] = frames[t][n].cbs /\ Front(t) = frames[t][n].ctx
      /\ frames[t][n].kind = "call"
    BY <1>1 DEF EntryMirrorsStack, Top
<1>4. n = 1 => t \in JavaThreads /\ Front(t) = 1 /\ open[t] = 0
    BY <1>1, <1>3 DEF FramesLinked, Top
<1>5. n # 1 => /\ n - 1 \in 1..n
               /\ Front(t) = frames[t][n - 1].ctx + 1
               /\ open[t] = frames[t][n - 1].cbs
               /\ ~(Front(t) = 1 /\ open[t] = 0)
    <2> SUFFICES ASSUME n # 1 PROVE <1>5!2
        OBVIOUS
    <2>1. n - 1 \in 1..n /\ 1 \in 1..n /\ n \in 2..n /\ 1 <= n - 1
        <3>1. n \in Nat /\ n >= 1
            BY <1>1
        <3> HIDE DEF n, IInv, Unregister
        <3>2. QED BY <3>1
    <2>2. Front(t) = frames[t][n - 1].ctx + 1 /\ open[t] = frames[t][n - 1].cbs
        <3>1. FramesLinked!(t)!2
            BY DEF FramesLinked
        <3> HIDE DEF IInv, Unregister
        <3>2. FramesLinked!(t)!2!(n)
            BY <2>1, <3>1
        <3>3. frames[t][n].ctx = frames[t][n-1].ctx + 1 /\ frames[t][n].cbs = frames[t][n-1].cbs
            BY <1>3, <3>2
        <3>4. QED BY <1>3, <3>3
    <2>3. frames[t][1].ctx <= frames[t][n - 1].ctx /\ frames[t][1].cbs <= frames[t][n - 1].cbs
        BY <2>1 DEF FramesLinked
    <2>4. frames[t][1].ctx = 1 \/ frames[t][1].cbs = 1
        BY <1>1 DEF FramesLinked
    <2>5. frames[t][n - 1].ctx \in Nat /\ frames[t][n - 1].cbs \in Nat
        BY <1>1, <2>1 DEF Frame
    <2>6. 0 \in Nat /\ frames[t][1].ctx \in Nat /\ frames[t][1].cbs \in Nat
        BY <1>1, <2>1 DEF Frame
    <2> HIDE DEF n, IInv, Unregister
    <2>7. ~(Front(t) = 1 /\ open[t] = 0)
        BY <2>2, <2>3, <2>4, <2>5, <2>6
    <2>8. QED BY <2>1, <2>2, <2>7
<1>6. Front(t) >= 1
    <2>1. n # 1 => frames[t][n - 1].ctx \in Nat
        BY <1>1, <1>5 DEF Frame
    <2>2. QED BY <1>1, <1>4, <1>5, <2>1
<1>7. /\ contexts'[t] \in Seq(Context)
      /\ Len(contexts'[t]) = Front(t) - 1
      /\ \A i \in 1..(Front(t) - 1) : contexts'[t][i] = contexts[t][i]
      /\ contexts'[t] = <<>> <=> Front(t) = 1
      /\ \A u \in Threads : u # t => contexts'[u] = contexts[u]
    <2>1. contexts[t] # <<>> /\ contexts'[t] = Pop(contexts[t])
        BY <1>1, <1>6 DEF Front, TypeOK
    <2>2. \A u \in Threads : u # t => contexts'[u] = contexts[u]
        BY DEF TypeOK
    <2>3. QED BY <1>1, <2>1, <2>2, PopProperties DEF Front
<1>8. Len(log[t]) = Front(t)
    BY DEF RecordsFirstAndLast
<1>9. /\ log'[t] \in Seq(CallLog)
      /\ Len(log'[t]) = Front(t) - 1
      /\ \A i \in 1..(Front(t) - 1) : log'[t][i] = log[t][i]
      /\ \A u \in Threads : u # t => log'[u] = log[u]
    <2>1. log[t] # <<>> /\ log'[t] = Pop(log[t])
        BY <1>1, <1>6, <1>8 DEF TypeOK
    <2>2. \A u \in Threads : u # t => log'[u] = log[u]
        BY DEF TypeOK
    <2>3. /\ Pop(log[t]) \in Seq(CallLog)
          /\ Len(Pop(log[t])) = Len(log[t]) - 1
          /\ \A i \in 1..(Len(log[t]) - 1) : Pop(log[t])[i] = log[t][i]
        BY <1>1, <2>1, PopProperties
    <2> HIDE DEF IInv, Unregister
    <2>4. QED BY <1>8, <2>1, <2>2, <2>3
<1>10. TypeOK'
    BY <1>2, <1>7, <1>9 DEF TypeOK
<1>11. EntryMirrorsStack'
    <2> SUFFICES ASSUME NEW u \in Threads PROVE EntryMirrorsStack!(u)'
        BY DEF EntryMirrorsStack
    <2>1. CASE u # t
        BY <2>1, <1>2, <1>7 DEF EntryMirrorsStack, Front, Top, TypeOK
    <2>2. CASE u = t /\ n = 1
        BY <2>2, <1>1, <1>2, <1>4, <1>7
    <2>3. CASE u = t /\ n # 1
        <3>1. frames'[t] # <<>> /\ frames'[t][Len(frames'[t])] = frames[t][n - 1]
            BY <2>3, <1>2
        <3>2. frames[t][n - 1].ctx \in Nat
            BY <2>3, <1>1, <1>5 DEF Frame
        <3>3. Len(contexts'[t]) = frames[t][n - 1].ctx
            BY <2>3, <3>2, <1>5, <1>7
        <3>4. QED BY <2>3, <3>1, <3>3, <1>3, <1>5 DEF Top, Front
    <2>4. QED BY <2>1, <2>2, <2>3
<1>12. AttachedIffWorking'
    <2>1. n = 1 => t \notin Workers
        BY <1>4, ThreadsAssumption
    <2>2. QED BY <2>1, <1>1, <1>2 DEF AttachedIffWorking
<1>13. ContextPointersValid'
    <2> SUFFICES ASSUME NEW u \in Threads PROVE ContextPointersValid!(u)'
        BY DEF ContextPointersValid
    <2>1. CASE u # t
        <3>1. pc[u] = "store" => job[u].to = u
            BY <1>1, ThreadsAssumption DEF JobsConsistent
        <3>2. QED BY <2>1, <3>1, <1>2, <1>7 DEF ContextPointersValid, Front
    <2>2. CASE u = t
        <3>a. pc'[t] # "store" /\ Front(t)' = Front(t) - 1
            BY <1>1, <1>7 DEF Front
        <3> SUFFICES ASSUME NEW i \in 1..(n - 1) PROVE frames[t][i].ctx <= Front(t) - 1
            BY <2>2, <3>a, <1>2
        <3>1. i \in 1..n /\ n - 1 \in 1..n /\ n # 1 /\ i <= n - 1
            BY <1>1
        <3>2. frames[t][i].ctx <= frames[t][n - 1].ctx
            BY <3>1 DEF FramesLinked
        <3>3. frames[t][i].ctx \in Nat /\ frames[t][n - 1].ctx \in Nat
            BY <3>1, <1>1 DEF Frame
        <3>4. QED BY <3>1, <3>2, <3>3, <1>5
    <2>3. QED BY <2>1, <2>2
<1>14. JobsConsistent'
    <2> SUFFICES ASSUME NEW u \in Threads PROVE JobsConsistent!(u)'
        BY DEF JobsConsistent
    <2>1. CASE u # t
        BY <2>1, <1>2 DEF JobsConsistent, Top
    <2>2. CASE u = t
        BY <2>2, <1>1
    <2>3. QED BY <2>1, <2>2
<1>15. BossIsOpen'
    <2> SUFFICES ASSUME NEW w \in Workers, frames'[w] # <<>> PROVE BossIsOpen!(w)!2'
        BY DEF BossIsOpen
    <2>1. frames[w] # <<>>
        BY <1>1, <1>2 DEF Threads
    <2>2. BossIsOpen!(w)!2
        BY <2>1 DEF BossIsOpen
    <2>3. CASE boss[w][1] = t
        <3>1. boss[w] = <<boss[w][1], boss[w][2]>>
            BY DEF TypeOK
        <3>2. boss[w][2] # n
            BY <2>3, <3>1
        <3>3. boss[w][2] \in 1..(n - 1)
            BY <2>2, <2>3, <3>2, <1>1
        <3>4. QED BY <2>2, <2>3, <3>3, <1>2
    <2>4. CASE boss[w][1] # t
        BY <2>2, <2>4, <1>2
    <2>5. QED BY <2>3, <2>4
<1>16. RecordsFirstAndLast'
    <2> SUFFICES ASSUME NEW u \in Threads PROVE RecordsFirstAndLast!(u)'
        BY DEF RecordsFirstAndLast
    <2>1. CASE u # t
        BY <2>1, <1>7, <1>9 DEF RecordsFirstAndLast, Front
    <2>2. CASE u = t
        <3>1. Len(log'[t]) = Front(t)' /\ Front(t)' = Front(t) - 1
            BY <1>7, <1>9 DEF Front
        <3> SUFFICES ASSUME NEW i \in 1..(Front(t) - 1) PROVE RecordsFirstAndLast!(t)!2!(i)'
            BY <2>2, <3>1
        <3>2. i \in 1..Front(t) /\ contexts'[t][i] = contexts[t][i] /\ log'[t][i] = log[t][i]
            BY <1>1, <1>7, <1>9
        <3>3. QED BY <3>2 DEF RecordsFirstAndLast
    <2>3. QED BY <2>1, <2>2
<1>17. QED BY <1>2, <1>10, <1>11, <1>12, <1>13, <1>14, <1>15, <1>16

LEMMA BeginCallbackInv ==
    ASSUME IInv, NEW t \in Threads, BeginCallback(t)
    PROVE  IInv'
<1> DEFINE f == [kind |-> "callback", ctx |-> Front(t), cbs |-> open[t] + 1]
           n == Len(frames[t])
<1> USE DEF IInv, BeginCallback
<1>1. /\ frames[t] \in Seq(Frame) /\ n \in Nat
      /\ Front(t) \in Nat /\ open[t] \in Nat /\ f \in Frame
      /\ pc[t] = "run" /\ lock = Nobody /\ Nobody # t
      /\ \A i \in 1..n : frames[t][i] \in Frame
    <2>1. TypeOK /\ pc[t] = "run" /\ lock = Nobody /\ Nobody # t
        BY ThreadsAssumption
    <2> HIDE DEF IInv, BeginCallback
    <2>2. /\ frames[t] \in Seq(Frame) /\ n \in Nat /\ Front(t) \in Nat /\ open[t] \in Nat
          /\ \A i \in 1..n : frames[t][i] \in Frame
        BY <2>1 DEF TypeOK, Front
    <2>3. f \in Frame
        BY <2>2 DEF Frame
    <2>4. QED BY <2>1, <2>2, <2>3
<1>2. frames[t] = <<>> => /\ t \in Workers /\ t \notin JavaThreads
                          /\ contexts[t] = <<>> /\ open[t] = 0 /\ Front(t) = 0 /\ ~env[t]
    <2>1. frames[t] = <<>> => t \in Workers /\ t \notin JavaThreads
        BY ThreadsAssumption DEF Employed
    <2>2. frames[t] = <<>> => contexts[t] = <<>> /\ open[t] = 0 /\ Front(t) = 0
        BY DEF EntryMirrorsStack, Front
    <2>3. frames[t] = <<>> => ~env[t]
        BY DEF AttachedIffWorking
    <2>4. QED BY <2>1, <2>2, <2>3
<1>3. frames[t] # <<>> => f.ctx = Top(t).ctx /\ f.cbs = Top(t).cbs + 1
    BY <1>1 DEF EntryMirrorsStack
<1>4. /\ frames' \in [Threads -> Seq(Frame)]
      /\ FramesLinked'
      /\ \A u \in Threads : u # t => frames'[u] = frames[u]
      /\ Len(frames'[t]) = n + 1
      /\ \A i \in 1..n : frames'[t][i] = frames[t][i]
      /\ frames'[t] # <<>>
      /\ frames'[t][n + 1] = f
      /\ frames'[t][Len(frames'[t])] = f
    <2> HIDE DEF f
    <2>1. f.kind = "callback"
        BY DEF f
    <2>2. frames' = [frames EXCEPT ![t] = Append(@, f)]
        BY DEF f
    <2>3. frames \in [Threads -> Seq(Frame)] /\ FramesLinked
        BY DEF TypeOK
    <2>4. frames[t] = <<>> =>
              IF t \in JavaThreads THEN f.kind = "call" /\ f.ctx = 1 /\ f.cbs = 0
                                   ELSE f.kind = "callback" /\ f.ctx = 0 /\ f.cbs = 1
        BY <1>2, <2>1 DEF f
    <2>5. frames[t] # <<>> =>
              IF f.kind = "call" THEN f.ctx = Top(t).ctx + 1 /\ f.cbs = Top(t).cbs
                                 ELSE f.ctx = Top(t).ctx /\ f.cbs = Top(t).cbs + 1
        BY <1>3, <2>1
    <2> HIDE DEF IInv, BeginCallback
    <2>6. QED BY <1>1, <2>2, <2>3, <2>4, <2>5, PushFrame
<1>5. frames[t] # <<>> /\ t \in JavaThreads => contexts[t] # <<>>
    <2> SUFFICES ASSUME frames[t] # <<>>, t \in JavaThreads PROVE contexts[t] # <<>>
        OBVIOUS
    <2>1. 1 \in 1..n /\ n \in 1..n /\ 1 <= n
        BY <1>1
    <2>2. frames[t][1].ctx = 1 /\ frames[t][1].ctx <= frames[t][n].ctx
        BY <2>1 DEF FramesLinked
    <2>3. Front(t) # 0
        BY <1>1, <2>1, <2>2 DEF EntryMirrorsStack, Top, Frame
    <2>4. QED BY <2>3 DEF Front
<1>6. /\ \A u \in Threads : u # t => env'[u] = env[u] /\ wasAttached'[u] = wasAttached[u]
      /\ wasAttached'[t] = env'[t]
      /\ env'[t] <=> t \in Workers
    <2>1. \A u \in Threads : u # t => env'[u] = env[u] /\ wasAttached'[u] = wasAttached[u]
        BY DEF TypeOK
    <2>2. /\ env'[t] = (env[t] \/ (contexts[t] = <<>> /\ ~env[t]))
          /\ wasAttached'[t] = (wasAttached[t] \/ (contexts[t] = <<>> /\ ~env[t]))
        BY DEF TypeOK
    <2>3. wasAttached[t] = env[t] /\ (env[t] <=> t \in Workers /\ frames[t] # <<>>)
        BY DEF AttachedIffWorking
    <2>4. t \in Workers \/ t \in JavaThreads
        BY DEF Threads
    <2>5. t \in JavaThreads => t \notin Workers
        BY ThreadsAssumption
    <2> HIDE DEF IInv, BeginCallback
    <2>6. QED BY <2>1, <2>2, <2>3, <2>4, <2>5, <1>2, <1>5
<1>7. /\ \A w \in Workers : boss'[w] \in (Threads \union {Nobody}) \X Nat
      /\ \A w \in Workers : w # t => boss'[w] = boss[w]
      /\ frames[t] # <<>> => boss' = boss
      /\ boss' \in [Workers -> (Threads \union {Nobody}) \X Nat]
    <2>1. CASE frames[t] = <<>>
        <3>1. PICK c \in Threads : \E i \in DOMAIN frames[c] :
                 boss' = [boss EXCEPT ![t] = <<c, i>>]
            BY <2>1 DEF Employed
        <3>2. PICK i \in DOMAIN frames[c] : boss' = [boss EXCEPT ![t] = <<c, i>>]
            BY <3>1
        <3>3. frames[c] \in Seq(Frame)
            BY DEF TypeOK
        <3>4. i \in Nat
            BY <3>3
        <3>5. QED BY <2>1, <3>2, <3>4, <1>2 DEF TypeOK
    <2>2. CASE frames[t] # <<>>
        BY <2>2 DEF Employed, TypeOK
    <2>3. QED BY <2>1, <2>2
<1>8. TypeOK'
    BY <1>4, <1>7 DEF TypeOK
<1>9. EntryMirrorsStack'
    <2> SUFFICES ASSUME NEW u \in Threads PROVE EntryMirrorsStack!(u)'
        BY DEF EntryMirrorsStack
    <2>1. CASE u # t
        BY <2>1, <1>4 DEF EntryMirrorsStack, Front, Top, TypeOK
    <2>2. CASE u = t
        BY <2>2, <1>4 DEF Front, Top, TypeOK
    <2>3. QED BY <2>1, <2>2
<1>10. AttachedIffWorking'
    BY <1>4, <1>6 DEF AttachedIffWorking
<1>11. ContextPointersValid'
    <2> SUFFICES ASSUME NEW u \in Threads PROVE ContextPointersValid!(u)'
        BY DEF ContextPointersValid
    <2>1. CASE u # t
        BY <2>1, <1>4 DEF ContextPointersValid, Front
    <2>2. CASE u = t
        <3>1. \A i \in 1..(n + 1) : frames'[t][i].ctx <= Front(t)
            <4> SUFFICES ASSUME NEW i \in 1..(n + 1) PROVE frames'[t][i].ctx <= Front(t)
                OBVIOUS
            <4>1. CASE i = n + 1
                BY <4>1, <1>1, <1>4
            <4>2. CASE i \in 1..n
                BY <4>2, <1>4 DEF ContextPointersValid
            <4>3. QED BY <4>1, <4>2, <1>1
        <3>2. Front(t)' = Front(t) /\ pc'[t] # "store"
            BY <1>1 DEF Front
        <3>3. QED BY <2>2, <3>1, <3>2, <1>4
    <2>3. QED BY <2>1, <2>2
<1>12. JobsConsistent'
    <2> SUFFICES ASSUME NEW u \in Threads PROVE JobsConsistent!(u)'
        BY DEF JobsConsistent
    <2>1. CASE u # t
        BY <2>1, <1>4 DEF JobsConsistent, Top
    <2>2. CASE u = t
        BY <2>2, <1>1
    <2>3. QED BY <2>1, <2>2
<1>13. BossIsOpen'
    <2> SUFFICES ASSUME NEW w \in Workers, frames'[w] # <<>> PROVE BossIsOpen!(w)!2'
        BY DEF BossIsOpen
    <2>1. CASE w = t /\ frames[t] = <<>>
        <3>1. PICK c \in Threads : \E i \in DOMAIN frames[c] :
                 c # t /\ frames[c][i].kind = "call" /\ boss' = [boss EXCEPT ![t] = <<c, i>>]
            BY <2>1 DEF Employed
        <3>2. PICK i \in DOMAIN frames[c] :
                 c # t /\ frames[c][i].kind = "call" /\ boss' = [boss EXCEPT ![t] = <<c, i>>]
            BY <3>1
        <3>3. frames[c] \in Seq(Frame) /\ frames'[c] = frames[c]
            BY <3>2, <1>4 DEF TypeOK
        <3>4. boss'[w] = <<c, i>>
            BY <2>1, <3>2 DEF TypeOK
        <3>5. i \in 1..Len(frames[c])
            BY <3>3
        <3>6. QED BY <3>2, <3>3, <3>4, <3>5
    <2>2. CASE ~(w = t /\ frames[t] = <<>>)
        <3>1. frames[w] # <<>> /\ boss'[w] = boss[w]
            BY <2>2, <1>4, <1>7 DEF Threads
        <3>2. BossIsOpen!(w)!2
            BY <3>1 DEF BossIsOpen
        <3>3. CASE boss[w][1] = t
            BY <3>1, <3>2, <3>3, <1>1, <1>4
        <3>4. CASE boss[w][1] # t
            BY <3>1, <3>2, <3>4, <1>4
        <3>5. QED BY <3>3, <3>4
    <2>3. QED BY <2>1, <2>2
<1>14. RecordsFirstAndLast'
    BY DEF RecordsFirstAndLast, Front
<1>15. QED BY <1>4, <1>8, <1>9, <1>10, <1>11, <1>12, <1>13, <1>14

LEMMA EndCallbackInv ==
    ASSUME IInv, NEW t \in Threads, EndCallback(t)
    PROVE  IInv'
<1> DEFINE n == Len(frames[t])
<1> USE DEF IInv, EndCallback, Running
<1>1. /\ contexts[t] \in Seq(Context) /\ frames[t] \in Seq(Frame)
      /\ Front(t) \in Nat /\ open[t] \in Nat /\ n \in Nat /\ n >= 1
      /\ pc[t] = "run" /\ frames[t] # <<>> /\ lock = Nobody /\ Nobody # t
      /\ \A i \in 1..n : frames[t][i] \in Frame
      /\ frames[t][n].kind = "callback"
    BY ThreadsAssumption DEF TypeOK, Front, Top
<1>2. /\ frames' \in [Threads -> Seq(Frame)]
      /\ FramesLinked'
      /\ \A u \in Threads : u # t => frames'[u] = frames[u]
      /\ Len(frames'[t]) = n - 1
      /\ \A i \in 1..(n - 1) : frames'[t][i] = frames[t][i]
      /\ frames'[t] = <<>> <=> n = 1
      /\ frames'[t] # <<>> =>
            /\ n - 1 \in 1..(n - 1)
            /\ frames'[t][Len(frames'[t])] = frames[t][n - 1]
    <2>1. frames \in [Threads -> Seq(Frame)] /\ FramesLinked
          /\ frames' = [frames EXCEPT ![t] = Pop(@)]
        BY DEF TypeOK
    <2> HIDE DEF IInv, EndCallback
    <2>2. QED BY <1>1, <2>1, PopFrame
<1>3. t \in known /\ open[t] = frames[t][n].cbs /\ Front(t) = frames[t][n].ctx
    BY <1>1 DEF EntryMirrorsStack, Top
<1>4. wasAttached[t] = env[t] /\ (env[t] <=> t \in Workers)
    BY <1>1 DEF AttachedIffWorking
<1>5. n = 1 => t \in Workers /\ contexts[t] = <<>> /\ open[t] = 1 /\ wasAttached[t]
    <2> SUFFICES ASSUME n = 1 PROVE <1>5!2
        OBVIOUS
    <2>1. t \notin JavaThreads /\ frames[t][1].ctx = 0 /\ frames[t][1].cbs = 1
        BY <1>1 DEF FramesLinked
    <2>2. QED BY <2>1, <1>1, <1>3, <1>4 DEF Threads, Front
<1>6. n # 1 => /\ n - 1 \in 1..n
               /\ Front(t) = frames[t][n - 1].ctx
               /\ open[t] = frames[t][n - 1].cbs + 1
               /\ ~(open[t] = 1 /\ wasAttached[t])
    <2> SUFFICES ASSUME n # 1 PROVE <1>6!2
        OBVIOUS
    <2>1. n - 1 \in 1..n /\ 1 \in 1..n /\ n \in 2..n /\ 1 <= n - 1
        <3>1. n \in Nat /\ n >= 1
            BY <1>1
        <3> HIDE DEF n, IInv, EndCallback
        <3>2. QED BY <3>1
    <2>2. Front(t) = frames[t][n - 1].ctx /\ open[t] = frames[t][n - 1].cbs + 1
        <3>1. FramesLinked!(t)!2
            BY DEF FramesLinked
        <3> HIDE DEF IInv, EndCallback
        <3>2. FramesLinked!(t)!2!(n)
            BY <2>1, <3>1
        <3>3. QED BY <1>1, <1>3, <3>2
    <2>3. frames[t][1].cbs <= frames[t][n - 1].cbs
        BY <2>1 DEF FramesLinked
    <2>4. t \in Workers => frames[t][1].cbs = 1
        BY <1>1, ThreadsAssumption DEF FramesLinked
    <2>5. frames[t][n - 1].cbs \in Nat
        BY <1>1, <2>1 DEF Frame
    <2> HIDE DEF n, IInv, EndCallback
    <2>6. ~(open[t] = 1 /\ wasAttached[t])
        BY <1>4, <2>2, <2>3, <2>4, <2>5
    <2>7. QED BY <2>1, <2>2, <2>6
<1>7. contexts' = contexts
    <2>1. CASE n = 1
        BY <2>1, <1>5 DEF TypeOK
    <2>2. CASE n # 1
        BY <2>2, <1>6 DEF TypeOK
    <2>3. QED BY <2>1, <2>2
<1>8. /\ env'[t] = (n # 1 /\ env[t]) /\ wasAttached'[t] = (n # 1 /\ wasAttached[t])
      /\ known' = IF n = 1 THEN known \ {t} ELSE known
      /\ open'[t] = open[t] - 1 /\ open[t] - 1 \in Nat
      /\ \A u \in Threads : u # t =>
            env'[u] = env[u] /\ wasAttached'[u] = wasAttached[u] /\ open'[u] = open[u]
    <2>1. /\ env'[t] = (env[t] /\ ~(open[t] = 1 /\ wasAttached[t]))
          /\ wasAttached'[t] = (wasAttached[t] /\ ~(open[t] = 1 /\ wasAttached[t]))
          /\ known' = IF open[t] = 1 /\ wasAttached[t] THEN known \ {t} ELSE known
          /\ open'[t] = open[t] - 1
          /\ \A u \in Threads : u # t =>
                env'[u] = env[u] /\ wasAttached'[u] = wasAttached[u] /\ open'[u] = open[u]
        BY DEF TypeOK
    <2>2. (open[t] = 1 /\ wasAttached[t]) <=> n = 1
        BY <1>5, <1>6
    <2>3. open[t] - 1 \in Nat
        <3>1. n # 1 => frames[t][n - 1].cbs \in Nat
            BY <1>1, <1>6 DEF Frame
        <3>2. QED BY <3>1, <1>5, <1>6
    <2>4. env[t] \in BOOLEAN /\ wasAttached[t] \in BOOLEAN
        BY DEF TypeOK
    <2>5. /\ (env[t] /\ ~(open[t] = 1 /\ wasAttached[t])) = (n # 1 /\ env[t])
          /\ (wasAttached[t] /\ ~(open[t] = 1 /\ wasAttached[t])) = (n # 1 /\ wasAttached[t])
        BY <2>2, <2>4
    <2> HIDE DEF IInv, EndCallback, n
    <2>6. QED BY <2>1, <2>2, <2>3, <2>5
<1>9. /\ \A w \in Workers : w # t => boss'[w] = boss[w]
      /\ n # 1 => boss' = boss
      /\ boss' \in [Workers -> (Threads \union {Nobody}) \X Nat]
    BY DEF TypeOK, NoCall
<1>10. TypeOK'
    <2>1. open' \in [Threads -> Nat] /\ env' \in [Threads -> BOOLEAN] /\ wasAttached' \in [Threads -> BOOLEAN]
        BY <1>8 DEF TypeOK
    <2>2. known' \subseteq Threads
        BY <1>8 DEF TypeOK
    <2>3. QED BY <2>1, <2>2, <1>2, <1>7, <1>9 DEF TypeOK
<1>11. EntryMirrorsStack'
    <2> SUFFICES ASSUME NEW u \in Threads PROVE EntryMirrorsStack!(u)'
        BY DEF EntryMirrorsStack
    <2>1. CASE u # t
        <3>1. /\ u \in known' <=> u \in known
              /\ frames'[u] = frames[u] /\ open'[u] = open[u] /\ pc'[u] = pc[u]
            BY <2>1, <1>2, <1>8
        <3>2. EntryMirrorsStack!(u)
            BY DEF EntryMirrorsStack
        <3> HIDE DEF IInv, EndCallback
        <3>3. QED BY <3>1, <3>2, <1>7 DEF Front, Top
    <2>2. CASE u = t /\ n = 1
        BY <2>2, <1>1, <1>2, <1>5, <1>7, <1>8
    <2>3. CASE u = t /\ n # 1
        <3>1. frames'[t] # <<>> /\ frames'[t][Len(frames'[t])] = frames[t][n - 1]
            BY <2>3, <1>2
        <3>2. frames[t][n - 1].cbs \in Nat
            BY <2>3, <1>1, <1>6 DEF Frame
        <3>3. open'[t] = frames[t][n - 1].cbs
            BY <2>3, <3>2, <1>6, <1>8
        <3>4. QED BY <2>3, <3>1, <3>3, <1>3, <1>6, <1>7, <1>8 DEF Top, Front
    <2>4. QED BY <2>1, <2>2, <2>3
<1>12. AttachedIffWorking'
    <2> SUFFICES ASSUME NEW u \in Threads PROVE AttachedIffWorking!(u)'
        BY DEF AttachedIffWorking
    <2>1. CASE u # t
        BY <2>1, <1>2, <1>8 DEF AttachedIffWorking
    <2>2. CASE u = t
        <3> HIDE DEF IInv, EndCallback, n
        <3>1. QED BY <2>2, <1>2, <1>4, <1>8
    <2>3. QED BY <2>1, <2>2
<1>13. ContextPointersValid'
    <2> SUFFICES ASSUME NEW u \in Threads PROVE ContextPointersValid!(u)'
        BY DEF ContextPointersValid
    <2>1. CASE u # t
        BY <2>1, <1>2, <1>7 DEF ContextPointersValid, Front
    <2>2. CASE u = t
        <3>1. \A i \in 1..(n - 1) : frames'[t][i].ctx <= Front(t)
            <4>1. \A i \in 1..n : frames[t][i].ctx <= Front(t)
                BY DEF ContextPointersValid
            <4>2. \A i \in 1..(n - 1) : i \in 1..n
                BY <1>1
            <4> HIDE DEF IInv, EndCallback
            <4>3. QED BY <4>1, <4>2, <1>2
        <3>2. Front(t)' = Front(t) /\ pc'[t] # "store"
            BY <1>1, <1>7 DEF Front
        <3>3. QED BY <2>2, <3>1, <3>2, <1>2
    <2>3. QED BY <2>1, <2>2
<1>14. JobsConsistent'
    <2> SUFFICES ASSUME NEW u \in Threads PROVE JobsConsistent!(u)'
        BY DEF JobsConsistent
    <2>1. CASE u # t
        BY <2>1, <1>2 DEF JobsConsistent, Top
    <2>2. CASE u = t
        BY <2>2, <1>1
    <2>3. QED BY <2>1, <2>2
<1>15. BossIsOpen'
    <2> SUFFICES ASSUME NEW w \in Workers, frames'[w] # <<>> PROVE BossIsOpen!(w)!2'
        BY DEF BossIsOpen
    <2>1. frames[w] # <<>> /\ boss'[w] = boss[w]
        BY <1>1, <1>2, <1>9 DEF Threads
    <2>2. BossIsOpen!(w)!2
        BY <2>1 DEF BossIsOpen
    <2>3. CASE boss[w][1] = t
        <3>1. boss[w][2] \in 1..n /\ frames[t][boss[w][2]].kind = "call"
            BY <2>2, <2>3
        <3>2. boss[w][2] # n
            BY <3>1, <1>1
        <3>3. boss[w][2] \in 1..(n - 1)
            BY <3>1, <3>2, <1>1
        <3>4. QED BY <2>1, <2>2, <2>3, <3>1, <3>3, <1>2
    <2>4. CASE boss[w][1] # t
        BY <2>1, <2>2, <2>4, <1>2
    <2>5. QED BY <2>3, <2>4
<1>16. RecordsFirstAndLast'
    BY <1>7 DEF RecordsFirstAndLast, Front
<1>17. QED BY <1>2, <1>10, <1>11, <1>12, <1>13, <1>14, <1>15, <1>16

-----------------------------------------------------------------------------
(* Contexts and call logs are updated.                                     *)

\* Replacing one element of one thread's sequence.
LEMMA UpdateElement ==
    ASSUME NEW S, NEW g \in [Threads -> Seq(S)], NEW u \in Threads,
           NEW c \in 1..Len(g[u]), NEW x \in S,
           NEW h, h = [g EXCEPT ![u][c] = x]
    PROVE  /\ h \in [Threads -> Seq(S)]
           /\ \A v \in Threads : Len(h[v]) = Len(g[v])
           /\ \A v \in Threads : v # u => h[v] = g[v]
           /\ h[u][c] = x
           /\ \A i \in 1..Len(g[u]) : i # c => h[u][i] = g[u][i]
<1>1. h[u] = [g[u] EXCEPT ![c] = x] /\ \A v \in Threads : v # u => h[v] = g[v]
    OBVIOUS
<1>2. /\ [g[u] EXCEPT ![c] = x] \in Seq(S)
      /\ Len([g[u] EXCEPT ![c] = x]) = Len(g[u])
      /\ \A j \in 1..Len(g[u]) : [g[u] EXCEPT ![c] = x][j] = IF j = c THEN x ELSE g[u][j]
    BY ExceptSeq
<1>3. h \in [Threads -> Seq(S)]
    BY <1>1, <1>2
<1>4. QED BY <1>1, <1>2, <1>3

\* The first and the last of a history that grows by one exception.
LEMMA HistoryAppend ==
    ASSUME NEW s \in Seq(Exceptions), NEW e \in Exceptions
    PROVE  /\ Append(s, e) \in Seq(Exceptions)
           /\ Report!First(s) = NoException <=> s = <<>>
           /\ Report!First(Append(s, e)) = IF s = <<>> THEN e ELSE Report!First(s)
           /\ Report!LastOfMany(Append(s, e)) = IF s = <<>> THEN NoException ELSE e
           /\ s = <<>> => Report!LastOfMany(s) = NoException
<1>1. /\ Append(s, e) \in Seq(Exceptions) /\ Append(s, e) # <<>>
      /\ Len(Append(s, e)) = Len(s) + 1
      /\ \A i \in 1..Len(s) : Append(s, e)[i] = s[i]
      /\ Append(s, e)[Len(s) + 1] = e
    BY AppendProperties
<1>2. Len(s) \in Nat /\ (s = <<>> <=> Len(s) = 0)
    OBVIOUS
<1>3. s # <<>> => 1 \in 1..Len(s) /\ s[1] \in Exceptions
    BY <1>2
<1>4. Report!First(s) = NoException <=> s = <<>>
    BY <1>3, NullAssumption DEF Report!First
<1>5. Report!First(Append(s, e)) = IF s = <<>> THEN e ELSE Report!First(s)
    BY <1>1, <1>2, <1>3 DEF Report!First
<1>6. Report!LastOfMany(Append(s, e)) = IF s = <<>> THEN NoException ELSE e
    <2>1. CASE s = <<>>
        BY <2>1, <1>1, <1>2 DEF Report!LastOfMany
    <2>2. CASE s # <<>>
        <3>1. ~(Len(s) + 1 < 2)
            BY <2>2, <1>2
        <3>2. QED BY <2>2, <3>1, <1>1 DEF Report!LastOfMany
    <2>3. QED BY <2>1, <2>2
<1>7. s = <<>> => Report!LastOfMany(s) = NoException
    BY <1>2 DEF Report!LastOfMany
<1>8. QED BY <1>1, <1>4, <1>5, <1>6, <1>7

\* What a context records and what was reported to its call.
Matches(c, h) ==
    /\ c.first = Report!First(h.own) /\ c.last = Report!LastOfMany(h.own)
    /\ c.firstOther = Report!First(h.other) /\ c.lastOther = Report!LastOfMany(h.other)
    /\ IF h.msgs = {} THEN c.msg = NoMessage ELSE c.msg \in h.msgs

LEMMA MatchesOwn ==
    ASSUME NEW c \in Context, NEW h \in CallLog, NEW e \in Exceptions, Matches(c, h)
    PROVE  /\ [h EXCEPT !.own = Append(@, e)] \in CallLog
           /\ Matches(AddOwn(c, e), [h EXCEPT !.own = Append(@, e)])
<1>1. h.own \in Seq(Exceptions)
    BY DEF CallLog
<1>2. Append(h.own, e) \in Seq(Exceptions)
    BY <1>1, HistoryAppend
<1>3. [h EXCEPT !.own = Append(@, e)] \in CallLog
    BY <1>2 DEF CallLog
<1>4. /\ [h EXCEPT !.own = Append(@, e)].own = Append(h.own, e)
      /\ [h EXCEPT !.own = Append(@, e)].other = h.other
      /\ [h EXCEPT !.own = Append(@, e)].msgs = h.msgs
    BY DEF CallLog
<1>5. /\ Report!First(h.own) = NoException <=> h.own = <<>>
      /\ Report!First(Append(h.own, e)) = IF h.own = <<>> THEN e ELSE Report!First(h.own)
      /\ Report!LastOfMany(Append(h.own, e)) = IF h.own = <<>> THEN NoException ELSE e
      /\ h.own = <<>> => Report!LastOfMany(h.own) = NoException
    BY <1>1, HistoryAppend
<1>6. /\ AddOwn(c, e).first = Report!First(Append(h.own, e))
      /\ AddOwn(c, e).last = Report!LastOfMany(Append(h.own, e))
    <2>1. CASE h.own = <<>>
        BY <2>1, <1>5, RecordTypes DEF Matches
    <2>2. CASE h.own # <<>>
        BY <2>2, <1>5, RecordTypes DEF Matches
    <2>3. QED BY <2>1, <2>2
<1>7. QED BY <1>3, <1>4, <1>6, RecordTypes DEF Matches

LEMMA MatchesOther ==
    ASSUME NEW c \in Context, NEW h \in CallLog, NEW e \in Exceptions, Matches(c, h)
    PROVE  /\ [h EXCEPT !.other = Append(@, e)] \in CallLog
           /\ Matches(AddOther(c, e), [h EXCEPT !.other = Append(@, e)])
<1>1. h.other \in Seq(Exceptions)
    BY DEF CallLog
<1>2. Append(h.other, e) \in Seq(Exceptions)
    BY <1>1, HistoryAppend
<1>3. [h EXCEPT !.other = Append(@, e)] \in CallLog
    BY <1>2 DEF CallLog
<1>4. /\ [h EXCEPT !.other = Append(@, e)].other = Append(h.other, e)
      /\ [h EXCEPT !.other = Append(@, e)].own = h.own
      /\ [h EXCEPT !.other = Append(@, e)].msgs = h.msgs
    BY DEF CallLog
<1>5. /\ Report!First(h.other) = NoException <=> h.other = <<>>
      /\ Report!First(Append(h.other, e)) = IF h.other = <<>> THEN e ELSE Report!First(h.other)
      /\ Report!LastOfMany(Append(h.other, e)) = IF h.other = <<>> THEN NoException ELSE e
      /\ h.other = <<>> => Report!LastOfMany(h.other) = NoException
    BY <1>1, HistoryAppend
<1>6. /\ AddOther(c, e).firstOther = Report!First(Append(h.other, e))
      /\ AddOther(c, e).lastOther = Report!LastOfMany(Append(h.other, e))
    <2>1. CASE h.other = <<>>
        BY <2>1, <1>5, RecordTypes DEF Matches
    <2>2. CASE h.other # <<>>
        BY <2>2, <1>5, RecordTypes DEF Matches
    <2>3. QED BY <2>1, <2>2
<1>7. QED BY <1>3, <1>4, <1>6, RecordTypes DEF Matches

LEMMA MatchesMessage ==
    ASSUME NEW c \in Context, NEW h \in CallLog, NEW m \in Messages, Matches(c, h)
    PROVE  /\ [c EXCEPT !.msg = m] \in Context
           /\ [h EXCEPT !.msgs = @ \union {m}] \in CallLog
           /\ Matches([c EXCEPT !.msg = m], [h EXCEPT !.msgs = @ \union {m}])
BY DEF Context, CallLog, Matches

\* A step that touches no frame, no entry of the map and no boss, and adds or
\* removes no context, keeps everything that is said about the stacks.
LEMMA StacksKept ==
    ASSUME IInv, UNCHANGED <<tctx, frames, boss>>,
           \A u \in Threads : Len(contexts'[u]) = Len(contexts[u]),
           contexts' \in [Threads -> Seq(Context)],
           \A u \in Threads : pc'[u] = "push" <=> pc[u] = "push"
    PROVE  /\ FramesLinked' /\ EntryMirrorsStack' /\ AttachedIffWorking' /\ BossIsOpen'
           /\ \A u \in Threads : Front(u)' = Front(u) /\ Top(u)' = Top(u)
           /\ \A u \in Threads : \A i \in 1..Len(frames'[u]) : frames'[u][i].ctx <= Front(u)'
<1> USE DEF tctx
<1>1. \A u \in Threads : Front(u)' = Front(u) /\ Top(u)' = Top(u)
    BY DEF Front, Top
<1>2. FramesLinked' /\ AttachedIffWorking' /\ BossIsOpen'
    BY DEF IInv, FramesLinked, AttachedIffWorking, BossIsOpen
<1>3. \A u \in Threads : contexts'[u] = <<>> <=> contexts[u] = <<>>
    <2> SUFFICES ASSUME NEW u \in Threads PROVE contexts'[u] = <<>> <=> contexts[u] = <<>>
        OBVIOUS
    <2>1. contexts[u] \in Seq(Context) /\ contexts'[u] \in Seq(Context)
        BY DEF IInv, TypeOK
    <2>2. Len(contexts'[u]) = Len(contexts[u])
        OBVIOUS
    <2>3. QED BY <2>1, <2>2
<1>4. EntryMirrorsStack'
    BY <1>1, <1>3 DEF IInv, EntryMirrorsStack
<1>5. \A u \in Threads : \A i \in 1..Len(frames'[u]) : frames'[u][i].ctx <= Front(u)'
    BY <1>1 DEF IInv, ContextPointersValid
<1>6. QED BY <1>1, <1>2, <1>4, <1>5

\* One open call records something, and its history says the same.
LEMMA RecordStep ==
    ASSUME IInv, NEW u \in Threads, NEW c \in 1..Front(u),
           NEW x \in Context, NEW y \in CallLog, Matches(x, y),
           contexts' = [contexts EXCEPT ![u][c] = x],
           log' = [log EXCEPT ![u][c] = y]
    PROVE  /\ contexts' \in [Threads -> Seq(Context)]
           /\ \A v \in Threads : Len(contexts'[v]) = Len(contexts[v])
           /\ log' \in [Threads -> Seq(CallLog)]
           /\ RecordsFirstAndLast'
<1>1. /\ contexts \in [Threads -> Seq(Context)] /\ log \in [Threads -> Seq(CallLog)]
      /\ c \in 1..Len(contexts[u]) /\ c \in 1..Len(log[u])
    BY DEF IInv, TypeOK, RecordsFirstAndLast, Front
<1>2. /\ contexts' \in [Threads -> Seq(Context)]
      /\ \A v \in Threads : Len(contexts'[v]) = Len(contexts[v])
      /\ \A v \in Threads : v # u => contexts'[v] = contexts[v]
      /\ contexts'[u][c] = x
      /\ \A i \in 1..Len(contexts[u]) : i # c => contexts'[u][i] = contexts[u][i]
    BY <1>1, UpdateElement
<1>3. /\ log' \in [Threads -> Seq(CallLog)]
      /\ \A v \in Threads : Len(log'[v]) = Len(log[v])
      /\ \A v \in Threads : v # u => log'[v] = log[v]
      /\ log'[u][c] = y
      /\ \A i \in 1..Len(log[u]) : i # c => log'[u][i] = log[u][i]
    BY <1>1, UpdateElement
<1>4. \A v \in Threads : Len(log[v]) = Len(contexts[v]) /\
         \A i \in 1..Len(contexts[v]) : Matches(contexts[v][i], log[v][i])
    BY DEF IInv, RecordsFirstAndLast, Matches, Front
<1>5. \A v \in Threads : Len(log'[v]) = Len(contexts'[v]) /\
         \A i \in 1..Len(contexts'[v]) : Matches(contexts'[v][i], log'[v][i])
    <2> SUFFICES ASSUME NEW v \in Threads
                 PROVE  /\ Len(log'[v]) = Len(contexts'[v])
                        /\ \A i \in 1..Len(contexts'[v]) : Matches(contexts'[v][i], log'[v][i])
        OBVIOUS
    <2>1. CASE v # u
        BY <2>1, <1>2, <1>3, <1>4
    <2>2. CASE v = u
        BY <2>2, <1>2, <1>3, <1>4
    <2>3. QED BY <2>1, <2>2
<1>6. RecordsFirstAndLast'
    BY <1>5 DEF RecordsFirstAndLast, Matches, Front
<1>7. QED BY <1>2, <1>3, <1>6

\* The innermost call of a thread, as the history and as the map see it.
LEMMA InnermostIsFront ==
    ASSUME IInv, NEW u \in Threads
    PROVE  /\ Report!Innermost(u) = Front(u) /\ Front(u) \in Nat
           /\ contexts[u] # <<>> <=> Front(u) \in 1..Front(u)
           /\ \A c \in 1..Front(u) : /\ contexts[u][c] \in Context
                                     /\ log[u][c] \in CallLog
                                     /\ Matches(contexts[u][c], log[u][c])
<1>1. Len(log[u]) = Front(u)
    BY DEF IInv, RecordsFirstAndLast
<1>2. contexts[u] \in Seq(Context) /\ log[u] \in Seq(CallLog)
    BY DEF IInv, TypeOK
<1>3. Front(u) \in Nat /\ (contexts[u] # <<>> <=> Front(u) \in 1..Front(u))
    BY <1>2 DEF Front
<1>4. \A c \in 1..Front(u) : contexts[u][c] \in Context /\ log[u][c] \in CallLog
    BY <1>1, <1>2 DEF Front
<1>5. \A c \in 1..Front(u) : Matches(contexts[u][c], log[u][c])
    BY DEF IInv, RecordsFirstAndLast, Matches
<1>6. QED BY <1>1, <1>3, <1>4, <1>5 DEF Report!Innermost

\* The frame that runs refers to the front context, if it has one.
LEMMA TopIsFront ==
    ASSUME IInv, NEW t \in Threads, frames[t] # <<>>
    PROVE  Top(t).ctx = Front(t) /\ Top(t).ctx \in Nat
BY InnermostIsFront DEF IInv, EntryMirrorsStack

\* The pointers of a thread that stores a message survive a step that keeps
\* jobs of storing threads, or that only adds a job checked here.
LEMMA StoreTargetsKept ==
    ASSUME IInv, NEW u \in Threads, \A v \in Threads : Len(contexts'[v]) = Len(contexts[v]),
           pc'[u] = "store" => pc[u] = "store" /\ job'[u] = job[u]
    PROVE  (pc[u] = "store" => job[u].at \in 1..Front(job[u].to))'
BY DEF IInv, ContextPointersValid, JobsConsistent, Front

LEMMA ThrowInv ==
    ASSUME IInv, NEW t \in Threads, NEW e \in Exceptions, Throw(t, e)
    PROVE  IInv'
<1>1. /\ frames[t] # <<>> /\ pc[t] = "run" /\ reports' = reports + 1 /\ reports' \in Nat
      /\ UNCHANGED <<tctx, frames, boss>> /\ TypeOK
    BY DEF Throw, Running, IInv, TypeOK
<1>2. Top(t).ctx = Front(t) /\ Front(t) \in Nat
    BY <1>1, TopIsFront
<1>3. CASE Top(t).ctx # 0
    <2> DEFINE x == AddOwn(contexts[t][Front(t)], e)
               y == [log[t][Front(t)] EXCEPT !.own = Append(@, e)]
    <2>1. /\ contexts' = [contexts EXCEPT ![t][Front(t)] = x]
          /\ log' = [log EXCEPT ![t][Front(t)] = y]
          /\ UNCHANGED <<lock, pc, job>>
        BY <1>2, <1>3, InnermostIsFront DEF Throw, Report!Own
    <2>2. Front(t) \in 1..Front(t)
        BY <1>2, <1>3
    <2>3. x \in Context /\ y \in CallLog /\ Matches(x, y)
        BY <2>2, InnermostIsFront, MatchesOwn, RecordTypes
    <2> HIDE DEF x, y
    <2>4. /\ contexts' \in [Threads -> Seq(Context)]
          /\ \A v \in Threads : Len(contexts'[v]) = Len(contexts[v])
          /\ log' \in [Threads -> Seq(CallLog)]
          /\ RecordsFirstAndLast'
        BY <2>1, <2>2, <2>3, RecordStep
    <2>5. TypeOK'
        BY <1>1, <2>1, <2>4 DEF TypeOK, tctx
    <2>6. /\ FramesLinked' /\ EntryMirrorsStack' /\ AttachedIffWorking' /\ BossIsOpen'
          /\ \A u \in Threads : Front(u)' = Front(u) /\ Top(u)' = Top(u)
          /\ \A u \in Threads : \A i \in 1..Len(frames'[u]) : frames'[u][i].ctx <= Front(u)'
        BY <1>1, <2>1, <2>4, StacksKept
    <2>7. ContextPointersValid'
        BY <2>1, <2>4, <2>6, StoreTargetsKept DEF ContextPointersValid
    <2>8. JobsConsistent'
        BY <1>1, <2>1, <2>6 DEF IInv, JobsConsistent
    <2>9. QED BY <2>4, <2>5, <2>6, <2>7, <2>8 DEF IInv
<1>4. CASE Top(t).ctx = 0
    <2> DEFINE j == [NoJob EXCEPT !.kind = "exception", !.val = e, !.todo = known]
    <2>1. /\ lock = Nobody /\ lock' = t /\ pc' = [pc EXCEPT ![t] = "visit"]
          /\ job' = [job EXCEPT ![t] = j]
          /\ UNCHANGED <<contexts, log, result>>
        BY <1>4 DEF Throw
    <2>2. j \in Job /\ j.kind = "exception" /\ j.val = e
        BY <1>1 DEF TypeOK, NoJob, Job
    <2> HIDE DEF j
    <2>3. job' \in [Threads -> Job] /\ pc'[t] = "visit" /\ job'[t] = j
          /\ \A u \in Threads : u # t => pc'[u] = pc[u] /\ job'[u] = job[u]
        BY <1>1, <2>1, <2>2 DEF TypeOK
    <2>4. TypeOK'
        BY <1>1, <2>1, <2>3 DEF TypeOK, tctx
    <2>5. /\ FramesLinked' /\ EntryMirrorsStack' /\ AttachedIffWorking' /\ BossIsOpen'
          /\ \A u \in Threads : Front(u)' = Front(u) /\ Top(u)' = Top(u)
          /\ \A u \in Threads : \A i \in 1..Len(frames'[u]) : frames'[u][i].ctx <= Front(u)'
        <3>1. contexts' \in [Threads -> Seq(Context)]
            BY <1>1, <2>1 DEF TypeOK
        <3>2. \A u \in Threads : pc'[u] = "push" <=> pc[u] = "push"
            BY <1>1, <2>3
        <3>3. QED BY <1>1, <2>1, <3>1, <3>2, StacksKept
    <2>6. ContextPointersValid'
        <3>1. \A u \in Threads : pc'[u] = "store" => pc[u] = "store" /\ job'[u] = job[u]
            BY <2>3
        <3>2. \A u \in Threads : Len(contexts'[u]) = Len(contexts[u])
            BY <2>1
        <3>3. QED BY <2>5, <3>1, <3>2, StoreTargetsKept DEF ContextPointersValid
    <2>7. JobsConsistent'
        <3> SUFFICES ASSUME NEW u \in Threads PROVE JobsConsistent!(u)'
            BY DEF JobsConsistent
        <3>1. CASE u = t
            BY <3>1, <1>1, <1>4, <2>1, <2>2, <2>3, <2>5
        <3>2. CASE u # t
            <4>1. JobsConsistent!(u) /\ lock # u /\ Nobody # u
                BY <2>1, ThreadsAssumption DEF IInv, JobsConsistent
            <4>2. frames'[u] = frames[u] /\ lock' # u
                BY <3>2, <1>1, <2>1
            <4>3. QED BY <3>2, <4>1, <4>2, <2>3, <2>5
        <3>3. QED BY <3>1, <3>2
    <2>8. RecordsFirstAndLast'
        BY <2>1 DEF IInv, RecordsFirstAndLast, Front
    <2>9. QED BY <2>4, <2>5, <2>6, <2>7, <2>8 DEF IInv
<1>5. QED BY <1>3, <1>4

LEMMA VisitExceptionInv ==
    ASSUME IInv, NEW t \in Threads, NEW u \in Threads, VisitException(t, u)
    PROVE  IInv'
<1> DEFINE e == job[t].val
           x == AddOther(contexts[u][Front(u)], e)
           y == [log[u][Front(u)] EXCEPT !.other = Append(@, e)]
           j == [job[t] EXCEPT !.todo = @ \ {u}]
<1>1. /\ UNCHANGED <<lock, tctx, frames, boss, pc, reports>> /\ TypeOK
      /\ job' = [job EXCEPT ![t] = j] /\ pc[t] = "visit" /\ e \in Exceptions
    BY DEF VisitException, IInv, JobsConsistent
<1>2. j \in Job /\ j.kind = job[t].kind /\ j.val = job[t].val /\ j.to = job[t].to /\ j.at = job[t].at
    <2>1. job[t] \in Job
        BY <1>1 DEF TypeOK
    <2> HIDE DEF e, x, y
    <2>2. QED BY <2>1 DEF Job
<1>3. job' \in [Threads -> Job] /\ job'[t] = j /\ \A v \in Threads : v # t => job'[v] = job[v]
    BY <1>1, <1>2 DEF TypeOK
<1>4. /\ contexts' \in [Threads -> Seq(Context)]
      /\ \A v \in Threads : Len(contexts'[v]) = Len(contexts[v])
      /\ log' \in [Threads -> Seq(CallLog)]
      /\ RecordsFirstAndLast'
    <2>1. CASE contexts[u] # <<>>
        <3>1. Front(u) \in 1..Front(u) /\ Report!Innermost(u) = Front(u)
            BY <2>1, InnermostIsFront
        <3>2. /\ contexts' = [contexts EXCEPT ![u][Front(u)] = x]
              /\ log' = [log EXCEPT ![u][Front(u)] = y]
            BY <2>1, <3>1 DEF VisitException, Report!Other
        <3>3. x \in Context /\ y \in CallLog /\ Matches(x, y)
            BY <1>1, <3>1, InnermostIsFront, MatchesOther, RecordTypes
        <3> HIDE DEF x, y
        <3>4. QED BY <3>1, <3>2, <3>3, RecordStep
    <2>2. CASE contexts[u] = <<>>
        <3>1. contexts' = contexts /\ log' = log
            BY <2>2 DEF VisitException
        <3> HIDE DEF e, x, y, j
        <3>2. QED BY <3>1, <1>1 DEF TypeOK, IInv, RecordsFirstAndLast, Front
    <2>3. QED BY <2>1, <2>2
<1> HIDE DEF j, e
<1>5. TypeOK'
    BY <1>1, <1>3, <1>4 DEF TypeOK, tctx
<1>6. /\ FramesLinked' /\ EntryMirrorsStack' /\ AttachedIffWorking' /\ BossIsOpen'
      /\ \A v \in Threads : Front(v)' = Front(v) /\ Top(v)' = Top(v)
      /\ \A v \in Threads : \A i \in 1..Len(frames'[v]) : frames'[v][i].ctx <= Front(v)'
    BY <1>1, <1>4, StacksKept
<1>7. ContextPointersValid'
    <2>1. \A v \in Threads : pc'[v] = "store" => pc[v] = "store" /\ job'[v] = job[v]
        BY <1>1, <1>3
    <2>2. QED BY <1>4, <1>6, <2>1, StoreTargetsKept DEF ContextPointersValid
<1>8. JobsConsistent'
    <2> SUFFICES ASSUME NEW v \in Threads PROVE JobsConsistent!(v)'
        BY DEF JobsConsistent
    <2>1. JobsConsistent!(v)
        BY DEF IInv, JobsConsistent
    <2>2. CASE v = t
        BY <2>1, <2>2, <1>1, <1>2, <1>3, <1>6
    <2>3. CASE v # t
        BY <2>1, <2>3, <1>1, <1>3, <1>6
    <2>4. QED BY <2>2, <2>3
<1>9. QED BY <1>4, <1>5, <1>6, <1>7, <1>8 DEF IInv

LEMMA ReportErrorInv ==
    ASSUME IInv, NEW t \in Threads, NEW m \in Messages, ReportError(t, m)
    PROVE  IInv'
<1> DEFINE c == Top(t).ctx
           own == [kind |-> "message", val |-> m, todo |-> {}, to |-> t, at |-> c]
           all == [NoJob EXCEPT !.kind = "message", !.val = m, !.todo = known]
<1>1. /\ frames[t] # <<>> /\ pc[t] = "run" /\ reports' = reports + 1 /\ reports' \in Nat
      /\ UNCHANGED <<tctx, contexts, frames, boss, log, result>> /\ TypeOK
    BY DEF ReportError, Running, IInv, TypeOK
<1>2. c = Front(t) /\ Front(t) \in Nat
    BY <1>1, TopIsFront
<1>3. /\ own \in Job /\ own.kind = "message" /\ own.val = m /\ own.to = t /\ own.at = c
      /\ all \in Job /\ all.kind = "message" /\ all.val = m
    BY <1>1, <1>2 DEF TypeOK, NoJob, Job
<1> HIDE DEF own, all
<1>4. \/ UNCHANGED <<lock, pc, job>>
      \/ /\ c # 0 /\ lock' = lock
         /\ pc' = [pc EXCEPT ![t] = "store"] /\ job' = [job EXCEPT ![t] = own]
      \/ /\ c = 0 /\ lock = Nobody /\ lock' = t
         /\ pc' = [pc EXCEPT ![t] = "visit"] /\ job' = [job EXCEPT ![t] = all]
    BY DEF ReportError, own, all
<1>5. /\ pc' \in [Threads -> {"run", "push", "visit", "store"}]
      /\ job' \in [Threads -> Job] /\ lock' \in Threads \union {Nobody}
      /\ \A u \in Threads : u # t => pc'[u] = pc[u] /\ job'[u] = job[u]
    <2>1. /\ pc \in [Threads -> {"run", "push", "visit", "store"}]
          /\ job \in [Threads -> Job] /\ lock \in Threads \union {Nobody}
        BY <1>1 DEF TypeOK
    <2>2. CASE UNCHANGED <<lock, pc, job>>
        BY <2>1, <2>2
    <2>3. CASE lock' = lock /\ pc' = [pc EXCEPT ![t] = "store"] /\ job' = [job EXCEPT ![t] = own]
        BY <2>1, <2>3, <1>3
    <2>4. CASE lock' = t /\ pc' = [pc EXCEPT ![t] = "visit"] /\ job' = [job EXCEPT ![t] = all]
        BY <2>1, <2>4, <1>3
    <2>5. QED BY <1>4, <2>2, <2>3, <2>4
<1>6. TypeOK'
    BY <1>1, <1>5 DEF TypeOK, tctx
<1>7. /\ FramesLinked' /\ EntryMirrorsStack' /\ AttachedIffWorking' /\ BossIsOpen'
      /\ \A u \in Threads : Front(u)' = Front(u) /\ Top(u)' = Top(u)
      /\ \A u \in Threads : \A i \in 1..Len(frames'[u]) : frames'[u][i].ctx <= Front(u)'
    <2>1. contexts' \in [Threads -> Seq(Context)] /\ \A u \in Threads : Len(contexts'[u]) = Len(contexts[u])
        BY <1>1 DEF TypeOK
    <2>2. \A u \in Threads : pc'[u] = "push" <=> pc[u] = "push"
        <3> SUFFICES ASSUME NEW u \in Threads PROVE pc'[u] = "push" <=> pc[u] = "push"
            OBVIOUS
        <3>1. pc'[t] # "push"
            BY <1>1, <1>4 DEF TypeOK
        <3>2. QED BY <3>1, <1>1, <1>5
    <2>3. QED BY <1>1, <2>1, <2>2, StacksKept
<1>8. RecordsFirstAndLast'
    BY <1>1 DEF IInv, RecordsFirstAndLast, Front
<1>9. ContextPointersValid'
    <2> SUFFICES ASSUME NEW u \in Threads
                 PROVE  (pc[u] = "store" => job[u].at \in 1..Front(job[u].to))'
        BY <1>7 DEF ContextPointersValid
    <2>1. CASE u # t
        BY <2>1, <1>1, <1>5, StoreTargetsKept
    <2>2. CASE u = t
        <3>1. pc'[t] = "store" => c # 0 /\ job'[t] = own
            BY <1>1, <1>4 DEF TypeOK
        <3>2. pc'[t] = "store" => c \in 1..Len(contexts'[t])
            BY <3>1, <1>1, <1>2 DEF Front
        <3>3. QED BY <2>2, <3>1, <3>2, <1>3 DEF Front
    <2>3. QED BY <2>1, <2>2
<1>10. JobsConsistent'
    <2> SUFFICES ASSUME NEW u \in Threads PROVE JobsConsistent!(u)'
        BY DEF JobsConsistent
    <2>1. JobsConsistent!(u) /\ lock # t /\ Nobody # u /\ frames' = frames
        BY <1>1, ThreadsAssumption DEF IInv, JobsConsistent
    <2>2. CASE u = t
        <3>1. \/ pc'[t] = "run" /\ lock' # t
              \/ pc'[t] = "store" /\ job'[t] = own /\ lock' # t
              \/ pc'[t] = "visit" /\ job'[t] = all /\ lock' = t /\ c = 0
            BY <2>1, <1>1, <1>4 DEF TypeOK
        <3>2. QED BY <2>1, <2>2, <3>1, <1>1, <1>3, <1>7
    <2>3. CASE u # t
        <3>1. lock' = u <=> lock = u
            BY <2>1, <2>3, <1>4
        <3>2. QED BY <2>1, <2>3, <3>1, <1>5, <1>7
    <2>4. QED BY <2>2, <2>3
<1>11. QED BY <1>6, <1>7, <1>8, <1>9, <1>10 DEF IInv

LEMMA VisitMessageInv ==
    ASSUME IInv, NEW t \in Threads, NEW u \in Threads, VisitMessage(t, u)
    PROVE  IInv'
<1> DEFINE j == [job[t] EXCEPT !.todo = @ \ {u}, !.to = u, !.at = Front(u)]
<1>1. /\ UNCHANGED <<lock, tctx, contexts, frames, boss, reports, log, result>> /\ TypeOK
      /\ pc[t] = "visit" /\ job[t].kind = "message" /\ job' = [job EXCEPT ![t] = j]
      /\ \/ pc' = pc
         \/ contexts[u] # <<>> /\ pc' = [pc EXCEPT ![t] = "store"]
    BY DEF VisitMessage, IInv
<1>2. lock = t /\ job[t].val \in Messages
    BY <1>1 DEF IInv, JobsConsistent
<1>3. Front(u) \in Nat /\ (contexts[u] # <<>> <=> Front(u) \in 1..Front(u))
    BY InnermostIsFront
<1>4. j \in Job /\ j.kind = "message" /\ j.val = job[t].val /\ j.to = u /\ j.at = Front(u)
    <2>1. job[t] \in Job
        BY <1>1 DEF TypeOK
    <2>2. QED BY <1>1, <1>3, <2>1 DEF Job
<1> HIDE DEF j
<1>5. /\ pc' \in [Threads -> {"run", "push", "visit", "store"}]
      /\ job' \in [Threads -> Job] /\ job'[t] = j
      /\ \A v \in Threads : v # t => pc'[v] = pc[v] /\ job'[v] = job[v]
      /\ pc'[t] = "visit" \/ (pc'[t] = "store" /\ contexts[u] # <<>>)
    BY <1>1, <1>4 DEF TypeOK
<1>6. TypeOK'
    BY <1>1, <1>5 DEF TypeOK, tctx
<1>7. /\ FramesLinked' /\ EntryMirrorsStack' /\ AttachedIffWorking' /\ BossIsOpen'
      /\ \A v \in Threads : Front(v)' = Front(v) /\ Top(v)' = Top(v)
      /\ \A v \in Threads : \A i \in 1..Len(frames'[v]) : frames'[v][i].ctx <= Front(v)'
    <2>1. contexts' \in [Threads -> Seq(Context)] /\ \A v \in Threads : Len(contexts'[v]) = Len(contexts[v])
        BY <1>1 DEF TypeOK
    <2>2. \A v \in Threads : pc'[v] = "push" <=> pc[v] = "push"
        BY <1>1, <1>5
    <2>3. QED BY <1>1, <2>1, <2>2, StacksKept
<1>8. RecordsFirstAndLast'
    BY <1>1 DEF IInv, RecordsFirstAndLast, Front
<1>9. ContextPointersValid'
    <2> SUFFICES ASSUME NEW v \in Threads
                 PROVE  (pc[v] = "store" => job[v].at \in 1..Front(job[v].to))'
        BY <1>7 DEF ContextPointersValid
    <2>1. CASE v # t
        BY <2>1, <1>1, <1>5, StoreTargetsKept
    <2>2. CASE v = t
        <3>1. pc'[t] = "store" => Front(u) \in 1..Len(contexts'[u])
            BY <1>1, <1>3, <1>5 DEF Front
        <3>2. QED BY <2>2, <3>1, <1>4, <1>5 DEF Front
    <2>3. QED BY <2>1, <2>2
<1>10. JobsConsistent'
    <2> SUFFICES ASSUME NEW v \in Threads PROVE JobsConsistent!(v)'
        BY DEF JobsConsistent
    <2>1. JobsConsistent!(v) /\ frames' = frames /\ lock' = lock
        BY <1>1 DEF IInv, JobsConsistent
    <2>2. CASE v = t
        BY <2>1, <2>2, <1>1, <1>2, <1>4, <1>5, <1>7
    <2>3. CASE v # t
        BY <2>1, <2>3, <1>5, <1>7
    <2>4. QED BY <2>2, <2>3
<1>11. QED BY <1>6, <1>7, <1>8, <1>9, <1>10 DEF IInv

LEMMA StoreMessageInv ==
    ASSUME IInv, NEW t \in Threads, StoreMessage(t)
    PROVE  IInv'
<1> DEFINE u == job[t].to
           c == job[t].at
           x == [contexts[u][c] EXCEPT !.msg = job[t].val]
           y == [log[u][c] EXCEPT !.msgs = @ \union {job[t].val}]
<1>1. /\ UNCHANGED <<lock, tctx, frames, boss, reports>> /\ TypeOK /\ pc[t] = "store"
      /\ contexts' = [contexts EXCEPT ![u][c] = x]
      /\ log' = [log EXCEPT ![u][c] = y]
    BY DEF StoreMessage, IInv, Report!Error
<1>0. job[t].val \in Messages
    BY DEF StoreMessage, IInv, JobsConsistent
<1>2. /\ \/ /\ lock = t /\ pc' = [pc EXCEPT ![t] = "visit"]
            /\ \E m \in Messages : job' = [job EXCEPT ![t].val = m]
         \/ lock # t /\ pc' = [pc EXCEPT ![t] = "run"] /\ job' = [job EXCEPT ![t] = NoJob]
    BY NullAssumption, <1>0 DEF StoreMessage
<1>3. u \in Threads /\ c \in 1..Front(u) /\ job[t].val \in Messages /\ job[t].kind = "message"
    BY <1>1 DEF IInv, JobsConsistent, ContextPointersValid
<1>4. x \in Context /\ y \in CallLog /\ Matches(x, y)
    BY <1>3, InnermostIsFront, MatchesMessage
<1> HIDE DEF x, y, u, c
<1>5. /\ contexts' \in [Threads -> Seq(Context)]
      /\ \A v \in Threads : Len(contexts'[v]) = Len(contexts[v])
      /\ log' \in [Threads -> Seq(CallLog)]
      /\ RecordsFirstAndLast'
    BY <1>1, <1>3, <1>4, RecordStep
<1>6. /\ pc' \in [Threads -> {"run", "push", "visit", "store"}]
      /\ job' \in [Threads -> Job]
      /\ \A v \in Threads : v # t => pc'[v] = pc[v] /\ job'[v] = job[v]
      /\ \/ /\ lock = t /\ pc'[t] = "visit"
            /\ job'[t].kind = "message" /\ job'[t].val \in Messages
         \/ lock # t /\ pc'[t] = "run"
    <2>1. /\ pc \in [Threads -> {"run", "push", "visit", "store"}]
          /\ job \in [Threads -> Job]
        BY <1>1 DEF TypeOK
    <2>2. CASE /\ lock = t /\ pc' = [pc EXCEPT ![t] = "visit"]
               /\ \E m \in Messages : job' = [job EXCEPT ![t].val = m]
        <3>1. PICK m \in Messages : job' = [job EXCEPT ![t].val = m]
            BY <2>2
        <3>2. job[t] \in Job
            BY <2>1
        <3>3. [job[t] EXCEPT !.val = m] \in Job
            BY <3>2 DEF Job
        <3>4. job'[t].kind = "message" /\ job'[t].val \in Messages
            BY <1>3, <2>1, <3>1, <3>2 DEF Job
        <3>5. job' \in [Threads -> Job]
            BY <2>1, <3>1, <3>3
        <3>6. QED BY <2>1, <2>2, <3>1, <3>4, <3>5
    <2>3. CASE lock # t /\ pc' = [pc EXCEPT ![t] = "run"] /\ job' = [job EXCEPT ![t] = NoJob]
        BY <2>1, <2>3, NoJobType
    <2>4. QED BY <1>2, <2>2, <2>3
<1>7. TypeOK'
    BY <1>1, <1>5, <1>6 DEF TypeOK, tctx
<1>8. /\ FramesLinked' /\ EntryMirrorsStack' /\ AttachedIffWorking' /\ BossIsOpen'
      /\ \A v \in Threads : Front(v)' = Front(v) /\ Top(v)' = Top(v)
      /\ \A v \in Threads : \A i \in 1..Len(frames'[v]) : frames'[v][i].ctx <= Front(v)'
    <2>1. \A v \in Threads : pc'[v] = "push" <=> pc[v] = "push"
        BY <1>1, <1>6
    <2>2. QED BY <1>1, <1>5, <2>1, StacksKept
<1>9. ContextPointersValid'
    <2>1. \A v \in Threads : pc'[v] = "store" => pc[v] = "store" /\ job'[v] = job[v]
        BY <1>6
    <2>2. QED BY <1>5, <1>8, <2>1, StoreTargetsKept DEF ContextPointersValid
<1>10. JobsConsistent'
    <2> SUFFICES ASSUME NEW v \in Threads PROVE JobsConsistent!(v)'
        BY DEF JobsConsistent
    <2>1. JobsConsistent!(v) /\ frames' = frames /\ lock' = lock
        BY <1>1 DEF IInv, JobsConsistent
    <2>2. CASE v = t
        BY <2>1, <2>2, <1>1, <1>3, <1>6, <1>8
    <2>3. CASE v # t
        BY <2>1, <2>3, <1>6, <1>8
    <2>4. QED BY <2>2, <2>3
<1>11. QED BY <1>5, <1>7, <1>8, <1>9, <1>10 DEF IInv

LEMMA VisitDoneInv ==
    ASSUME IInv, NEW t \in Threads, VisitDone(t)
    PROVE  IInv'
<1>1. /\ UNCHANGED <<tctx, contexts, frames, boss, reports, log, result>> /\ TypeOK
      /\ lock' = Nobody /\ pc[t] = "visit"
      /\ pc' = [pc EXCEPT ![t] = "run"] /\ job' = [job EXCEPT ![t] = NoJob]
    BY DEF VisitDone, IInv
<1>2. lock = t
    BY <1>1 DEF IInv, JobsConsistent
<1>3. /\ pc' \in [Threads -> {"run", "push", "visit", "store"}]
      /\ job' \in [Threads -> Job] /\ pc'[t] = "run"
      /\ \A v \in Threads : v # t => pc'[v] = pc[v] /\ job'[v] = job[v]
    BY <1>1, NoJobType DEF TypeOK
<1>4. TypeOK'
    BY <1>1, <1>3 DEF TypeOK, tctx
<1>5. /\ FramesLinked' /\ EntryMirrorsStack' /\ AttachedIffWorking' /\ BossIsOpen'
      /\ \A v \in Threads : Front(v)' = Front(v) /\ Top(v)' = Top(v)
      /\ \A v \in Threads : \A i \in 1..Len(frames'[v]) : frames'[v][i].ctx <= Front(v)'
    <2>1. contexts' \in [Threads -> Seq(Context)] /\ \A v \in Threads : Len(contexts'[v]) = Len(contexts[v])
        BY <1>1 DEF TypeOK
    <2>2. \A v \in Threads : pc'[v] = "push" <=> pc[v] = "push"
        BY <1>1, <1>3
    <2>3. QED BY <1>1, <2>1, <2>2, StacksKept
<1>6. ContextPointersValid'
    <2>1. \A v \in Threads : pc'[v] = "store" => pc[v] = "store" /\ job'[v] = job[v]
        BY <1>3
    <2>2. \A v \in Threads : Len(contexts'[v]) = Len(contexts[v])
        BY <1>1
    <2>3. QED BY <1>5, <2>1, <2>2, StoreTargetsKept DEF ContextPointersValid
<1>7. JobsConsistent'
    <2> SUFFICES ASSUME NEW v \in Threads PROVE JobsConsistent!(v)'
        BY DEF JobsConsistent
    <2>1. JobsConsistent!(v) /\ frames' = frames /\ lock' # v
        BY <1>1, ThreadsAssumption DEF IInv, JobsConsistent
    <2>2. CASE v = t
        BY <2>1, <2>2, <1>3
    <2>3. CASE v # t
        BY <2>1, <2>3, <1>2, <1>3, <1>5
    <2>4. QED BY <2>2, <2>3
<1>8. RecordsFirstAndLast'
    BY <1>1 DEF IInv, RecordsFirstAndLast, Front
<1>9. QED BY <1>4, <1>5, <1>6, <1>7, <1>8 DEF IInv

LEMMA StutterInv == IInv /\ UNCHANGED vars => IInv'
<1> SUFFICES ASSUME IInv, UNCHANGED vars PROVE IInv'
    OBVIOUS
<1> USE DEF IInv, vars, tctx
<1>1. TypeOK'
    BY DEF TypeOK
<1>2. FramesLinked' /\ EntryMirrorsStack' /\ AttachedIffWorking' /\ BossIsOpen'
    BY DEF FramesLinked, EntryMirrorsStack, AttachedIffWorking, BossIsOpen, Top, Front
<1>3. ContextPointersValid' /\ JobsConsistent'
    BY DEF ContextPointersValid, JobsConsistent, Top, Front
<1>4. RecordsFirstAndLast'
    BY DEF RecordsFirstAndLast, Front
<1>5. QED BY <1>1, <1>2, <1>3, <1>4

\* The invariant holds in every reachable state: the type invariant, the
\* agreement of the map with the stacks of the threads, the attachment of the
\* workers, the validity of the context pointers and of the records.
THEOREM Invariance == Spec => []IInv
<1>1. Init => IInv
    BY InitInv
<1>2. IInv /\ [Next]_vars => IInv'
    <2> SUFFICES ASSUME IInv, Next PROVE IInv'
        BY StutterInv
    <2>1. PICK t \in Threads : Step(t)
        BY DEF Next
    <2>2. CASE RegisterLookup(t)
        BY <2>2, RegisterLookupInv
    <2>3. CASE RegisterPush(t)
        BY <2>3, RegisterPushInv
    <2>4. CASE Unregister(t)
        BY <2>4, UnregisterInv
    <2>5. CASE BeginCallback(t)
        BY <2>5, BeginCallbackInv
    <2>6. CASE EndCallback(t)
        BY <2>6, EndCallbackInv
    <2>7. CASE \E e \in Exceptions : Throw(t, e)
        BY <2>7, ThrowInv
    <2>8. CASE \E m \in Messages : ReportError(t, m)
        BY <2>8, ReportErrorInv
    <2>9. CASE Visit(t)
        BY <2>9, VisitExceptionInv, VisitMessageInv, StoreMessageInv, VisitDoneInv DEF Visit
    <2>10. QED BY <2>1, <2>2, <2>3, <2>4, <2>5, <2>6, <2>7, <2>8, <2>9 DEF Step
<1>3. QED BY <1>1, <1>2, PTL DEF Spec

=============================================================================
