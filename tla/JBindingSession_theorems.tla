------------------------ MODULE JBindingSession_theorems ------------------------
(***************************************************************************)
(* What follows from the inductive invariant of JBindingSession: the       *)
(* safety properties that the runs check, the delivery of the exceptions   *)
(* of workers, and that the session implements NativeCallReport.           *)
(***************************************************************************)
EXTENDS JBindingSession_proofs

-----------------------------------------------------------------------------
(* Consequences of the invariant.                                          *)

\* The frame on top of a worker's stack has no context only below its first
\* native call, and that of a Java thread always has one.
LEMMA TopWithoutContext ==
    ASSUME IInv, NEW t \in Threads, frames[t] # <<>>, Top(t).ctx = 0
    PROVE  t \in Workers /\ contexts[t] = <<>> /\ env[t]
<1>1. frames[t] \in Seq(Frame) /\ contexts[t] \in Seq(Context)
    BY DEF IInv, TypeOK
<1>2. Len(frames[t]) \in Nat \ {0} /\ 1 \in 1..Len(frames[t])
    BY <1>1
<1>3. frames[t][1].ctx <= Top(t).ctx
    BY <1>1, <1>2 DEF IInv, FramesLinked, Top
<1>4. t \notin JavaThreads
    BY <1>1, <1>2, <1>3 DEF IInv, FramesLinked
<1>5. t \in Workers
    BY <1>4 DEF Threads
<1>6. Front(t) = 0
    BY DEF IInv, EntryMirrorsStack
<1>7. contexts[t] = <<>>
    BY <1>1, <1>6 DEF Front
<1>8. env[t]
    BY <1>5 DEF IInv, AttachedIffWorking
<1>9. QED BY <1>5, <1>7, <1>8

LEMMA ReportersFromInv == IInv => SessionReportersAreWorkers
<1> SUFFICES ASSUME IInv, NEW t \in Threads, pc[t] = "visit"
             PROVE  lock = t /\ contexts[t] = <<>> /\ env[t]
    BY DEF SessionReportersAreWorkers
<1>1. lock = t /\ frames[t] # <<>>
    BY DEF IInv, JobsConsistent
<1>2. Top(t).ctx = 0
    BY <1>1 DEF IInv, JobsConsistent
<1>3. QED BY <1>1, <1>2, TopWithoutContext

LEMMA EmptyFromInv == IInv => MapEmptyWhenIdle
<1> SUFFICES ASSUME IInv, \A t \in Threads : frames[t] = <<>> /\ pc[t] = "run"
             PROVE  known = {} /\ lock = Nobody
    BY DEF MapEmptyWhenIdle
<1>1. known = {}
    BY DEF IInv, TypeOK, EntryMirrorsStack
<1>2. lock = Nobody
    BY DEF IInv, TypeOK, JobsConsistent
<1>3. QED BY <1>1, <1>2

\* Types: every variable of the session keeps its type.
THEOREM TypeCorrect == Spec => []TypeOK
<1>1. IInv => TypeOK
    BY DEF IInv
<1>2. QED BY <1>1, Invariance, PTL

\* A Java thread is never detached from the VM and a worker is attached
\* exactly while it is inside a callback.
THEOREM Attachment == Spec => []AttachedIffWorking
<1>1. IInv => AttachedIffWorking
    BY DEF IInv
<1>2. QED BY <1>1, Invariance, PTL

\* The context pointers kept on the stacks and by a thread that formats a
\* message are never dangling.
THEOREM ContextPointers == Spec => []ContextPointersValid
<1>1. IInv => ContextPointersValid
    BY DEF IInv
<1>2. QED BY <1>1, Invariance, PTL

\* The assertions of handleThrownException and vReportError hold: who goes
\* through the session is an attached worker without a native call.
THEOREM SessionReporters == Spec => []SessionReportersAreWorkers
<1>1. QED BY ReportersFromInv, Invariance, PTL

\* The assertion of ~JBindingSession holds: when every thread has left the
\* binding the map is empty.
THEOREM EmptyWhenIdle == Spec => []MapEmptyWhenIdle
<1>1. QED BY EmptyFromInv, Invariance, PTL
-----------------------------------------------------------------------------
(* The exceptions of workers.                                              *)

LEMMA AddOtherRecords ==
    ASSUME NEW c \in Context, NEW e \in Exceptions
    PROVE  e \in {AddOther(c, e).firstOther, AddOther(c, e).lastOther}
BY DEF Context, AddOther

LEMMA AddOwnKeepsOther ==
    ASSUME NEW c \in Context, NEW e \in Exceptions
    PROVE  /\ AddOwn(c, e).firstOther = c.firstOther
           /\ AddOwn(c, e).lastOther = c.lastOther
BY DEF Context, AddOwn

\* The thread a worker runs for is in the map and has a context.
LEMMA BossIsKnown ==
    ASSUME IInv, NEW w \in Workers, frames[w] # <<>>
    PROVE  /\ boss[w][1] \in known
           /\ Front(boss[w][1]) >= 1
           /\ contexts[boss[w][1]] # <<>>
<1> DEFINE b == boss[w][1]
           i == boss[w][2]
<1>1. b \in Threads /\ i \in 1..Len(frames[b]) /\ frames[b][i].kind = "call"
    BY DEF IInv, BossIsOpen
<1>2. frames[b] \in Seq(Frame) /\ contexts[b] \in Seq(Context)
    BY <1>1 DEF IInv, TypeOK
<1> HIDE DEF b, i
<1>3. frames[b] # <<>> /\ Len(frames[b]) \in 1..Len(frames[b])
    BY <1>1, <1>2
<1>4. b \in known /\ Front(b) = Top(b).ctx
    BY <1>1, <1>3 DEF IInv, EntryMirrorsStack
<1>5. frames[b][i].ctx <= Top(b).ctx
    BY <1>1, <1>2, <1>3 DEF IInv, FramesLinked, Top
<1>6. frames[b][i].ctx >= 1
    <2>1. CASE i = 1
        BY <2>1, <1>1, <1>3 DEF IInv, FramesLinked
    <2>2. CASE i # 1
        <3>1. i \in 2..Len(frames[b]) /\ i - 1 \in 1..Len(frames[b])
            BY <2>2, <1>1, <1>2
        <3>2. frames[b][i].ctx = frames[b][i-1].ctx + 1
            BY <3>1, <1>1 DEF IInv, FramesLinked
        <3>3. frames[b][i-1] \in Frame
            BY <3>1, <1>2
        <3>4. frames[b][i-1].ctx \in Nat
            BY <3>3 DEF Frame
        <3>5. QED BY <3>2, <3>4
    <2>3. QED BY <2>1, <2>2
<1>7. Front(b) >= 1
    <2>1. Top(b) \in Frame /\ frames[b][i] \in Frame
        BY <1>1, <1>2, <1>3 DEF Top
    <2>2. Top(b).ctx \in Nat /\ frames[b][i].ctx \in Nat
        BY <2>1 DEF Frame
    <2>3. QED BY <1>4, <1>5, <1>6, <2>2
<1>8. contexts[b] # <<>>
    BY <1>7, <1>2 DEF Front
<1>9. QED BY <1>4, <1>7, <1>8 DEF b

Recorded(t, e) ==
    \E i \in 1..Front(t) : e \in {contexts[t][i].firstOther, contexts[t][i].lastOther}

\* A recorded exception stays while the contexts keep what they have of other
\* threads.
LEMMA RecordedStays ==
    ASSUME NEW t \in Threads, NEW e \in Exceptions, Recorded(t, e),
           Front(t)' >= Front(t), Front(t) \in Nat, Front(t)' \in Nat,
           \A i \in 1..Front(t) : /\ contexts'[t][i].firstOther = contexts[t][i].firstOther
                                  /\ contexts'[t][i].lastOther = contexts[t][i].lastOther
    PROVE  Recorded(t, e)'
<1>1. PICK i \in 1..Front(t) : e \in {contexts[t][i].firstOther, contexts[t][i].lastOther}
    BY DEF Recorded
<1>2. i \in 1..(Front(t)') /\ e \in {contexts'[t][i].firstOther, contexts'[t][i].lastOther}
    BY <1>1
<1>3. QED BY <1>2 DEF Recorded

\* What the steps that are possible while a worker holds the lock leave alone.
OthersKept(t) ==
    /\ Front(t)' >= Front(t)
    /\ \A i \in 1..Front(t) : /\ contexts'[t][i].firstOther = contexts[t][i].firstOther
                              /\ contexts'[t][i].lastOther = contexts[t][i].lastOther

LEMMA PushKeepsOthers ==
    ASSUME IInv, NEW t \in Threads, RegisterPush(t), NEW u \in Threads
    PROVE  OthersKept(u)
<1>1. contexts[u] \in Seq(Context) /\ contexts \in [Threads -> Seq(Context)]
    BY DEF IInv, TypeOK
<1>2. contexts' = [contexts EXCEPT ![t] = Append(contexts[t], NewContext)]
    BY DEF RegisterPush
<1>3. CASE u = t
    BY <1>1, <1>2, <1>3 DEF OthersKept, Front
<1>4. CASE u # t
    BY <1>1, <1>2, <1>4 DEF OthersKept, Front
<1>5. QED BY <1>3, <1>4

LEMMA UpdateKeepsOthers ==
    ASSUME IInv, NEW t \in Threads, NEW i \in 1..Front(t), NEW c \in Context,
           contexts' = [contexts EXCEPT ![t][i] = c],
           c.firstOther = contexts[t][i].firstOther, c.lastOther = contexts[t][i].lastOther,
           NEW u \in Threads
    PROVE  OthersKept(u)
<1>1. contexts[u] \in Seq(Context) /\ contexts[t] \in Seq(Context)
      /\ contexts \in [Threads -> Seq(Context)]
    BY DEF IInv, TypeOK
<1>2. CASE u = t
    BY <1>1, <1>2 DEF OthersKept, Front
<1>3. CASE u # t
    BY <1>1, <1>3 DEF OthersKept, Front
<1>4. QED BY <1>2, <1>3

\* Steps that keep the jobs of the others and what contexts have recorded of
\* other threads keep what was delivered.
LEMMA DeliveredStays ==
    ASSUME IInv, IInv', WorkerExceptionDelivered,
           NEW w \in Workers,
           pc[w] = "visit", job[w] = job'[w], boss'[w] = boss[w],
           job[w].kind = "exception", boss[w][1] \notin job[w].todo,
           OthersKept(boss[w][1])
    PROVE  Recorded(boss[w][1], job[w].val)'
<1> DEFINE b == boss[w][1]
           e == job[w].val
<1>1. w \in Threads
    BY DEF Threads
<1>2. frames[w] # <<>> /\ e \in Exceptions
    BY <1>1 DEF IInv, JobsConsistent
<1>3. b \in Threads
    BY <1>2 DEF IInv, BossIsOpen
<1>4. Recorded(b, e)
    BY DEF WorkerExceptionDelivered, Recorded
<1>5. contexts[b] \in Seq(Context) /\ contexts'[b] \in Seq(Context)
    BY <1>3 DEF IInv, TypeOK
<1>6. Front(b) \in Nat /\ Len(contexts'[b]) \in Nat
    BY <1>5 DEF Front
<1> HIDE DEF b, e
<1>7. Front(b)' \in Nat
    <2>1. b' = b
        BY DEF b
    <2>2. QED BY <1>6, <2>1 DEF Front
<1>8. OthersKept(b)
    BY DEF b
<1>9. QED
    <2>1. b' = b /\ e' = e
        BY DEF b, e
    <2>2. Recorded(b, e)'
        BY <1>2, <1>3, <1>4, <1>6, <1>7, <1>8, <2>1, RecordedStays DEF OthersKept
    <2>3. QED BY <2>2 DEF b, e

\* The worker that holds the lock is the only one that can go through the map.
LEMMA DeliveryStep ==
    ASSUME IInv, IInv', WorkerExceptionDelivered, NEW t \in Threads, Step(t)
    PROVE  WorkerExceptionDelivered'
<1> SUFFICES ASSUME NEW w \in Workers,
                    pc'[w] = "visit", job'[w].kind = "exception",
                    boss'[w][1] \notin job'[w].todo
             PROVE  \E i \in 1..Len(contexts'[boss'[w][1]]) :
                        job'[w].val \in {contexts'[boss'[w][1]][i].firstOther,
                                         contexts'[boss'[w][1]][i].lastOther}
    BY DEF WorkerExceptionDelivered, Front
<1> DEFINE Goal == \E i \in 1..Len(contexts'[boss'[w][1]]) :
                        job'[w].val \in {contexts'[boss'[w][1]][i].firstOther,
                                         contexts'[boss'[w][1]][i].lastOther}
<1>1. w \in Threads /\ pc \in [Threads -> {"run", "push", "visit", "store"}]
      /\ job \in [Threads -> Job] /\ contexts \in [Threads -> Seq(Context)]
      /\ boss \in [Workers -> (Threads \union {Nobody}) \X Nat]
    BY DEF IInv, TypeOK, Threads
<1>2. lock' = w /\ w # Nobody
    BY <1>1, ThreadsAssumption DEF IInv, JobsConsistent
<1> DEFINE Same == pc[w] = "visit" /\ job[w] = job'[w] /\ boss'[w] = boss[w]
<1>3. ASSUME Same, OthersKept(boss[w][1])
      PROVE  Goal
    BY <1>3, DeliveredStays DEF Recorded, Front
<1>4. ASSUME Same PROVE boss[w][1] \in Threads
    BY <1>1, <1>4 DEF IInv, JobsConsistent, BossIsOpen
<1>5. CASE RegisterLookup(t) \/ Unregister(t) \/ BeginCallback(t) \/ EndCallback(t)
    BY <1>5, <1>2 DEF RegisterLookup, Unregister, BeginCallback, EndCallback
<1>6. CASE RegisterPush(t)
    <2>1. Same
        BY <1>6, <1>1 DEF RegisterPush
    <2>2. QED BY <1>6, <2>1, <1>3, <1>4, PushKeepsOthers
<1>7. ASSUME NEW e \in Exceptions, Throw(t, e)
      PROVE  Goal
    <2>1. CASE Top(t).ctx # 0
        <3>1. Same
            BY <1>7, <2>1 DEF Throw
        <3> DEFINE i == Top(t).ctx
        <3>2. i \in 1..Front(t)
            BY <1>7, <2>1, TopIsFront DEF Throw, Running
        <3>3. contexts[t][i] \in Context
            BY <3>2, <1>1 DEF Front
        <3>4. contexts' = [contexts EXCEPT ![t][i] = AddOwn(contexts[t][i], e)]
            BY <1>7, <2>1, <1>1 DEF Throw
        <3> HIDE DEF i
        <3>5. AddOwn(contexts[t][i], e) \in Context
            BY <3>3, RecordTypes
        <3>6. OthersKept(boss[w][1])
            BY <3>1, <3>2, <3>3, <3>4, <3>5, <1>4, AddOwnKeepsOther, UpdateKeepsOthers
        <3>7. QED BY <3>1, <3>6, <1>3
    <2>2. CASE Top(t).ctx = 0
        <3>1. lock' = t /\ job' = [job EXCEPT ![t] = [NoJob EXCEPT !.kind = "exception", !.val = e, !.todo = known]]
              /\ boss' = boss /\ frames[t] # <<>>
            BY <1>7, <2>2 DEF Throw, Running
        <3>2. w = t /\ job'[w].todo = known
            BY <3>1, <1>1, <1>2 DEF NoJob
        <3>3. QED BY <3>1, <3>2, BossIsKnown
    <2>3. QED BY <2>1, <2>2
<1>8. ASSUME NEW m \in Messages, ReportError(t, m)
      PROVE  Goal
    <2>1. contexts' = contexts /\ boss' = boss
        BY <1>8 DEF ReportError
    <2>2. CASE w = t
        <3>1. pc[t] = "run" /\ pc'[t] = "visit"
            BY <1>8, <2>2 DEF ReportError, Running
        <3>2. job'[t].kind # "exception"
            BY <1>8, <1>1, <3>1 DEF ReportError, NoJob
        <3>3. QED BY <3>2, <2>2
    <2>3. CASE w # t
        <3>1. Same
            BY <1>8, <2>3, <1>1 DEF ReportError
        <3>2. OthersKept(boss[w][1])
            BY <2>1, <1>1, <1>4, <3>1 DEF OthersKept, Front
        <3>3. QED BY <3>1, <3>2, <1>3
    <2>4. QED BY <2>2, <2>3
<1>9. ASSUME NEW u \in Threads, VisitException(t, u)
      PROVE  Goal
    <2>1. lock = t /\ lock' = lock /\ boss' = boss /\ pc' = pc
        BY <1>9 DEF VisitException, IInv, JobsConsistent
    <2>2. w = t /\ job' = [job EXCEPT ![w].todo = @ \ {u}] /\ job[w].kind = "exception"
          /\ pc[w] = "visit"
        BY <2>1, <1>9, <1>2 DEF VisitException
    <2> DEFINE b == boss[w][1]
               e == job[w].val
    <2>3. job[w] \in Job
        BY <1>1
    <2>4. job'[w].val = e /\ job'[w].todo = job[w].todo \ {u}
        BY <2>2, <2>3, <1>1 DEF Job
    <2>5. frames[w] # <<>> /\ e \in Exceptions
        BY <1>1, <2>2 DEF IInv, JobsConsistent
    <2>6. b \in Threads /\ contexts[b] # <<>> /\ Front(b) >= 1
        BY <2>5, BossIsKnown DEF IInv, BossIsOpen
    <2> HIDE DEF b, e
    <2>7. contexts[b] \in Seq(Context) /\ Front(b) \in 1..Len(contexts[b])
        BY <2>6, <1>1 DEF Front
    <2>8. CASE u = b
        <3>1. contexts' = [contexts EXCEPT ![b][Front(b)] = AddOther(contexts[b][Front(b)], e)]
            BY <2>8, <2>6, <1>9, <2>2, <1>1 DEF VisitException, e
        <3>2. contexts[b][Front(b)] \in Context
            BY <2>7
        <3>3. contexts'[b][Front(b)] = AddOther(contexts[b][Front(b)], e)
              /\ Len(contexts'[b]) = Len(contexts[b])
            BY <3>1, <2>6, <2>7, <1>1
        <3>4. e \in {contexts'[b][Front(b)].firstOther, contexts'[b][Front(b)].lastOther}
            BY <3>2, <3>3, <2>5, AddOtherRecords
        <3>5. \E i \in 1..Len(contexts'[b]) : e \in {contexts'[b][i].firstOther, contexts'[b][i].lastOther}
            BY <3>3, <3>4, <2>7
        <3>6. boss'[w][1] = b /\ job'[w].val = e
            BY <2>1, <2>4 DEF b
        <3>7. QED BY <3>5, <3>6, Zenon
    <2>9. CASE u # b
        <3>1. contexts'[b] = contexts[b]
            BY <2>6, <2>9, <1>9, <1>1 DEF VisitException
        <3>2. b \notin job[w].todo
            BY <2>9, <2>1, <2>4 DEF b
        <3>3. Recorded(b, e)
            BY <3>2, <2>2 DEF WorkerExceptionDelivered, Recorded, b, e
        <3>4. boss'[w][1] = b /\ job'[w].val = e
            BY <2>1, <2>4 DEF b
        <3>5. \E i \in 1..Len(contexts'[b]) : e \in {contexts'[b][i].firstOther, contexts'[b][i].lastOther}
            BY <3>1, <3>3 DEF Recorded, Front
        <3>6. QED BY <3>4, <3>5, Zenon
    <2>10. QED BY <2>8, <2>9
<1>10. ASSUME NEW u \in Threads, VisitMessage(t, u)
       PROVE  Goal
    <2>1. lock = t /\ lock' = lock
        BY <1>10 DEF VisitMessage, IInv, JobsConsistent
    <2>2. w = t /\ job' = [job EXCEPT ![w].todo = @ \ {u}, ![w].to = u, ![w].at = Front(u)]
          /\ job[w].kind = "message"
        BY <2>1, <1>10, <1>2 DEF VisitMessage
    <2>3. job[w] \in Job
        BY <1>1
    <2>4. job'[w].kind = "message"
        BY <2>2, <2>3, <1>1 DEF Job
    <2>5. QED BY <2>4
<1>11. CASE StoreMessage(t)
    <2>1. boss' = boss /\ lock' = lock
        BY <1>11 DEF StoreMessage
    <2>2. CASE w = t
        <3>1. lock = w /\ job[w].kind = "message" /\ job[w] \in Job
            BY <2>1, <2>2, <1>1, <1>2, <1>11 DEF StoreMessage, IInv, JobsConsistent
        <3>2. PICK m : job' = [job EXCEPT ![w].val = m]
            BY <2>2, <3>1, <1>11 DEF StoreMessage
        <3>3. job'[w].kind = "message"
            BY <3>1, <3>2, <1>1 DEF Job
        <3>4. QED BY <3>3
    <2>3. CASE w # t
        <3>1. Same
            BY <1>11, <2>3, <2>1, <1>1 DEF StoreMessage
        <3> DEFINE v == job[t].to
                   i == job[t].at
                   c == [contexts[v][i] EXCEPT !.msg = job[t].val]
        <3>2. v \in Threads /\ i \in 1..Front(v) /\ job[t].val \in Messages
            BY <1>11 DEF StoreMessage, IInv, JobsConsistent, ContextPointersValid
        <3>3. contexts' = [contexts EXCEPT ![v][i].msg = job[t].val]
            BY <1>11 DEF StoreMessage
        <3> HIDE DEF v, i
        <3>4. contexts[v][i] \in Context
            BY <3>2, <1>1 DEF Front
        <3>5. /\ c \in Context /\ c.firstOther = contexts[v][i].firstOther
              /\ c.lastOther = contexts[v][i].lastOther
              /\ contexts' = [contexts EXCEPT ![v][i] = c]
            <4>1. c \in Context
                BY <3>2, <3>4 DEF Context
            <4>2. contexts' = [contexts EXCEPT ![v][i] = c]
                BY <3>3
            <4>3. QED BY <4>1, <4>2, <3>4 DEF Context
        <3> HIDE DEF c
        <3>6. OthersKept(boss[w][1])
            BY <3>1, <3>2, <3>5, <1>4, UpdateKeepsOthers
        <3>7. QED BY <3>1, <3>6, <1>3
    <2>4. QED BY <2>2, <2>3
<1>12. CASE VisitDone(t)
    <2>1. lock' = Nobody
        BY <1>12 DEF VisitDone
    <2>2. QED BY <2>1, <1>2
<1>13. QED BY <1>5, <1>6, <1>7, <1>8, <1>9, <1>10, <1>11, <1>12 DEF Step, Visit

\* An exception that a callback throws on a worker always reaches an open
\* native call of the thread the worker runs for.
THEOREM WorkerExceptions == Spec => []WorkerExceptionDelivered
<1>1. Init => WorkerExceptionDelivered
    BY DEF Init, WorkerExceptionDelivered, Threads
<1>2. IInv /\ IInv' /\ WorkerExceptionDelivered /\ [Next]_vars => WorkerExceptionDelivered'
    <2>1. CASE UNCHANGED vars
        BY <2>1 DEF vars, tctx, WorkerExceptionDelivered, Front
    <2>2. CASE Next
        BY <2>2, DeliveryStep DEF Next
    <2>3. QED BY <2>1, <2>2
<1>3. QED BY <1>1, <1>2, Invariance, PTL DEF Spec

-----------------------------------------------------------------------------
(* JBindingSession implements NativeCallReport.                            *)

\* The destructor makes a summary of what was reported to the call.
LEMMA ThrownSummarises ==
    ASSUME NEW c \in Context, NEW h \in CallLog,
           c.first = Report!First(h.own), c.last = Report!LastOfMany(h.own),
           c.firstOther = Report!First(h.other), c.lastOther = Report!LastOfMany(h.other),
           IF h.msgs = {} THEN c.msg = NoMessage ELSE c.msg \in h.msgs
    PROVE  Thrown(c) \in Report!Summaries(h)
<1>1. h.own \in Seq(Exceptions) /\ h.other \in Seq(Exceptions) /\ h.msgs \subseteq Messages
    BY DEF CallLog
<1>2. \A s \in Seq(Exceptions) :
          /\ s = <<>> => Report!First(s) = NoException /\ Report!LastOfMany(s) = NoException
          /\ s # <<>> => Report!First(s) = s[1] /\ Report!First(s) # NoException
          /\ Len(s) > 1 => Report!LastOfMany(s) # NoException
          /\ ~(Len(s) > 1) => Report!LastOfMany(s) = NoException
    BY NullAssumption DEF Report!First, Report!LastOfMany
<1>3. c.first = NoException <=> h.own = <<>>
    BY <1>1, <1>2
<1>4. c.last = NoException <=> ~(Len(h.own) > 1)
    BY <1>1, <1>2
<1>5. c.firstOther = NoException <=> h.other = <<>>
    BY <1>1, <1>2
<1>6. c.lastOther # NoException => h.other # <<>>
    BY <1>1, <1>2
<1> DEFINE W(m) == [kind |-> "wrapped", msg |-> m, cause |-> c.first, lastCause |-> c.last,
                    potential |-> c.firstOther, lastPotential |-> c.lastOther]
<1>7. \A m : Report!Wrapped(m, h) = W(m)
    BY DEF Report!Wrapped
<1> HIDE DEF W
<1>8. CASE h.msgs # {}
    <2>1. c.msg \in h.msgs /\ c.msg # NoMessage
        BY <1>8, <1>1, NullAssumption
    <2>2. Thrown(c) = W(c.msg)
        BY <2>1 DEF Thrown, W
    <2>3. QED BY <1>7, <1>8, <2>1, <2>2 DEF Report!Summaries
<1>9. CASE h.msgs = {} /\ (h.other # <<>> \/ Len(h.own) > 1)
    <2>1. c.msg = NoMessage
        BY <1>9
    <2>2. Thrown(c) = W(DefaultMessage)
        BY <1>9, <1>4, <1>5, <2>1 DEF Thrown, W
    <2>3. QED BY <1>7, <1>9, <2>2 DEF Report!Summaries
<1>10. CASE h.msgs = {} /\ h.other = <<>> /\ ~(Len(h.own) > 1) /\ h.own # <<>>
    <2>1. /\ c.msg = NoMessage /\ c.first = h.own[1] /\ c.first # NoException
          /\ c.last = NoException /\ c.firstOther = NoException /\ c.lastOther = NoException
        BY <1>10, <1>1, <1>2, <1>3, <1>4, <1>5, <1>6
    <2>2. Thrown(c) = Report!Rethrown(h.own[1])
        BY <2>1 DEF Thrown
    <2>3. QED BY <1>10, <2>2 DEF Report!Summaries
<1>11. CASE h.msgs = {} /\ h.other = <<>> /\ ~(Len(h.own) > 1) /\ h.own = <<>>
    <2>1. /\ c.msg = NoMessage /\ c.first = NoException
          /\ c.last = NoException /\ c.firstOther = NoException /\ c.lastOther = NoException
        BY <1>11, <1>3, <1>4, <1>5, <1>6
    <2>2. Thrown(c) = Report!Returned
        BY <2>1 DEF Thrown
    <2>3. QED BY <1>11, <2>2 DEF Report!Summaries
<1>12. QED BY <1>8, <1>9, <1>10, <1>11

\* A native method that returns gives its caller such a summary.
LEMMA UnregisterReturns ==
    ASSUME IInv, NEW t \in Threads, Unregister(t)
    PROVE  Report!Return(t)
<1> DEFINE n == Front(t)
<1>1. frames[t] # <<>> /\ frames[t] \in Seq(Frame) /\ Top(t).kind = "call" /\ Top(t).ctx = n
    BY DEF Unregister, Running, IInv, TypeOK, EntryMirrorsStack
<1>2. n >= 1
    <2>1. Len(frames[t]) \in 1..Len(frames[t])
        BY <1>1
    <2>2. CASE Len(frames[t]) = 1
        BY <1>1, <2>2 DEF IInv, FramesLinked, Top
    <2>3. CASE Len(frames[t]) # 1
        <3> DEFINE m == Len(frames[t])
        <3>0. m \in Nat /\ m \in 1..m /\ m # 1
            BY <1>1, <2>1, <2>3
        <3> HIDE DEF m
        <3>1. PICK k \in 2..m : k = m
            BY <3>0
        <3> USE DEF m
        <3>2. k - 1 \in 1..Len(frames[t])
            BY <3>1
        <3>3. frames[t][k].kind = "call" /\ frames[t][k].ctx = n
            BY <1>1, <3>1 DEF Top
        <3>4. frames[t][k].ctx = frames[t][k-1].ctx + 1
            BY <3>1, <3>3 DEF IInv, FramesLinked
        <3>5. frames[t][k-1] \in Frame
            BY <1>1, <3>2
        <3>6. frames[t][k-1].ctx \in Nat
            BY <3>5 DEF Frame
        <3>7. QED BY <3>3, <3>4, <3>6
    <2>4. QED BY <2>2, <2>3
<1>3. contexts[t] \in Seq(Context) /\ log[t] \in Seq(CallLog) /\ Len(log[t]) = n
    BY DEF IInv, TypeOK, RecordsFirstAndLast
<1>4. n \in 1..Front(t) /\ contexts[t][n] \in Context /\ log[t][n] \in CallLog
    BY <1>2, <1>3 DEF Front
<1>5. LET c == contexts[t][n]
          h == log[t][n]
      IN /\ c.first = Report!First(h.own) /\ c.last = Report!LastOfMany(h.own)
         /\ c.firstOther = Report!First(h.other)
         /\ c.lastOther = Report!LastOfMany(h.other)
         /\ IF h.msgs = {} THEN c.msg = NoMessage ELSE c.msg \in h.msgs
    BY <1>4 DEF IInv, RecordsFirstAndLast
<1> HIDE DEF n
<1>6. Thrown(contexts[t][n]) \in Report!Summaries(log[t][n])
    BY <1>4, <1>5, ThrownSummarises
<1>7. result' = [result EXCEPT ![t] = Thrown(contexts[t][n])]
    BY <1>1 DEF Unregister
<1>8. log' = [log EXCEPT ![t] = SubSeq(log[t], 1, Len(log[t]) - 1)]
    BY DEF Unregister, Pop
<1>9. log[t] # <<>> /\ Report!Innermost(t) = n
    BY <1>3, <1>4 DEF Report!Innermost
<1>10. QED BY <1>6, <1>7, <1>8, <1>9 DEF Report!Return

LEMMA RefinementStep ==
    ASSUME IInv, NEW t \in Threads, Step(t)
    PROVE  Report!Next \/ UNCHANGED <<log, result>>
<1>1. CASE RegisterLookup(t) \/ BeginCallback(t) \/ EndCallback(t) \/ VisitDone(t)
    BY <1>1 DEF RegisterLookup, BeginCallback, EndCallback, VisitDone
<1>2. CASE RegisterPush(t)
    BY <1>2 DEF RegisterPush, Report!Next
<1>3. CASE Unregister(t)
    BY <1>3, UnregisterReturns DEF Report!Next
<1>4. CASE \E e \in Exceptions : Throw(t, e)
    BY <1>4 DEF Throw, Report!Next
<1>5. CASE (\E m \in Messages : ReportError(t, m)) \/ \E u \in Threads : VisitMessage(t, u)
    BY <1>5 DEF ReportError, VisitMessage
<1>6. CASE \E u \in Threads : VisitException(t, u)
    <2>1. PICK u \in Threads : VisitException(t, u)
        BY <1>6
    <2>2. job[t].val \in Exceptions
        BY <2>1 DEF VisitException, IInv, JobsConsistent
    <2>3. Report!Other(u, job[t].val) \/ UNCHANGED <<log, result>>
        BY <2>1 DEF VisitException
    <2>4. QED BY <2>2, <2>3 DEF Report!Next
<1>7. CASE StoreMessage(t)
    <2>1. job[t].val \in Messages /\ job[t].to \in Threads
        BY <1>7 DEF StoreMessage, IInv, JobsConsistent
    <2>2. Report!Error(job[t].to, job[t].at, job[t].val)
        BY <1>7 DEF StoreMessage
    <2>3. job[t].at \in 1..Len(log[job[t].to])
        BY <2>2 DEF Report!Error
    <2>4. QED BY <2>1, <2>2, <2>3 DEF Report!Next
<1>8. QED BY <1>1, <1>2, <1>3, <1>4, <1>5, <1>6, <1>7 DEF Step, Visit

\* Whatever callbacks, codec threads and nested native calls do, every native
\* method hands its caller a summary of what was reported to it.
THEOREM Refinement == Spec => ImplementsReport
<1>1. Init => Report!Init
    BY DEF Init
<1>2. IInv /\ [Next]_vars => [Report!Next]_<<log, result>>
    <2>1. CASE UNCHANGED vars
        BY <2>1 DEF vars
    <2>2. CASE Next
        BY <2>2, RefinementStep DEF Next
    <2>3. QED BY <2>1, <2>2
<1>3. QED BY <1>1, <1>2, Invariance, PTL DEF Spec, ImplementsReport, Report!Spec, Report!reportVars
=============================================================================
