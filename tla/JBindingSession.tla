--------------------------- MODULE JBindingSession ---------------------------
(***************************************************************************)
(* The bookkeeping that every native method and every callback of          *)
(* 7-Zip-JBinding goes through (jbinding-cpp/JBindingTools.h, .cpp): which *)
(* threads are known to a session, which of them had to be attached to the *)
(* Java VM, and which native calls learn of an exception or an error.      *)
(*                                                                         *)
(* A thread is a Java thread or a worker that a 7-Zip codec started.  Its  *)
(* stack is a sequence of frames: a "call" frame holds a                   *)
(* JNINativeCallContext, a "callback" frame a JNIEnvInstance.              *)
(*                                                                         *)
(* Granularity: one action per critical section of                         *)
(* _threadContextMapCriticalSection; what a thread does to its own entry   *)
(* outside the lock commutes with every other thread and joins the         *)
(* critical section before it, except the push of a context (other threads *)
(* iterate over that list) and the two accesses to _errorMessage (others   *)
(* write it), which are steps of their own.                                *)
(***************************************************************************)
EXTENDS Naturals, Sequences

CONSTANTS
    JavaThreads,    \* threads of the Java program
    Workers,        \* threads started by the 7-Zip codecs
    Exceptions,     \* Java exceptions
    Messages,       \* error messages
    NoException,    \* NULL jthrowable
    NoMessage,      \* NULL _errorMessage
    DefaultMessage, \* the text used when there is no error message
    GarbledMessage, \* the text formatted from a va_list that was used before
    Nobody,         \* no thread
    MaxDepth,       \* bound: frames on one stack
    MaxReports      \* bound: exceptions and error messages of one behaviour

Threads == JavaThreads \union Workers

ASSUME ThreadsAssumption == JavaThreads \intersect Workers = {} /\ Nobody \notin Threads
ASSUME BoundsAssumption == MaxDepth \in Nat /\ MaxReports \in Nat
ASSUME NullAssumption ==
    /\ NoException \notin Exceptions
    /\ NoMessage \notin Messages
    /\ DefaultMessage \notin Messages
    /\ GarbledMessage \in Messages

VARIABLES
    lock,        \* holder of _threadContextMapCriticalSection
    known,       \* the keys of _threadContextMap
    env,         \* env[t]: is ThreadContext._env set
    wasAttached, \* ThreadContext._wasAttached
    open,        \* ThreadContext._attachedThreadCount
    contexts,    \* ThreadContext._javaNativeContext, its front last
    frames,      \* the C++ stack of each thread
    boss,        \* the native call whose codec runs the worker
    pc, job,     \* progress of each thread inside an operation
    reports,     \* number of exceptions and messages so far
    log,         \* history: everything reported to each open native call
    result       \* what the last native call of each thread gave to Java

tctx == <<known, env, wasAttached, open>>
vars == <<lock, tctx, contexts, frames, boss, pc, job, reports, log, result>>

NoJob == [kind |-> "none", val |-> NoMessage, todo |-> {}, to |-> Nobody, at |-> 0]
NoCall == <<Nobody, 0>>

NewContext == [first |-> NoException, last |-> NoException,
               firstOther |-> NoException, lastOther |-> NoException,
               msg |-> NoMessage]

Report == INSTANCE NativeCallReport WITH calls <- log

Top(t) == frames[t][Len(frames[t])]
Pop(s) == SubSeq(s, 1, Len(s) - 1)
\* The front of t's list, the context that hears of other threads.
Front(t) == Len(contexts[t])

\* The C++ code that a thread may continue with.
Running(t) == pc[t] = "run" /\ frames[t] # <<>>

-----------------------------------------------------------------------------
(* JNINativeCallContext: what is recorded.                                 *)

\* exceptionThrown
AddOwn(c, e) == IF c.first = NoException THEN [c EXCEPT !.first = e]
                                         ELSE [c EXCEPT !.last = e]

\* exceptionThrownInOtherThread
AddOther(c, e) == IF c.firstOther = NoException THEN [c EXCEPT !.firstOther = e]
                                                ELSE [c EXCEPT !.lastOther = e]

\* Mutant: an exception of another thread does not prevent the rethrow.
Thrown_ignoresOthers(c) ==
    IF c.msg = NoMessage /\ c.first # NoException /\ c.last = NoException
    THEN Report!Rethrown(c.first)
    ELSE IF c.msg # NoMessage \/ c.first # NoException \/ c.firstOther # NoException
    THEN [kind |-> "wrapped",
          msg |-> IF c.msg = NoMessage THEN DefaultMessage ELSE c.msg,
          cause |-> c.first, lastCause |-> c.last,
          potential |-> c.firstOther, lastPotential |-> c.lastOther]
    ELSE Report!Returned

\* The destructor: what the Java caller sees.
Thrown(c) ==
    IF /\ c.msg = NoMessage /\ c.first # NoException /\ c.last = NoException
       /\ c.firstOther = NoException /\ c.lastOther = NoException
    THEN Report!Rethrown(c.first)
    ELSE IF \/ c.msg # NoMessage \/ c.first # NoException \/ c.last # NoException
            \/ c.firstOther # NoException \/ c.lastOther # NoException
    THEN [kind |-> "wrapped",
          msg |-> IF c.msg = NoMessage THEN DefaultMessage ELSE c.msg,
          cause |-> c.first, lastCause |-> c.last,
          potential |-> c.firstOther, lastPotential |-> c.lastOther]
    ELSE Report!Returned

-----------------------------------------------------------------------------
Init ==
    /\ lock = Nobody
    /\ known = {}
    /\ env = [t \in Threads |-> FALSE]
    /\ wasAttached = [t \in Threads |-> FALSE]
    /\ open = [t \in Threads |-> 0]
    /\ contexts = [t \in Threads |-> <<>>]
    /\ frames = [t \in Threads |-> <<>>]
    /\ boss = [w \in Workers |-> NoCall]
    /\ pc = [t \in Threads |-> "run"]
    /\ job = [t \in Threads |-> NoJob]
    /\ reports = 0
    /\ Report!Init

-----------------------------------------------------------------------------
(* Native calls.                                                           *)

\* Java calls a native method: from its own code or from inside a callback.
\* registerNativeContext looks the thread up, which creates its entry.
RegisterLookup(t) ==
    /\ pc[t] = "run" /\ lock = Nobody /\ Len(frames[t]) < MaxDepth
    /\ IF frames[t] = <<>> THEN t \in JavaThreads ELSE Top(t).kind = "callback"
    /\ known' = known \union {t}
    /\ pc' = [pc EXCEPT ![t] = "push"]
    /\ UNCHANGED <<lock, env, wasAttached, open, contexts, frames, boss, job,
                   reports, log, result>>

\* push_front, after the lock was released.
RegisterPush(t) ==
    /\ pc[t] = "push"
    /\ contexts' = [contexts EXCEPT ![t] = Append(@, NewContext)]
    /\ frames' = [frames EXCEPT ![t] =
                    Append(@, [kind |-> "call", ctx |-> Front(t) + 1, cbs |-> open[t]])]
    /\ pc' = [pc EXCEPT ![t] = "run"]
    /\ Report!Enter(t)
    /\ UNCHANGED <<lock, tctx, boss, job, reports>>

\* Mutant: the context is unregistered without the lock.
Unregister_unlocked(t) ==
    /\ Running(t) /\ Top(t).kind = "call"
    /\ \A w \in Workers : boss[w] # <<t, Len(frames[t])>>
    /\ result' = [result EXCEPT ![t] = Thrown(contexts[t][Top(t).ctx])]
    /\ contexts' = [contexts EXCEPT ![t] = Pop(@)]
    /\ log' = [log EXCEPT ![t] = Pop(@)]
    /\ frames' = [frames EXCEPT ![t] = Pop(@)]
    /\ known' = IF Front(t) = 1 /\ open[t] = 0 THEN known \ {t} ELSE known
    /\ UNCHANGED <<lock, env, wasAttached, open, boss, pc, job, reports>>

\* Mutant: the entry of the thread stays in the map.
Unregister_keepsEntry(t) ==
    /\ Running(t) /\ Top(t).kind = "call" /\ lock = Nobody
    /\ \A w \in Workers : boss[w] # <<t, Len(frames[t])>>
    /\ result' = [result EXCEPT ![t] = Thrown(contexts[t][Top(t).ctx])]
    /\ contexts' = [contexts EXCEPT ![t] = Pop(@)]
    /\ log' = [log EXCEPT ![t] = Pop(@)]
    /\ frames' = [frames EXCEPT ![t] = Pop(@)]
    /\ UNCHANGED <<lock, tctx, boss, pc, job, reports>>

\* The native method returns.  7-Zip joins its threads before a call ends.
\* The destructor unregisters the context and throws what it recorded.
Unregister(t) ==
    /\ Running(t) /\ Top(t).kind = "call" /\ lock = Nobody
    /\ \A w \in Workers : boss[w] # <<t, Len(frames[t])>>
    /\ result' = [result EXCEPT ![t] = Thrown(contexts[t][Top(t).ctx])]
    /\ contexts' = [contexts EXCEPT ![t] = Pop(@)]
    /\ log' = [log EXCEPT ![t] = Pop(@)]
    /\ frames' = [frames EXCEPT ![t] = Pop(@)]
    /\ known' = IF Front(t) = 1 /\ open[t] = 0 THEN known \ {t} ELSE known
    /\ UNCHANGED <<lock, env, wasAttached, open, boss, pc, job, reports>>

-----------------------------------------------------------------------------
(* Callbacks.                                                              *)

\* A codec thread enters the binding for the first time: it works for some
\* native call that is still open.
Employed(t) ==
    IF frames[t] = <<>>
    THEN /\ t \in Workers
         /\ \E b \in Threads : \E i \in DOMAIN frames[b] :
               /\ b # t
               /\ frames[b][i].kind = "call"
               /\ boss' = [boss EXCEPT ![t] = <<b, i>>]
    ELSE UNCHANGED boss

\* Mutant: a thread that came from Java is attached too.
BeginCallback_alwaysAttaches(t) ==
    /\ pc[t] = "run" /\ lock = Nobody /\ Len(frames[t]) < MaxDepth
    /\ Employed(t)
    /\ known' = known \union {t}
    /\ LET attach == ~env[t]
       IN /\ env' = [env EXCEPT ![t] = @ \/ attach]
          /\ wasAttached' = [wasAttached EXCEPT ![t] = @ \/ attach]
    /\ open' = [open EXCEPT ![t] = @ + 1]
    /\ frames' = [frames EXCEPT ![t] =
                    Append(@, [kind |-> "callback", ctx |-> Front(t), cbs |-> open[t] + 1])]
    /\ UNCHANGED <<lock, contexts, pc, job, reports, log, result>>

\* beginCallback
BeginCallback(t) ==
    /\ pc[t] = "run" /\ lock = Nobody /\ Len(frames[t]) < MaxDepth
    /\ Employed(t)
    /\ known' = known \union {t}
    /\ LET attach == contexts[t] = <<>> /\ ~env[t]
       IN /\ env' = [env EXCEPT ![t] = @ \/ attach]
          /\ wasAttached' = [wasAttached EXCEPT ![t] = @ \/ attach]
    /\ open' = [open EXCEPT ![t] = @ + 1]
    /\ frames' = [frames EXCEPT ![t] =
                    Append(@, [kind |-> "callback", ctx |-> Front(t), cbs |-> open[t] + 1])]
    /\ UNCHANGED <<lock, contexts, pc, job, reports, log, result>>

\* Mutant: every callback of an attached thread detaches it.
EndCallback_detachesInner(t) ==
    /\ Running(t) /\ Top(t).kind = "callback" /\ lock = Nobody
    /\ LET detach == wasAttached[t]
       IN /\ known' = IF detach THEN known \ {t} ELSE known
          /\ env' = [env EXCEPT ![t] = @ /\ ~detach]
          /\ wasAttached' = [wasAttached EXCEPT ![t] = @ /\ ~detach]
          /\ contexts' = [contexts EXCEPT ![t] = IF detach THEN <<>> ELSE @]
    /\ open' = [open EXCEPT ![t] = @ - 1]
    /\ frames' = [frames EXCEPT ![t] = Pop(@)]
    /\ boss' = IF Len(frames[t]) = 1 /\ t \in Workers
               THEN [boss EXCEPT ![t] = NoCall] ELSE boss
    /\ UNCHANGED <<lock, pc, job, reports, log, result>>

\* endCallback: the outermost callback of an attached thread detaches it and
\* erases its entry.
EndCallback(t) ==
    /\ Running(t) /\ Top(t).kind = "callback" /\ lock = Nobody
    /\ LET detach == open[t] = 1 /\ wasAttached[t]
       IN /\ known' = IF detach THEN known \ {t} ELSE known
          /\ env' = [env EXCEPT ![t] = @ /\ ~detach]
          /\ wasAttached' = [wasAttached EXCEPT ![t] = @ /\ ~detach]
          /\ contexts' = [contexts EXCEPT ![t] = IF detach THEN <<>> ELSE @]
    /\ open' = [open EXCEPT ![t] = @ - 1]
    /\ frames' = [frames EXCEPT ![t] = Pop(@)]
    /\ boss' = IF Len(frames[t]) = 1 /\ t \in Workers
               THEN [boss EXCEPT ![t] = NoCall] ELSE boss
    /\ UNCHANGED <<lock, pc, job, reports, log, result>>

-----------------------------------------------------------------------------
(* Exceptions and error messages.                                          *)

\* A Java method called by t threw e, and exceptionCheck finds it: a frame
\* that has a context records it there, a frame that has none hands it to
\* the session, which takes the lock to go through the known threads.
Throw(t, e) ==
    /\ Running(t) /\ reports < MaxReports
    /\ reports' = reports + 1
    /\ LET c == Top(t).ctx IN
       IF c # 0
       THEN /\ contexts' = [contexts EXCEPT ![t][c] = AddOwn(@, e)]
            /\ Report!Own(t, e)
            /\ UNCHANGED <<lock, pc, job>>
       ELSE /\ lock = Nobody
            /\ lock' = t
            /\ pc' = [pc EXCEPT ![t] = "visit"]
            /\ job' = [job EXCEPT ![t] = 
                         [NoJob EXCEPT !.kind = "exception", !.val = e, !.todo = known]]
            /\ UNCHANGED <<contexts, log, result>>
    /\ UNCHANGED <<tctx, frames, boss>>

\* Mutant: only threads with an environment of their own are notified.
VisitException_attachedOnly(t, u) ==
    /\ pc[t] = "visit" /\ job[t].kind = "exception" /\ u \in job[t].todo
    /\ job' = [job EXCEPT ![t].todo = @ \ {u}]
    /\ IF env[u] /\ contexts[u] # <<>>
       THEN /\ contexts' = [contexts EXCEPT ![u][Front(u)] = AddOther(@, job[t].val)]
            /\ Report!Other(u, job[t].val)
       ELSE UNCHANGED <<contexts, log, result>>
    /\ UNCHANGED <<lock, tctx, frames, boss, pc, reports>>

\* handleThrownException, one thread of the map.
VisitException(t, u) ==
    /\ pc[t] = "visit" /\ job[t].kind = "exception" /\ u \in job[t].todo
    /\ job' = [job EXCEPT ![t].todo = @ \ {u}]
    /\ IF contexts[u] # <<>>
       THEN /\ contexts' = [contexts EXCEPT ![u][Front(u)] = AddOther(@, job[t].val)]
            /\ Report!Other(u, job[t].val)
       ELSE UNCHANGED <<contexts, log, result>>
    /\ UNCHANGED <<lock, tctx, frames, boss, pc, reports>>

\* reportError: straight to the context of the frame, without the lock, or
\* through the session to the front context of every thread.  The message is
\* dropped when there is one already; otherwise it is formatted, and stored
\* by the next step.
ReportError(t, m) ==
    /\ Running(t) /\ reports < MaxReports
    /\ reports' = reports + 1
    /\ LET c == Top(t).ctx IN
       IF c # 0
       THEN /\ IF contexts[t][c].msg = NoMessage
               THEN /\ pc' = [pc EXCEPT ![t] = "store"]
                    /\ job' = [job EXCEPT ![t] =
                                 [kind |-> "message", val |-> m, todo |-> {}, to |-> t, at |-> c]]
               ELSE UNCHANGED <<pc, job>>
            /\ UNCHANGED lock
       ELSE /\ lock = Nobody
            /\ lock' = t
            /\ pc' = [pc EXCEPT ![t] = "visit"]
            /\ job' = [job EXCEPT ![t] =
                         [NoJob EXCEPT !.kind = "message", !.val = m, !.todo = known]]
    /\ UNCHANGED <<tctx, contexts, frames, boss, log, result>>

\* Mutant: a thread that needs no message is not passed over.
VisitMessage_staysAtFull(t, u) ==
    /\ pc[t] = "visit" /\ job[t].kind = "message" /\ u \in job[t].todo
    /\ IF contexts[u] # <<>> /\ contexts[u][Front(u)].msg = NoMessage
       THEN /\ job' = [job EXCEPT ![t].todo = @ \ {u}, ![t].to = u, ![t].at = Front(u)]
            /\ pc' = [pc EXCEPT ![t] = "store"]
       ELSE UNCHANGED <<job, pc>>
    /\ UNCHANGED <<lock, tctx, contexts, frames, boss, reports, log, result>>

\* JBindingSession::vReportError, one thread of the map.
VisitMessage(t, u) ==
    /\ pc[t] = "visit" /\ job[t].kind = "message" /\ u \in job[t].todo
    /\ job' = [job EXCEPT ![t].todo = @ \ {u}, ![t].to = u, ![t].at = Front(u)]
    /\ pc' = IF contexts[u] # <<>> /\ contexts[u][Front(u)].msg = NoMessage
             THEN [pc EXCEPT ![t] = "store"] ELSE pc
    /\ UNCHANGED <<lock, tctx, contexts, frames, boss, reports, log, result>>

\* _errorMessage = the text formatted before.  The session passes the same
\* va_list on to the next context: what that formats is undefined when the
\* message has arguments.
StoreMessage(t) ==
    /\ pc[t] = "store"
    /\ contexts' = [contexts EXCEPT ![job[t].to][job[t].at].msg = job[t].val]
    /\ Report!Error(job[t].to, job[t].at, job[t].val)
    /\ IF lock = t THEN /\ pc' = [pc EXCEPT ![t] = "visit"]
                        /\ \E m \in {job[t].val, GarbledMessage} :
                              job' = [job EXCEPT ![t].val = m]
                   ELSE /\ pc' = [pc EXCEPT ![t] = "run"]
                        /\ job' = [job EXCEPT ![t] = NoJob]
    /\ UNCHANGED <<lock, tctx, frames, boss, reports>>

\* Every thread of the map was visited: the lock is released.
VisitDone(t) ==
    /\ pc[t] = "visit" /\ job[t].todo = {}
    /\ lock' = Nobody
    /\ pc' = [pc EXCEPT ![t] = "run"]
    /\ job' = [job EXCEPT ![t] = NoJob]
    /\ UNCHANGED <<tctx, contexts, frames, boss, reports, log, result>>

-----------------------------------------------------------------------------
\* The steps of a thread that goes through the map or stores a message.
Visit(t) == \/ \E u \in Threads : VisitException(t, u) \/ VisitMessage(t, u)
            \/ StoreMessage(t)
            \/ VisitDone(t)

Step(t) == \/ RegisterLookup(t) \/ RegisterPush(t) \/ Unregister(t)
           \/ BeginCallback(t) \/ EndCallback(t)
           \/ \E e \in Exceptions : Throw(t, e)
           \/ \E m \in Messages : ReportError(t, m)
           \/ Visit(t)

Next == \E t \in Threads : Step(t)

Spec == Init /\ [][Next]_vars

\* A thread inside the binding keeps running: it pushes its context, ends its
\* iteration and stores its message without waiting for anybody.
Fairness == \A t \in Threads : WF_vars(RegisterPush(t)) /\ WF_vars(Visit(t))

FairSpec == Spec /\ Fairness
-----------------------------------------------------------------------------
(* Properties.                                                             *)

Context == [first : Exceptions \union {NoException}, last : Exceptions \union {NoException},
            firstOther : Exceptions \union {NoException},
            lastOther : Exceptions \union {NoException},
            msg : Messages \union {NoMessage}]

Frame == [kind : {"call", "callback"}, ctx : Nat, cbs : Nat]

CallLog == [own : Seq(Exceptions), other : Seq(Exceptions), msgs : SUBSET Messages]

Job == [kind : {"none", "exception", "message"},
        val : Exceptions \union Messages \union {NoMessage},
        todo : SUBSET Threads, to : Threads \union {Nobody}, at : Nat]

\* The variables of the session and of its threads have their types.
TypeOK ==
    /\ lock \in Threads \union {Nobody}
    /\ known \subseteq Threads
    /\ env \in [Threads -> BOOLEAN]
    /\ wasAttached \in [Threads -> BOOLEAN]
    /\ open \in [Threads -> Nat]
    /\ contexts \in [Threads -> Seq(Context)]
    /\ frames \in [Threads -> Seq(Frame)]
    /\ boss \in [Workers -> (Threads \union {Nobody}) \X Nat]
    /\ pc \in [Threads -> {"run", "push", "visit", "store"}]
    /\ job \in [Threads -> Job]
    /\ reports \in Nat
    /\ log \in [Threads -> Seq(CallLog)]

\* A frame adds its own context or callback to those of the frame below, so
\* both numbers grow with the depth; a stack starts with a native call on a
\* Java thread and with a callback on a worker.
FramesLinked ==
    \A t \in Threads :
        /\ frames[t] # <<>> =>
              IF t \in JavaThreads
              THEN frames[t][1].kind = "call" /\ frames[t][1].ctx = 1 /\ frames[t][1].cbs = 0
              ELSE frames[t][1].kind = "callback" /\ frames[t][1].ctx = 0 /\ frames[t][1].cbs = 1
        /\ \A i \in 2..Len(frames[t]) :
              IF frames[t][i].kind = "call"
              THEN frames[t][i].ctx = frames[t][i-1].ctx + 1 /\ frames[t][i].cbs = frames[t][i-1].cbs
              ELSE frames[t][i].ctx = frames[t][i-1].ctx /\ frames[t][i].cbs = frames[t][i-1].cbs + 1
        /\ \A i, j \in 1..Len(frames[t]) :
              i <= j => frames[t][i].ctx <= frames[t][j].ctx /\ frames[t][i].cbs <= frames[t][j].cbs

\* The entry of a thread mirrors its stack: as many contexts as native calls,
\* as many open callbacks as JNIEnvInstances, and no entry without frames.
\* (What unregisterNativeContext and endCallback rely on when they erase it.)
EntryMirrorsStack ==
    \A t \in Threads :
        IF frames[t] = <<>>
        THEN /\ open[t] = 0 /\ contexts[t] = <<>>
             /\ t \in known <=> pc[t] = "push"
        ELSE /\ t \in known
             /\ open[t] = Top(t).cbs
             /\ Front(t) = Top(t).ctx

\* A thread is attached to the VM exactly while it is a worker inside a
\* callback: a Java thread is never detached, and a worker that leaves the
\* binding is never left attached.
AttachedIffWorking ==
    \A t \in Threads :
        /\ wasAttached[t] = env[t]
        /\ env[t] <=> t \in Workers /\ frames[t] # <<>>

\* The pointers that outlive a critical section stay valid: the context kept
\* by a JNIEnvInstance on the stack is still registered, and so is the one
\* whose message is being formatted, on whatever thread it lives.
ContextPointersValid ==
    \A t \in Threads :
        /\ \A i \in 1..Len(frames[t]) : frames[t][i].ctx <= Front(t)
        /\ pc[t] = "store" => job[t].at \in 1..Front(job[t].to)

\* A thread that hands an exception or a message to the session has no native
\* call of its own and an environment to create references with: the
\* assertions of handleThrownException and vReportError.
SessionReportersAreWorkers ==
    \A t \in Threads : pc[t] = "visit" =>
        /\ lock = t
        /\ contexts[t] = <<>> /\ env[t]

\* Who holds the lock, and what a thread in the middle of an operation is
\* about to do with it.
JobsConsistent ==
    \A t \in Threads :
        /\ lock = t => pc[t] \in {"visit", "store"} /\ Top(t).ctx = 0
        /\ pc[t] = "visit" => lock = t
        /\ pc[t] \in {"visit", "store"} => frames[t] # <<>> /\ job[t].kind # "none"
        /\ pc[t] = "visit" /\ job[t].kind = "exception" => job[t].val \in Exceptions
        /\ pc[t] = "store" =>
              /\ job[t].kind = "message" /\ job[t].val \in Messages /\ job[t].to \in Threads
              /\ lock # t => job[t].to = t
        /\ pc[t] = "visit" /\ job[t].kind = "message" => job[t].val \in Messages
        /\ pc[t] = "push" =>
              IF frames[t] = <<>> THEN t \in JavaThreads ELSE Top(t).kind = "callback"

\* When no thread is inside the binding the map is empty: the assertion of
\* ~JBindingSession, whichever threads came and went.
MapEmptyWhenIdle ==
    (\A t \in Threads : frames[t] = <<>> /\ pc[t] = "run") => known = {} /\ lock = Nobody

\* The native call a worker runs for is open as long as the worker is inside
\* a callback.
BossIsOpen ==
    \A w \in Workers : frames[w] # <<>> =>
        /\ boss[w][1] \in Threads
        /\ boss[w][2] \in 1..Len(frames[boss[w][1]])
        /\ frames[boss[w][1]][boss[w][2]].kind = "call"

\* An exception thrown on a worker is never dropped: once the thread of the
\* call it runs for was visited, an open call of that thread has it recorded.
WorkerExceptionDelivered ==
    \A w \in Workers :
        /\ pc[w] = "visit" /\ job[w].kind = "exception"
        /\ boss[w][1] \notin job[w].todo
        => \E i \in 1..Front(boss[w][1]) :
              LET c == contexts[boss[w][1]][i]
              IN job[w].val \in {c.firstOther, c.lastOther}

\* What a context has recorded is the first and the last of all that was
\* reported to it since its native call began.
RecordsFirstAndLast ==
    \A t \in Threads : Len(log[t]) = Front(t) /\ \A i \in 1..Front(t) :
        LET c == contexts[t][i]
            h == log[t][i]
        IN /\ c.first = Report!First(h.own) /\ c.last = Report!LastOfMany(h.own)
           /\ c.firstOther = Report!First(h.other)
           /\ c.lastOther = Report!LastOfMany(h.other)
           /\ IF h.msgs = {} THEN c.msg = NoMessage ELSE c.msg \in h.msgs

\* The inductive invariant.
IInv == /\ TypeOK
        /\ FramesLinked
        /\ EntryMirrorsStack
        /\ AttachedIffWorking
        /\ ContextPointersValid
        /\ JobsConsistent
        /\ BossIsOpen
        /\ RecordsFirstAndLast

\* Every native call returns a summary of what was reported to it.
ImplementsReport == Report!Spec

\* Going through the map ends and gives the lock back, for the other threads.
LockIsReleased == \A t \in Threads : lock = t ~> lock # t

=============================================================================
