-------------------------- MODULE NativeCallReport --------------------------
(***************************************************************************)
(* What a native method of 7-Zip-JBinding promises to its Java caller.     *)
(*                                                                         *)
(* A thread runs a stack of native calls (a Java callback may call a       *)
(* native method again).  While a call is open, exceptions thrown by Java  *)
(* callbacks on the same thread, exceptions thrown by callbacks on other   *)
(* threads and error messages are reported to it.  When the call returns,  *)
(* the Java caller gets one summary of everything reported: the exception  *)
(* itself when exactly one was thrown, a SevenZipException with up to four *)
(* causes otherwise.                                                       *)
(*                                                                         *)
(* This is the abstract specification that JBindingSession implements.     *)
(***************************************************************************)
EXTENDS Naturals, Sequences

CONSTANTS
    Threads,        \* every thread that runs code of the session
    Exceptions,     \* Java exceptions
    Messages,       \* texts passed to reportError
    NoException,    \* the NULL jthrowable
    DefaultMessage  \* "One or multiple exceptions without specific ..."

VARIABLES
    calls,   \* calls[t]: the open native calls of thread t, innermost last
    result   \* result[t]: what the last native call of t handed to Java

reportVars == <<calls, result>>

EmptyCall == [own |-> <<>>, other |-> <<>>, msgs |-> {}]

First(s) == IF s = <<>> THEN NoException ELSE s[1]

\* The last of several: a single exception is only "first".
LastOfMany(s) == IF Len(s) < 2 THEN NoException ELSE s[Len(s)]

Returned == [kind |-> "returned", msg |-> DefaultMessage, cause |-> NoException,
             lastCause |-> NoException, potential |-> NoException,
             lastPotential |-> NoException]

Rethrown(e) == [Returned EXCEPT !.kind = "rethrown", !.cause = e]

Wrapped(msg, c) ==
    [kind |-> "wrapped", msg |-> msg, cause |-> First(c.own),
     lastCause |-> LastOfMany(c.own), potential |-> First(c.other),
     lastPotential |-> LastOfMany(c.other)]

\* What the caller of c may be handed.
Summaries(c) ==
    IF c.msgs # {} THEN {Wrapped(m, c) : m \in c.msgs}
    ELSE IF c.other # <<>> \/ Len(c.own) > 1 THEN {Wrapped(DefaultMessage, c)}
    ELSE IF c.own # <<>> THEN {Rethrown(c.own[1])}
    ELSE {Returned}

Innermost(t) == Len(calls[t])

Init == /\ calls = [t \in Threads |-> <<>>]
        /\ result = [t \in Threads |-> Returned]

Enter(t) == /\ calls' = [calls EXCEPT ![t] = Append(@, EmptyCall)]
            /\ UNCHANGED result

\* A callback of t's innermost call throws e on thread t.
Own(t, e) ==
    /\ calls[t] # <<>>
    /\ calls' = [calls EXCEPT ![t][Innermost(t)].own = Append(@, e)]
    /\ UNCHANGED result

\* A callback on a thread without native calls throws e: it is potentially a
\* cause of the failure of t's innermost call.
Other(t, e) ==
    /\ calls[t] # <<>>
    /\ calls' = [calls EXCEPT ![t][Innermost(t)].other = Append(@, e)]
    /\ UNCHANGED result

\* Somebody reports an error message to an open call of t.
Error(t, i, m) ==
    /\ i \in 1..Len(calls[t])
    /\ calls' = [calls EXCEPT ![t][i].msgs = @ \union {m}]
    /\ UNCHANGED result

Return(t) ==
    /\ calls[t] # <<>>
    /\ \E s \in Summaries(calls[t][Innermost(t)]) : result' = [result EXCEPT ![t] = s]
    /\ calls' = [calls EXCEPT ![t] = SubSeq(@, 1, Len(@) - 1)]

Next == \E t \in Threads :
            \/ Enter(t)
            \/ \E e \in Exceptions : Own(t, e) \/ Other(t, e)
            \/ \E i \in 1..Len(calls[t]), m \in Messages : Error(t, i, m)
            \/ Return(t)

Spec == Init /\ [][Next]_reportVars
=============================================================================
