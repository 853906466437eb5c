---------------------------- MODULE PipeHistory ----------------------------
(***************************************************************************)
(* The pipe with two history variables, each with a specification that     *)
(* records it: the ends that have been open in several threads at once,    *)
(* and the threads that a signal has woken from the halt of the call they  *)
(* are in.                                                                 *)
(***************************************************************************)
EXTENDS Pipe

VARIABLES shared, interrupted

HInit == Init /\ shared = {} /\ interrupted = {}

Several(threads) == \E t, u \in threads : t # u

HNext ==
    /\ Next
    /\ shared' = shared \cup {end \in {"read", "write"} :
                    Several(IF end = "read" THEN readers' ELSE writers')}
    /\ UNCHANGED interrupted

HSpec == HInit /\ [][HNext]_<<vars, shared, interrupted>>

Interrupted ==
    {t \in Thread : /\ pc[t] \in {"first", "later"} /\ state[t] = "WAITIO"
                    /\ pending'[t] > pending[t]}

SignalNext ==
    /\ Next
    /\ interrupted' = {t \in interrupted \cup Interrupted : pc'[t] # "user"}
    /\ UNCHANGED shared

SignalSpec == HInit /\ [][SignalNext]_<<vars, shared, interrupted>>

-----------------------------------------------------------------------------
\* No wake-up is missed by a thread that blocked in the first pass, as long as no
\* other thread has had the same end open: while it waits there is nothing to
\* read, or no room or no reader.  So a reader and a writer cannot block each other
\* this way, whatever is opened, closed, killed and signalled around them.
FirstPassMissesNoWakeup ==
    \A t \in Thread :
        /\ pc[t] = "first" /\ state[t] = "WAITIO"
        /\ (IF t \in readers THEN "read" ELSE "write") \notin shared
        => ~Ready(t)

\* What thread_signal says of a thread it finds in TS_WAITIO ("it should wake
\* and it should return -EINTR"): the call does not go on to wait again.
SignalEndsTheCall == \A t \in interrupted : pc[t] # "block"
=============================================================================
