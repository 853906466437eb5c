------------------------- MODULE SchedulerHistory -------------------------
(***************************************************************************)
(* The scheduler with a history variable: which live processes were        *)
(* created by a process that has ended since.  process->parent is not      *)
(* cleared when the parent ends, so such a pointer dangles, and it names   *)
(* whatever process is allocated in the same memory later.                 *)
(***************************************************************************)
EXTENDS Scheduler

VARIABLE orphan     \* orphan[c]: the process that created c has ended

hvars == <<vars, orphan>>

HInit == Init /\ orphan = [c \in Slot |-> FALSE]

HNext ==
    /\ Next
    /\ orphan' = [c \in Slot |->
                    /\ c \in Live /\ c \in Live'
                    /\ orphan[c] \/ (parent[c] \in Slot /\ parent[c] \notin Live')]

HSpec == HInit /\ [][HNext]_hvars

\* What syscall_wait and syscall_wait4 say when they decide to wait ("We have
\* a child process"): the process they found was created by the waiting
\* process.
WaiterHasOwnChild ==
    \A t \in Live : state[t] = "WAITCHILD" =>
        \E c \in Live : parent[c] = t /\ ~orphan[c]
=============================================================================
