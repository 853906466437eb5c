------------------------------- MODULE MCIpc -------------------------------
(***************************************************************************)
(* What threads wait for in the kernel besides memory and children: pipes, *)
(* sockets, messages, files and time.  The four modules share no state, so *)
(* a behaviour is one of the part that part names, and the others stay in  *)
(* their initial states.                                                   *)
(***************************************************************************)
EXTENDS PipeHistory, UnixSocket, MessageQueue, SelectSleep, TLC

MCTimeouts == {-1, 1}
MCSelSets == {{<<"r", 0>>}, {<<"r", 0>>, <<"w", 1>>}}

Symmetry == Permutations(Thread)

VARIABLE part

PipeVars == <<vars, shared, interrupted>>

MCInit ==
    /\ part \in {"pipe", "socket", "message", "select", "clock"}
    /\ HInit /\ SockInit /\ MsgInit /\ SelInit
    /\ part \notin {"select", "clock"} => ticks = 1
    /\ part # "select" => opened = {}

MCNext ==
    /\ UNCHANGED part
    /\ \/ /\ part = "pipe"
          /\ HNext
          /\ UNCHANGED <<sockVars, msgVars, selVars>>
       \/ /\ part = "socket"
          /\ SockNext
          /\ UNCHANGED <<PipeVars, msgVars, selVars>>
       \/ /\ part = "message"
          /\ MsgNext
          /\ UNCHANGED <<PipeVars, sockVars, selVars>>
       \/ /\ part = "select"
          /\ SelNext
          /\ UNCHANGED <<PipeVars, sockVars, msgVars>>
       \/ /\ part = "clock"
          /\ ClockNext
          /\ UNCHANGED <<PipeVars, sockVars, msgVars>>
       \* The bounds of the other parts, unlike the pipe, make them stop.
       \/ /\ part # "pipe"
          /\ UNCHANGED <<PipeVars, sockVars, msgVars, selVars>>
=============================================================================
