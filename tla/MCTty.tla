------------------------------- MODULE MCTty -------------------------------
(***************************************************************************)
(* What threads share: a terminal with a thread that reads a line, one     *)
(* that reads what the terminal prints and one that prints, interrupted by *)
(* the keyboard; the processor and its stacks; page frames and page tables *)
(* as the kernel's heap and a process's break and mappings grow.  The      *)
(* three share no state, so a behaviour is one of the part that part names *)
(* and the others stay as they began.                                      *)
(***************************************************************************)
EXTENDS Tty, Processor, Memory

MCTypedChunks == {<<97, 10>>}
MCPrintedChunks == {<<97>>}
MCTerms == {DefaultTerm}

VARIABLE part

MCInit ==
    /\ part \in {"tty", "processor", "memory"}
    /\ TtyInit /\ TtyThreadsInit /\ ProcessorInit /\ Init

MCNext ==
    /\ UNCHANGED part
    /\ \/ /\ part = "tty"
          /\ TtyThreadsNext
          /\ UNCHANGED <<cpuVars, vars>>
       \/ /\ part = "processor"
          /\ ProcessorNext
          /\ UNCHANGED <<ttyAll, vars>>
       \/ /\ part = "memory"
          /\ Next
          /\ UNCHANGED <<ttyAll, cpuVars>>

MCSpec ==
    /\ MCInit
    /\ [][MCNext]_<<part, ttyAll, cpuVars, vars>>
    /\ part = "tty" => TtyFairness
=============================================================================
