---------------------------- MODULE MCStructures ----------------------------
(***************************************************************************)
(* Parts that one caller uses at a time: the ring buffer, the heap, the    *)
(* program break, lists, the hash table and strings, the loader of         *)
(* programs, RAM disks, and the positions of open files.  They share no    *)
(* state, so a behaviour is one of the part that part names, and the       *)
(* others stay as they began.                                              *)
(***************************************************************************)
EXTENDS FifoBuffer, KernelHeap, ProgramBreak, LinkedList, HashTable, Strings,
        Loader, RamDisk, FileIo

CONSTANTS f1, f2

\* Two buffers of different capacities, so that transfers between them are cut
\* short on either side, and chunks longer than a buffer.
MCFifos == {f1, f2}
MCCapacity == [f \in MCFifos |-> IF f = f1 THEN 3 ELSE 2]
MCChunks == {<<>>, <<1>>, <<0, 1>>, <<0, 1, 1, 0>>}

MCNumbers == {-128, -7, 0, 9, 10, 16, 100, 127}

MCFormats ==
    {<<>>,
     <<[kind |-> "char", arg |-> 10], [kind |-> "x", arg |-> 11],
       [kind |-> "s", arg |-> <<97, 97, 97>>], [kind |-> "d", arg |-> -5]>>,
     <<[kind |-> "s", arg |-> <<>>], [kind |-> "u", arg |-> -1]>>}

\* Programs: one that fits, one with overlapping segments and one below
\* USER_OFFSET, images that end inside the stack's zone, behind it, and at the
\* last page the break may reach, one below USER_OFFSET only, and no program.
Seg(t, v, b, m) == [type |-> t, vaddr |-> v, bytes |-> b, memsz |-> m]
MCPrograms ==
    {[magic |-> TRUE, entry |-> 130, segments |-> s] : s \in
       {<<Seg("PT_LOAD", 128, <<7, 8, 9>>, 5), Seg("PT_NOTE", 200, <<5>>, 1)>>,
        <<Seg("PT_LOAD", 16, <<1>>, 3), Seg("PT_LOAD", 300, <<7>>, 40),
          Seg("PT_LOAD", 330, <<2, 3>>, 4)>>,
        <<Seg("PT_LOAD", 128, <<7, 8, 9>>, 700)>>,
        <<Seg("PT_LOAD", 130, <<7>>, 2), Seg("PT_LOAD", 1000, <<3>>, 24)>>,
        <<Seg("PT_LOAD", 130, <<7>>, 2), Seg("PT_LOAD", 1000, <<3>>, 40)>>,
        <<Seg("PT_LOAD", 16, <<7>>, 100)>>}}
    \cup {[magic |-> FALSE, entry |-> 130,
           segments |-> <<Seg("PT_LOAD", 128, <<7>>, 1)>>]}

\* The last one needs more than a page of arguments when it is passed twice.
MCLists == {<<>>, <<<<>>>>, <<<<65, 66>>, <<67>>>>, <<[i \in 1..22 |-> 65]>>}

MCKinds ==
    {[driver |-> "fat", flags |-> f, objsize |-> 5] :
        f \in {{"READ"}, {"WRITE"}, {"READ", "WRITE"}}}
    \cup {[driver |-> d, flags |-> {}, objsize |-> 0] :
            d \in {"meminfo", "thread", "random", "fb", "null"}}
MCVectors == {<<>>, <<0>>, <<8, 2>>, <<2, 0, 3>>}
MCSeeks == {-2, 0, 3}

VARIABLE part

MCInit ==
    /\ part \in {"fifo", "heap", "break", "list", "hash", "string", "loader",
                 "disk", "file"}
    /\ Init /\ HeapInit /\ BrkInit /\ ListInit /\ LoaderInit /\ RamDiskInit
    /\ FileIoInit
    /\ IF part = "hash" THEN HashInit
       ELSE /\ cell = [i \in TableCells |-> [key |-> 0, data |-> 0, used |-> 0]]
            /\ stale = {}
            /\ holds = [k \in HashKeys |-> {}]
    /\ IF part = "string" THEN StringInit
       ELSE /\ memory = [a \in Address |-> 0]
            /\ saved = -1
            /\ called = [fn |-> "none"]

MCNext ==
    /\ UNCHANGED part
    /\ IF part = "fifo" THEN Next ELSE UNCHANGED vars
    /\ IF part = "heap" THEN HeapNext ELSE UNCHANGED heapVars
    /\ IF part = "break" THEN BrkNext ELSE UNCHANGED brkVars
    /\ IF part = "list" THEN ListNext ELSE UNCHANGED listVars
    /\ IF part = "hash" THEN HashNext ELSE UNCHANGED hashVars
    /\ IF part = "string" THEN StringNext ELSE UNCHANGED stringVars
    /\ IF part = "loader" THEN LoaderNext ELSE UNCHANGED loaderVars
    /\ IF part = "disk" THEN RamDiskNext ELSE UNCHANGED diskVars
    /\ IF part = "file" THEN FileIoNext ELSE UNCHANGED ioVars

MCSpec ==
    MCInit /\ [][MCNext]_<<part, vars, heapVars, brkVars, listVars, hashVars,
                           stringVars, loaderVars, diskVars, ioVars>>
=============================================================================
