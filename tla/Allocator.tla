----------------------------- MODULE Allocator -----------------------------
(***************************************************************************)
(* What users of kmalloc and kfree rely on: a block they get is as long as *)
(* they asked for, overlaps no other allocated block, and stays as it is   *)
(* until they free it.                                                     *)
(***************************************************************************)
EXTENDS Integers

CONSTANT Request    \* the sizes asked for

VARIABLE blocks     \* the allocated blocks

Block == [start : Nat, length : Nat]
Disjoint(b, c) == b.start + b.length <= c.start \/ c.start + c.length <= b.start

Init == blocks = {}

Alloc(n) ==
    \E b \in blocks' \ blocks :
        /\ b \in Block
        /\ b.length = n
        /\ \A c \in blocks : Disjoint(b, c)
        /\ blocks' = blocks \cup {b}

Free(b) == blocks' = blocks \ {b}

Next == (\E n \in Request : Alloc(n)) \/ (\E b \in blocks : Free(b))

Spec == Init /\ [][Next]_blocks
=============================================================================
