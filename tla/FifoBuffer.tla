----------------------------- MODULE FifoBuffer -----------------------------
(***************************************************************************)
(* The byte ring buffer of kernel/fifobuffer.c, on which signal queues,    *)
(* message queues, pipes, sockets and terminals are built.  A buffer is a  *)
(* cell array with a read index, a write index and a count of used bytes.  *)
(*                                                                         *)
(* The C functions move one byte per loop iteration.  Each call runs to    *)
(* completion before another one starts (its callers run with interrupts   *)
(* disabled or hold a lock), so a call is one action, and the loop is      *)
(* given in closed form: the iteration that writes cell j, if any, is      *)
(* number Distance(j) from the write index.  MCFifoBuffer checks the       *)
(* closed form against the iteration itself.                               *)
(***************************************************************************)
EXTENDS Integers, Sequences

CONSTANTS
    Fifos,          \* the buffers that exist
    Byte,           \* values of a cell
    Capacity,       \* Capacity[f]: the size f was created with
    Chunks,         \* the arguments offered to fifobuffer_enqueue
    Sizes           \* the byte counts asked of fifobuffer_dequeue

ASSUME FifoAssumption ==
    /\ Capacity \in [Fifos -> Nat \ {0}]
    /\ Chunks \subseteq Seq(Byte)
    /\ Sizes \subseteq Nat

\* The value of fresh memory: fifobuffer_create clears the cells.
CONSTANT Zero
ASSUME ZeroAssumption == Zero \in Byte

VARIABLES
    data,           \* data[f][i]: cell i of buffer f
    read_index,     \* read_index[f]: the oldest byte's cell
    write_index,    \* write_index[f]: the cell the next byte goes to
    used_bytes,     \* used_bytes[f]: how many cells hold unread bytes
    delivered       \* what the last fifobuffer_dequeue copied out

vars == <<data, read_index, write_index, used_bytes, delivered>>

Cells(f) == 0 .. Capacity[f] - 1

TypeOK ==
    /\ DOMAIN data = Fifos
    /\ \A f \in Fifos : data[f] \in [Cells(f) -> Byte]
    /\ read_index \in [Fifos -> Nat]
    /\ write_index \in [Fifos -> Nat]
    /\ used_bytes \in [Fifos -> Nat]
    /\ delivered \in Seq(Byte)

-----------------------------------------------------------------------------
Min2(a, b) == IF a <= b THEN a ELSE b

fifobuffer_get_free(f) == Capacity[f] - used_bytes[f]

\* How many increments of an index, each reduced modulo the capacity, lead
\* from cell i to cell j.
Distance(f, i, j) == (j + Capacity[f] - i) % Capacity[f]

\* An index after n such increments.
Advance(f, i, n) == (i + n) % Capacity[f]

\* The cells of f after src[1..n] has been stored from its write index on.
Stored(f, src, n) ==
    [j \in Cells(f) |->
        LET d == Distance(f, write_index[f], j)
        IN  IF d < n THEN src[d + 1] ELSE data[f][j]]

\* The first n unread bytes of f.
Unread(f, n) ==
    [i \in 1 .. n |-> data[f][Advance(f, read_index[f], i - 1)]]

-----------------------------------------------------------------------------
Init ==
    /\ data = [f \in Fifos |-> [i \in Cells(f) |-> Zero]]
    /\ read_index = [f \in Fifos |-> 0]
    /\ write_index = [f \in Fifos |-> 0]
    /\ used_bytes = [f \in Fifos |-> 0]
    /\ delivered = <<>>

\* fifobuffer_clear: the bytes stay in the cells, only the indices move.
Clear(f) ==
    /\ used_bytes' = [used_bytes EXCEPT ![f] = 0]
    /\ read_index' = [read_index EXCEPT ![f] = 0]
    /\ write_index' = [write_index EXCEPT ![f] = 0]
    /\ UNCHANGED <<data, delivered>>

\* fifobuffer_enqueue; an empty chunk returns -1 and changes nothing.
Enqueue(f, src) ==
    LET n == Min2(Len(src), fifobuffer_get_free(f))
    IN  /\ src # <<>>
        /\ data' = [data EXCEPT ![f] = Stored(f, src, n)]
        /\ used_bytes' = [used_bytes EXCEPT ![f] = @ + n]
        /\ write_index' = [write_index EXCEPT ![f] = Advance(f, @, n)]
        /\ UNCHANGED <<read_index, delivered>>

\* fifobuffer_dequeue; size 0 returns -1, an empty buffer returns 0.
Dequeue(f, size) ==
    LET n == Min2(size, used_bytes[f])
    IN  /\ size > 0
        /\ delivered' = Unread(f, n)
        /\ used_bytes' = [used_bytes EXCEPT ![f] = @ - n]
        /\ read_index' = [read_index EXCEPT ![f] = Advance(f, @, n)]
        /\ UNCHANGED <<data, write_index>>

\* Faulty variant: the bytes that do not fit are lost.
EnqueueFromOtherDrops(f, other) ==
    LET n == Min2(fifobuffer_get_free(f), used_bytes[other])
    IN  /\ f # other
        /\ data' = [data EXCEPT ![f] = Stored(f, Unread(other, n), n)]
        /\ used_bytes' = [used_bytes EXCEPT ![f] = @ + n, ![other] = 0]
        /\ write_index' = [write_index EXCEPT ![f] = Advance(f, @, n)]
        /\ read_index' = [read_index EXCEPT ![other] = write_index[other]]
        /\ UNCHANGED delivered

\* fifobuffer_enqueue_from_other: the loop stops at whichever of "f is full"
\* and "other is empty" comes first.
EnqueueFromOther(f, other) ==
    LET n == Min2(fifobuffer_get_free(f), used_bytes[other])
    IN  /\ f # other
        /\ data' = [data EXCEPT ![f] = Stored(f, Unread(other, n), n)]
        /\ used_bytes' = [used_bytes EXCEPT ![f] = @ + n, ![other] = @ - n]
        /\ write_index' = [write_index EXCEPT ![f] = Advance(f, @, n)]
        /\ read_index' = [read_index EXCEPT ![other] = Advance(other, @, n)]
        /\ UNCHANGED delivered

Next ==
    \/ \E f \in Fifos, src \in Chunks : Enqueue(f, src)
    \/ \E f \in Fifos, size \in Sizes : Dequeue(f, size)
    \/ \E f, other \in Fifos : EnqueueFromOther(f, other)
    \/ \E f \in Fifos : Clear(f)

Spec == Init /\ [][Next]_vars

-----------------------------------------------------------------------------
(* Properties *)

\* The three counters of a buffer agree: the indices stay inside the cell
\* array (fifobuffer_enqueue and fifobuffer_dequeue index data with them),
\* the used count never exceeds the capacity (so the unsigned subtraction in
\* fifobuffer_get_free never wraps), and the write index is the read index
\* advanced by the used count, although enqueue, dequeue and clear each
\* update only some of the three.
RingShape ==
    \A f \in Fifos :
        /\ read_index[f] < Capacity[f]
        /\ used_bytes[f] <= Capacity[f]
        /\ write_index[f] = Advance(f, read_index[f], used_bytes[f])

\* The buffer as its clients see it: the unread bytes, oldest first.
Contents == [f \in Fifos |-> Unread(f, used_bytes[f])]

Abstract == INSTANCE BoundedQueue WITH queue <- Contents

\* The ring buffer implements the bounded first-in first-out queue: what
\* fifobuffer_dequeue copies out is what was put in, in order, without loss
\* of an accepted byte, across wrap-around and partial transfers.
ImplementsQueue == Abstract!ASpec

=============================================================================
