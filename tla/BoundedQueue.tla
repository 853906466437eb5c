---------------------------- MODULE BoundedQueue ----------------------------
(***************************************************************************)
(* What a FifoBuffer promises its clients (pipes, sockets, terminals,      *)
(* signal and message queues): every buffer is a first-in first-out        *)
(* sequence of bytes that never exceeds its capacity.  A writer is told    *)
(* how many bytes were accepted, and those are a prefix of what it         *)
(* offered; a reader receives a prefix of what is stored.                  *)
(***************************************************************************)
EXTENDS Integers, Sequences

CONSTANTS
    Fifos,          \* the buffers
    Byte,           \* the values a cell can hold
    Capacity,       \* Capacity[f]: how many bytes buffer f can hold
    Chunks,         \* the byte sequences a writer may offer
    Sizes           \* the byte counts a reader may ask for

VARIABLES
    queue,          \* queue[f]: the bytes stored in f, oldest first
    delivered       \* the bytes the last dequeue handed to its caller

avars == <<queue, delivered>>

LeastOf(a, b) == IF a <= b THEN a ELSE b

Free(f) == Capacity[f] - Len(queue[f])

AInit ==
    /\ queue = [f \in Fifos |-> <<>>]
    /\ delivered = <<>>

\* The longest prefix of src that fits is appended.
APut(f, src) ==
    LET n == LeastOf(Len(src), Free(f))
    IN  /\ queue' = [queue EXCEPT ![f] = @ \o SubSeq(src, 1, n)]
        /\ delivered' = delivered

\* At most size bytes are taken from the front.
AGet(f, size) ==
    LET n == LeastOf(size, Len(queue[f]))
    IN  /\ delivered' = SubSeq(queue[f], 1, n)
        /\ queue' = [queue EXCEPT ![f] = SubSeq(@, n + 1, Len(@))]

\* As much as fits moves from the front of g to the end of f.
AMove(f, g) ==
    LET n == LeastOf(Free(f), Len(queue[g]))
    IN  /\ queue' = [queue EXCEPT ![f] = @ \o SubSeq(queue[g], 1, n),
                                  ![g] = SubSeq(@, n + 1, Len(@))]
        /\ delivered' = delivered

AClear(f) ==
    /\ queue' = [queue EXCEPT ![f] = <<>>]
    /\ delivered' = delivered

ANext ==
    \/ \E f \in Fifos, src \in Chunks : APut(f, src)
    \/ \E f \in Fifos, size \in Sizes : AGet(f, size)
    \/ \E f, g \in Fifos : f # g /\ AMove(f, g)
    \/ \E f \in Fifos : AClear(f)

ASpec == AInit /\ [][ANext]_avars
=============================================================================
