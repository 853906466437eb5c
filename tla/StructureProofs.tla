--------------------------- MODULE StructureProofs ---------------------------
(***************************************************************************)
(* Parts that one caller uses at a time, for any sizes: ring buffers are   *)
(* the bounded queues of BoundedQueue; the chunks of the kernel heap tile  *)
(* it, and kmalloc and kfree are the allocator of Allocator; the program   *)
(* break is backed by pages and wastes at most one; a hash table answers   *)
(* as a map does; RAM disks give back the blocks that were written; and    *)
(* linked lists are the sequences of Deque.                                *)
(***************************************************************************)
EXTENDS FifoBuffer, KernelHeap, ProgramBreak, HashTable, RamDisk, LinkedList, Recursion,
        SequenceTheorems, FiniteSetTheorems

-----------------------------------------------------------------------------
(* Ring buffers and the kernel heap *)

\* The reduction modulo c of a number below 2c, which is all the index
\* arithmetic of fifobuffer.c ever reduces.
LEMMA ModBelowTwice ==
    ASSUME NEW c \in Nat \ {0}, NEW x \in Nat, x < c + c
    PROVE  x % c = IF x < c THEN x ELSE x - c
<1>1. CASE x < c
  BY <1>1
<1>2. CASE x >= c
  <2>1. x = 1 * c + (x - c) /\ x - c \in 0 .. c - 1
    BY <1>2
  <2> QED BY <2>1, <1>2
<1> QED BY <1>1, <1>2

IInv == TypeOK /\ RingShape

\* Types of the two derived quantities the actions use.
LEMMA AdvanceType ==
    ASSUME NEW f \in Fifos, NEW i \in Cells(f), NEW n \in 0 .. Capacity[f]
    PROVE  /\ Advance(f, i, n) \in Cells(f)
           /\ Advance(f, i, n) = IF i + n < Capacity[f] THEN i + n
                                                        ELSE i + n - Capacity[f]
<1> DEFINE c == Capacity[f]
<1> DEFINE x == i + n
<1>1. c \in Nat \ {0}
  BY FifoAssumption
<1>2. x \in Nat /\ x < c + c
  BY <1>1 DEF Cells
<1>3. x % c = IF x < c THEN x ELSE x - c
  <2> HIDE DEF c, x
  <2> QED BY <1>1, <1>2, ModBelowTwice
<1>4. Advance(f, i, n) = x % c
  BY DEF Advance
<1> QED
  <2> HIDE DEF x
  <2>1. (IF x < c THEN x ELSE x - c) \in 0 .. c - 1
    <3> HIDE DEF c
    <3> QED BY <1>1, <1>2
  <2>2. (IF x < c THEN x ELSE x - c) \in Cells(f)
    BY <2>1 DEF Cells
  <2>3. Advance(f, i, n) = IF x < c THEN x ELSE x - c
    BY <1>3, <1>4
  <2>4. c \in Int /\ i \in Int /\ n \in Int
    BY <1>1 DEF Cells
  <2> QED BY <2>2, <2>3, <2>4 DEF x

LEMMA DistanceType ==
    ASSUME NEW f \in Fifos, NEW i \in Cells(f), NEW j \in Cells(f)
    PROVE  /\ Distance(f, i, j) \in Cells(f)
           /\ Distance(f, i, j) = IF j < i THEN j + Capacity[f] - i ELSE j - i
<1> DEFINE c == Capacity[f]
<1> DEFINE x == j + c - i
<1>1. c \in Nat \ {0}
  BY FifoAssumption
<1>2. x \in Nat /\ x < c + c
  BY <1>1 DEF Cells
<1>3. x % c = IF x < c THEN x ELSE x - c
  <2> HIDE DEF c, x
  <2> QED BY <1>1, <1>2, ModBelowTwice
<1>4. Distance(f, i, j) = x % c
  BY DEF Distance
<1>5. (IF x < c THEN x ELSE x - c) = IF j < i THEN j + c - i ELSE j - i
  <2> HIDE DEF c
  <2> i \in Int /\ j \in Int
    BY DEF Cells
  <2> QED BY <1>1 DEF x
<1>6. (IF j < i THEN j + c - i ELSE j - i) \in Cells(f)
  BY <1>1 DEF Cells
<1> QED BY <1>3, <1>4, <1>5, <1>6

\* How many bytes an operation moves: within the free and the used counts.
LEMMA CountTypes ==
    ASSUME IInv, NEW f \in Fifos
    PROVE  /\ Capacity[f] \in Nat \ {0}
           /\ used_bytes[f] \in 0 .. Capacity[f]
           /\ fifobuffer_get_free(f) \in 0 .. Capacity[f]
           /\ fifobuffer_get_free(f) = Capacity[f] - used_bytes[f]
           /\ read_index[f] \in Cells(f)
           /\ write_index[f] \in Cells(f)
           /\ write_index[f] = IF read_index[f] + used_bytes[f] < Capacity[f]
                               THEN read_index[f] + used_bytes[f]
                               ELSE read_index[f] + used_bytes[f] - Capacity[f]
<1>1. Capacity[f] \in Nat \ {0}
  BY FifoAssumption
<1>2. used_bytes[f] \in 0 .. Capacity[f] /\ read_index[f] \in Cells(f)
  BY <1>1 DEF IInv, TypeOK, RingShape, Cells
<1>3. fifobuffer_get_free(f) \in 0 .. Capacity[f]
  BY <1>1, <1>2 DEF fifobuffer_get_free
<1>4. write_index[f] = Advance(f, read_index[f], used_bytes[f])
  BY DEF IInv, RingShape
<1> QED BY <1>1, <1>2, <1>3, <1>4, AdvanceType DEF fifobuffer_get_free

\* Storing n bytes keeps the cells a function of the right type.
LEMMA StoredType ==
    ASSUME IInv, NEW f \in Fifos, NEW src \in Seq(Byte),
           NEW n \in 0 .. Capacity[f], n <= Len(src)
    PROVE  Stored(f, src, n) \in [Cells(f) -> Byte]
<1> SUFFICES ASSUME NEW j \in Cells(f)
             PROVE  (LET d == Distance(f, write_index[f], j)
                     IN  IF d < n THEN src[d + 1] ELSE data[f][j]) \in Byte
  BY DEF Stored
<1> DEFINE d == Distance(f, write_index[f], j)
<1>1. d \in Nat
  <2>1. write_index[f] \in Cells(f)
    BY CountTypes
  <2>2. d \in Cells(f)
    BY <2>1, DistanceType
  <2> QED BY <2>2, CountTypes DEF Cells
<1>2. d < n => src[d + 1] \in Byte
  <2> HIDE DEF d
  <2> QED BY <1>1
<1>3. data[f][j] \in Byte
  BY DEF IInv, TypeOK
<1> QED BY <1>2, <1>3

LEMMA UnreadType ==
    ASSUME IInv, NEW f \in Fifos, NEW n \in 0 .. used_bytes[f]
    PROVE  /\ Unread(f, n) \in Seq(Byte)
           /\ Len(Unread(f, n)) = n
           /\ \A i \in 1 .. n :
                Unread(f, n)[i] = data[f][Advance(f, read_index[f], i - 1)]
<1>1. n \in Nat /\ n <= Capacity[f]
  BY CountTypes
<1>2. ASSUME NEW i \in 1 .. n
      PROVE  data[f][Advance(f, read_index[f], i - 1)] \in Byte
  <2>1. i - 1 \in 0 .. Capacity[f]
    BY <1>1, CountTypes
  <2>2. Advance(f, read_index[f], i - 1) \in Cells(f)
    BY <2>1, CountTypes, AdvanceType
  <2> QED BY <2>2 DEF IInv, TypeOK
<1> QED BY <1>1, <1>2 DEF Unread

\* Advancing in two stages is advancing by the sum.
LEMMA AdvanceSum ==
    ASSUME NEW f \in Fifos, NEW i \in Cells(f), NEW m \in Nat, NEW n \in Nat,
           m + n <= Capacity[f]
    PROVE  Advance(f, Advance(f, i, m), n) = Advance(f, i, m + n)
<1> DEFINE k == Advance(f, i, m)
<1>1. Capacity[f] \in Nat \ {0}
  BY FifoAssumption
<1>2. m \in 0 .. Capacity[f] /\ n \in 0 .. Capacity[f] /\ m + n \in 0 .. Capacity[f]
  BY <1>1
<1>3. k \in Cells(f) /\ k = IF i + m < Capacity[f] THEN i + m ELSE i + m - Capacity[f]
  BY <1>2, AdvanceType
<1>4. Advance(f, k, n) = IF k + n < Capacity[f] THEN k + n ELSE k + n - Capacity[f]
  BY <1>2, <1>3, AdvanceType
<1>5. Advance(f, i, m + n) = IF i + (m + n) < Capacity[f] THEN i + (m + n)
                                                ELSE i + (m + n) - Capacity[f]
  BY <1>2, AdvanceType
<1>6. i \in Nat /\ i < Capacity[f]
  BY <1>1 DEF Cells
<1>7. Advance(f, k, n) = Advance(f, i, m + n)
  <2> HIDE DEF k
  <2>1. k \in Int
    BY <1>3 DEF Cells
  <2> QED BY <2>1, <1>1, <1>2, <1>3, <1>4, <1>5, <1>6
<1> QED BY <1>7

\* Reading the cells from the read index on after n bytes were stored: first
\* the old bytes, then the stored ones.
LEMMA StoredReadBack ==
    ASSUME IInv, NEW f \in Fifos, NEW src \in Seq(Byte), NEW n \in Nat,
           n <= Len(src), n <= fifobuffer_get_free(f),
           NEW i \in 1 .. used_bytes[f] + n
    PROVE  Stored(f, src, n)[Advance(f, read_index[f], i - 1)] =
               IF i <= used_bytes[f]
               THEN data[f][Advance(f, read_index[f], i - 1)]
               ELSE src[i - used_bytes[f]]
<1> DEFINE c == Capacity[f]
           u == used_bytes[f]
           r == read_index[f]
           w == write_index[f]
           p == Advance(f, r, i - 1)
           d == Distance(f, w, p)
<1>1. /\ c \in Nat \ {0} /\ u \in 0 .. c /\ u + n <= c
      /\ r \in Cells(f) /\ w \in Cells(f)
      /\ w = IF r + u < c THEN r + u ELSE r + u - c
  BY CountTypes
<1>2. i - 1 \in 0 .. c /\ i \in Int /\ 1 <= i /\ i <= u + n
  BY <1>1
<1>3. /\ p \in Cells(f)
      /\ p = IF r + (i - 1) < c THEN r + (i - 1) ELSE r + (i - 1) - c
  BY <1>1, <1>2, AdvanceType
<1>4. d \in Cells(f) /\ d = IF p < w THEN p + c - w ELSE p - w
  <2> HIDE DEF p, w
  <2> QED BY <1>1, <1>3, DistanceType
<1>5. r \in Int /\ p \in Int /\ d \in Int /\ 0 <= r /\ r < c
  BY <1>1, <1>3, <1>4 DEF Cells
<1>6. IF i <= u THEN d >= n ELSE d < n /\ d + 1 = i - u
  <2> HIDE DEF c, u, r, w, p, d
  <2> QED BY <1>1, <1>2, <1>3, <1>4, <1>5
<1>7. Stored(f, src, n)[p] = IF d < n THEN src[d + 1] ELSE data[f][p]
  BY <1>3 DEF Stored
<1> HIDE DEF c, r, w, p, d
<1>8. Stored(f, src, n)[p] = IF i <= u THEN data[f][p] ELSE src[i - u]
  BY <1>5, <1>6, <1>7, <1>1
<1> QED BY <1>8 DEF p, r

\* What an operation that moves n bytes leaves of a buffer's counters.
LEMMA PutShape ==
    ASSUME IInv, NEW f \in Fifos, NEW n \in 0 .. fifobuffer_get_free(f)
    PROVE  /\ used_bytes[f] + n \in Nat /\ used_bytes[f] + n <= Capacity[f]
           /\ Advance(f, write_index[f], n) \in Nat
           /\ Advance(f, write_index[f], n) =
                Advance(f, read_index[f], used_bytes[f] + n)
<1>1. /\ used_bytes[f] \in Nat /\ n \in Nat /\ used_bytes[f] + n <= Capacity[f]
      /\ Capacity[f] \in Nat /\ n \in 0 .. Capacity[f]
  BY CountTypes
<1>2. read_index[f] \in Cells(f) /\ write_index[f] \in Cells(f)
  BY CountTypes
<1>3. write_index[f] = Advance(f, read_index[f], used_bytes[f])
  BY DEF IInv, RingShape
<1>4. Advance(f, write_index[f], n) \in Cells(f)
  BY <1>1, <1>2, AdvanceType
<1>5. Advance(f, Advance(f, read_index[f], used_bytes[f]), n) =
        Advance(f, read_index[f], used_bytes[f] + n)
  BY <1>1, <1>2, AdvanceSum
<1> QED BY <1>1, <1>3, <1>4, <1>5 DEF Cells

LEMMA TakeShape ==
    ASSUME IInv, NEW f \in Fifos, NEW n \in 0 .. used_bytes[f]
    PROVE  /\ used_bytes[f] - n \in Nat /\ used_bytes[f] - n <= Capacity[f]
           /\ Advance(f, read_index[f], n) \in Nat
           /\ Advance(f, read_index[f], n) < Capacity[f]
           /\ write_index[f] =
                Advance(f, Advance(f, read_index[f], n), used_bytes[f] - n)
<1>1. /\ used_bytes[f] \in Nat /\ n \in Nat /\ n <= used_bytes[f]
      /\ used_bytes[f] <= Capacity[f]
      /\ Capacity[f] \in Nat /\ n \in 0 .. Capacity[f]
  BY CountTypes
<1>2. read_index[f] \in Cells(f)
  BY CountTypes
<1>3. write_index[f] = Advance(f, read_index[f], used_bytes[f])
  BY DEF IInv, RingShape
<1>4. Advance(f, read_index[f], n) \in Cells(f)
  BY <1>1, <1>2, AdvanceType
<1>5. PICK m \in Nat : m = used_bytes[f] - n /\ n + m = used_bytes[f]
  BY <1>1
<1>6. Advance(f, Advance(f, read_index[f], n), m) =
        Advance(f, read_index[f], n + m)
  BY <1>1, <1>2, <1>5, AdvanceSum
<1> QED BY <1>1, <1>3, <1>4, <1>5, <1>6 DEF Cells

LEMMA MinBounds ==
    ASSUME NEW a \in Nat, NEW b \in Nat
    PROVE  Min2(a, b) \in Nat /\ Min2(a, b) <= a /\ Min2(a, b) <= b
BY DEF Min2

LEMMA InitIInv == Init => IInv
<1> SUFFICES ASSUME Init PROVE IInv
  OBVIOUS
<1>1. TypeOK
  BY ZeroAssumption DEF Init, TypeOK
<1>2. ASSUME NEW f \in Fifos
      PROVE  /\ read_index[f] < Capacity[f] /\ used_bytes[f] <= Capacity[f]
             /\ write_index[f] = Advance(f, read_index[f], used_bytes[f])
  <2>1. Capacity[f] \in Nat \ {0} /\ 0 \in Cells(f) /\ 0 \in 0 .. Capacity[f]
    BY FifoAssumption DEF Cells
  <2>2. Advance(f, 0, 0) = 0
    BY <2>1, AdvanceType
  <2> QED BY <2>1, <2>2 DEF Init
<1> QED BY <1>1, <1>2 DEF IInv, RingShape

\* Each operation preserves the invariant.
LEMMA EnqueueIInv ==
    ASSUME IInv, NEW f \in Fifos, NEW src \in Chunks, Enqueue(f, src)
    PROVE  IInv'
<1> DEFINE n == Min2(Len(src), fifobuffer_get_free(f))
<1>1. src \in Seq(Byte) /\ Len(src) \in Nat
  BY FifoAssumption
<1>2. /\ n \in 0 .. fifobuffer_get_free(f) /\ n \in 0 .. Capacity[f]
      /\ n <= Len(src)
  <2>1. fifobuffer_get_free(f) \in Nat /\ fifobuffer_get_free(f) <= Capacity[f]
        /\ Capacity[f] \in Nat
    BY CountTypes
  <2>2. n \in Nat /\ n <= Len(src) /\ n <= fifobuffer_get_free(f)
    BY <1>1, <2>1, MinBounds
  <2> QED BY <2>1, <2>2
<1>3. /\ data' = [data EXCEPT ![f] = Stored(f, src, n)]
      /\ used_bytes' = [used_bytes EXCEPT ![f] = @ + n]
      /\ write_index' = [write_index EXCEPT ![f] = Advance(f, @, n)]
      /\ read_index' = read_index /\ delivered' = delivered
  BY DEF Enqueue
<1> HIDE DEF n
<1>4. Stored(f, src, n) \in [Cells(f) -> Byte]
  BY <1>1, <1>2, StoredType
<1>5. /\ used_bytes[f] + n \in Nat /\ used_bytes[f] + n <= Capacity[f]
      /\ Advance(f, write_index[f], n) \in Nat
      /\ Advance(f, write_index[f], n) =
           Advance(f, read_index[f], used_bytes[f] + n)
  BY <1>2, PutShape
<1>6. TypeOK'
  BY <1>3, <1>4, <1>5 DEF IInv, TypeOK
<1>7. RingShape'
  BY <1>3, <1>5 DEF IInv, TypeOK, RingShape
<1> QED BY <1>6, <1>7 DEF IInv

LEMMA DequeueIInv ==
    ASSUME IInv, NEW f \in Fifos, NEW amount \in Sizes, Dequeue(f, amount)
    PROVE  IInv'
<1> DEFINE n == Min2(amount, used_bytes[f])
<1>1. amount \in Nat /\ used_bytes[f] \in Nat
  BY FifoAssumption, CountTypes
<1>2. n \in 0 .. used_bytes[f]
  <2>1. n \in Nat /\ n <= used_bytes[f]
    BY <1>1, MinBounds
  <2> QED BY <1>1, <2>1
<1>3. /\ delivered' = Unread(f, n)
      /\ used_bytes' = [used_bytes EXCEPT ![f] = @ - n]
      /\ read_index' = [read_index EXCEPT ![f] = Advance(f, @, n)]
      /\ data' = data /\ write_index' = write_index
  BY DEF Dequeue
<1> HIDE DEF n
<1>4. Unread(f, n) \in Seq(Byte)
  BY <1>2, UnreadType
<1>5. /\ used_bytes[f] - n \in Nat /\ used_bytes[f] - n <= Capacity[f]
      /\ Advance(f, read_index[f], n) \in Nat
      /\ Advance(f, read_index[f], n) < Capacity[f]
      /\ write_index[f] =
           Advance(f, Advance(f, read_index[f], n), used_bytes[f] - n)
  BY <1>2, TakeShape
<1>6. TypeOK'
  BY <1>3, <1>4, <1>5 DEF IInv, TypeOK
<1>7. RingShape'
  BY <1>3, <1>5 DEF IInv, TypeOK, RingShape
<1> QED BY <1>6, <1>7 DEF IInv

LEMMA EnqueueFromOtherIInv ==
    ASSUME IInv, NEW f \in Fifos, NEW other \in Fifos, EnqueueFromOther(f, other)
    PROVE  IInv'
<1> DEFINE n == Min2(fifobuffer_get_free(f), used_bytes[other])
<1>1. f # other
  BY DEF EnqueueFromOther
<1>2. /\ n \in 0 .. fifobuffer_get_free(f) /\ n \in 0 .. Capacity[f]
      /\ n \in 0 .. used_bytes[other]
  <2>1. fifobuffer_get_free(f) \in Nat /\ fifobuffer_get_free(f) <= Capacity[f]
        /\ Capacity[f] \in Nat
    BY CountTypes
  <2>2. used_bytes[other] \in Nat
    BY CountTypes
  <2>3. n \in Nat /\ n <= fifobuffer_get_free(f) /\ n <= used_bytes[other]
    BY <2>1, <2>2, MinBounds
  <2> QED BY <2>1, <2>2, <2>3
<1>3. /\ data' = [data EXCEPT ![f] = Stored(f, Unread(other, n), n)]
      /\ used_bytes' = [used_bytes EXCEPT ![f] = @ + n, ![other] = @ - n]
      /\ write_index' = [write_index EXCEPT ![f] = Advance(f, @, n)]
      /\ read_index' = [read_index EXCEPT ![other] = Advance(other, @, n)]
      /\ delivered' = delivered
  BY DEF EnqueueFromOther
<1> HIDE DEF n
<1>4. Unread(other, n) \in Seq(Byte) /\ Len(Unread(other, n)) = n
  BY <1>2, UnreadType
<1>5. Stored(f, Unread(other, n), n) \in [Cells(f) -> Byte]
  BY <1>2, <1>4, StoredType
<1>6. /\ used_bytes[f] + n \in Nat /\ used_bytes[f] + n <= Capacity[f]
      /\ Advance(f, write_index[f], n) \in Nat
      /\ Advance(f, write_index[f], n) =
           Advance(f, read_index[f], used_bytes[f] + n)
  BY <1>2, PutShape
<1>7. /\ used_bytes[other] - n \in Nat /\ used_bytes[other] - n <= Capacity[other]
      /\ Advance(other, read_index[other], n) \in Nat
      /\ Advance(other, read_index[other], n) < Capacity[other]
      /\ write_index[other] =
           Advance(other, Advance(other, read_index[other], n), used_bytes[other] - n)
  BY <1>2, TakeShape
<1>8. TypeOK'
  BY <1>1, <1>3, <1>5, <1>6, <1>7 DEF IInv, TypeOK
<1>9. RingShape'
  BY <1>1, <1>3, <1>6, <1>7 DEF IInv, TypeOK, RingShape
<1> QED BY <1>8, <1>9 DEF IInv

LEMMA ClearIInv ==
    ASSUME IInv, NEW f \in Fifos, Clear(f)
    PROVE  IInv'
<1>1. Capacity[f] \in Nat \ {0} /\ 0 \in Cells(f) /\ 0 \in 0 .. Capacity[f]
  BY FifoAssumption DEF Cells
<1>2. Advance(f, 0, 0) = 0
  BY <1>1, AdvanceType
<1>3. TypeOK'
  BY DEF IInv, TypeOK, Clear
<1>4. RingShape'
  BY <1>1, <1>2 DEF IInv, TypeOK, RingShape, Clear
<1> QED BY <1>3, <1>4 DEF IInv

LEMMA NextIInv == IInv /\ [Next]_vars => IInv'
<1> SUFFICES ASSUME IInv, [Next]_vars PROVE IInv'
  OBVIOUS
<1>1. ASSUME NEW f \in Fifos, NEW src \in Chunks, Enqueue(f, src) PROVE IInv'
  BY <1>1, EnqueueIInv
<1>2. ASSUME NEW f \in Fifos, NEW amount \in Sizes, Dequeue(f, amount) PROVE IInv'
  BY <1>2, DequeueIInv
<1>3. ASSUME NEW f \in Fifos, NEW other \in Fifos, EnqueueFromOther(f, other)
      PROVE IInv'
  BY <1>3, EnqueueFromOtherIInv
<1>4. ASSUME NEW f \in Fifos, Clear(f) PROVE IInv'
  BY <1>4, ClearIInv
<1>5. CASE UNCHANGED vars
  BY <1>5 DEF IInv, TypeOK, RingShape, vars
<1> QED BY <1>1, <1>2, <1>3, <1>4, <1>5 DEF Next

\* Every reachable state of every ring buffer is well typed and its counters
\* agree, whatever the number of buffers, their capacities and the chunks:
\* the loops of fifobuffer.c never index outside the cell array.
THEOREM RingInvariant == Spec => [](TypeOK /\ RingShape)
<1>1. Spec => []IInv
  BY InitIInv, NextIInv, PTL DEF Spec
<1>2. IInv => TypeOK /\ RingShape
  BY DEF IInv
<1> QED BY <1>1, <1>2, PTL

-----------------------------------------------------------------------------
(* Refinement *)

\* The queue a buffer represents, seen as a sequence.
LEMMA ContentsSeq ==
    ASSUME IInv, NEW f \in Fifos
    PROVE  /\ Contents[f] \in Seq(Byte)
           /\ Len(Contents[f]) = used_bytes[f]
           /\ used_bytes[f] \in Nat
           /\ \A i \in 1 .. used_bytes[f] :
                Contents[f][i] = data[f][Advance(f, read_index[f], i - 1)]
           /\ Abstract!Free(f) = fifobuffer_get_free(f)
<1>1. used_bytes[f] \in Nat /\ used_bytes[f] \in 0 .. used_bytes[f]
  BY CountTypes
<1>2. Contents[f] = Unread(f, used_bytes[f])
  BY DEF Contents
<1> QED BY <1>1, <1>2, UnreadType DEF Abstract!Free, fifobuffer_get_free

\* A function on 1..m built cell by cell from bytes is a sequence.
LEMMA TabulatedSeq ==
    ASSUME NEW m \in Nat, NEW g, DOMAIN g = 1 .. m, g = [i \in 1 .. m |-> g[i]],
           \A i \in 1 .. m : g[i] \in Byte
    PROVE  g \in Seq(Byte) /\ Len(g) = m
OBVIOUS

\* Storing n bytes appends them to the represented queue.
LEMMA PutContents ==
    ASSUME IInv, NEW f \in Fifos, NEW src \in Seq(Byte), NEW n \in Nat,
           n <= Len(src), n <= fifobuffer_get_free(f)
    PROVE  [i \in 1 .. used_bytes[f] + n |->
              Stored(f, src, n)[Advance(f, read_index[f], i - 1)]] =
           Contents[f] \o SubSeq(src, 1, n)
<1> DEFINE u == used_bytes[f]
           old == Contents[f]
           add == SubSeq(src, 1, n)
           new == [i \in 1 .. u + n |->
                     Stored(f, src, n)[Advance(f, read_index[f], i - 1)]]
<1>2. /\ u \in Nat /\ old \in Seq(Byte) /\ Len(old) = u
      /\ \A i \in 1 .. u : old[i] = data[f][Advance(f, read_index[f], i - 1)]
  BY ContentsSeq
<1>4. add \in Seq(Byte) /\ Len(add) = n /\ \A i \in 1 .. n : add[i] = src[i]
  OBVIOUS
<1>5. \A i \in 1 .. u + n :
         new[i] = IF i <= u THEN old[i] ELSE add[i - u]
  <2> SUFFICES ASSUME NEW i \in 1 .. u + n
               PROVE  new[i] = IF i <= u THEN old[i] ELSE add[i - u]
    OBVIOUS
  <2>1. Stored(f, src, n)[Advance(f, read_index[f], i - 1)] =
               IF i <= used_bytes[f]
               THEN data[f][Advance(f, read_index[f], i - 1)]
               ELSE src[i - used_bytes[f]]
    BY StoredReadBack
  <2>2. CASE i <= u
    BY <2>1, <2>2, <1>2
  <2>3. CASE ~(i <= u)
    <3>1. i - u \in 1 .. n
      BY <1>2, <2>3
    <3>2. add[i - u] = src[i - u]
      BY <3>1, <1>4
    <3> HIDE DEF add
    <3> QED BY <2>1, <2>3, <3>2
  <2> QED BY <2>2, <2>3
<1>6. new = old \o add
  <2>1. \A i \in 1 .. u + n : new[i] \in Byte
    <3> HIDE DEF u, old, add, new
    <3> QED BY <1>2, <1>4, <1>5
  <2>2. new \in Seq(Byte) /\ Len(new) = u + n
    <3>1. u + n \in Nat
      BY <1>2
    <3>2. DOMAIN new = 1 .. u + n /\ new = [i \in 1 .. u + n |-> new[i]]
      OBVIOUS
    <3> HIDE DEF u, new
    <3> QED BY <2>1, <3>1, <3>2, TabulatedSeq
  <2> HIDE DEF u, old, add, new
  <2>3. /\ old \o add \in Seq(Byte) /\ Len(old \o add) = u + n
        /\ \A i \in 1 .. u + n :
              (old \o add)[i] = IF i <= u THEN old[i] ELSE add[i - u]
    BY <1>2, <1>4, ConcatProperties, ZenonT(40)
  <2>4. \A i \in 1 .. Len(new) : new[i] = (old \o add)[i]
    BY <2>2, <2>3, <1>5
  <2> QED BY <2>2, <2>3, <2>4, SeqEqual
<1> QED BY <1>6

\* Reading n bytes takes them from the front of the represented queue.
LEMMA TakeContents ==
    ASSUME IInv, NEW f \in Fifos, NEW n \in 0 .. used_bytes[f]
    PROVE  /\ Unread(f, n) = SubSeq(Contents[f], 1, n)
           /\ [i \in 1 .. used_bytes[f] - n |->
                 data[f][Advance(f, Advance(f, read_index[f], n), i - 1)]] =
              SubSeq(Contents[f], n + 1, Len(Contents[f]))
<1> DEFINE u == used_bytes[f]
           old == Contents[f]
           r == read_index[f]
<1>1. /\ u \in Nat /\ old \in Seq(Byte) /\ Len(old) = u
      /\ \A i \in 1 .. u : old[i] = data[f][Advance(f, r, i - 1)]
      /\ n \in Nat /\ n <= u /\ u <= Capacity[f] /\ r \in Cells(f)
      /\ Capacity[f] \in Nat
  BY ContentsSeq, CountTypes
<1>2. Unread(f, n) = SubSeq(old, 1, n)
  <2>1. /\ SubSeq(old, 1, n) \in Seq(Byte) /\ Len(SubSeq(old, 1, n)) = n
        /\ \A i \in 1 .. n : SubSeq(old, 1, n)[i] = old[i]
    <3> HIDE DEF old, u
    <3> QED BY <1>1
  <2>2. /\ Unread(f, n) \in Seq(Byte) /\ Len(Unread(f, n)) = n
        /\ \A i \in 1 .. n : Unread(f, n)[i] = data[f][Advance(f, r, i - 1)]
    BY UnreadType
  <2>3. \A i \in 1 .. n : i \in 1 .. u
    BY <1>1
  <2>4. \A i \in 1 .. Len(Unread(f, n)) : Unread(f, n)[i] = SubSeq(old, 1, n)[i]
    <3> HIDE DEF old, r, u
    <3> QED BY <1>1, <2>1, <2>2, <2>3
  <2> HIDE DEF old
  <2> QED BY <2>1, <2>2, <2>4, SeqEqual
<1>3. [i \in 1 .. u - n |-> data[f][Advance(f, Advance(f, r, n), i - 1)]] =
        SubSeq(old, n + 1, u)
  <2> DEFINE rest == [i \in 1 .. u - n |->
                        data[f][Advance(f, Advance(f, r, n), i - 1)]]
             sub == SubSeq(old, n + 1, u)
  <2>1. /\ sub \in Seq(Byte) /\ Len(sub) = u - n
        /\ \A i \in 1 .. u - n : sub[i] = old[n + i]
    <3> HIDE DEF old, u
    <3> QED BY <1>1
  <2>2. ASSUME NEW i \in 1 .. u - n
        PROVE  rest[i] = sub[i]
    <3>1. i - 1 \in Nat /\ n + (i - 1) <= Capacity[f] /\ n + i \in 1 .. u
          /\ n + (i - 1) = (n + i) - 1
      BY <1>1
    <3>2. Advance(f, Advance(f, r, n), i - 1) = Advance(f, r, n + (i - 1))
      BY <1>1, <3>1, AdvanceSum
    <3>3. rest[i] = data[f][Advance(f, r, (n + i) - 1)]
      BY <3>1, <3>2
    <3>4. old[n + i] = data[f][Advance(f, r, (n + i) - 1)]
      BY <1>1, <3>1
    <3> HIDE DEF rest, sub, old
    <3> QED BY <2>1, <3>3, <3>4
  <2>3. rest \in Seq(Byte) /\ Len(rest) = u - n
    <3>1. u - n \in Nat
      BY <1>1
    <3>2. DOMAIN rest = 1 .. u - n /\ rest = [i \in 1 .. u - n |-> rest[i]]
      OBVIOUS
    <3> HIDE DEF rest, sub, u
    <3>3. \A i \in 1 .. u - n : rest[i] \in Byte
      BY <2>1, <2>2
    <3> QED BY <3>1, <3>2, <3>3, TabulatedSeq
  <2>4. \A i \in 1 .. Len(rest) : rest[i] = sub[i]
    <3> HIDE DEF rest, sub, u
    <3> QED BY <2>2, <2>3
  <2>5. rest = sub
    <3> HIDE DEF rest, sub, u
    <3> QED BY <2>1, <2>3, <2>4, SeqEqual
  <2> QED BY <2>5
<1> QED BY <1>1, <1>2, <1>3

LEMMA EnqueueRefines ==
    ASSUME IInv, NEW f \in Fifos, NEW src \in Chunks, Enqueue(f, src)
    PROVE  Abstract!APut(f, src)
<1> DEFINE n == Min2(Len(src), fifobuffer_get_free(f))
           new == [i \in 1 .. used_bytes[f] + n |->
                     Stored(f, src, n)[Advance(f, read_index[f], i - 1)]]
<1>1. src \in Seq(Byte) /\ Len(src) \in Nat
  BY FifoAssumption
<1>2. /\ fifobuffer_get_free(f) \in Nat
      /\ Abstract!Free(f) = fifobuffer_get_free(f)
  BY CountTypes, ContentsSeq
<1>3. n \in Nat /\ n <= Len(src) /\ n <= fifobuffer_get_free(f)
  BY <1>1, <1>2, MinBounds
<1>4. new = Contents[f] \o SubSeq(src, 1, n)
  <2> HIDE DEF n
  <2> QED BY <1>1, <1>3, PutContents
<1>5. /\ data' = [data EXCEPT ![f] = Stored(f, src, n)]
      /\ used_bytes' = [used_bytes EXCEPT ![f] = @ + n]
      /\ read_index' = read_index /\ delivered' = delivered
  BY DEF Enqueue
<1>6. Contents' = [Contents EXCEPT ![f] = new]
  <2> HIDE DEF n
  <2> QED BY <1>5 DEF Contents, Unread, IInv, TypeOK
<1>7. Abstract!LeastOf(Len(src), Abstract!Free(f)) = n
  BY <1>2 DEF Abstract!LeastOf, Min2
<1> HIDE DEF n, new
<1> QED BY <1>4, <1>5, <1>6, <1>7 DEF Abstract!APut

LEMMA DequeueRefines ==
    ASSUME IInv, NEW f \in Fifos, NEW amount \in Sizes, Dequeue(f, amount)
    PROVE  Abstract!AGet(f, amount)
<1> DEFINE n == Min2(amount, used_bytes[f])
           rest == [i \in 1 .. used_bytes[f] - n |->
                      data[f][Advance(f, Advance(f, read_index[f], n), i - 1)]]
<1>1. /\ amount \in Nat /\ used_bytes[f] \in Nat
      /\ Len(Contents[f]) = used_bytes[f]
  BY FifoAssumption, ContentsSeq
<1>2. n \in 0 .. used_bytes[f]
  <2>1. n \in Nat /\ n <= used_bytes[f]
    BY <1>1, MinBounds
  <2> QED BY <1>1, <2>1
<1>3. /\ Unread(f, n) = SubSeq(Contents[f], 1, n)
      /\ rest = SubSeq(Contents[f], n + 1, Len(Contents[f]))
  <2> HIDE DEF n
  <2> QED BY <1>2, TakeContents
<1>4. /\ delivered' = Unread(f, n)
      /\ used_bytes' = [used_bytes EXCEPT ![f] = @ - n]
      /\ read_index' = [read_index EXCEPT ![f] = Advance(f, @, n)]
      /\ data' = data
  BY DEF Dequeue
<1>5. Contents' = [Contents EXCEPT ![f] = rest]
  <2> HIDE DEF n
  <2> QED BY <1>4 DEF Contents, Unread, IInv, TypeOK
<1>6. Abstract!LeastOf(amount, Len(Contents[f])) = n
  BY <1>1 DEF Abstract!LeastOf, Min2
<1> HIDE DEF n, rest
<1> QED BY <1>3, <1>4, <1>5, <1>6 DEF Abstract!AGet

LEMMA EnqueueFromOtherRefines ==
    ASSUME IInv, NEW f \in Fifos, NEW other \in Fifos, EnqueueFromOther(f, other)
    PROVE  f # other /\ Abstract!AMove(f, other)
<1> DEFINE n == Min2(fifobuffer_get_free(f), used_bytes[other])
           src == Unread(other, n)
           new == [i \in 1 .. used_bytes[f] + n |->
                     Stored(f, src, n)[Advance(f, read_index[f], i - 1)]]
           rest == [i \in 1 .. used_bytes[other] - n |->
                      data[other][Advance(other,
                                    Advance(other, read_index[other], n), i - 1)]]
<1>1. f # other
  BY DEF EnqueueFromOther
<1>2. /\ fifobuffer_get_free(f) \in Nat /\ used_bytes[other] \in Nat
      /\ Abstract!Free(f) = fifobuffer_get_free(f)
      /\ Len(Contents[other]) = used_bytes[other]
  BY CountTypes, ContentsSeq
<1>3. n \in Nat /\ n <= fifobuffer_get_free(f) /\ n \in 0 .. used_bytes[other]
  <2>1. n \in Nat /\ n <= fifobuffer_get_free(f) /\ n <= used_bytes[other]
    BY <1>2, MinBounds
  <2> QED BY <1>2, <2>1
<1>4. src \in Seq(Byte) /\ Len(src) = n
  <2> HIDE DEF n
  <2> QED BY <1>3, UnreadType
<1>5. SubSeq(src, 1, n) = src
  <2> HIDE DEF n, src
  <2> QED BY <1>3, <1>4, SubSeqFull
<1>6. new = Contents[f] \o src
  <2> HIDE DEF n, src
  <2>1. n <= Len(src)
    BY <1>3, <1>4
  <2>2. new = Contents[f] \o SubSeq(src, 1, n)
    BY <1>3, <1>4, <2>1, PutContents
  <2> HIDE DEF new
  <2> QED BY <2>2, <1>5
<1>7. /\ src = SubSeq(Contents[other], 1, n)
      /\ rest = SubSeq(Contents[other], n + 1, Len(Contents[other]))
  <2> HIDE DEF n
  <2> QED BY <1>3, TakeContents
<1>8. /\ data' = [data EXCEPT ![f] = Stored(f, src, n)]
      /\ used_bytes' = [used_bytes EXCEPT ![f] = @ + n, ![other] = @ - n]
      /\ read_index' = [read_index EXCEPT ![other] = Advance(other, @, n)]
      /\ delivered' = delivered
  BY DEF EnqueueFromOther
<1>9. Contents' = [Contents EXCEPT ![f] = new, ![other] = rest]
  <2> HIDE DEF n, src
  <2> QED BY <1>1, <1>8 DEF Contents, Unread, IInv, TypeOK
<1>10. Abstract!LeastOf(Abstract!Free(f), Len(Contents[other])) = n
  BY <1>2 DEF Abstract!LeastOf, Min2
<1> HIDE DEF n, src, new, rest
<1> QED BY <1>1, <1>6, <1>7, <1>8, <1>9, <1>10 DEF Abstract!AMove

LEMMA ClearRefines ==
    ASSUME IInv, NEW f \in Fifos, Clear(f)
    PROVE  Abstract!AClear(f)
<1>1. /\ used_bytes' = [used_bytes EXCEPT ![f] = 0]
      /\ read_index' = [read_index EXCEPT ![f] = 0]
      /\ data' = data /\ delivered' = delivered
  BY DEF Clear
<1> DEFINE none == [i \in 1 .. 0 |-> data[f][Advance(f, 0, i - 1)]]
<1>2. none = <<>>
  OBVIOUS
<1>3. Contents' = [Contents EXCEPT ![f] = none]
  BY <1>1 DEF Contents, Unread, IInv, TypeOK
<1> HIDE DEF none
<1> QED BY <1>1, <1>2, <1>3 DEF Abstract!AClear

\* The ring buffer implements the bounded first-in first-out queue, for every
\* number of buffers, all capacities and all chunks: an accepted byte comes
\* out exactly once, unchanged and in order.
THEOREM RingIsQueue == Spec => ImplementsQueue
<1>1. Init => Abstract!AInit
  <2> SUFFICES ASSUME Init PROVE Abstract!AInit
    OBVIOUS
  <2>1. Contents = [f \in Fifos |-> <<>>]
    BY DEF Init, Contents, Unread
  <2> QED BY <2>1 DEF Init, Abstract!AInit
<1>2. IInv /\ [Next]_vars => [Abstract!ANext]_(Abstract!avars)
  <2> SUFFICES ASSUME IInv, [Next]_vars
               PROVE  [Abstract!ANext]_(Abstract!avars)
    OBVIOUS
  <2>1. ASSUME NEW f \in Fifos, NEW src \in Chunks, Enqueue(f, src)
        PROVE  Abstract!ANext
    BY <2>1, EnqueueRefines DEF Abstract!ANext
  <2>2. ASSUME NEW f \in Fifos, NEW amount \in Sizes, Dequeue(f, amount)
        PROVE  Abstract!ANext
    BY <2>2, DequeueRefines DEF Abstract!ANext
  <2>3. ASSUME NEW f \in Fifos, NEW other \in Fifos, EnqueueFromOther(f, other)
        PROVE  Abstract!ANext
    BY <2>3, EnqueueFromOtherRefines DEF Abstract!ANext
  <2>4. ASSUME NEW f \in Fifos, Clear(f)
        PROVE  Abstract!ANext
    BY <2>4, ClearRefines DEF Abstract!ANext
  <2>5. CASE UNCHANGED vars
    BY <2>5 DEF vars, Abstract!avars, Contents, Unread
  <2> QED BY <2>1, <2>2, <2>3, <2>4, <2>5 DEF Next
<1>3. Spec => []IInv
  BY InitIInv, NextIInv, PTL DEF Spec
<1> QED BY <1>1, <1>2, <1>3, PTL DEF Spec, ImplementsQueue, Abstract!ASpec

-----------------------------------------------------------------------------
(***************************************************************************)
(* The kernel heap.                                                        *)
(***************************************************************************)

\* Tiled, for any sizes sz and any end h of the heap.
ChunksOf(sz) == {a \in Addr : sz[a] > 0}
Row(sz, h) ==
    /\ 0 \in ChunksOf(sz)
    /\ \A c \in ChunksOf(sz) : /\ sz[c] >= MinSize
                               /\ c + sz[c] \in ChunksOf(sz) \cup {h}
                               /\ c + sz[c] <= h
    /\ \A c, d \in ChunksOf(sz) : c < d => c + sz[c] <= d

HeapInv == HeapTypeOK /\ Tiled

\* What their users may write lies inside the chunks of u.
Fits(sz, ask, u) == \A c \in u : HeaderSize + ask[c] <= sz[c]

LEMMA TiledIsRow ==
    Tiled <=> Row(size, heap) /\ used \subseteq ChunksOf(size) /\ Fits(size, asked, used)
  BY DEF Tiled, Row, HeapChunks, ChunksOf, End, Fits

\* Cutting a chunk in two, neither part too small, leaves a row with one chunk more.
LEMMA SplitKeepsRow ==
    ASSUME NEW sz \in [Addr -> 0..HeapEnd], NEW h \in 0..HeapEnd, Row(sz, h),
           NEW c \in ChunksOf(sz), NEW real \in Nat,
           real >= MinSize, sz[c] - real >= MinSize
    PROVE  LET new == [sz EXCEPT ![c] = real, ![c + real] = sz[c] - real]
           IN /\ new \in [Addr -> 0..HeapEnd]
              /\ c + real \in Addr /\ c + real \notin ChunksOf(sz)
              /\ ChunksOf(new) = ChunksOf(sz) \cup {c + real}
              /\ Row(new, h)
<1> DEFINE e == c + real
           left == sz[c] - real
           new == [sz EXCEPT ![c] = real, ![e] = left]
<1>1. /\ c \in Addr /\ c \in Nat /\ sz[c] \in 0..HeapEnd /\ sz[c] \in Nat /\ sz[c] > 0
      /\ c + sz[c] <= h /\ h <= HeapEnd
      /\ HeapEnd \in Nat /\ MinSize \in Nat /\ MinSize > 0
  BY HeapAssumption DEF Addr, ChunksOf, Row
<1>2. e \in Addr /\ e \in Nat /\ c < e /\ e < c + sz[c] /\ left \in 1..HeapEnd /\ real \in 1..HeapEnd
  BY <1>1 DEF Addr
<1>3. e \notin ChunksOf(sz)
  <2> SUFFICES ASSUME e \in ChunksOf(sz) PROVE FALSE
    OBVIOUS
  <2>1. c + sz[c] <= e
    BY <1>2 DEF Row
  <2> QED
    BY <2>1, <1>1, <1>2
<1>4. new \in [Addr -> 0..HeapEnd]
  BY <1>1, <1>2
<1>5. /\ new[c] = real /\ new[e] = left
      /\ \A a \in Addr : a # c /\ a # e => new[a] = sz[a]
  BY <1>1, <1>2
<1>6. e + left = c + sz[c] /\ c + real = e
  BY <1>1, <1>2
<1> HIDE DEF new, e, left
<1>7. ChunksOf(new) = ChunksOf(sz) \cup {e}
  <2>1. \A a \in Addr : new[a] > 0 <=> sz[a] > 0 \/ a = e
    BY <1>1, <1>2, <1>5
  <2> QED
    BY <2>1, <1>2 DEF ChunksOf
<1>8. 0 \in ChunksOf(new)
  BY <1>7 DEF Row
<1>9. ASSUME NEW x \in ChunksOf(new)
      PROVE  new[x] >= MinSize /\ x + new[x] \in ChunksOf(new) \cup {h} /\ x + new[x] <= h
  <2>1. CASE x = c
    <3>1. x + new[x] = e
      BY <2>1, <1>5, <1>6
    <3>2. e <= h
      BY <1>1, <1>2 DEF Addr
    <3> QED
      BY <2>1, <1>5, <1>7, <3>1, <3>2
  <2>2. CASE x = e
    <3>1. x + new[x] = c + sz[c] /\ new[x] >= MinSize
      BY <2>2, <1>5, <1>6 DEF left
    <3>2. c + sz[c] \in ChunksOf(sz) \cup {h}
      BY DEF Row
    <3> QED
      BY <3>1, <3>2, <1>1, <1>7
  <2>3. CASE x # c /\ x # e
    <3>1. x \in ChunksOf(sz) /\ x \in Addr /\ new[x] = sz[x]
      BY <2>3, <1>5, <1>7 DEF ChunksOf
    <3> QED
      BY <3>1, <1>7 DEF Row
  <2> QED
    BY <2>1, <2>2, <2>3
<1>10. ASSUME NEW x \in ChunksOf(new), NEW y \in ChunksOf(new), x < y
       PROVE  x + new[x] <= y
  <2>0. x \in Nat /\ y \in Nat /\ x \in Addr /\ y \in Addr
    BY HeapAssumption DEF ChunksOf, Addr
  <2>1. CASE x = c
    <3>1. x + new[x] = e
      BY <2>1, <1>5, <1>6
    <3>2. y = e \/ (y \in ChunksOf(sz) /\ c + sz[c] <= y)
      BY <2>1, <1>7, <1>10 DEF Row
    <3> QED
      BY <3>1, <3>2, <2>0, <1>1, <1>2
  <2>2. CASE x = e
    <3>1. x + new[x] = c + sz[c]
      BY <2>2, <1>5, <1>6
    <3>2. y \in ChunksOf(sz) /\ c < y
      BY <2>2, <2>0, <1>1, <1>2, <1>7, <1>10
    <3>3. c + sz[c] <= y
      BY <3>2 DEF Row
    <3> QED
      BY <3>1, <3>3
  <2>3. CASE x # c /\ x # e
    <3>1. x \in ChunksOf(sz) /\ new[x] = sz[x] /\ sz[x] \in Nat
      BY <2>0, <2>3, <1>5, <1>7, <1>1
    <3>2. CASE y = e
      <4>1. x < c
        <5> SUFFICES ASSUME c < x PROVE FALSE
          BY <2>0, <2>3, <1>1
        <5>1. c + sz[c] <= x
          BY <3>1 DEF Row
        <5> QED
          BY <5>1, <3>2, <2>0, <1>1, <1>2, <1>10
      <4>2. x + sz[x] <= c
        BY <4>1, <3>1 DEF Row
      <4> QED
        BY <4>2, <3>1, <3>2, <2>0, <1>1, <1>2
    <3>3. CASE y # e
      <4>1. y \in ChunksOf(sz)
        BY <3>3, <1>7
      <4> QED
        BY <4>1, <3>1, <1>10 DEF Row
    <3> QED
      BY <3>2, <3>3
  <2> QED
    BY <2>1, <2>2, <2>3
<1>11. Row(new, h)
  BY <1>8, <1>9, <1>10 DEF Row
<1> QED
  BY <1>2, <1>3, <1>4, <1>7, <1>11 DEF new, e, left

\* A chunk put behind the last one leaves a row that ends where the chunk ends.
LEMMA AppendKeepsRow ==
    ASSUME NEW sz \in [Addr -> 0..HeapEnd], NEW h \in 0..HeapEnd, Row(sz, h),
           NEW b \in Nat, b >= MinSize, h + b <= HeapEnd
    PROVE  LET new == [sz EXCEPT ![h] = b]
           IN /\ new \in [Addr -> 0..HeapEnd]
              /\ h \in Addr /\ h \notin ChunksOf(sz)
              /\ ChunksOf(new) = ChunksOf(sz) \cup {h}
              /\ Row(new, h + b)
<1> DEFINE new == [sz EXCEPT ![h] = b]
<1>1. /\ HeapEnd \in Nat /\ MinSize \in Nat /\ MinSize > 0
      /\ h \in Addr /\ h \in Nat /\ b \in 0..HeapEnd /\ b > 0
  BY HeapAssumption DEF Addr
<1>2. ASSUME NEW x \in ChunksOf(sz)
      PROVE  /\ x \in Addr /\ x \in Nat /\ sz[x] \in Nat /\ sz[x] > 0
             /\ x < h /\ x + sz[x] <= h
  <2>1. x \in Addr /\ x \in Nat /\ sz[x] \in Nat /\ sz[x] > 0
    BY <1>1 DEF ChunksOf, Addr
  <2>2. x + sz[x] <= h
    BY DEF Row
  <2> QED
    BY <2>1, <2>2, <1>1
<1>3. h \notin ChunksOf(sz)
  BY <1>1, <1>2
<1>4. new \in [Addr -> 0..HeapEnd]
  BY <1>1
<1>5. new[h] = b /\ \A a \in Addr : a # h => new[a] = sz[a]
  BY <1>1
<1> HIDE DEF new
<1>6. ChunksOf(new) = ChunksOf(sz) \cup {h}
  <2>1. \A a \in Addr : new[a] > 0 <=> sz[a] > 0 \/ a = h
    BY <1>1, <1>5
  <2> QED
    BY <2>1, <1>1 DEF ChunksOf
<1>7. \A x \in ChunksOf(sz) : new[x] = sz[x]
  BY <1>2, <1>3, <1>5
<1>8. 0 \in ChunksOf(new)
  BY <1>6 DEF Row
<1>9. ASSUME NEW x \in ChunksOf(new)
      PROVE  /\ new[x] >= MinSize
             /\ x + new[x] \in ChunksOf(new) \cup {h + b}
             /\ x + new[x] <= h + b
  <2>1. CASE x = h
    BY <2>1, <1>1, <1>5
  <2>2. CASE x \in ChunksOf(sz)
    <3>1. new[x] = sz[x] /\ x + sz[x] \in ChunksOf(sz) \cup {h} /\ sz[x] >= MinSize
      BY <2>2, <1>7 DEF Row
    <3>2. x + sz[x] <= h + b
      BY <2>2, <1>1, <1>2
    <3> QED
      BY <3>1, <3>2, <1>6
  <2> QED
    BY <2>1, <2>2, <1>6
<1>10. ASSUME NEW x \in ChunksOf(new), NEW y \in ChunksOf(new), x < y
       PROVE  x + new[x] <= y
  <2>1. x \in ChunksOf(sz)
    <3> SUFFICES ASSUME x = h PROVE FALSE
      BY <1>6
    <3>1. y \in ChunksOf(sz)
      BY <1>1, <1>6, <1>10
    <3> QED
      BY <3>1, <1>1, <1>2, <1>10
  <2>2. CASE y = h
    BY <2>1, <2>2, <1>2, <1>7
  <2>3. CASE y \in ChunksOf(sz)
    BY <2>1, <2>3, <1>7, <1>10 DEF Row
  <2> QED
    BY <2>2, <2>3, <1>6
<1>11. Row(new, h + b)
  BY <1>8, <1>9, <1>10 DEF Row
<1> QED
  BY <1>1, <1>3, <1>4, <1>6, <1>11 DEF new

\* Merging a used chunk with all that lies between it and the next used chunk, or
\* the end of the heap, leaves a row that has the other used chunks as they were.
LEMMA MergeKeepsRow ==
    ASSUME NEW sz \in [Addr -> 0..HeapEnd], NEW h \in 0..HeapEnd, Row(sz, h),
           NEW u, u \subseteq ChunksOf(sz), NEW c \in u, NEW stop \in u \cup {h}, c < stop,
           \A d \in u : c < d => stop <= d
    PROVE  LET new == [a \in Addr |-> IF a = c THEN stop - c
                                      ELSE IF c < a /\ a < stop THEN 0
                                      ELSE sz[a]]
           IN /\ new \in [Addr -> 0..HeapEnd]
              /\ Row(new, h)
              /\ u \ {c} \subseteq ChunksOf(new)
              /\ \A d \in u \ {c} : new[d] = sz[d]
<1> DEFINE new == [a \in Addr |-> IF a = c THEN stop - c
                                  ELSE IF c < a /\ a < stop THEN 0
                                  ELSE sz[a]]
<1>1. /\ HeapEnd \in Nat /\ MinSize \in Nat /\ MinSize > 0 /\ h \in Nat /\ h <= HeapEnd
  BY HeapAssumption
<1>2. ASSUME NEW x \in ChunksOf(sz)
      PROVE  /\ x \in Addr /\ x \in Nat /\ sz[x] \in 0..HeapEnd /\ sz[x] \in Nat /\ sz[x] > 0
             /\ sz[x] >= MinSize /\ x + sz[x] <= h
             /\ x + sz[x] \in ChunksOf(sz) \cup {h}
  BY <1>1 DEF ChunksOf, Addr, Row
<1>3. /\ c \in ChunksOf(sz) /\ c \in Nat /\ c \in Addr
      /\ stop \in Nat /\ stop <= h /\ stop \in ChunksOf(sz) \cup {h}
  <2>1. c \in ChunksOf(sz)
    OBVIOUS
  <2>2. CASE stop = h
    BY <2>1, <2>2, <1>1, <1>2
  <2>3. CASE stop \in ChunksOf(sz)
    BY <2>1, <2>3, <1>1, <1>2
  <2> QED
    BY <2>2, <2>3
<1>4. c + sz[c] <= stop
  <2>1. CASE stop = h
    BY <2>1, <1>2, <1>3
  <2>2. CASE stop \in ChunksOf(sz)
    BY <2>2, <1>3 DEF Row
  <2> QED
    BY <2>1, <2>2, <1>3
<1>5. stop - c \in 0..HeapEnd /\ stop - c >= MinSize /\ stop - c > 0 /\ c + (stop - c) = stop
  <2>1. sz[c] \in Nat /\ sz[c] >= MinSize
    BY <1>2, <1>3
  <2> QED
    BY <2>1, <1>1, <1>3, <1>4
<1>6. /\ new[c] = stop - c
      /\ \A a \in Addr : a # c /\ c < a /\ a < stop => new[a] = 0
      /\ \A a \in Addr : a # c /\ ~(c < a /\ a < stop) => new[a] = sz[a]
  BY <1>3
<1>7. new \in [Addr -> 0..HeapEnd]
  BY <1>1, <1>5
<1> HIDE DEF new
<1>8. ChunksOf(new) = {x \in ChunksOf(sz) : ~(c < x /\ x < stop)}
  <2>1. \A a \in Addr : new[a] > 0 <=> sz[a] > 0 /\ ~(c < a /\ a < stop)
    <3> SUFFICES ASSUME NEW a \in Addr
                 PROVE  new[a] > 0 <=> sz[a] > 0 /\ ~(c < a /\ a < stop)
      OBVIOUS
    <3>1. CASE a = c
      BY <3>1, <1>2, <1>3, <1>5, <1>6
    <3>2. CASE a # c /\ c < a /\ a < stop
      BY <3>2, <1>6
    <3>3. CASE a # c /\ ~(c < a /\ a < stop)
      BY <3>3, <1>6
    <3> QED
      BY <3>1, <3>2, <3>3
  <2> QED
    BY <2>1 DEF ChunksOf
<1>9. \A x \in ChunksOf(new) : x # c => new[x] = sz[x]
  BY <1>2, <1>6, <1>8
<1>10. 0 \in ChunksOf(new)
  <2>1. 0 \in ChunksOf(sz)
    BY DEF Row
  <2> QED
    BY <2>1, <1>3, <1>8
<1>11. ASSUME NEW x \in ChunksOf(new)
       PROVE  new[x] >= MinSize /\ x + new[x] \in ChunksOf(new) \cup {h} /\ x + new[x] <= h
  <2>1. CASE x = c
    <3>1. x + new[x] = stop /\ new[x] >= MinSize
      BY <2>1, <1>5, <1>6
    <3>2. stop \in ChunksOf(new) \cup {h}
      BY <1>3, <1>8
    <3> QED
      BY <3>1, <3>2, <1>3
  <2>2. CASE x # c
    <3>1. x \in ChunksOf(sz) /\ ~(c < x /\ x < stop) /\ new[x] = sz[x] /\ x \in Nat
      BY <2>2, <1>2, <1>8, <1>9
    <3>2. ~(c < x + sz[x] /\ x + sz[x] < stop)
      <4>1. CASE x < c
        <5>1. x + sz[x] <= c
          BY <4>1, <3>1, <1>3 DEF Row
        <5> QED
          BY <5>1, <3>1, <1>2, <1>3
      <4>2. CASE stop <= x
        BY <4>2, <3>1, <1>2, <1>3
      <4> QED
        BY <4>1, <4>2, <3>1, <2>2, <1>3
    <3> QED
      BY <3>1, <3>2, <1>2, <1>8
  <2> QED
    BY <2>1, <2>2
<1>12. ASSUME NEW x \in ChunksOf(new), NEW y \in ChunksOf(new), x < y
       PROVE  x + new[x] <= y
  <2>1. CASE x = c
    <3>1. x + new[x] = stop
      BY <2>1, <1>5, <1>6
    <3>2. stop <= y
      BY <2>1, <1>2, <1>3, <1>8, <1>12
    <3> QED
      BY <3>1, <3>2
  <2>2. CASE x # c
    BY <2>2, <1>8, <1>9, <1>12 DEF Row
  <2> QED
    BY <2>1, <2>2
<1>13. Row(new, h)
  BY <1>10, <1>11, <1>12 DEF Row
<1>14. u \ {c} \subseteq ChunksOf(new)
  <2> SUFFICES ASSUME NEW d \in u \ {c} PROVE d \in ChunksOf(new)
    OBVIOUS
  <2>1. d \in ChunksOf(sz) /\ d \in Nat /\ (c < d => stop <= d)
    BY <1>2
  <2> QED
    BY <2>1, <1>3, <1>8
<1>15. \A d \in u \ {c} : new[d] = sz[d]
  BY <1>9, <1>14
<1> QED
  BY <1>7, <1>13, <1>14, <1>15 DEF new

\* What kmalloc asks for holds the header and the bytes wanted, and fits in the
\* pages ksbrk_page adds for it.
LEMMA RealSizeFacts ==
    ASSUME NEW n \in Request
    PROVE  /\ RealSize(n) \in Nat /\ RealSize(n) >= MinSize /\ RealSize(n) >= HeaderSize + n
           /\ KsbrkBytes(RealSize(n)) \in Nat /\ KsbrkBytes(RealSize(n)) >= RealSize(n)
<1> DEFINE real == RealSize(n)
           q == real \div PageSize
           r == real % PageSize
<1>1. n \in Nat /\ HeaderSize \in Nat /\ MinSize \in Nat /\ PageSize \in Nat /\ PageSize > 0
  BY HeapAssumption
<1>2. real \in Nat /\ real >= MinSize /\ real >= HeaderSize + n
  BY <1>1 DEF RealSize
<1> HIDE DEF real
<1>3. q \in Nat /\ r \in 0..(PageSize - 1) /\ real = PageSize * q + r
  BY <1>1, <1>2
<1>4. KsbrkBytes(real) = (q + 1) * PageSize
  BY DEF KsbrkBytes
<1> HIDE DEF q, r
<1>5. (q + 1) * PageSize = PageSize * q + PageSize /\ PageSize * q \in Nat
  BY <1>1, <1>3
<1>6. KsbrkBytes(real) \in Nat /\ KsbrkBytes(real) >= real
  BY <1>1, <1>2, <1>3, <1>4, <1>5
<1> QED
  BY <1>2, <1>6 DEF real

\* The three things a call of kmalloc or kfree can come to.
Took(c, n) ==
    /\ size' \in [Addr -> 0..HeapEnd] /\ heap' \in 0..HeapEnd /\ halted' = halted
    /\ Row(size', heap')
    /\ used \subseteq ChunksOf(size') /\ c \in ChunksOf(size') \ used
    /\ \A d \in used : size'[d] = size[d]
    /\ used' = used \cup {c}
    /\ asked' = [asked EXCEPT ![c] = n]
    /\ size'[c] >= HeaderSize + n

Gave(c) ==
    /\ size' \in [Addr -> 0..HeapEnd] /\ heap' = heap /\ halted' = halted
    /\ Row(size', heap')
    /\ used' = used \ {c}
    /\ asked' = [asked EXCEPT ![c] = 0]
    /\ used' \subseteq ChunksOf(size')
    /\ \A d \in used' : size'[d] = size[d]

\* The end of kmalloc, with chunk c of a row that the call did not disturb.
LEMMA TakeTook ==
    ASSUME HeapInv, NEW n \in Request,
           NEW sz \in [Addr -> 0..HeapEnd], NEW h \in 0..HeapEnd, Row(sz, h),
           used \subseteq ChunksOf(sz), \A d \in used : sz[d] = size[d],
           NEW c \in ChunksOf(sz) \ used, sz[c] >= RealSize(n),
           size' = IF sz[c] - RealSize(n) < MinSize THEN sz
                   ELSE [sz EXCEPT ![c] = RealSize(n), ![c + RealSize(n)] = sz[c] - RealSize(n)],
           used' = used \cup {c}, asked' = [asked EXCEPT ![c] = n],
           halted' = halted, heap' = h
    PROVE  Took(c, n)
<1> DEFINE real == RealSize(n)
           cut == [sz EXCEPT ![c] = real, ![c + real] = sz[c] - real]
<1>1. /\ real \in Nat /\ real >= MinSize /\ real >= HeaderSize + n
      /\ MinSize \in Nat /\ HeaderSize \in Nat /\ n \in Nat
  BY RealSizeFacts, HeapAssumption
<1>2. c \in Addr /\ c \in Nat /\ sz[c] \in Nat /\ sz[c] >= real
  BY HeapAssumption DEF ChunksOf, Addr
<1>3. size' = IF sz[c] - real < MinSize THEN sz ELSE cut
  OBVIOUS
<1> HIDE DEF real
<1>4. CASE sz[c] - real < MinSize
  <2>1. size' = sz
    BY <1>3, <1>4
  <2>2. sz[c] >= HeaderSize + n
    BY <1>1, <1>2
  <2>3. size' \in [Addr -> 0..HeapEnd] /\ heap' \in 0..HeapEnd /\ Row(size', heap')
    BY <2>1
  <2> QED
    BY <2>1, <2>2, <2>3, Zenon DEF Took
<1>5. CASE ~(sz[c] - real < MinSize)
  <2>1. size' = cut
    BY <1>3, <1>5
  <2>2. c \in ChunksOf(sz) /\ sz[c] - real >= MinSize
    BY <1>1, <1>2, <1>5
  <2>3. /\ cut \in [Addr -> 0..HeapEnd]
        /\ c + real \in Addr /\ c + real \notin ChunksOf(sz)
        /\ ChunksOf(cut) = ChunksOf(sz) \cup {c + real}
        /\ Row(cut, h)
    BY <2>2, <1>1, SplitKeepsRow
  <2>4. c # c + real
    BY <1>1, <1>2, <2>2, <2>3
  <2>5. cut[c] = real
    BY <1>2, <2>3, <2>4
  <2>6. \A d \in used : cut[d] = sz[d]
    BY <2>3 DEF ChunksOf
  <2> HIDE DEF cut
  <2> QED
    BY <2>1, <2>2, <2>3, <2>5, <2>6, <1>1 DEF Took
<1> QED
  BY <1>4, <1>5

LEMMA KmallocTakes ==
    ASSUME HeapInv, NEW n \in Request, Kmalloc(n)
    PROVE  (\E c \in Addr : Took(c, n)) \/ (UNCHANGED <<size, used, asked, heap>> /\ halted' = TRUE)
<1> DEFINE real == RealSize(n)
           bytes == KsbrkBytes(real)
<1>1. /\ size \in [Addr -> 0..HeapEnd] /\ heap \in 0..HeapEnd /\ heap \in Nat
      /\ Row(size, heap) /\ used \subseteq ChunksOf(size) /\ HeapEnd \in Nat
  BY TiledIsRow, HeapAssumption DEF HeapInv, HeapTypeOK
<1>2. real \in Nat /\ real >= MinSize /\ bytes \in Nat /\ bytes >= real /\ MinSize \in Nat
  BY RealSizeFacts, HeapAssumption
<1>3. CASE \E c \in Fitting(real) : Take(c, n, size[c]) /\ UNCHANGED heap
  <2> PICK c \in Fitting(real) : Take(c, n, size[c]) /\ UNCHANGED heap
    BY <1>3
  <2>1. c \in ChunksOf(size) \ used /\ c \in Addr /\ size[c] >= real
    BY DEF Fitting, HeapChunks, ChunksOf
  <2>2. [size EXCEPT ![c] = size[c]] = size
    BY <1>1, <2>1
  <2>3. /\ size' = IF size[c] - real < MinSize THEN size
                   ELSE [size EXCEPT ![c] = real, ![c + real] = size[c] - real]
        /\ used' = used \cup {c} /\ asked' = [asked EXCEPT ![c] = n]
        /\ halted' = halted /\ heap' = heap
    BY <2>2 DEF Take, Split
  <2>4. Took(c, n)
    BY <1>1, <2>1, <2>3, TakeTook
  <2> QED
    BY <2>1, <2>4
<1>4. CASE /\ heap + bytes <= HeapEnd
           /\ Take(heap, n, bytes)
           /\ heap' = heap + bytes
  <2> DEFINE sz == [size EXCEPT ![heap] = bytes]
             h == heap + bytes
  <2>1. /\ sz \in [Addr -> 0..HeapEnd]
        /\ heap \in Addr /\ heap \notin ChunksOf(size)
        /\ ChunksOf(sz) = ChunksOf(size) \cup {heap}
        /\ Row(sz, h)
    <3>1. bytes >= MinSize
      BY <1>2
    <3> QED
      BY <1>1, <1>2, <1>4, <3>1, AppendKeepsRow
  <2>2. /\ heap \in ChunksOf(sz) \ used /\ sz[heap] = bytes /\ used \subseteq ChunksOf(sz)
        /\ \A d \in used : sz[d] = size[d]
    BY <1>1, <2>1 DEF ChunksOf
  <2>3. h \in 0..HeapEnd
    BY <1>1, <1>2, <1>4
  <2>4. [sz EXCEPT ![heap] = real, ![heap + real] = sz[heap] - real]
           = [size EXCEPT ![heap] = real, ![heap + real] = bytes - real]
    BY <1>1, <2>1, <2>2
  <2>5. /\ size' = IF sz[heap] - real < MinSize THEN sz
                   ELSE [sz EXCEPT ![heap] = real, ![heap + real] = sz[heap] - real]
        /\ used' = used \cup {heap} /\ asked' = [asked EXCEPT ![heap] = n]
        /\ halted' = halted /\ heap' = h
    BY <1>4, <2>2, <2>4 DEF Take, Split
  <2> HIDE DEF sz, h
  <2>6. sz[heap] >= real
    BY <2>2, <1>2
  <2>7. Took(heap, n)
    BY <2>1, <2>2, <2>3, <2>5, <2>6, TakeTook
  <2> QED
    BY <2>1, <2>7
<1>5. CASE UNCHANGED <<size, used, asked, heap>> /\ halted' = TRUE
  BY <1>5
<1> QED
  BY <1>3, <1>4, <1>5 DEF Kmalloc

LEMMA KfreeGives ==
    ASSUME HeapInv, NEW c \in used, Kfree(c)
    PROVE  Gave(c)
<1>1. /\ size \in [Addr -> 0..HeapEnd] /\ heap \in 0..HeapEnd
      /\ Row(size, heap) /\ used \subseteq ChunksOf(size)
  BY TiledIsRow DEF HeapInv, HeapTypeOK
<1> PICK stop \in used \cup {heap} :
        /\ MergeEnd(c, stop)
        /\ size' = [a \in Addr |-> IF a = c THEN stop - c
                                   ELSE IF c < a /\ a < stop THEN 0
                                   ELSE size[a]]
  BY DEF Kfree
<1>2. c < stop /\ \A d \in used : c < d => stop <= d
  BY DEF MergeEnd
<1> DEFINE new == [a \in Addr |-> IF a = c THEN stop - c
                                  ELSE IF c < a /\ a < stop THEN 0
                                  ELSE size[a]]
<1>3. /\ new \in [Addr -> 0..HeapEnd]
      /\ Row(new, heap)
      /\ used \ {c} \subseteq ChunksOf(new)
      /\ \A d \in used \ {c} : new[d] = size[d]
  BY <1>1, <1>2, MergeKeepsRow
<1>5. size' = new
  OBVIOUS
<1> HIDE DEF new
<1>4. /\ used' = used \ {c} /\ asked' = [asked EXCEPT ![c] = 0]
      /\ heap' = heap /\ halted' = halted
  BY DEF Kfree
<1> QED
  BY <1>3, <1>4, <1>5 DEF Gave

\* HeapInv is inductive.
LEMMA InitHeapInv == HeapInit => HeapInv
<1> SUFFICES ASSUME HeapInit PROVE HeapInv
  OBVIOUS
<1>1. /\ PageSize \in Nat /\ HeapEnd \in Nat /\ MinSize \in Nat /\ MinSize > 0
      /\ PageSize > 0 /\ MinSize <= PageSize /\ PageSize <= HeapEnd /\ 0 \in Addr
  BY HeapAssumption DEF Addr
<1>2. HeapTypeOK
  <2>1. size \in [Addr -> 0..HeapEnd]
    BY <1>1 DEF HeapInit
  <2>2. heap \in 0..HeapEnd /\ asked \in [Addr -> Nat]
    BY <1>1 DEF HeapInit
  <2> QED
    BY <2>1, <2>2, Zenon DEF HeapInit, HeapTypeOK
<1>3. \A a \in Addr : size[a] = IF a = 0 THEN PageSize ELSE 0
  BY DEF HeapInit
<1>4. ChunksOf(size) = {0} /\ size[0] = PageSize
  BY <1>1, <1>3 DEF ChunksOf
<1>5. heap = PageSize /\ used = {}
  BY DEF HeapInit
<1>6. Row(size, heap)
  BY <1>1, <1>4, <1>5 DEF Row
<1>7. Fits(size, asked, used)
  BY <1>5 DEF Fits
<1> QED
  BY <1>2, <1>5, <1>6, <1>7, TiledIsRow DEF HeapInv

LEMMA NextHeapInv == HeapInv /\ [HeapNext]_heapVars => HeapInv'
<1> SUFFICES ASSUME HeapInv, [HeapNext]_heapVars PROVE HeapInv'
  OBVIOUS
<1>0. (Row(size, heap) /\ used \subseteq ChunksOf(size) /\ Fits(size, asked, used))' => Tiled'
  BY DEF Tiled, Row, HeapChunks, ChunksOf, End, Fits
<1>4. used \subseteq Addr /\ asked \in [Addr -> Nat] /\ Fits(size, asked, used)
  BY TiledIsRow DEF HeapInv, HeapTypeOK
<1>1. ASSUME NEW n \in Request, Kmalloc(n) PROVE HeapInv'
  <2>1. CASE \E c \in Addr : Took(c, n)
    <3> PICK c \in Addr : Took(c, n)
      BY <2>1
    <3>0. n \in Nat /\ asked' = [asked EXCEPT ![c] = n]
      BY HeapAssumption DEF Took
    <3>1. HeapTypeOK'
      <4>1. asked' \in [Addr -> Nat]
        BY <3>0, <1>4
      <4> QED
        BY <4>1 DEF Took, HeapInv, HeapTypeOK
    <3>2. Row(size', heap') /\ used' \subseteq ChunksOf(size')
      BY DEF Took
    <3>3. Fits(size', asked', used')
      <4> SUFFICES ASSUME NEW d \in used' PROVE HeaderSize + asked'[d] <= size'[d]
        BY DEF Fits
      <4>1. CASE d = c
        <5>1. asked'[d] = n /\ size'[d] >= HeaderSize + n /\ size'[d] \in Nat /\ HeaderSize \in Nat
          BY <4>1, <3>0, <1>4, HeapAssumption DEF Took
        <5> QED
          BY <5>1, <3>0
      <4>2. CASE d # c
        <5>1. d \in used /\ asked'[d] = asked[d] /\ size'[d] = size[d]
          BY <4>2, <3>0, <1>4 DEF Took
        <5> QED
          BY <5>1, <1>4 DEF Fits
      <4> QED
        BY <4>1, <4>2
    <3> QED
      BY <3>1, <3>2, <3>3, <1>0 DEF HeapInv
  <2>2. CASE UNCHANGED <<size, used, asked, heap>> /\ halted' = TRUE
    BY <2>2 DEF HeapInv, HeapTypeOK, Tiled, HeapChunks, End
  <2> QED
    BY <2>1, <2>2, <1>1, KmallocTakes
<1>2. ASSUME NEW c \in used, Kfree(c) PROVE HeapInv'
  <2>1. Gave(c)
    BY <1>2, KfreeGives
  <2>2. HeapTypeOK'
    <3>1. asked' \in [Addr -> Nat]
      BY <2>1, <1>4 DEF Gave
    <3> QED
      BY <2>1, <3>1 DEF Gave, HeapInv, HeapTypeOK
  <2>3. Row(size', heap') /\ used' \subseteq ChunksOf(size')
    BY <2>1 DEF Gave
  <2>4. \A d \in used' : d \in used /\ asked'[d] = asked[d] /\ size'[d] = size[d]
    BY <2>1, <1>4 DEF Gave
  <2>5. Fits(size', asked', used')
    BY <2>4, <1>4 DEF Fits
  <2> QED
    BY <2>2, <2>3, <2>5, <1>0 DEF HeapInv
<1>3. CASE UNCHANGED heapVars
  BY <1>3 DEF heapVars, HeapInv, HeapTypeOK, Tiled, HeapChunks, End
<1> QED
  BY <1>1, <1>2, <1>3 DEF HeapNext

\* Whatever is allocated, split, freed and merged, the walk of kmalloc stays on
\* the row of chunks, for all page, header and chunk sizes.
THEOREM HeapTiled == HeapSpec => [](HeapTypeOK /\ Tiled)
<1>1. HeapInv => HeapTypeOK /\ Tiled
  BY DEF HeapInv
<1> QED
  BY <1>1, InitHeapInv, NextHeapInv, PTL DEF HeapSpec

BlockAt(ask, c) == [start |-> c + HeaderSize, length |-> ask[c]]
Blocks == {BlockAt(asked, c) : c \in used}

\* Different used chunks give different, disjoint blocks.
LEMMA BlocksApart ==
    ASSUME NEW sz \in [Addr -> 0..HeapEnd], NEW h \in 0..HeapEnd, Row(sz, h),
           NEW ask \in [Addr -> Nat],
           NEW c \in ChunksOf(sz), NEW d \in ChunksOf(sz), c # d, Fits(sz, ask, {c, d})
    PROVE  /\ BlockAt(ask, c) # BlockAt(ask, d)
           /\ BlockAt(ask, c) \in A!Block
           /\ A!Disjoint(BlockAt(ask, c), BlockAt(ask, d))
<1>1. /\ c \in Nat /\ d \in Nat /\ sz[c] \in Nat /\ sz[d] \in Nat
      /\ ask[c] \in Nat /\ ask[d] \in Nat /\ HeaderSize \in Nat
  BY HeapAssumption DEF ChunksOf, Addr
<1>2. /\ HeaderSize + ask[c] <= sz[c] /\ HeaderSize + ask[d] <= sz[d]
      /\ c + sz[c] <= d \/ d + sz[d] <= c
  BY <1>1 DEF Row, Fits
<1>3. BlockAt(ask, c).start # BlockAt(ask, d).start
  BY <1>1 DEF BlockAt
<1>4. BlockAt(ask, c) \in A!Block
  BY <1>1 DEF BlockAt, A!Block
<1>5. A!Disjoint(BlockAt(ask, c), BlockAt(ask, d))
  BY <1>1, <1>2 DEF BlockAt, A!Disjoint
<1> QED
  BY <1>3, <1>4, <1>5

\* A chunk taken is a new block, apart from all others, as long as asked for.
LEMMA TookAllocates ==
    ASSUME HeapInv, HeapInv', NEW n \in Request, NEW c \in Addr, Took(c, n)
    PROVE  \E b \in Blocks' \ Blocks :
               /\ b \in A!Block
               /\ b.length = n
               /\ \A e \in Blocks : A!Disjoint(b, e)
               /\ Blocks' = Blocks \cup {b}
<1> DEFINE b == BlockAt(asked', c)
<1>1. /\ asked \in [Addr -> Nat] /\ used \subseteq Addr /\ c \notin used
      /\ asked' = [asked EXCEPT ![c] = n] /\ n \in Nat
  BY HeapAssumption DEF HeapInv, HeapTypeOK, Took
<1>2. \A d \in used : BlockAt(asked', d) = BlockAt(asked, d)
  BY <1>1 DEF BlockAt
<1>3. Blocks' = {BlockAt(asked', d) : d \in used'} /\ used' = used \cup {c}
  BY DEF Blocks, BlockAt, Took
<1>4. Blocks' = Blocks \cup {b}
  <2> HIDE DEF b
  <2>1. {BlockAt(asked', d) : d \in used} = Blocks
    BY <1>2 DEF Blocks
  <2> QED
    BY <1>3, <2>1 DEF b
<1>5. ASSUME NEW d \in used
      PROVE  b # BlockAt(asked, d) /\ A!Disjoint(b, BlockAt(asked, d))
  <2>1. /\ size' \in [Addr -> 0..HeapEnd] /\ heap' \in 0..HeapEnd /\ Row(size', heap')
        /\ c \in ChunksOf(size') /\ d \in ChunksOf(size') /\ c # d
    BY DEF Took
  <2>2. asked' \in [Addr -> Nat]
    BY <1>1
  <2>3. HeaderSize + asked'[c] <= size'[c] /\ HeaderSize + asked'[d] <= size'[d]
    BY <1>3 DEF HeapInv, Tiled
  <2>4. Fits(size', asked', {c, d})
    BY <2>3 DEF Fits
  <2>5. b # BlockAt(asked', d) /\ A!Disjoint(b, BlockAt(asked', d))
    BY <2>1, <2>2, <2>4, BlocksApart
  <2> QED
    BY <2>5, <1>2
<1>6. b \in A!Block /\ b.length = n
  <2>1. asked'[c] = n /\ n \in Nat /\ HeaderSize \in Nat /\ c \in Nat
    BY <1>1, HeapAssumption DEF Addr
  <2> QED
    BY <2>1 DEF BlockAt, A!Block
<1> HIDE DEF b
<1>7. b \notin Blocks /\ \A e \in Blocks : A!Disjoint(b, e)
  BY <1>5 DEF Blocks
<1>8. b \in Blocks' \ Blocks
  BY <1>4, <1>7
<1> QED
  BY <1>4, <1>6, <1>7, <1>8

\* A chunk given back is one block less.
LEMMA GaveFrees ==
    ASSUME HeapInv, NEW c \in used, Gave(c)
    PROVE  Blocks' = Blocks \ {BlockAt(asked, c)}
<1>1. /\ size \in [Addr -> 0..HeapEnd] /\ heap \in 0..HeapEnd /\ asked \in [Addr -> Nat]
      /\ Row(size, heap) /\ used \subseteq ChunksOf(size) /\ Fits(size, asked, used)
      /\ used \subseteq Addr
  BY TiledIsRow DEF HeapInv, HeapTypeOK
<1>2. \A d \in used \ {c} : BlockAt(asked, d) # BlockAt(asked, c)
  <2> SUFFICES ASSUME NEW d \in used \ {c} PROVE BlockAt(asked, d) # BlockAt(asked, c)
    OBVIOUS
  <2>1. Fits(size, asked, {d, c})
    BY <1>1 DEF Fits
  <2>2. d \in ChunksOf(size) /\ c \in ChunksOf(size) /\ d # c
    BY <1>1
  <2> QED
    BY <1>1, <2>1, <2>2, BlocksApart
<1>3. used' = used \ {c} /\ asked' = [asked EXCEPT ![c] = 0]
  BY DEF Gave
<1>4. \A d \in used' : BlockAt(asked', d) = BlockAt(asked, d)
  BY <1>1, <1>3 DEF BlockAt
<1>5. Blocks' = {BlockAt(asked', d) : d \in used'}
  BY DEF Blocks, BlockAt
<1>6. Blocks' = {BlockAt(asked, d) : d \in used \ {c}}
  BY <1>3, <1>4, <1>5
<1> QED
  BY <1>2, <1>6 DEF Blocks

\* kmalloc and kfree are an allocator: whatever was merged and split before, a new
\* block overlaps no other, and only the block given to kfree disappears.
THEOREM HeapImplementsAllocator == HeapSpec => ImplementsAllocator
<1>1. HeapInit => A!Init
  BY DEF HeapInit, A!Init
<1>2. HeapInv /\ HeapInv' /\ [HeapNext]_heapVars => [A!Next]_Blocks
  <2> SUFFICES ASSUME HeapInv, HeapInv', [HeapNext]_heapVars PROVE A!Next \/ Blocks' = Blocks
    OBVIOUS
  <2>1. ASSUME NEW n \in Request, Kmalloc(n) PROVE A!Next \/ Blocks' = Blocks
    <3>1. CASE \E c \in Addr : Took(c, n)
      <4> PICK c \in Addr : Took(c, n)
        BY <3>1
      <4>1. A!Alloc(n)
        BY TookAllocates DEF A!Alloc, Blocks, BlockAt
      <4> QED
        BY <4>1 DEF A!Next
    <3>2. CASE UNCHANGED <<size, used, asked, heap>>
      BY <3>2 DEF Blocks, BlockAt
    <3> QED
      BY <2>1, <3>1, <3>2, KmallocTakes
  <2>2. ASSUME NEW c \in used, Kfree(c) PROVE A!Next
    <3>1. Blocks' = Blocks \ {BlockAt(asked, c)} /\ BlockAt(asked, c) \in Blocks
      BY <2>2, KfreeGives, GaveFrees DEF Blocks
    <3>2. \E b \in Blocks : Blocks' = Blocks \ {b}
      BY <3>1
    <3> QED
      BY <3>2 DEF A!Next, A!Free, Blocks, BlockAt
  <2>3. CASE UNCHANGED heapVars
    BY <2>3 DEF heapVars, Blocks, BlockAt
  <2> QED
    BY <2>1, <2>2, <2>3 DEF HeapNext
<1> QED
  BY <1>1, <1>2, InitHeapInv, NextHeapInv,
     PTL DEF HeapSpec, ImplementsAllocator, A!Spec, Blocks, BlockAt

-----------------------------------------------------------------------------
(* The program break *)

\* A break below its beginning leaves no whole page: growth can start from there.
NoPageBelow == nextPage >= 0 /\ (brk_end < 0 => nextPage < BrkPageSize)

BrkInv == BrkTypeOK /\ BreakIsBacked /\ NoPageWasted /\ NoPageBelow

\* PageCount rounds up: the pages hold the bytes with less than a page to spare.
LEMMA PageCountRoundsUp ==
    ASSUME NEW bytes \in Nat \ {0}
    PROVE  /\ PageCount(bytes) \in Nat
           /\ PageCount(bytes) * BrkPageSize \in Int
           /\ bytes <= PageCount(bytes) * BrkPageSize
           /\ PageCount(bytes) * BrkPageSize < bytes + BrkPageSize
<1> DEFINE q == (bytes - 1) \div BrkPageSize
           r == (bytes - 1) % BrkPageSize
<1>1. BrkPageSize \in Nat \ {0} /\ bytes - 1 \in Nat
  BY BreakAssumption
<1>2. q \in Nat /\ r \in 0..(BrkPageSize - 1) /\ bytes - 1 = BrkPageSize * q + r
  BY <1>1
<1> HIDE DEF q, r
<1>3. (q + 1) * BrkPageSize = BrkPageSize * q + BrkPageSize /\ BrkPageSize * q \in Int
  BY <1>1, <1>2
<1>4. PageCount(bytes) = q + 1
  BY DEF PageCount, q
<1> QED
  BY <1>1, <1>2, <1>3, <1>4

\* Growing by n bytes keeps the break backed and close to the next page.
LEMMA GrowPreserves ==
    ASSUME BrkInv, NEW n \in 1..MaxBytes, Grow(n)
    PROVE  BrkInv'
<1> DEFINE missing == n - (nextPage - brk_end)
           bytes == PageCount(missing) * BrkPageSize
<1>1. /\ brk_end \in Int /\ nextPage \in Int /\ n \in Int /\ n > 0
      /\ missing \in Int /\ Limit \in Int /\ BrkPageSize \in Int /\ BrkPageSize > 0
  BY BreakAssumption DEF BrkInv, BrkTypeOK
<1>2. brk_end' = brk_end + n
  BY DEF Grow
<1>3. CASE missing > 0
  <2>1. bytes \in Int /\ missing <= bytes /\ bytes < missing + BrkPageSize
    BY <1>1, <1>3, PageCountRoundsUp
  <2>2. nextPage' = IF nextPage + bytes <= Limit THEN nextPage + bytes ELSE Limit
    BY <1>1, <1>3 DEF Grow, AfterGrowth
  <2> HIDE DEF bytes
  <2>3. nextPage >= 0 /\ brk_end' > nextPage
    BY <1>1, <1>2, <1>3 DEF BrkInv, NoPageBelow
  <2>4. CASE nextPage + bytes <= Limit
    <3>1. nextPage' = nextPage + bytes
      BY <2>2, <2>4
    <3> QED
      BY <1>1, <1>2, <2>1, <2>3, <3>1 DEF BrkInv, BrkTypeOK, BreakIsBacked, NoPageWasted, NoPageBelow
  <2>5. CASE ~(nextPage + bytes <= Limit)
    <3>1. nextPage' = Limit /\ Limit >= 0
      BY <2>2, <2>5, BreakAssumption
    <3> QED
      BY <1>1, <1>2, <2>1, <2>3, <2>5, <3>1
         DEF BrkInv, BrkTypeOK, BreakIsBacked, NoPageWasted, NoPageBelow
  <2> QED
    BY <2>4, <2>5
<1>4. CASE ~(missing > 0)
  <2>1. nextPage' = nextPage
    BY <1>1, <1>4 DEF Grow
  <2> QED
    BY <1>1, <1>2, <1>4, <2>1 DEF BrkInv, BrkTypeOK, BreakIsBacked, NoPageWasted, NoPageBelow
<1> QED
  BY <1>3, <1>4

\* Shrinking by n bytes does so too, also when the break falls below its beginning.
LEMMA ShrinkPreserves ==
    ASSUME BrkInv, NEW n \in 1..MaxBytes, Shrink(n)
    PROVE  BrkInv'
<1> DEFINE extra == n - (brk_end - (nextPage - BrkPageSize))
           bytes == PageCount(extra) * BrkPageSize
<1>1. /\ brk_end \in Int /\ nextPage \in Int /\ n \in Int /\ n > 0
      /\ extra \in Int /\ Limit \in Int /\ Limit >= 0 /\ BrkPageSize \in Int /\ BrkPageSize > 0
  BY BreakAssumption DEF BrkInv, BrkTypeOK
<1>2. brk_end' = brk_end - n
  BY DEF Shrink
<1>3. CASE extra > 0
  <2>1. bytes \in Int /\ extra <= bytes /\ bytes < extra + BrkPageSize
    BY <1>1, <1>3, PageCountRoundsUp
  <2>2. nextPage' = IF nextPage - bytes >= 0 THEN nextPage - bytes ELSE 0
    BY <1>1, <1>3 DEF Shrink, AfterShrink
  <2> HIDE DEF bytes
  <2> QED
    BY <1>1, <1>2, <2>1, <2>2 DEF BrkInv, BrkTypeOK, BreakIsBacked, NoPageWasted, NoPageBelow
<1>4. CASE ~(extra > 0)
  <2>1. nextPage' = nextPage
    BY <1>1, <1>4 DEF Shrink
  <2> QED
    BY <1>1, <1>2, <1>4, <2>1 DEF BrkInv, BrkTypeOK, BreakIsBacked, NoPageWasted, NoPageBelow
<1> QED
  BY <1>3, <1>4

\* For every page size and any sequence of sbrk calls, all bytes below the break
\* are in allocated pages (until user memory ends), and at most one page lies
\* beyond it.
THEOREM BreakSafe == BrkSpec => [](BreakIsBacked /\ NoPageWasted)
<1>1. BrkInit => BrkInv
  BY BreakAssumption DEF BrkInit, BrkInv, BrkTypeOK, BreakIsBacked, NoPageWasted, NoPageBelow
<1>2. BrkInv /\ [BrkNext]_brkVars => BrkInv'
  <2> SUFFICES ASSUME BrkInv, [BrkNext]_brkVars PROVE BrkInv'
    OBVIOUS
  <2>1. CASE BrkNext
    <3> PICK n \in 1..MaxBytes : Grow(n) \/ Shrink(n)
      BY <2>1 DEF BrkNext
    <3> QED
      BY GrowPreserves, ShrinkPreserves
  <2>2. CASE UNCHANGED brkVars
    BY <2>2 DEF brkVars, BrkInv, BrkTypeOK, BreakIsBacked, NoPageWasted, NoPageBelow
  <2> QED
    BY <2>1, <2>2
<1>3. BrkInv => BreakIsBacked /\ NoPageWasted
  BY DEF BrkInv
<1> QED
  BY <1>1, <1>2, <1>3, PTL DEF BrkSpec

-----------------------------------------------------------------------------
(* Hash tables *)

\* cell, stale and holds have their types.
HashTypeOK ==
    /\ cell \in [TableCells -> [key : HashKeys, data : HashValues, used : {0, 1, 2}]]
    /\ stale \subseteq HashKeys
    /\ holds \in [HashKeys -> SUBSET HashValues]

\* The cells in use for a key.
InUse(key) == {i \in TableCells : cell[i].key = key /\ cell[i].used = 1}

\* A key has at most one cell in use, with what was stored under it last.
OneCellPerKey ==
    \A key \in HashKeys \ stale :
        /\ \A i, j \in InUse(key) : i = j
        /\ \A i \in InUse(key) : holds[key] = {cell[i].data}
        /\ InUse(key) = {} => holds[key] = {}

HashInv == HashTypeOK /\ OneCellPerKey

\* What HashTable_search_internal and hashtable_insert take is the first of
\* the probes with a property.
LEMMA LeastProbe ==
    ASSUME NEW S \in SUBSET TableCells, S # {}
    PROVE  (CHOOSE i \in S : \A j \in S : i <= j) \in S
<1>1. TableCells \subseteq Nat
  BY HashAssumption DEF TableCells
<1>2. PICK i \in S : \A j \in S : ~(<<j, i>> \in OpToRel(<, Nat))
  BY <1>1, NatLessThanWellFounded, WFMin
<1>3. \A j \in S : ~(j < i)
  BY <1>1, <1>2 DEF OpToRel
<1>4. \A j \in S : i <= j
  BY <1>1, <1>3
<1> QED
  BY <1>4

\* The probes of a key come to every cell.
LEMMA ProbesReachCells ==
    ASSUME NEW key \in HashKeys
    PROVE  /\ \A i \in TableCells : Probe(key, i) \in TableCells
           /\ \A c \in TableCells : \E i \in TableCells : Probe(key, i) = c
<1> DEFINE n == TableCapacity
<1> DEFINE h == HashCode(key)
<1>1. n \in Nat \ {0} /\ key \in Nat
  BY HashAssumption
<1>2. h \in 0 .. n - 1
  BY <1>1 DEF HashCode
<1>3. \A i \in 0 .. n - 1 : Probe(key, i) = IF h + i < n THEN h + i ELSE h + i - n
  <2> SUFFICES ASSUME NEW i \in 0 .. n - 1
               PROVE  Probe(key, i) = IF h + i < n THEN h + i ELSE h + i - n
    OBVIOUS
  <2> DEFINE x == h + i
  <2>1. x \in Nat /\ x < n + n
    <3> HIDE DEF n, h
    <3> QED BY <1>1, <1>2
  <2>2. x % n = IF x < n THEN x ELSE x - n
    <3> HIDE DEF x, n
    <3> QED BY <1>1, <2>1, ModBelowTwice
  <2>3. Probe(key, i) = x % n
    BY DEF Probe
  <2>4. Probe(key, i) = IF x < n THEN x ELSE x - n
    <3> HIDE DEF x, n
    <3> QED BY <2>2, <2>3
  <2> HIDE DEF h, n
  <2> QED BY <1>1, <1>2, <2>4
<1>4. ASSUME NEW i \in 0 .. n - 1 PROVE Probe(key, i) \in 0 .. n - 1
  <2> HIDE DEF n, h
  <2> QED BY <1>1, <1>2, <1>3
<1>5. ASSUME NEW c \in 0 .. n - 1 PROVE \E i \in 0 .. n - 1 : Probe(key, i) = c
  <2> HIDE DEF n, h
  <2>1. CASE c >= h
    <3>1. c - h \in 0 .. n - 1 /\ h + (c - h) = c
      BY <1>1, <1>2, <2>1
    <3> QED BY <1>1, <1>2, <1>3, <3>1
  <2>2. CASE c < h
    <3>1. PICK i \in 0 .. n - 1 : h + i = c + n
      <4>1. c - h + n \in 0 .. n - 1 /\ h + (c - h + n) = c + n
        BY <1>1, <1>2, <2>2
      <4> QED BY <4>1
    <3>2. ~(h + i < n) /\ h + i - n = c
      BY <1>1, <1>2, <3>1
    <3> QED BY <1>3, <3>1, <3>2
  <2> QED BY <1>1, <1>2, <2>1, <2>2
<1> QED
  BY <1>4, <1>5 DEF TableCells

\* The search finds the cell that is in use for the key, if there is one.
LEMMA SearchFacts ==
    ASSUME NEW key \in HashKeys
    PROVE  \/ SearchInternal(key) \in InUse(key)
           \/ SearchInternal(key) = -1 /\ InUse(key) = {}
<1> DEFINE hits == {i \in TableCells : /\ cell[Probe(key, i)].key = key
                                       /\ cell[Probe(key, i)].used = 1}
<1>1. CASE hits = {}
  <2>1. SearchInternal(key) = -1
    BY <1>1 DEF SearchInternal
  <2>2. InUse(key) = {}
    <3> SUFFICES ASSUME NEW c \in InUse(key) PROVE FALSE
      OBVIOUS
    <3>1. PICK i \in TableCells : Probe(key, i) = c
      BY ProbesReachCells DEF InUse
    <3> QED
      BY <1>1, <3>1 DEF InUse
  <2> QED BY <2>1, <2>2
<1>2. CASE hits # {}
  <2> DEFINE least == CHOOSE i \in hits : \A j \in hits : i <= j
  <2>1. least \in hits
    <3> hits \in SUBSET TableCells
      OBVIOUS
    <3> HIDE DEF hits
    <3> QED BY <1>2, LeastProbe
  <2>2. SearchInternal(key) = Probe(key, least)
    BY <1>2 DEF SearchInternal
  <2>3. Probe(key, least) \in InUse(key)
    <3> HIDE DEF least
    <3> QED BY <2>1, ProbesReachCells DEF InUse
  <2> QED BY <2>2, <2>3
<1> QED BY <1>1, <1>2

\* So what a search answers is what was stored last.
LEMMA SearchIsMap == HashInv => HashIsMap
<1> SUFFICES ASSUME HashInv, NEW key \in HashKeys \ stale
             PROVE  HashSearch(key) = holds[key]
  BY DEF HashIsMap
<1>1. CASE SearchInternal(key) \in InUse(key)
  <2>1. SearchInternal(key) # -1
    BY <1>1, HashAssumption DEF InUse, TableCells
  <2> QED
    BY <1>1, <2>1 DEF HashSearch, HashInv, OneCellPerKey
<1>2. CASE SearchInternal(key) = -1 /\ InUse(key) = {}
  BY <1>2 DEF HashSearch, HashInv, OneCellPerKey
<1> QED
  BY <1>1, <1>2, SearchFacts

\* A new table: every key that is in some cell is stale.
LEMMA HashInitInv == HashInit => HashInv
<1> SUFFICES ASSUME HashInit PROVE HashInv
  OBVIOUS
<1>1. HashTypeOK
  BY DEF HashInit, HashTypeOK
<1>2. \A key \in HashKeys \ stale : InUse(key) = {} /\ holds[key] = {}
  BY DEF HashInit, InUse
<1> QED
  BY <1>1, <1>2 DEF HashInv, OneCellPerKey

\* hashtable_insert takes the cell of the key, or a free one if it has none.
LEMMA InsertInv ==
    ASSUME HashInv, NEW key \in HashKeys, NEW value \in HashValues, HashInsert(key, value)
    PROVE  HashInv'
<1> USE DEF HashInv, HashTypeOK
<1> DEFINE at == SearchInternal(key)
<1> DEFINE free == FreeCells(key)
<1> DEFINE first == CHOOSE i \in free : \A j \in free : i <= j
<1> DEFINE new == [key |-> key, data |-> value, used |-> 1]
<1>0. /\ new \in [key : HashKeys, data : HashValues, used : {1}]
      /\ new.key = key /\ new.data = value
  OBVIOUS
<1>1. PICK c \in TableCells, r \in [key : HashKeys, data : HashValues, used : {1}] :
        /\ cell' = [cell EXCEPT ![c] = r]
        /\ r.key = key /\ r.data = value
        /\ \/ c \in InUse(key)
           \/ InUse(key) = {} /\ cell[c].used = 0
  <2>1. CASE at # -1 /\ cell' = [cell EXCEPT ![at].data = value]
    <3>1. at \in InUse(key)
      BY <2>1, SearchFacts
    <3>2. cell[at] = [key |-> key, data |-> cell[at].data, used |-> 1]
      BY <3>1 DEF InUse
    <3>3. [cell[at] EXCEPT !.data = value] = [key |-> key, data |-> value, used |-> 1]
      BY <3>2
    <3> HIDE DEF at
    <3>4. at \in TableCells
      BY <3>1 DEF InUse
    <3>5. cell' = [cell EXCEPT ![at] = new]
      BY <2>1, <3>3, <3>4
    <3> HIDE DEF new
    <3> QED
      BY <1>0, <3>1, <3>4, <3>5
  <2>2. CASE /\ at = -1 /\ free # {}
             /\ cell' = [cell EXCEPT ![Probe(key, first)] =
                            [key |-> key, data |-> value, used |-> 1]]
    <3>1. InUse(key) = {}
      BY <2>2, SearchFacts, HashAssumption DEF InUse, TableCells
    <3>2. first \in free
      <4> free \in SUBSET TableCells
        BY DEF FreeCells
      <4> HIDE DEF free
      <4> QED BY <2>2, LeastProbe
    <3>3. Probe(key, first) \in TableCells /\ cell[Probe(key, first)].used = 0
      <4> HIDE DEF first
      <4> QED BY <3>2, ProbesReachCells DEF FreeCells
    <3>4. cell' = [cell EXCEPT ![Probe(key, first)] = new]
      BY <2>2
    <3> HIDE DEF first, new
    <3> QED
      BY <1>0, <3>1, <3>3, <3>4
  <2> QED
    BY <2>1, <2>2 DEF HashInsert
<1>2. holds' = [holds EXCEPT ![key] = {value}] /\ stale' = stale
  BY DEF HashInsert
<1>3. HashTypeOK'
  BY <1>1, <1>2
<1>4. OneCellPerKey'
  <2> SUFFICES ASSUME NEW k \in HashKeys \ stale
               PROVE  /\ \A i, j \in InUse(k)' : i = j
                      /\ \A i \in InUse(k)' : holds'[k] = {cell'[i].data}
                      /\ InUse(k)' = {} => holds'[k] = {}
    BY <1>2 DEF OneCellPerKey
  <2>1. CASE k = key
    <3>1. InUse(k)' = {c}
      BY <1>1, <2>1 DEF InUse, OneCellPerKey
    <3> QED
      BY <1>1, <1>2, <2>1, <3>1
  <2>2. CASE k # key
    <3>1. InUse(k)' = InUse(k) /\ c \notin InUse(k)
      BY <1>1, <2>2 DEF InUse
    <3>2. holds'[k] = holds[k] /\ \A i \in InUse(k) : cell'[i] = cell[i]
      BY <1>1, <1>2, <2>2, <3>1 DEF InUse
    <3> QED
      BY <3>1, <3>2 DEF OneCellPerKey
  <2> QED BY <2>1, <2>2
<1> QED BY <1>3, <1>4

\* hashtable_remove frees the only cell of the key.
LEMMA RemoveInv ==
    ASSUME HashInv, NEW key \in HashKeys, HashRemove(key)
    PROVE  HashInv'
<1> USE DEF HashInv, HashTypeOK
<1>1. PICK c \in InUse(key) : cell' = [cell EXCEPT ![c].used = 0]
  BY SearchFacts DEF HashRemove
<1>2. c \in TableCells /\ cell' = [cell EXCEPT ![c] = [cell[c] EXCEPT !.used = 0]]
  BY <1>1 DEF InUse
<1>3. /\ cell' \in [TableCells -> [key : HashKeys, data : HashValues, used : {0, 1, 2}]]
      /\ cell'[c].used = 0 /\ \A i \in TableCells \ {c} : cell'[i] = cell[i]
  BY <1>2
<1>4. holds' = [holds EXCEPT ![key] = {}] /\ stale' = stale
  BY DEF HashRemove
<1>5. OneCellPerKey'
  <2> SUFFICES ASSUME NEW k \in HashKeys \ stale
               PROVE  /\ \A i, j \in InUse(k)' : i = j
                      /\ \A i \in InUse(k)' : holds'[k] = {cell'[i].data}
                      /\ InUse(k)' = {} => holds'[k] = {}
    BY <1>4 DEF OneCellPerKey
  <2>1. CASE k = key
    <3>1. InUse(k)' = {}
      BY <1>1, <1>3, <2>1 DEF InUse, OneCellPerKey
    <3> QED
      BY <1>4, <2>1, <3>1
  <2>2. CASE k # key
    <3>1. InUse(k)' = InUse(k) /\ c \notin InUse(k)
      BY <1>1, <1>3, <2>2 DEF InUse
    <3>2. holds'[k] = holds[k] /\ \A i \in InUse(k) : cell'[i] = cell[i]
      BY <1>3, <1>4, <2>2, <3>1 DEF InUse
    <3> QED
      BY <3>1, <3>2 DEF OneCellPerKey
  <2> QED BY <2>1, <2>2
<1> QED BY <1>3, <1>4, <1>5

\* For every capacity and any keys and values: a search finds what was stored
\* under its key last and nothing else, whatever collided or was removed, except
\* under keys that the uncleared memory of a new table seemed to hold.
THEOREM TableIsMap == HashSpec => []HashIsMap
<1>1. HashInv /\ [HashNext]_hashVars => HashInv'
  <2> SUFFICES ASSUME HashInv, [HashNext]_hashVars PROVE HashInv'
    OBVIOUS
  <2>1. CASE HashNext
    BY <2>1, InsertInv, RemoveInv DEF HashNext
  <2>2. CASE UNCHANGED hashVars
    BY <2>2 DEF hashVars, HashInv, HashTypeOK, OneCellPerKey, InUse
  <2> QED BY <2>1, <2>2
<1> QED
  BY <1>1, HashInitInv, SearchIsMap, PTL DEF HashSpec

-----------------------------------------------------------------------------
(* RAM disks *)

\* The answers of disk_read and of GET_SECTOR_COUNT that succeeded.
ReadServed == diskAnswer.call = "read" /\ diskAnswer.result = "RES_OK"
CountServed == diskAnswer.call = "GET_SECTOR_COUNT" /\ diskAnswer.result = "RES_OK"

\* Disks that are in use have a size, and as many blocks as fit into it.
DiskTypeOK ==
    /\ diskSize \in [Disks -> 0 .. ByteRange - 1]
    /\ mounted \in [FatDrives -> Disks \cup {noDisk}]
    /\ \A p \in FatDrives : mounted[p] # noDisk => diskSize[mounted[p]] > 0
    /\ DOMAIN blocks = Disks /\ DOMAIN wrote = Disks
    /\ \A d \in Disks : /\ DOMAIN blocks[d] = 0 .. BlocksOf(diskSize[d]) - 1
                        /\ DOMAIN wrote[d] = 0 .. BlocksOf(diskSize[d]) - 1

\* Every block holds what was written to it last.
BlocksAsWritten == \A d \in Disks : \A b \in DOMAIN wrote[d] : blocks[d][b] = wrote[d][b]

\* A read that was served, and did not run past the last whole block, gave
\* what was written.
ReadsTrue ==
    ReadServed =>
        /\ diskAnswer.disk \in Disks /\ diskSize[diskAnswer.disk] > 0
        /\ diskAnswer.sector + Len(diskAnswer.data) <= BlocksOf(diskSize[diskAnswer.disk])
           => \A i \in 1..Len(diskAnswer.data) :
                 diskAnswer.data[i] = wrote[diskAnswer.disk][diskAnswer.sector + i - 1]

\* The number of sectors that was reported is that of the disk.
CountsTrue ==
    CountServed =>
        /\ diskAnswer.disk \in Disks /\ diskSize[diskAnswer.disk] > 0
        /\ diskAnswer.value = BlocksOf(diskSize[diskAnswer.disk])

DiskInv == DiskTypeOK /\ BlocksAsWritten /\ ReadsTrue /\ CountsTrue

\* Block numbers and byte offsets.
LEMMA BlockProducts ==
    /\ \A n \in Nat : n * RAMDISK_BLOCKSIZE \in Nat /\ BlocksOf(n * RAMDISK_BLOCKSIZE) = n
    /\ \A x \in Nat : /\ BlocksOf(x) \in Nat
                      /\ BlocksOf(x) * RAMDISK_BLOCKSIZE <= x
                      /\ \A n \in Nat : n * RAMDISK_BLOCKSIZE <= x <=> n <= BlocksOf(x)
    /\ \A m, n \in Nat : (m + n) * RAMDISK_BLOCKSIZE = m * RAMDISK_BLOCKSIZE + n * RAMDISK_BLOCKSIZE
<1> DEFINE z == RAMDISK_BLOCKSIZE
<1>1. z \in Nat \ {0}
  BY RamDiskAssumption
<1> HIDE DEF z
<1>2. ASSUME NEW m \in Nat, NEW n \in Nat
      PROVE  (m + n) * z = m * z + n * z
  BY <1>1
<1>3. ASSUME NEW n \in Nat PROVE n * z \in Nat /\ (n * z) \div z = n
  <2>1. n * z \in Nat
    BY <1>1
  <2>2. n * z = n * z + 0
    BY <2>1
  <2> QED BY <1>1, <2>1, <2>2
<1>4. ASSUME NEW x \in Nat PROVE (x \div z) \in Nat /\ (x \div z) * z <= x /\ x < (x \div z) * z + z
  BY <1>1
<1>5. ASSUME NEW x \in Nat, NEW n \in Nat PROVE n * z <= x <=> n <= x \div z
  <2>1. CASE n <= x \div z
    <3>1. PICK k \in Nat : x \div z = n + k
      <4>1. x \div z - n \in Nat /\ x \div z = n + (x \div z - n)
        BY <1>4, <2>1
      <4> QED BY <4>1
    <3>2. (n + k) * z = n * z + k * z /\ n * z \in Nat /\ k * z \in Nat
      BY <1>1, <1>2
    <3> QED BY <1>4, <2>1, <3>1, <3>2
  <2>2. CASE n > x \div z
    <3>1. PICK k \in Nat : n = (x \div z + 1) + k
      <4>1. n - (x \div z + 1) \in Nat /\ n = (x \div z + 1) + (n - (x \div z + 1))
        BY <1>4, <2>2
      <4> QED BY <4>1
    <3>2. ((x \div z + 1) + k) * z = (x \div z + 1) * z + k * z
      BY <1>2, <1>4
    <3>3. (x \div z + 1) * z = (x \div z) * z + z
      BY <1>1, <1>4
    <3>4. k * z \in Nat /\ n * z \in Nat /\ (x \div z) * z \in Nat
      BY <1>1, <1>4
    <3> QED BY <1>1, <1>4, <2>2, <3>1, <3>2, <3>3, <3>4
  <2> QED BY <1>4, <2>1, <2>2
<1> USE DEF z
<1> QED
  BY <1>2, <1>3, <1>4, <1>5 DEF BlocksOf

\* A request that ends at a block number below the last one meets no wrap.
LEMMA RequestFacts ==
    ASSUME NEW sector \in Nat, NEW count \in Nat,
           sector + count < ByteRange \div RAMDISK_BLOCKSIZE,
           DiskTypeOK, NEW d \in Disks
    PROVE  /\ Inside(d, sector, count) <=> sector + count <= BlocksOf(diskSize[d])
           /\ \A i \in 1 .. count : Reached(sector, count)[i] = sector + i - 1
<1> DEFINE z == RAMDISK_BLOCKSIZE
<1> DEFINE n == BlocksOf(ByteRange)
<1>1. z \in Nat \ {0} /\ ByteRange \in Nat /\ n \in Nat /\ n * z <= ByteRange
  BY RamDiskAssumption, BlockProducts
<1>2. sector + count < n
  BY DEF BlocksOf
<1>3. \A x \in Nat : x < n => /\ ByteAt(x) = x * z /\ x * z \in Nat
                              /\ BlocksOf(ByteAt(x)) = x /\ x % n = x /\ x * z < ByteRange
  <2> SUFFICES ASSUME NEW x \in Nat, x < n
               PROVE  /\ ByteAt(x) = x * z /\ x * z \in Nat
                      /\ BlocksOf(ByteAt(x)) = x /\ x % n = x /\ x * z < ByteRange
    OBVIOUS
  <2>1. x * z \in Nat /\ BlocksOf(x * z) = x
    BY BlockProducts
  <2>2. x * z < ByteRange
    <3>1. ~(n * z <= x * z)
      <4>1. n * z <= x * z <=> n <= BlocksOf(x * z)
        BY <1>1, <2>1, BlockProducts
      <4> HIDE DEF n, z
      <4> QED BY <1>1, <2>1, <4>1
    <3>2. n * z \in Nat
      BY <1>1, BlockProducts
    <3> HIDE DEF n, z
    <3> QED BY <1>1, <2>1, <3>1, <3>2
  <2>3. (x * z) % ByteRange = x * z
    <3> DEFINE y == x * z
    <3> HIDE DEF y
    <3>1. y \in Nat /\ y < ByteRange
      BY <2>1, <2>2 DEF y
    <3>2. y % ByteRange = y
      BY <1>1, <3>1
    <3> QED BY <3>2 DEF y
  <2>4. x % n = x
    <3> HIDE DEF n
    <3> QED BY <1>1
  <2> QED
    BY <2>1, <2>2, <2>3, <2>4 DEF ByteAt
<1>4. Inside(d, sector, count) <=> sector + count <= BlocksOf(diskSize[d])
  <2> DEFINE sz == diskSize[d]
  <2>1. sector < n /\ count < n /\ sector + count \in Nat
    <3> HIDE DEF n
    <3> QED BY <1>1, <1>2
  <2>2. ByteAt(sector) + ByteAt(count) = (sector + count) * z
    <3>1. (sector + count) * z = sector * z + count * z
      BY BlockProducts
    <3> QED BY <1>3, <2>1, <3>1
  <2>3. (ByteAt(sector) + ByteAt(count)) % ByteRange = (sector + count) * z
    BY <1>2, <1>3, <2>1, <2>2 DEF ByteAt
  <2>4. sz \in Nat
    BY RamDiskAssumption DEF DiskTypeOK
  <2>5. (sector + count) * z <= sz <=> sector + count <= BlocksOf(sz)
    BY <2>1, <2>4, BlockProducts
  <2> QED
    BY <2>3, <2>5 DEF Inside
<1>5. ASSUME NEW i \in 1 .. count
      PROVE  Reached(sector, count)[i] = sector + i - 1
  <2>1. sector + i - 1 \in Nat /\ sector + i - 1 < n /\ sector < n
    <3> HIDE DEF n
    <3> QED BY <1>1, <1>2
  <2>2. (sector + i - 1) % n = sector + i - 1
    BY <1>3, <2>1
  <2> QED
    BY <1>3, <2>1, <2>2 DEF Reached
<1> QED BY <1>4, <1>5

\* No disk at first.
LEMMA DiskInitInv == RamDiskInit => DiskInv
<1> SUFFICES ASSUME RamDiskInit PROVE DiskInv
  OBVIOUS
<1>1. DiskTypeOK
  <2>1. BlocksOf(0) = 0
    BY RamDiskAssumption DEF BlocksOf
  <2>2. 0 \in 0 .. ByteRange - 1
    BY RamDiskAssumption
  <2> QED
    BY <2>1, <2>2 DEF RamDiskInit, DiskTypeOK
<1> QED
  BY <1>1 DEF RamDiskInit, DiskInv, BlocksAsWritten, ReadsTrue, CountsTrue, ReadServed, CountServed

\* ramdisk_create: all blocks of the new disk are what its memory holds.
LEMMA CreateInv ==
    ASSUME DiskInv, NEW d \in Disks, NEW bytes \in RamDiskSizes, ramdisk_create(d, bytes)
    PROVE  DiskInv'
<1> USE DEF DiskInv, ramdisk_create
<1>1. bytes \in 0 .. ByteRange - 1
  BY RamDiskAssumption
<1>2. PICK v \in BlockValues :
        /\ blocks' = [blocks EXCEPT ![d] = [b \in 0..BlocksOf(bytes) - 1 |-> v]]
        /\ wrote' = [wrote EXCEPT ![d] = [b \in 0..BlocksOf(bytes) - 1 |-> v]]
  OBVIOUS
<1>3. /\ diskSize'[d] = bytes /\ blocks'[d] = wrote'[d]
      /\ DOMAIN blocks'[d] = 0 .. BlocksOf(bytes) - 1
      /\ \A e \in Disks \ {d} : /\ diskSize'[e] = diskSize[e] /\ blocks'[e] = blocks[e]
                                /\ wrote'[e] = wrote[e]
  BY <1>2 DEF DiskTypeOK
<1>4. DiskTypeOK'
  BY <1>1, <1>2, <1>3 DEF DiskTypeOK
<1>5. BlocksAsWritten'
  <2> SUFFICES ASSUME NEW e \in Disks, NEW b \in DOMAIN wrote'[e]
               PROVE  blocks'[e][b] = wrote'[e][b]
    BY DEF BlocksAsWritten
  <2>1. CASE e = d
    BY <1>3, <2>1
  <2>2. CASE e # d
    BY <1>3, <2>2 DEF BlocksAsWritten
  <2> QED BY <2>1, <2>2
<1>6. ReadsTrue'
  BY <1>3 DEF ReadsTrue, ReadServed
<1>7. CountsTrue'
  BY <1>3 DEF CountsTrue, CountServed
<1> QED BY <1>4, <1>5, <1>6, <1>7

\* disk_read, also one past the end of the disk.
LEMMA ReadInv ==
    ASSUME DiskInv, NEW p \in FatDrives, NEW sector \in DiskSectors, NEW count \in DiskCounts,
           disk_read(p, sector, count)
    PROVE  DiskInv'
<1> USE DEF DiskInv, disk_read
<1>1. DiskTypeOK' /\ BlocksAsWritten'
  BY DEF DiskTypeOK, BlocksAsWritten
<1>2. CountsTrue'
  BY DEF CountsTrue, CountServed
<1>3. ReadsTrue'
  <2> SUFFICES ASSUME mounted[p] # noDisk
               PROVE  ReadsTrue'
    BY DEF ReadsTrue, ReadServed
  <2> DEFINE d == mounted[p]
  <2>1. d \in Disks /\ diskSize[d] > 0
    BY DEF DiskTypeOK
  <2>2. sector \in Nat /\ count \in Nat /\ sector + count < ByteRange \div RAMDISK_BLOCKSIZE
    BY RamDiskAssumption
  <2>3. /\ diskAnswer'.disk = d /\ diskAnswer'.sector = sector
        /\ diskAnswer'.data = ReadBlock(d, sector, count)
    OBVIOUS
  <2>4. Len(ReadBlock(d, sector, count)) = count
    BY <2>2 DEF ReadBlock
  <2>5. ASSUME sector + count <= BlocksOf(diskSize[d]), NEW i \in 1 .. count
        PROVE  ReadBlock(d, sector, count)[i] = wrote[d][sector + i - 1]
    <3> HIDE DEF d
    <3>1. Inside(d, sector, count) /\ Reached(sector, count)[i] = sector + i - 1
      BY <2>1, <2>2, <2>5, RequestFacts
    <3>2. sector + i - 1 \in DOMAIN blocks[d]
      <4>0. diskSize[d] \in Nat
        BY <2>1, RamDiskAssumption DEF DiskTypeOK
      <4>1. BlocksOf(diskSize[d]) \in Nat
        BY <4>0, BlockProducts
      <4> QED
        BY <2>1, <2>2, <2>5, <4>1 DEF DiskTypeOK
    <3>3. ReadBlock(d, sector, count)[i] = blocks[d][sector + i - 1]
      BY <2>5, <3>1, <3>2 DEF ReadBlock
    <3> QED
      BY <2>1, <3>2, <3>3 DEF DiskTypeOK, BlocksAsWritten
  <2> HIDE DEF d
  <2> QED
    BY <2>1, <2>3, <2>4, <2>5 DEF ReadsTrue
<1> QED BY <1>1, <1>2, <1>3

\* disk_write changes the blocks it was asked to, or none.
LEMMA WriteInv ==
    ASSUME DiskInv, NEW p \in FatDrives, NEW sector \in DiskSectors, NEW count \in DiskCounts,
           NEW v \in BlockValues, disk_write(p, sector, count, v)
    PROVE  DiskInv'
<1> USE DEF DiskInv, disk_write
<1>1. ReadsTrue' /\ CountsTrue'
  BY DEF ReadsTrue, ReadServed, CountsTrue, CountServed
<1>2. CASE mounted[p] = noDisk
  BY <1>1, <1>2 DEF DiskTypeOK, BlocksAsWritten
<1>3. CASE mounted[p] # noDisk
  <2> DEFINE d == mounted[p]
  <2>1. d \in Disks /\ diskSize[d] > 0
    BY <1>3 DEF DiskTypeOK
  <2>2. sector \in Nat /\ count \in Nat /\ sector + count < ByteRange \div RAMDISK_BLOCKSIZE
    BY RamDiskAssumption
  <2>3. /\ blocks' = [blocks EXCEPT ![d] = WriteBlock(d, sector, count, v)]
        /\ wrote' = [wrote EXCEPT ![d] = [b \in DOMAIN wrote[d] |->
                        IF b \in sector..sector + count - 1
                           /\ sector + count <= BlocksOf(diskSize[d])
                        THEN v ELSE wrote[d][b]]]
        /\ diskSize' = diskSize /\ mounted' = mounted
    BY <1>3
  <2> HIDE DEF d, disk_write
  <2>4. /\ DOMAIN blocks'[d] = DOMAIN blocks[d] /\ DOMAIN wrote'[d] = DOMAIN wrote[d]
        /\ \A e \in Disks \ {d} : blocks'[e] = blocks[e] /\ wrote'[e] = wrote[e]
        /\ DOMAIN blocks' = Disks /\ DOMAIN wrote' = Disks
    BY <2>1, <2>3 DEF DiskTypeOK, WriteBlock
  <2>5. DiskTypeOK'
    BY <2>3, <2>4 DEF DiskTypeOK
  <2>6. ASSUME NEW b \in DOMAIN wrote[d]
        PROVE  blocks'[d][b] = wrote'[d][b]
    <3>1. /\ Inside(d, sector, count) <=> sector + count <= BlocksOf(diskSize[d])
          /\ \A i \in 1 .. count : Reached(sector, count)[i] = sector + i - 1
      BY <2>1, <2>2, RequestFacts
    <3>2. b \in DOMAIN blocks[d] /\ b \in Int /\ blocks[d][b] = wrote[d][b]
      <4>1. b \in DOMAIN blocks[d] /\ b \in 0 .. BlocksOf(diskSize[d]) - 1
        BY <2>1, <2>6 DEF DiskTypeOK
      <4>2. blocks[d][b] = wrote[d][b]
        BY <2>1, <2>6 DEF BlocksAsWritten
      <4> QED BY <4>1, <4>2
    <3>3. (\E i \in 1 .. count : Reached(sector, count)[i] = b)
             <=> b \in sector .. sector + count - 1
      <4>1. ASSUME b \in sector .. sector + count - 1
            PROVE  \E i \in 1 .. count : Reached(sector, count)[i] = b
        <5>1. b - sector + 1 \in 1 .. count /\ sector + (b - sector + 1) - 1 = b
          BY <2>2, <3>2, <4>1
        <5> QED BY <3>1, <5>1
      <4>2. ASSUME NEW i \in 1 .. count, Reached(sector, count)[i] = b
            PROVE  b \in sector .. sector + count - 1
        BY <2>2, <3>1, <4>2
      <4> QED BY <4>1, <4>2
    <3>4. blocks'[d][b] = IF Inside(d, sector, count)
                          THEN IF \E i \in 1 .. count : Reached(sector, count)[i] = b
                               THEN v ELSE blocks[d][b]
                          ELSE blocks[d][b]
      BY <2>1, <2>3, <3>2 DEF DiskTypeOK, WriteBlock
    <3>5. wrote'[d][b] = IF b \in sector..sector + count - 1
                            /\ sector + count <= BlocksOf(diskSize[d])
                         THEN v ELSE wrote[d][b]
      BY <2>1, <2>3, <2>6 DEF DiskTypeOK
    <3> QED
      BY <3>1, <3>2, <3>3, <3>4, <3>5
  <2>7. BlocksAsWritten'
    BY <2>1, <2>4, <2>6 DEF BlocksAsWritten
  <2> QED BY <1>1, <2>5, <2>7
<1> QED BY <1>2, <1>3

\* disk_ioctl reports the number of whole blocks.
LEMMA IoctlInv ==
    ASSUME DiskInv, NEW p \in FatDrives, NEW control \in {"GET_SECTOR_COUNT", "GET_BLOCK_SIZE"},
           disk_ioctl(p, control)
    PROVE  DiskInv'
<1> USE DEF DiskInv
<1>1. UNCHANGED <<diskSize, blocks, mounted, wrote>> /\ diskAnswer'.call = control
  BY DEF disk_ioctl
<1>2. DiskTypeOK' /\ BlocksAsWritten'
  BY <1>1 DEF DiskTypeOK, BlocksAsWritten
<1>3. ReadsTrue'
  BY <1>1 DEF ReadsTrue, ReadServed
<1>4. CountsTrue'
  <2> SUFFICES ASSUME CountServed' PROVE CountsTrue'
    BY DEF CountsTrue
  <2>1. control = "GET_SECTOR_COUNT" /\ diskAnswer'.result = "RES_OK"
    BY <1>1 DEF CountServed
  <2>2. mounted[p] # noDisk /\ descriptor
    BY <2>1 DEF disk_ioctl
  <2>3. diskAnswer'.value = BlocksOf(diskSize[mounted[p]]) /\ diskAnswer'.disk = mounted[p]
    BY <2>1, <2>2 DEF disk_ioctl
  <2>4. mounted[p] \in Disks /\ diskSize[mounted[p]] > 0
    BY <2>2 DEF DiskTypeOK
  <2> QED
    BY <1>1, <2>3, <2>4 DEF CountsTrue
<1> QED BY <1>2, <1>3, <1>4

\* Mounting, unmounting and other files leave the blocks alone.
LEMMA OthersInv ==
    ASSUME DiskInv,
           \/ \E p \in FatDrives, d \in Disks :
                 diskSize[d] > 0 /\ mounted[p] = noDisk /\ SetDrive(p, d)
           \/ \E p \in FatDrives : mounted[p] # noDisk /\ SetDrive(p, noDisk)
           \/ OtherOpens
           \/ UNCHANGED diskVars
    PROVE  DiskInv'
<1> USE DEF DiskInv
<1>1. UNCHANGED <<diskSize, blocks, wrote, diskAnswer>>
  BY DEF SetDrive, OtherOpens, diskVars
<1>2. /\ mounted' \in [FatDrives -> Disks \cup {noDisk}]
      /\ \A p \in FatDrives : mounted'[p] # noDisk => diskSize[mounted'[p]] > 0
  BY DEF DiskTypeOK, SetDrive, OtherOpens, diskVars
<1> QED
  BY <1>1, <1>2 DEF DiskTypeOK, BlocksAsWritten, ReadsTrue, CountsTrue, ReadServed, CountServed

\* The invariant implies the property: every reported sector can be reached.
LEMMA DiskInvKept == DiskInv => BlocksKept
<1> SUFFICES ASSUME DiskInv PROVE BlocksKept
  OBVIOUS
<1>1. ASSUME CountServed, NEW sector \in 0..diskAnswer.value - 1
      PROVE  Inside(diskAnswer.disk, sector, diskAnswer.value - sector)
  <2> DEFINE d == diskAnswer.disk
  <2>1. d \in Disks /\ diskSize[d] \in Nat /\ diskSize[d] < ByteRange
        /\ diskAnswer.value = BlocksOf(diskSize[d])
    BY <1>1, RamDiskAssumption DEF DiskInv, DiskTypeOK, CountsTrue
  <2> DEFINE n == BlocksOf(diskSize[d])
  <2> DEFINE m == n - sector
  <2>2. n \in Nat /\ n < ByteRange \div RAMDISK_BLOCKSIZE
    <3>1. n \in Nat /\ n * RAMDISK_BLOCKSIZE <= diskSize[d]
      BY <2>1, BlockProducts
    <3>2. ByteRange = (ByteRange \div RAMDISK_BLOCKSIZE) * RAMDISK_BLOCKSIZE
      BY RamDiskAssumption
    <3>3. BlocksOf(ByteRange) \in Nat /\ BlocksOf(ByteRange) = ByteRange \div RAMDISK_BLOCKSIZE
      BY RamDiskAssumption, BlockProducts DEF BlocksOf
    <3>4. ~(BlocksOf(ByteRange) <= n)
      <4> HIDE DEF d
      <4>1. BlocksOf(ByteRange) * RAMDISK_BLOCKSIZE <= diskSize[d] <=> BlocksOf(ByteRange) <= n
        BY <2>1, <3>3, BlockProducts
      <4> QED BY <2>1, <3>2, <3>3, <4>1, RamDiskAssumption
    <3> HIDE DEF n
    <3> QED BY <3>1, <3>3, <3>4, RamDiskAssumption
  <2>3. sector \in Nat /\ m \in Nat /\ sector + m = n
    <3> HIDE DEF n
    <3> QED BY <1>1, <2>1, <2>2 DEF n
  <2>4. Inside(d, sector, m)
    <3> HIDE DEF d, m
    <3> QED BY <2>1, <2>2, <2>3, RequestFacts DEF DiskInv
  <2> QED
    BY <2>1, <2>4
<1>2. ASSUME ReadServed,
             diskAnswer.sector + Len(diskAnswer.data) <= BlocksOf(diskSize[diskAnswer.disk]),
             NEW i \in 1..Len(diskAnswer.data)
      PROVE  diskAnswer.data[i] = wrote[diskAnswer.disk][diskAnswer.sector + i - 1]
  BY <1>2 DEF DiskInv, ReadsTrue
<1> QED
  BY <1>1, <1>2 DEF BlocksKept, DiskInv, BlocksAsWritten, ReadServed, CountServed

\* For any disks, sizes and requests of at most the disks' largest sector number:
\* blocks hold what was written to them last, a read returns it, and each of the
\* sectors that GET_SECTOR_COUNT reports can be read and written.
THEOREM DisksKeepBlocks == RamDiskSpec => []BlocksKept
<1>1. DiskInv /\ [RamDiskNext]_diskVars => DiskInv'
  BY CreateInv, ReadInv, WriteInv, IoctlInv, OthersInv DEF RamDiskNext
<1> QED
  BY <1>1, DiskInitInv, DiskInvKept, PTL DEF RamDiskSpec

-----------------------------------------------------------------------------
(* Linked lists *)

\* The nodes c are linked in this order.
Linked(c, from, link) ==
    /\ from = IF Len(c) = 0 THEN nil ELSE c[1]
    /\ \A i \in 1 .. Len(c) : link[c[i]] = IF i = Len(c) THEN nil ELSE c[i + 1]

\* A node is in a list once.
Once(c) == \A i, j \in 1 .. Len(c) : c[i] = c[j] => i = j

\* As many numbers as the last one.
LEMMA LenOfInterval ==
    ASSUME NEW n \in Nat
    PROVE  Cardinality(1 .. n) = n
<1>1. PICK one \in Int : one = 1
  OBVIOUS
<1>2. Cardinality(one .. n) = IF one > n THEN 0 ELSE n - one + 1
  BY FS_Interval
<1> QED BY <1>1, <1>2

\* A list of distinct nodes is shorter than the longest walk.
LEMMA OnceIsShort ==
    ASSUME NEW c \in Seq(ListNodes), Once(c)
    PROVE  Len(c) \in Nat /\ Cardinality(ListNodes) \in Nat /\ Len(c) <= Cardinality(ListNodes)
<1>1. c \in Injection(1 .. Len(c), ListNodes)
  <2>1. c \in [1 .. Len(c) -> ListNodes]
    OBVIOUS
  <2>2. \A i, j \in 1 .. Len(c) : c[i] = c[j] => i = j
    BY DEF Once
  <2> QED BY <2>1, <2>2, Zenon DEF Injection, IsInjective
<1>2. PICK len \in Nat : len = Len(c)
  OBVIOUS
<1>3. Cardinality(1 .. len) = len
  BY LenOfInterval
<1>4. Cardinality(1 .. Len(c)) <= Cardinality(ListNodes) /\ Cardinality(ListNodes) \in Nat
  BY <1>1, ListAssumption, FS_Injection, FS_CardinalityType
<1> QED BY <1>2, <1>3, <1>4

\* The walk along a list visits its nodes and then stays at the end.
LEMMA WalkFollows ==
    ASSUME NEW c \in Seq(ListNodes), Once(c), NEW from, NEW link, Linked(c, from, link)
    PROVE  /\ DOMAIN Walk(from, link) = Steps
           /\ \A i \in Steps : Walk(from, link)[i] = IF i <= Len(c) THEN c[i] ELSE nil
<1> DEFINE f == [i \in Steps |-> IF i <= Len(c) THEN c[i] ELSE nil]
           g == Walk(from, link)
<1>1. PICK len \in Nat : len = Len(c)
  OBVIOUS
<1>2. PICK most \in Nat : most = Cardinality(ListNodes) + 1 /\ len < most
  <2>1. Cardinality(ListNodes) + 1 \in Nat /\ len < Cardinality(ListNodes) + 1
    BY <1>1, OnceIsShort
  <2> QED BY <2>1
<1>3. Steps = 1 .. most
  BY <1>2 DEF Steps
<1>4. \A i \in 1 .. len : c[i] \in ListNodes /\ c[i] # nil
  BY <1>1, ListAssumption
<1>5. from = IF len = 0 THEN nil ELSE c[1]
  BY <1>1 DEF Linked
<1>6. \A i \in 1 .. len : link[c[i]] = IF i = len THEN nil ELSE c[i + 1]
  BY <1>1 DEF Linked
<1>7. f = [i \in Steps |-> IF i = 1 THEN from
                           ELSE IF f[i - 1] = nil THEN nil ELSE link[f[i - 1]]]
  <2>1. ASSUME NEW i \in Steps
        PROVE  f[i] = IF i = 1 THEN from ELSE IF f[i - 1] = nil THEN nil ELSE link[f[i - 1]]
    <3>1. f[i] = IF i <= len THEN c[i] ELSE nil
      BY <1>1
    <3>2. CASE i = 1
      BY <1>3, <1>5, <3>1, <3>2
    <3>3. CASE i # 1
      <4>1. i - 1 \in Steps /\ f[i - 1] = IF i - 1 <= len THEN c[i - 1] ELSE nil
        BY <1>1, <1>3, <3>3
      <4>2. CASE i - 1 <= len
        <5>1. i - 1 \in 1 .. len
          BY <1>3, <3>3, <4>2
        <5>2. f[i - 1] # nil /\ link[f[i - 1]] = IF i - 1 = len THEN nil ELSE c[(i - 1) + 1]
          BY <1>4, <1>6, <4>1, <4>2, <5>1
        <5>3. (i - 1) + 1 = i /\ (i <= len <=> i - 1 # len)
          BY <1>3, <4>2
        <5> HIDE DEF f
        <5> QED BY <3>1, <3>3, <5>2, <5>3
      <4>3. CASE ~ (i - 1 <= len)
        <5>1. ~ (i <= len)
          BY <1>3, <4>3
        <5> HIDE DEF f
        <5> QED BY <3>1, <3>3, <4>1, <4>3, <5>1
      <4> QED BY <4>2, <4>3
    <3> QED BY <3>2, <3>3
  <2>2. f = [i \in Steps |-> f[i]]
    OBVIOUS
  <2> HIDE DEF f
  <2> QED BY <2>1, <2>2
<1>8. g = [i \in Steps |-> IF i = 1 THEN from
                           ELSE IF g[i - 1] = nil THEN nil ELSE link[g[i - 1]]]
  <2> HIDE DEF f
  <2>1. \E at : at = [i \in Steps |-> IF i = 1 THEN from
                           ELSE IF at[i - 1] = nil THEN nil ELSE link[at[i - 1]]]
    BY <1>7
  <2> QED BY <2>1, Zenon DEF Walk
<1>9. DOMAIN g = Steps /\ \A i \in Steps : g[i] = IF i = 1 THEN from
                           ELSE IF g[i - 1] = nil THEN nil ELSE link[g[i - 1]]
  <2> HIDE DEF g
  <2> QED BY <1>8
<1>10. \A i \in Steps : f[i] = IF i = 1 THEN from
                           ELSE IF f[i - 1] = nil THEN nil ELSE link[f[i - 1]]
  <2> HIDE DEF f
  <2> QED BY <1>7
<1>11. \A i \in Steps : g[i] = f[i]
  <2> HIDE DEF f, g
  <2> DEFINE bad == {i \in Steps : g[i] # f[i]}
  <2> SUFFICES ASSUME bad # {} PROVE FALSE
    OBVIOUS
  <2>1. bad \in SUBSET Nat
    BY <1>3
  <2>2. PICK i \in bad : \A k \in bad : i <= k
    <3> HIDE DEF bad
    <3> QED BY <2>1, LeastNumber
  <2>3. i \in Steps /\ g[i] # f[i]
    OBVIOUS
  <2>4. CASE i = 1
    BY <1>9, <1>10, <2>3, <2>4
  <2>5. CASE i # 1
    <3>1. i - 1 \in Steps /\ ~ (i <= i - 1)
      BY <1>3, <2>3, <2>5
    <3>2. g[i - 1] = f[i - 1]
      BY <2>2, <3>1
    <3> QED BY <1>9, <1>10, <2>3, <2>5, <3>2
  <2> QED BY <2>4, <2>5
<1> QED BY <1>9, <1>11

\* So what is visited is the list.
LEMMA VisitedIsLinked ==
    ASSUME NEW c \in Seq(ListNodes), Once(c), NEW from, NEW link, Linked(c, from, link)
    PROVE  Visited(from, link) = c
<1>1. PICK len \in Nat : len = Len(c)
  OBVIOUS
<1>2. PICK at : at = Walk(from, link)
  OBVIOUS
<1>3. \A i \in Steps : at[i] = IF i <= len THEN c[i] ELSE nil
  BY <1>1, <1>2, WalkFollows
<1>4. \A i \in 1 .. len : i \in Steps /\ c[i] # nil
  <2>1. len <= Cardinality(ListNodes) /\ Cardinality(ListNodes) \in Nat
    BY <1>1, OnceIsShort
  <2> QED BY <1>1, <2>1, ListAssumption DEF Steps
<1>5. {j \in Steps : at[j] # nil} = 1 .. len
  <2>1. Steps \subseteq Nat \ {0}
    BY OnceIsShort DEF Steps
  <2>2. \A j \in Steps : at[j] # nil => j \in 1 .. len
    BY <1>3, <2>1
  <2>3. \A j \in 1 .. len : j \in Steps /\ at[j] # nil
    BY <1>3, <1>4
  <2> QED BY <2>2, <2>3
<1>6. Cardinality(1 .. len) = len
  BY LenOfInterval
<1>7. Visited(from, link) = [i \in 1 .. len |-> at[i]]
  BY <1>2, <1>5, <1>6 DEF Visited
<1>8. c = [i \in 1 .. len |-> c[i]]
  BY <1>1
<1>9. \A i \in 1 .. len : at[i] = c[i]
  BY <1>3, <1>4
<1> QED BY <1>7, <1>8, <1>9

\* The same read from the tail.
Backlinked(c, from, link) ==
    /\ from = IF Len(c) = 0 THEN nil ELSE c[Len(c)]
    /\ \A i \in 1 .. Len(c) : link[c[i]] = IF i = 1 THEN nil ELSE c[i - 1]

Chain(c, first, last, fore, back) ==
    /\ c \in Seq(ListNodes) /\ Once(c)
    /\ Linked(c, first, fore) /\ Backlinked(c, last, back)

NodeSet(c) == {c[i] : i \in 1 .. Len(c)}

Data == ListData \cup {nil}

ListTypeOK ==
    /\ DOMAIN head = Lists /\ DOMAIN tail = Lists
    /\ DOMAIN next = ListNodes /\ DOMAIN previous = ListNodes
    /\ element \in [ListNodes -> Data]
    /\ allocated \subseteq ListNodes

\* The lists are chains apart from each other, and have all nodes there are.
ListInv ==
    /\ ListTypeOK
    /\ \A l \in Lists : Chain(NodesOf(l), head[l], tail[l], next, previous)
    /\ \A l, m \in Lists : l # m => NodeSet(NodesOf(l)) \cap NodeSet(NodesOf(m)) = {}
    /\ allocated = UNION {NodeSet(NodesOf(l)) : l \in Lists}

\* An operation on list l made it the chain c and left the nodes of others alone.
LEMMA Relinked ==
    ASSUME ListInv, NEW l \in Lists, NEW c, ListTypeOK',
           Chain(c, head'[l], tail'[l], next', previous'),
           \A m \in Lists : m # l => head'[m] = head[m] /\ tail'[m] = tail[m],
           \A n \in ListNodes : n \notin NodeSet(NodesOf(l)) \cup NodeSet(c) =>
               next'[n] = next[n] /\ previous'[n] = previous[n] /\ element'[n] = element[n],
           NodeSet(c) \cap allocated \subseteq NodeSet(NodesOf(l)),
           allocated' = (allocated \ NodeSet(NodesOf(l))) \cup NodeSet(c)
    PROVE  /\ ListInv'
           /\ Items(l)' = [i \in DOMAIN c |-> element'[c[i]]]
           /\ \A m \in Lists : m # l => Items(m)' = Items(m)
<1>1. NodesOf(l)' = c
  BY VisitedIsLinked DEF Chain, NodesOf
<1>2. ASSUME NEW m \in Lists, m # l
      PROVE  /\ NodesOf(m)' = NodesOf(m)
             /\ Chain(NodesOf(m), head'[m], tail'[m], next', previous')
             /\ NodeSet(NodesOf(m)) \cap NodeSet(c) = {}
             /\ Items(m)' = Items(m)
  <2>1. PICK s \in Seq(ListNodes) : s = NodesOf(m)
    BY DEF ListInv, Chain
  <2>2. Chain(s, head[m], tail[m], next, previous)
    BY <2>1 DEF ListInv
  <2>3. NodeSet(s) \cap NodeSet(NodesOf(l)) = {} /\ NodeSet(s) \subseteq allocated
    BY <1>2, <2>1 DEF ListInv
  <2>4. NodeSet(s) \cap NodeSet(c) = {}
    BY <2>3
  <2>5. \A i \in 1 .. Len(s) : s[i] \in NodeSet(s) /\ s[i] \in ListNodes
    BY DEF NodeSet
  <2>6. \A i \in 1 .. Len(s) : next'[s[i]] = next[s[i]] /\ previous'[s[i]] = previous[s[i]]
                              /\ element'[s[i]] = element[s[i]]
    BY <2>3, <2>4, <2>5
  <2>7. Linked(s, head'[m], next') /\ Backlinked(s, tail'[m], previous')
    BY <1>2, <2>2, <2>6 DEF Chain, Linked, Backlinked
  <2>8. NodesOf(m)' = s
    BY <2>2, <2>7, VisitedIsLinked DEF Chain, NodesOf
  <2>9. Items(m) = [i \in DOMAIN s |-> element[s[i]]] /\ Items(m)' = [i \in DOMAIN s |-> element'[s[i]]]
    BY <2>1, <2>8 DEF Items
  <2>10. \A i \in DOMAIN s : element'[s[i]] = element[s[i]]
    BY <2>6
  <2>11. Items(m)' = Items(m)
    BY <2>9, <2>10
  <2> QED BY <2>1, <2>2, <2>4, <2>7, <2>8, <2>11 DEF Chain
<1>3. \A m \in Lists : Chain(NodesOf(m), head[m], tail[m], next, previous)'
  <2> SUFFICES ASSUME NEW m \in Lists
               PROVE  Chain(NodesOf(m)', head'[m], tail'[m], next', previous')
    BY DEF Chain, Once, Linked, Backlinked
  <2>1. CASE m = l
    BY <1>1, <2>1
  <2>2. CASE m # l
    BY <1>2, <2>2
  <2> QED BY <2>1, <2>2
<1>4. \A k, m \in Lists : k # m => (NodeSet(NodesOf(k)) \cap NodeSet(NodesOf(m)) = {})'
  <2> SUFFICES ASSUME NEW k \in Lists, NEW m \in Lists, k # m
               PROVE  NodeSet(NodesOf(k)') \cap NodeSet(NodesOf(m)') = {}
    BY DEF NodeSet
  <2>1. CASE k = l
    BY <1>1, <1>2, <2>1
  <2>2. CASE m = l
    BY <1>1, <1>2, <2>2
  <2>3. CASE k # l /\ m # l
    BY <1>2, <2>3 DEF ListInv
  <2> QED BY <2>1, <2>2, <2>3
<1>5. allocated' = UNION {NodeSet(NodesOf(m)') : m \in Lists}
  <2>1. ASSUME NEW n \in allocated' PROVE \E m \in Lists : n \in NodeSet(NodesOf(m)')
    <3>1. CASE n \in NodeSet(c)
      BY <1>1, <3>1
    <3>2. CASE n \notin NodeSet(c)
      <4>1. n \in allocated /\ n \notin NodeSet(NodesOf(l))
        BY <2>1, <3>2
      <4>2. PICK m \in Lists : n \in NodeSet(NodesOf(m))
        BY <4>1 DEF ListInv
      <4> QED BY <1>2, <4>1, <4>2
    <3> QED BY <3>1, <3>2
  <2>2. ASSUME NEW m \in Lists, NEW n \in NodeSet(NodesOf(m)') PROVE n \in allocated'
    <3>1. CASE m = l
      BY <1>1, <3>1
    <3>2. CASE m # l
      <4>1. n \in NodeSet(NodesOf(m))
        BY <1>2, <3>2
      <4>2. n \in allocated /\ n \notin NodeSet(NodesOf(l))
        BY <3>2, <4>1 DEF ListInv
      <4> QED BY <4>2
    <3> QED BY <3>1, <3>2
  <2> QED BY <2>1, <2>2
<1>6. ListInv'
  <2>1. allocated' = UNION {NodeSet(NodesOf(m)) : m \in Lists}'
    BY <1>5 DEF NodeSet
  <2> QED BY <1>3, <1>4, <2>1 DEF ListInv
<1>7. Items(l)' = [i \in DOMAIN c |-> element'[c[i]]]
  BY <1>1 DEF Items
<1> QED BY <1>2, <1>6, <1>7

\* What that is for Deque.
LEMMA PutItems ==
    ASSUME NEW l \in Lists, NEW s, Items(l)' = s,
           \A m \in Lists : m # l => Items(m)' = Items(m)
    PROVE  D!Put(l, s)
<1>1. [m \in Lists |-> Items(m)]' = [[m \in Lists |-> Items(m)] EXCEPT ![l] = s]
  <2>1. \A m \in Lists : Items(m)' = [[k \in Lists |-> Items(k)] EXCEPT ![l] = s][m]
    OBVIOUS
  <2> QED BY <2>1
<1> QED BY <1>1 DEF D!Put

\* What makes a chain, by its length.
LEMMA MakeChain ==
    ASSUME NEW s \in Seq(ListNodes), NEW first, NEW last, NEW fore, NEW back,
           NEW len, len = Len(s),
           first = IF len = 0 THEN nil ELSE s[1],
           last = IF len = 0 THEN nil ELSE s[len],
           \A i, j \in 1 .. len : s[i] = s[j] => i = j,
           \A i \in 1 .. len : fore[s[i]] = IF i = len THEN nil ELSE s[i + 1],
           \A i \in 1 .. len : back[s[i]] = IF i = 1 THEN nil ELSE s[i - 1]
    PROVE  Chain(s, first, last, fore, back)
BY DEF Chain, Once, Linked, Backlinked

\* The empty lists are chains, and the empty sequences of Deque.
LEMMA ListInitInv == ListInit => ListInv /\ D!DequeInit
<1> SUFFICES ASSUME ListInit PROVE ListInv /\ D!DequeInit
  OBVIOUS
<1>1. PICK c \in Seq(ListNodes) : c = <<>> /\ Len(c) = 0
  <2>1. <<>> \in Seq(ListNodes) /\ Len(<<>>) = 0
    OBVIOUS
  <2> QED BY <2>1
<1>2. Once(c) /\ NodeSet(c) = {}
  BY <1>1 DEF Once, NodeSet
<1>3. \A l \in Lists : Linked(c, head[l], next) /\ Backlinked(c, tail[l], previous)
  BY <1>1 DEF ListInit, Linked, Backlinked
<1>4. \A l \in Lists : NodesOf(l) = c
  BY <1>2, <1>3, VisitedIsLinked DEF NodesOf
<1>5. ListTypeOK
  BY DEF ListInit, ListTypeOK, Data
<1>6. ListInv
  <2>1. \A l \in Lists : Chain(NodesOf(l), head[l], tail[l], next, previous)
    BY <1>2, <1>3, <1>4 DEF Chain
  <2>2. \A l \in Lists : NodeSet(NodesOf(l)) = {}
    BY <1>2, <1>4
  <2>3. allocated = {}
    BY DEF ListInit
  <2> QED BY <1>5, <2>1, <2>2, <2>3 DEF ListInv
<1>7. \A l \in Lists : Items(l) = <<>>
  BY <1>1, <1>4 DEF Items
<1>8. [l \in Lists |-> Items(l)] = [l \in Lists |-> <<>>]
  BY <1>7
<1> QED BY <1>6, <1>8 DEF D!DequeInit, ListInit

\* kmalloc returns distinct pieces of free memory.
LEMMA NewMemoryIsFree ==
    ASSUME NEW k \in Nat, HasMemory(k), allocated \subseteq ListNodes
    PROVE  /\ NewMemory(k) \in [1 .. k -> ListNodes \ allocated]
           /\ \A i, j \in 1 .. k : NewMemory(k)[i] = NewMemory(k)[j] => i = j
<1> DEFINE free == ListNodes \ allocated
           N == Cardinality(free)
<1>1. IsFiniteSet(free)
  BY ListAssumption, FS_Subset
<1>2. N \in Nat /\ ExistsBijection(1 .. N, free) /\ k <= N
  BY <1>1, FS_CardinalityType DEF HasMemory
<1>3. PICK b \in Bijection(1 .. N, free) : TRUE
  BY <1>2 DEF ExistsBijection
<1> HIDE DEF N
<1>4. b \in [1 .. N -> free] /\ \A i, j \in 1 .. N : b[i] = b[j] => i = j
  BY <1>3 DEF Bijection, Injection, IsInjective
<1> DEFINE f == [i \in 1 .. k |-> b[i]]
<1>5. f \in [1 .. k -> free] /\ \A i, j \in 1 .. k : f[i] = f[j] => i = j
  <2>1. \A i \in 1 .. k : i \in 1 .. N
    BY <1>2
  <2> HIDE DEF free
  <2> QED BY <1>4, <2>1
<1> HIDE DEF f
<1>6. \E g \in [1 .. k -> free] : \A i, j \in 1 .. k : g[i] = g[j] => i = j
  BY <1>5
<1> QED BY <1>6, Zenon DEF NewMemory

\* A new node at the end.
LEMMA AppendStep ==
    ASSUME ListInv, NEW l \in Lists, NEW d \in ListData, ListAppend(l, d)
    PROVE  ListInv' /\ D!Append1(l, d)
<1>1. PICK n \in ListNodes :
        /\ HasMemory(1)
        /\ NewNode(n, d)
        /\ tail' = [tail EXCEPT ![l] = n]
        /\ IF tail[l] = nil
           THEN /\ head' = [head EXCEPT ![l] = n]
                /\ next' = [next EXCEPT ![n] = nil]
                /\ previous' = [previous EXCEPT ![n] = nil]
           ELSE /\ UNCHANGED head
                /\ next' = [next EXCEPT ![n] = nil, ![tail[l]] = n]
                /\ previous' = [previous EXCEPT ![n] = tail[l]]
        /\ UNCHANGED result
  BY DEF ListAppend
<1>2. ListTypeOK /\ allocated \subseteq ListNodes
  BY DEF ListInv, ListTypeOK
<1>3. /\ n \notin allocated /\ allocated' = allocated \cup {n}
      /\ element' = [element EXCEPT ![n] = d]
  <2>1. n = NewMemory(1)[1] /\ 1 \in Nat /\ 1 \in 1 .. 1
    BY <1>1 DEF NewNode
  <2>2. NewMemory(1) \in [1 .. 1 -> ListNodes \ allocated]
    BY <1>1, <1>2, <2>1, NewMemoryIsFree
  <2> QED BY <1>1, <2>1, <2>2 DEF NewNode
<1>4. PICK s \in Seq(ListNodes) :
        s = NodesOf(l) /\ Chain(s, head[l], tail[l], next, previous)
        /\ NodeSet(s) \subseteq allocated
  BY DEF ListInv, Chain
<1>5. PICK len \in Nat : len = Len(s)
  OBVIOUS
<1>6. \A i \in 1 .. len : s[i] \in allocated /\ s[i] # n /\ s[i] \in ListNodes /\ s[i] # nil
  BY <1>3, <1>4, <1>5, ListAssumption DEF NodeSet
<1>7. PICK c \in Seq(ListNodes) :
        /\ c = Append(s, n) /\ Len(c) = len + 1 /\ c[len + 1] = n
        /\ \A i \in 1 .. len : c[i] = s[i]
  <2>1. /\ Append(s, n) \in Seq(ListNodes) /\ Len(Append(s, n)) = len + 1
        /\ Append(s, n)[len + 1] = n /\ \A i \in 1 .. len : Append(s, n)[i] = s[i]
    BY <1>5, AppendProperties
  <2> QED BY <2>1
<1>8. /\ head[l] = IF len = 0 THEN nil ELSE s[1]
      /\ tail[l] = IF len = 0 THEN nil ELSE s[len]
      /\ \A i, j \in 1 .. len : s[i] = s[j] => i = j
      /\ \A i \in 1 .. len : next[s[i]] = IF i = len THEN nil ELSE s[i + 1]
      /\ \A i \in 1 .. len : previous[s[i]] = IF i = 1 THEN nil ELSE s[i - 1]
  BY <1>4, <1>5 DEF Chain, Once, Linked, Backlinked
<1>9. \A i \in 1 .. len + 1 : i \in 1 .. len \/ i = len + 1
  OBVIOUS
<1>10. Once(c)
  <2> SUFFICES ASSUME NEW i \in 1 .. len + 1, NEW j \in 1 .. len + 1, c[i] = c[j] PROVE i = j
    BY <1>7 DEF Once
  <2> QED BY <1>6, <1>7, <1>8, <1>9
<1>11. tail[l] = nil <=> len = 0
  <2>1. len # 0 => s[len] # nil
    BY <1>6
  <2> QED BY <1>8, <2>1
<1>12. /\ head'[l] = c[1] /\ tail'[l] = n
       /\ \A m \in Lists : m # l => head'[m] = head[m] /\ tail'[m] = tail[m]
       /\ DOMAIN head' = Lists /\ DOMAIN tail' = Lists
  <2>1. DOMAIN head = Lists /\ DOMAIN tail = Lists
    BY <1>2 DEF ListTypeOK
  <2>2. c[1] = IF len = 0 THEN n ELSE s[1]
    BY <1>7
  <2> QED BY <1>1, <1>8, <1>11, <2>1, <2>2
<1>13. /\ DOMAIN next' = ListNodes /\ DOMAIN previous' = ListNodes
       /\ next'[n] = nil
       /\ previous'[n] = IF len = 0 THEN nil ELSE s[len]
       /\ \A m \in ListNodes : m # n => previous'[m] = previous[m]
       /\ \A m \in ListNodes : m # n =>
             next'[m] = IF len # 0 /\ m = s[len] THEN n ELSE next[m]
  <2>1. DOMAIN next = ListNodes /\ DOMAIN previous = ListNodes
    BY <1>2 DEF ListTypeOK
  <2>2. CASE len = 0
    BY <1>1, <1>11, <2>1, <2>2
  <2>3. CASE len # 0
    <3>1. tail[l] = s[len] /\ s[len] # n /\ s[len] \in ListNodes
      BY <1>6, <1>8, <2>3
    <3> QED BY <1>1, <1>11, <2>1, <2>3, <3>1
  <2> QED BY <2>2, <2>3
<1>14. Chain(c, head'[l], tail'[l], next', previous')
  <2>1. ASSUME NEW i \in 1 .. len + 1
        PROVE  /\ next'[c[i]] = IF i = len + 1 THEN nil ELSE c[i + 1]
               /\ previous'[c[i]] = IF i = 1 THEN nil ELSE c[i - 1]
    <3>1. CASE i = len + 1
      <4>1. i # 1 => c[i - 1] = s[len]
        BY <1>7, <3>1
      <4> QED BY <1>7, <1>13, <3>1, <4>1
    <3>2. CASE i # len + 1
      <4>1. i \in 1 .. len /\ c[i] = s[i] /\ s[i] # n /\ s[i] \in ListNodes
        BY <1>6, <1>7, <3>2
      <4>2. previous'[c[i]] = IF i = 1 THEN nil ELSE c[i - 1]
        <5>1. i # 1 => i - 1 \in 1 .. len /\ c[i - 1] = s[i - 1]
          BY <1>7, <4>1
        <5>2. previous'[c[i]] = previous[s[i]]
          BY <1>13, <4>1
        <5>3. previous[s[i]] = IF i = 1 THEN nil ELSE s[i - 1]
          BY <1>8, <4>1
        <5> QED BY <5>1, <5>2, <5>3
      <4>3. next'[c[i]] = c[i + 1]
        <5>1. CASE i = len
          BY <1>7, <1>13, <4>1, <5>1
        <5>2. CASE i # len
          <6>1. i + 1 \in 1 .. len /\ c[i + 1] = s[i + 1]
            BY <1>7, <4>1, <5>2
          <6>2. s[i] # s[len]
            BY <1>8, <4>1, <5>2
          <6>3. next'[c[i]] = next[s[i]]
            BY <1>13, <4>1, <6>2
          <6>4. next[s[i]] = s[i + 1]
            BY <1>8, <4>1, <5>2
          <6> QED BY <6>1, <6>3, <6>4
        <5> QED BY <5>1, <5>2
      <4> QED BY <3>2, <4>2, <4>3
    <3> QED BY <3>1, <3>2
  <2>2. PICK k \in Nat : k = len + 1 /\ k = Len(c) /\ k # 0
    BY <1>7
  <2>3. \A i, j \in 1 .. k : c[i] = c[j] => i = j
    BY <1>10, <2>2 DEF Once
  <2>4. /\ head'[l] = IF k = 0 THEN nil ELSE c[1]
        /\ tail'[l] = IF k = 0 THEN nil ELSE c[k]
        /\ \A i \in 1 .. k : next'[c[i]] = IF i = k THEN nil ELSE c[i + 1]
        /\ \A i \in 1 .. k : previous'[c[i]] = IF i = 1 THEN nil ELSE c[i - 1]
    BY <1>7, <1>12, <2>1, <2>2
  <2> QED BY <2>2, <2>3, <2>4, MakeChain
<1>15. NodeSet(c) = NodeSet(s) \cup {n}
  <2>1. NodeSet(s) = {s[i] : i \in 1 .. len} /\ NodeSet(c) = {c[i] : i \in 1 .. len + 1}
    BY <1>5, <1>7 DEF NodeSet
  <2> QED BY <1>7, <1>9, <2>1
<1>16. /\ element' \in [ListNodes -> Data] /\ element'[n] = d
       /\ \A m \in ListNodes : m # n => element'[m] = element[m]
  BY <1>2, <1>3 DEF ListTypeOK, Data
<1>17. ListTypeOK'
  BY <1>2, <1>3, <1>12, <1>13, <1>16 DEF ListTypeOK
<1>18. \A m \in ListNodes : m \notin NodeSet(s) \cup NodeSet(c) =>
            next'[m] = next[m] /\ previous'[m] = previous[m] /\ element'[m] = element[m]
  <2>1. len # 0 => s[len] \in NodeSet(s)
    BY <1>5 DEF NodeSet
  <2> QED BY <1>13, <1>15, <1>16, <2>1
<1>19. NodeSet(c) \cap allocated \subseteq NodeSet(s)
       /\ allocated' = (allocated \ NodeSet(s)) \cup NodeSet(c)
  BY <1>3, <1>4, <1>15
<1>20. /\ ListInv' /\ Items(l)' = [i \in DOMAIN c |-> element'[c[i]]]
       /\ \A m \in Lists : m # l => Items(m)' = Items(m)
  BY <1>4, <1>12, <1>14, <1>17, <1>18, <1>19, Relinked
<1>21. Items(l)' = Append(Items(l), d)
  <2>1. DOMAIN s = 1 .. len /\ DOMAIN c = 1 .. len + 1
    BY <1>5, <1>7
  <2>2. Items(l) = [i \in 1 .. len |-> element[s[i]]]
    BY <1>4, <2>1 DEF Items
  <2>3. Items(l) \in Seq(Data) /\ Len(Items(l)) = len
    <3>1. \A i \in 1 .. len : element[s[i]] \in Data
      BY <1>2, <1>6 DEF ListTypeOK
    <3> QED BY <2>2, <3>1
  <2>4. \A i \in 1 .. len : element'[c[i]] = element[s[i]]
    BY <1>6, <1>7, <1>16
  <2>5. Append(Items(l), d) = [i \in 1 .. len + 1 |-> IF i = len + 1 THEN d ELSE Items(l)[i]]
    <3>1. PICK t \in Seq(Data), e \in Data : t = Items(l) /\ e = d
      BY <2>3 DEF Data
    <3>2. Len(t) = len
      BY <2>3, <3>1
    <3>3. /\ Append(t, e) \in Seq(Data) /\ Len(Append(t, e)) = len + 1
          /\ Append(t, e)[len + 1] = e /\ \A i \in 1 .. len : Append(t, e)[i] = t[i]
      BY <3>2, AppendProperties
    <3>4. PICK r \in Seq(Data) :
            /\ r = Append(t, e) /\ Len(r) = len + 1
            /\ r[len + 1] = e /\ \A i \in 1 .. len : r[i] = t[i]
      BY <3>3
    <3>5. r = [i \in 1 .. len + 1 |-> r[i]]
      <4>1. r = [i \in 1 .. Len(r) |-> r[i]]
        OBVIOUS
      <4> QED BY <3>4, <4>1
    <3>6. \A i \in 1 .. len + 1 : r[i] = IF i = len + 1 THEN e ELSE t[i]
      BY <1>9, <3>4
    <3>7. r = [i \in 1 .. len + 1 |-> IF i = len + 1 THEN e ELSE t[i]]
      BY <3>5, <3>6
    <3> QED BY <3>1, <3>4, <3>7
  <2>6. \A i \in 1 .. len + 1 : element'[c[i]] = IF i = len + 1 THEN d ELSE Items(l)[i]
    BY <1>7, <1>9, <1>16, <2>2, <2>4
  <2> QED BY <1>20, <2>1, <2>5, <2>6
<1> QED BY <1>1, <1>20, <1>21, PutItems DEF D!Append1

\* A new node at the front.
LEMMA PrependStep ==
    ASSUME ListInv, NEW l \in Lists, NEW d \in ListData, ListPrepend(l, d)
    PROVE  ListInv' /\ D!Prepend1(l, d)
<1>1. PICK n \in ListNodes :
        /\ HasMemory(1)
        /\ NewNode(n, d)
        /\ head' = [head EXCEPT ![l] = n]
        /\ IF tail[l] = nil
           THEN /\ tail' = [tail EXCEPT ![l] = n]
                /\ next' = [next EXCEPT ![n] = nil]
                /\ previous' = [previous EXCEPT ![n] = nil]
           ELSE /\ UNCHANGED tail
                /\ next' = [next EXCEPT ![n] = head[l]]
                /\ previous' = [previous EXCEPT ![n] = nil, ![head[l]] = n]
        /\ UNCHANGED result
  BY DEF ListPrepend
<1>2. ListTypeOK /\ allocated \subseteq ListNodes
  BY DEF ListInv, ListTypeOK
<1>3. /\ n \notin allocated /\ allocated' = allocated \cup {n}
      /\ element' = [element EXCEPT ![n] = d]
  <2>1. n = NewMemory(1)[1] /\ 1 \in Nat /\ 1 \in 1 .. 1
    BY <1>1 DEF NewNode
  <2>2. NewMemory(1) \in [1 .. 1 -> ListNodes \ allocated]
    BY <1>1, <1>2, <2>1, NewMemoryIsFree
  <2> QED BY <1>1, <2>1, <2>2 DEF NewNode
<1>4. PICK s \in Seq(ListNodes) :
        s = NodesOf(l) /\ Chain(s, head[l], tail[l], next, previous)
        /\ NodeSet(s) \subseteq allocated
  BY DEF ListInv, Chain
<1>5. PICK len \in Nat : len = Len(s)
  OBVIOUS
<1>6. \A i \in 1 .. len : s[i] \in allocated /\ s[i] # n /\ s[i] \in ListNodes /\ s[i] # nil
  BY <1>3, <1>4, <1>5, ListAssumption DEF NodeSet
<1>7. PICK c \in Seq(ListNodes) :
        /\ Len(c) = len + 1 /\ c[1] = n
        /\ \A i \in 1 .. len + 1 : c[i] = IF i = 1 THEN n ELSE s[i - 1]
  <2> DEFINE c == [i \in 1 .. len + 1 |-> IF i = 1 THEN n ELSE s[i - 1]]
  <2>1. \A i \in 1 .. len + 1 : i # 1 => s[i - 1] \in ListNodes
    BY <1>5
  <2>2. c \in [1 .. len + 1 -> ListNodes]
    BY <2>1
  <2>3. PICK k \in Nat : k = len + 1
    OBVIOUS
  <2>4. c \in Seq(ListNodes) /\ Len(c) = len + 1
    <3> HIDE DEF c
    <3> QED BY <2>2, <2>3
  <2>5. \A i \in 1 .. len + 1 : c[i] = IF i = 1 THEN n ELSE s[i - 1]
    OBVIOUS
  <2> HIDE DEF c
  <2> QED BY <2>4, <2>5
<1>8. /\ head[l] = IF len = 0 THEN nil ELSE s[1]
      /\ tail[l] = IF len = 0 THEN nil ELSE s[len]
      /\ \A i, j \in 1 .. len : s[i] = s[j] => i = j
      /\ \A i \in 1 .. len : next[s[i]] = IF i = len THEN nil ELSE s[i + 1]
      /\ \A i \in 1 .. len : previous[s[i]] = IF i = 1 THEN nil ELSE s[i - 1]
  BY <1>4, <1>5 DEF Chain, Once, Linked, Backlinked
<1>9. \A i \in 1 .. len + 1 : i # 1 => i - 1 \in 1 .. len /\ c[i] = s[i - 1]
                                      /\ s[i - 1] # n /\ s[i - 1] \in ListNodes
  BY <1>6, <1>7
<1>10. \A i, j \in 1 .. len + 1 : c[i] = c[j] => i = j
  <2> SUFFICES ASSUME NEW i \in 1 .. len + 1, NEW j \in 1 .. len + 1, c[i] = c[j]
               PROVE  i = j
    OBVIOUS
  <2>1. CASE i = 1 \/ j = 1
    BY <1>7, <1>9, <2>1
  <2>2. CASE i # 1 /\ j # 1
    <3>1. i - 1 = j - 1
      BY <1>8, <1>9, <2>2
    <3> QED BY <3>1
  <2> QED BY <2>1, <2>2
<1>11. tail[l] = nil <=> len = 0
  <2>1. len # 0 => s[len] # nil
    BY <1>6
  <2> QED BY <1>8, <2>1
<1>12. /\ head'[l] = n /\ tail'[l] = c[len + 1]
       /\ \A m \in Lists : m # l => head'[m] = head[m] /\ tail'[m] = tail[m]
       /\ DOMAIN head' = Lists /\ DOMAIN tail' = Lists
  <2>1. DOMAIN head = Lists /\ DOMAIN tail = Lists
    BY <1>2 DEF ListTypeOK
  <2>2. c[len + 1] = IF len = 0 THEN n ELSE s[len]
    BY <1>7
  <2> QED BY <1>1, <1>8, <1>11, <2>1, <2>2
<1>13. /\ DOMAIN next' = ListNodes /\ DOMAIN previous' = ListNodes
       /\ previous'[n] = nil
       /\ next'[n] = IF len = 0 THEN nil ELSE s[1]
       /\ \A m \in ListNodes : m # n => next'[m] = next[m]
       /\ \A m \in ListNodes : m # n =>
             previous'[m] = IF len # 0 /\ m = s[1] THEN n ELSE previous[m]
  <2>1. DOMAIN next = ListNodes /\ DOMAIN previous = ListNodes
    BY <1>2 DEF ListTypeOK
  <2>2. CASE len = 0
    BY <1>1, <1>11, <2>1, <2>2
  <2>3. CASE len # 0
    <3>1. head[l] = s[1] /\ s[1] # n /\ s[1] \in ListNodes
      BY <1>6, <1>8, <2>3
    <3> QED BY <1>1, <1>11, <2>1, <2>3, <3>1
  <2> QED BY <2>2, <2>3
<1>14. Chain(c, head'[l], tail'[l], next', previous')
  <2>1. ASSUME NEW i \in 1 .. len + 1
        PROVE  /\ next'[c[i]] = IF i = len + 1 THEN nil ELSE c[i + 1]
               /\ previous'[c[i]] = IF i = 1 THEN nil ELSE c[i - 1]
    <3>1. CASE i = 1
      <4>1. len # 0 => c[2] = s[1]
        BY <1>7
      <4> QED BY <1>7, <1>13, <3>1, <4>1
    <3>2. CASE i # 1
      <4>1. PICK j \in 1 .. len : i = j + 1 /\ c[i] = s[j] /\ s[j] # n /\ s[j] \in ListNodes
        <5>1. i - 1 \in 1 .. len /\ i = (i - 1) + 1
          BY <1>9, <3>2
        <5> QED BY <1>9, <3>2, <5>1
      <4>2. next'[c[i]] = IF i = len + 1 THEN nil ELSE c[i + 1]
        <5>1. next'[c[i]] = IF j = len THEN nil ELSE s[j + 1]
          BY <1>8, <1>13, <4>1
        <5>2. j # len => c[i + 1] = s[j + 1]
          <6>1. j # len => i + 1 \in 1 .. len + 1 /\ i + 1 # 1 /\ (i + 1) - 1 = j + 1
            BY <4>1
          <6> QED BY <1>9, <6>1
        <5> QED BY <4>1, <5>1, <5>2
      <4>3. previous'[c[i]] = c[i - 1]
        <5>1. CASE j = 1
          BY <1>7, <1>13, <4>1, <5>1
        <5>2. CASE j # 1
          <6>1. j - 1 \in 1 .. len /\ i - 1 \in 1 .. len + 1 /\ i - 1 # 1 /\ (i - 1) - 1 = j - 1
            BY <4>1, <5>2
          <6>2. c[i - 1] = s[j - 1]
            BY <1>9, <6>1
          <6>3. s[j] # s[1]
            BY <1>8, <4>1, <5>2
          <6>4. previous'[c[i]] = previous[s[j]]
            BY <1>13, <4>1, <6>3
          <6>5. previous[s[j]] = s[j - 1]
            BY <1>8, <5>2
          <6> QED BY <6>2, <6>4, <6>5
        <5> QED BY <5>1, <5>2
      <4> QED BY <3>2, <4>2, <4>3
    <3> QED BY <3>1, <3>2
  <2>2. PICK k \in Nat : k = len + 1 /\ k = Len(c) /\ k # 0
    BY <1>7
  <2>3. /\ head'[l] = IF k = 0 THEN nil ELSE c[1]
        /\ tail'[l] = IF k = 0 THEN nil ELSE c[k]
        /\ \A i, j \in 1 .. k : c[i] = c[j] => i = j
        /\ \A i \in 1 .. k : next'[c[i]] = IF i = k THEN nil ELSE c[i + 1]
        /\ \A i \in 1 .. k : previous'[c[i]] = IF i = 1 THEN nil ELSE c[i - 1]
    BY <1>7, <1>10, <1>12, <2>1, <2>2
  <2> QED BY <2>2, <2>3, MakeChain
<1>15. NodeSet(c) = NodeSet(s) \cup {n}
  <2>1. NodeSet(s) = {s[i] : i \in 1 .. len} /\ NodeSet(c) = {c[i] : i \in 1 .. len + 1}
    BY <1>5, <1>7 DEF NodeSet
  <2>2. \A i \in 1 .. len : i + 1 \in 1 .. len + 1 /\ c[i + 1] = s[i]
    <3> SUFFICES ASSUME NEW i \in 1 .. len PROVE i + 1 \in 1 .. len + 1 /\ c[i + 1] = s[i]
      OBVIOUS
    <3>1. i + 1 \in 1 .. len + 1 /\ i + 1 # 1 /\ (i + 1) - 1 = i
      OBVIOUS
    <3> QED BY <3>1, <1>9
  <2>3. 1 \in 1 .. len + 1
    OBVIOUS
  <2>4. \A i \in 1 .. len + 1 : c[i] \in NodeSet(s) \cup {n}
    BY <1>7, <1>9, <2>1
  <2>5. \A i \in 1 .. len : s[i] \in NodeSet(c)
    BY <2>1, <2>2
  <2>6. n \in NodeSet(c)
    BY <1>7, <2>1, <2>3
  <2> QED BY <2>1, <2>4, <2>5, <2>6
<1>16. /\ element' \in [ListNodes -> Data] /\ element'[n] = d
       /\ \A m \in ListNodes : m # n => element'[m] = element[m]
  BY <1>2, <1>3 DEF ListTypeOK, Data
<1>17. ListTypeOK'
  BY <1>2, <1>3, <1>12, <1>13, <1>16 DEF ListTypeOK
<1>18. \A m \in ListNodes : m \notin NodeSet(s) \cup NodeSet(c) =>
            next'[m] = next[m] /\ previous'[m] = previous[m] /\ element'[m] = element[m]
  <2>1. len # 0 => s[1] \in NodeSet(s)
    BY <1>5 DEF NodeSet
  <2> QED BY <1>13, <1>15, <1>16, <2>1
<1>19. NodeSet(c) \cap allocated \subseteq NodeSet(s)
       /\ allocated' = (allocated \ NodeSet(s)) \cup NodeSet(c)
  BY <1>3, <1>4, <1>15
<1>20. /\ ListInv' /\ Items(l)' = [i \in DOMAIN c |-> element'[c[i]]]
       /\ \A m \in Lists : m # l => Items(m)' = Items(m)
  BY <1>4, <1>12, <1>14, <1>17, <1>18, <1>19, Relinked
<1>21. Items(l)' = <<d>> \o Items(l)
  <2>1. DOMAIN s = 1 .. len /\ DOMAIN c = 1 .. len + 1
    BY <1>5, <1>7
  <2>2. Items(l) = [i \in 1 .. len |-> element[s[i]]]
    BY <1>4, <2>1 DEF Items
  <2>3. PICK t \in Seq(Data) : t = Items(l) /\ Len(t) = len
    <3>1. \A i \in 1 .. len : element[s[i]] \in Data
      BY <1>2, <1>6 DEF ListTypeOK
    <3> QED BY <2>2, <3>1
  <2>4. PICK one \in Seq(Data) : one = <<d>> /\ Len(one) = 1 /\ one[1] = d
    <3>1. <<d>> \in Seq(Data) /\ Len(<<d>>) = 1 /\ <<d>>[1] = d
      BY DEF Data
    <3> QED BY <3>1
  <2>5. PICK r \in Seq(Data) :
          /\ r = one \o t /\ Len(r) = 1 + len
          /\ \A i \in 1 .. 1 + len : r[i] = IF i <= 1 THEN one[i] ELSE t[i - 1]
    <3>1. /\ one \o t \in Seq(Data) /\ Len(one \o t) = Len(one) + Len(t)
          /\ \A i \in 1 .. Len(one) + Len(t) :
                (one \o t)[i] = IF i <= Len(one) THEN one[i] ELSE t[i - Len(one)]
      BY ConcatProperties
    <3> QED BY <2>3, <2>4, <3>1
  <2>6. \A i \in 1 .. len + 1 : r[i] = element'[c[i]]
    <3> SUFFICES ASSUME NEW i \in 1 .. len + 1 PROVE r[i] = element'[c[i]]
      OBVIOUS
    <3>1. CASE i = 1
      BY <1>7, <1>16, <2>4, <2>5, <3>1
    <3>2. CASE i # 1
      <4>1. r[i] = t[i - 1]
        <5>1. i \in 1 .. 1 + len /\ ~ (i <= 1)
          BY <3>2
        <5> QED BY <2>5, <5>1
      <4>2. t[i - 1] = element[s[i - 1]]
        BY <1>9, <2>2, <2>3, <3>2
      <4> QED BY <1>9, <1>16, <3>2, <4>1, <4>2
    <3> QED BY <3>1, <3>2
  <2>7. r = [i \in 1 .. Len(r) |-> r[i]]
    OBVIOUS
  <2>8. Len(r) = len + 1
    BY <2>5
  <2> QED BY <1>20, <2>1, <2>3, <2>4, <2>5, <2>6, <2>7, <2>8
<1> QED BY <1>1, <1>20, <1>21, PutItems DEF D!Prepend1

\* The elements of a sequence from one after m to n.
LEMMA PartOf ==
    ASSUME NEW S, NEW s \in Seq(S), NEW n \in 0 .. Len(s), NEW m \in 0 .. n
    PROVE  /\ SubSeq(s, m + 1, n) \in Seq(S)
           /\ Len(SubSeq(s, m + 1, n)) = n - m
           /\ \A i \in 1 .. n - m : SubSeq(s, m + 1, n)[i] = s[m + i]
<1>1. m + 1 \in Int /\ n \in Int /\ \A i \in m + 1 .. n : s[i] \in S
  OBVIOUS
<1>2. /\ SubSeq(s, m + 1, n) \in Seq(S)
      /\ Len(SubSeq(s, m + 1, n)) = IF m + 1 <= n THEN n - (m + 1) + 1 ELSE 0
  BY <1>1, SubSeqProperties
<1>3. Len(SubSeq(s, m + 1, n)) = n - m
  BY <1>2
<1>4. ASSUME NEW i \in 1 .. n - m PROVE SubSeq(s, m + 1, n)[i] = s[m + i]
  BY <1>3
<1> QED BY <1>2, <1>3, <1>4

\* A sequence without its i-th element.
LEMMA Removed ==
    ASSUME NEW S, NEW s \in Seq(S), NEW len \in Nat, len = Len(s), NEW i \in 1 .. len
    PROVE  /\ D!RemoveAt(s, i) \in Seq(S)
           /\ Len(D!RemoveAt(s, i)) = len - 1
           /\ \A j \in 1 .. len - 1 :
                 D!RemoveAt(s, i)[j] = IF j < i THEN s[j] ELSE s[j + 1]
<1>1. PICK a \in Seq(S) :
        /\ a = SubSeq(s, 1, i - 1) /\ Len(a) = i - 1 /\ \A j \in 1 .. i - 1 : a[j] = s[j]
  <2>1. PICK m \in 0 .. i - 1 : m = 0
    OBVIOUS
  <2>2. i - 1 \in 0 .. Len(s)
    OBVIOUS
  <2>3. PICK n \in 0 .. Len(s) : n = i - 1
    BY <2>2
  <2>4. m \in 0 .. n
    BY <2>1, <2>3
  <2>5. /\ SubSeq(s, m + 1, n) \in Seq(S) /\ Len(SubSeq(s, m + 1, n)) = n - m
        /\ \A j \in 1 .. n - m : SubSeq(s, m + 1, n)[j] = s[m + j]
    BY <2>3, <2>4, PartOf, SMTT(30)
  <2>6. m + 1 = 1 /\ n - m = i - 1 /\ \A j \in 1 .. i - 1 : m + j = j
    BY <2>1, <2>3
  <2>7. PICK b \in Seq(S) :
          b = SubSeq(s, m + 1, n) /\ Len(b) = n - m /\ \A j \in 1 .. n - m : b[j] = s[m + j]
    BY <2>5
  <2>8. b = SubSeq(s, 1, i - 1)
    BY <2>3, <2>6, <2>7
  <2>9. Len(b) = i - 1 /\ \A j \in 1 .. i - 1 : b[j] = s[j]
    BY <2>6, <2>7
  <2> QED BY <2>8, <2>9
<1>2. PICK b \in Seq(S) :
        /\ b = SubSeq(s, i + 1, Len(s)) /\ Len(b) = len - i
        /\ \A j \in 1 .. len - i : b[j] = s[i + j]
  <2>1. PICK n \in 0 .. Len(s) : n = Len(s)
    OBVIOUS
  <2>2. i \in 0 .. n
    BY <2>1
  <2>3. /\ SubSeq(s, i + 1, n) \in Seq(S) /\ Len(SubSeq(s, i + 1, n)) = n - i
        /\ \A j \in 1 .. n - i : SubSeq(s, i + 1, n)[j] = s[i + j]
    BY <2>1, <2>2, PartOf, SMTT(30)
  <2> QED BY <2>1, <2>3
<1>3. D!RemoveAt(s, i) = a \o b
  BY <1>1, <1>2 DEF D!RemoveAt
<1>4. PICK c \in Seq(S) :
        /\ c = a \o b /\ Len(c) = Len(a) + Len(b)
        /\ \A j \in 1 .. Len(a) + Len(b) : c[j] = IF j <= Len(a) THEN a[j] ELSE b[j - Len(a)]
  <2>1. /\ a \o b \in Seq(S) /\ Len(a \o b) = Len(a) + Len(b)
        /\ \A j \in 1 .. Len(a) + Len(b) :
              (a \o b)[j] = IF j <= Len(a) THEN a[j] ELSE b[j - Len(a)]
    BY ConcatProperties
  <2> QED BY <2>1
<1>5. Len(a) = i - 1 /\ Len(b) = len - i /\ Len(a) + Len(b) = len - 1
  <2>1. PICK la \in Int, lb \in Int : la = Len(a) /\ lb = Len(b)
    OBVIOUS
  <2>2. la = i - 1 /\ lb = len - i
    BY <1>1, <1>2, <2>1
  <2>3. la + lb = len - 1
    BY <2>2
  <2> QED BY <2>1, <2>2, <2>3
<1>6. ASSUME NEW j \in 1 .. len - 1 PROVE c[j] = IF j < i THEN s[j] ELSE s[j + 1]
  <2>1. CASE j < i
    BY <1>1, <1>4, <1>5, <2>1
  <2>2. CASE ~ (j < i)
    <3>1. j - (i - 1) \in 1 .. len - i /\ i + (j - (i - 1)) = j + 1 /\ ~ (j <= i - 1)
      BY <2>2
    <3>2. c[j] = b[j - (i - 1)]
      BY <1>4, <1>5, <2>2, <3>1
    <3>3. b[j - (i - 1)] = s[i + (j - (i - 1))]
      BY <1>2, <3>1
    <3>4. c[j] = s[j + 1]
      BY <3>1, <3>2, <3>3
    <3> QED BY <2>2, <3>4
  <2> QED BY <2>1, <2>2
<1> QED BY <1>3, <1>4, <1>5, <1>6

\* list_remove_node takes out the i-th node of a list.
LEMMA UnlinkStep ==
    ASSUME ListInv, NEW l \in Lists, NEW p \in 1 .. Len(NodesOf(l)),
           UnlinkNode(l, NodesOf(l)[p])
    PROVE  ListInv' /\ D!Put(l, D!RemoveAt(Items(l), p))
<1>1. ListTypeOK /\ allocated \subseteq ListNodes
  BY DEF ListInv, ListTypeOK
<1>2. PICK s \in Seq(ListNodes) :
        s = NodesOf(l) /\ Chain(s, head[l], tail[l], next, previous)
        /\ NodeSet(s) \subseteq allocated
  BY DEF ListInv, Chain
<1>3. PICK len \in Nat : len = Len(s)
  OBVIOUS
<1>4. p \in 1 .. len /\ len = Len(s) /\ s \in Seq(ListNodes)
  BY <1>2, <1>3
<1>5. Chain(s, head[l], tail[l], next, previous)
  BY <1>2
<1>6. \A j \in 1 .. len : s[j] \in allocated /\ s[j] \in ListNodes /\ s[j] # nil
  BY <1>2, <1>3, <1>4, ListAssumption DEF NodeSet
<1>7. /\ head[l] = IF len = 0 THEN nil ELSE s[1]
      /\ tail[l] = IF len = 0 THEN nil ELSE s[len]
      /\ \A i, j \in 1 .. len : s[i] = s[j] => i = j
      /\ \A i \in 1 .. len : next[s[i]] = IF i = len THEN nil ELSE s[i + 1]
      /\ \A i \in 1 .. len : previous[s[i]] = IF i = 1 THEN nil ELSE s[i - 1]
  BY <1>3, <1>5 DEF Chain, Once, Linked, Backlinked
<1>8. PICK n \in ListNodes : n = s[p]
  BY <1>3, <1>4, <1>6
<1>9. /\ next' = [m \in ListNodes |-> IF m = n THEN nil
                                       ELSE IF m = previous[n] THEN next[n] ELSE next[m]]
      /\ previous' = [m \in ListNodes |-> IF m = n THEN nil
                                           ELSE IF m = next[n] THEN previous[n]
                                           ELSE previous[m]]
      /\ element' = [element EXCEPT ![n] = nil]
      /\ head' = IF n = head[l] THEN [head EXCEPT ![l] = next[n]] ELSE head
      /\ tail' = IF n = tail[l] THEN [tail EXCEPT ![l] = previous[n]] ELSE tail
      /\ allocated' = allocated \ {n}
  BY <1>8, <1>2 DEF UnlinkNode
<1>10. PICK c \in Seq(ListNodes) :
        /\ Len(c) = len - 1
        /\ \A j \in 1 .. len - 1 : c[j] = IF j < p THEN s[j] ELSE s[j + 1]
  <2>1. /\ D!RemoveAt(s, p) \in Seq(ListNodes)
        /\ Len(D!RemoveAt(s, p)) = len - 1
        /\ \A j \in 1 .. len - 1 :
              D!RemoveAt(s, p)[j] = IF j < p THEN s[j] ELSE s[j + 1]
    BY <1>3, <1>4, Removed
  <2> QED BY <2>1
<1>11. /\ next[n] = IF p = len THEN nil ELSE s[p + 1]
      /\ previous[n] = IF p = 1 THEN nil ELSE s[p - 1]
  BY <1>8, <1>3, <1>4, <1>7
<1>12. \A j \in 1 .. len - 1 : j < p => j \in 1 .. len /\ c[j] = s[j] /\ s[j] # n
  BY <1>8, <1>3, <1>4, <1>10, <1>7
<1>13. \A j \in 1 .. len - 1 : ~ (j < p) => j + 1 \in 1 .. len /\ c[j] = s[j + 1] /\ s[j + 1] # n
  <2> SUFFICES ASSUME NEW j \in 1 .. len - 1, ~ (j < p)
               PROVE  j + 1 \in 1 .. len /\ c[j] = s[j + 1] /\ s[j + 1] # n
    OBVIOUS
  <2>1. j + 1 \in 1 .. len /\ j + 1 # p
    BY <1>3, <1>4
  <2> QED BY <1>8, <1>3, <1>4, <1>10, <1>7, <2>1
<1>14. \A j, k \in 1 .. len - 1 : c[j] = c[k] => j = k
  <2> SUFFICES ASSUME NEW j \in 1 .. len - 1, NEW k \in 1 .. len - 1, c[j] = c[k]
               PROVE  j = k
    OBVIOUS
  <2>1. CASE j < p /\ k < p
    BY <1>7, <1>12, <2>1
  <2>2. CASE ~ (j < p) /\ ~ (k < p)
    <3>1. j + 1 = k + 1
      BY <1>7, <1>13, <2>2
    <3> QED BY <3>1
  <2>3. CASE j < p /\ ~ (k < p)
    <3>1. j \in 1 .. len /\ k + 1 \in 1 .. len /\ s[j] = s[k + 1]
      BY <1>12, <1>13, <2>3
    <3>2. j = k + 1
      BY <1>7, <3>1
    <3> QED BY <1>4, <2>3, <3>2
  <2>4. CASE ~ (j < p) /\ k < p
    <3>1. k \in 1 .. len /\ j + 1 \in 1 .. len /\ s[k] = s[j + 1]
      BY <1>12, <1>13, <2>4
    <3>2. k = j + 1
      BY <1>7, <3>1
    <3> QED BY <1>4, <2>4, <3>2
  <2> QED BY <2>1, <2>2, <2>3, <2>4
<1>15. ASSUME NEW j \in 1 .. len - 1
       PROVE  /\ next'[c[j]] = IF j = len - 1 THEN nil ELSE c[j + 1]
              /\ previous'[c[j]] = IF j = 1 THEN nil ELSE c[j - 1]
  <2>1. CASE j < p
    <3>1. j \in 1 .. len /\ c[j] = s[j] /\ s[j] # n /\ s[j] \in ListNodes
      BY <1>6, <1>12, <2>1
    <3>2. s[j] # next[n]
      <4>1. p # len => p + 1 \in 1 .. len /\ j # p + 1
        BY <1>3, <1>4, <2>1
      <4> QED BY <1>6, <1>7, <1>11, <3>1, <4>1
    <3>3. previous'[c[j]] = previous[s[j]]
      BY <1>9, <3>1, <3>2
    <3>4. previous'[c[j]] = IF j = 1 THEN nil ELSE c[j - 1]
      <4>1. j # 1 => j - 1 \in 1 .. len - 1 /\ j - 1 < p
        BY <1>3, <1>4, <2>1
      <4>2. j # 1 => c[j - 1] = s[j - 1]
        BY <1>12, <4>1
      <4> QED BY <1>7, <3>1, <3>3, <4>2
    <3>5. CASE j = p - 1
      <4>1. p # 1 /\ s[j] = previous[n]
        BY <1>3, <1>4, <1>11, <3>5
      <4>2. next'[c[j]] = IF p = len THEN nil ELSE s[p + 1]
        BY <1>9, <1>11, <3>1, <4>1
      <4>3. p # len => j + 1 \in 1 .. len - 1 /\ ~ (j + 1 < p) /\ (j + 1) + 1 = p + 1
        BY <1>3, <1>4, <3>5
      <4>4. p # len => c[j + 1] = s[p + 1]
        BY <1>13, <4>3
      <4>5. p = len <=> j = len - 1
        BY <1>3, <1>4, <3>5
      <4> QED BY <3>4, <4>2, <4>4, <4>5
    <3>6. CASE j # p - 1
      <4>1. j + 1 \in 1 .. len - 1 /\ j + 1 < p /\ j # len /\ j # len - 1
        BY <1>3, <1>4, <2>1, <3>6
      <4>2. s[j] # previous[n]
        <5>1. p # 1 => p - 1 \in 1 .. len
          BY <1>3, <1>4
        <5> QED BY <1>6, <1>7, <1>11, <3>1, <3>6, <5>1
      <4>3. next'[c[j]] = next[s[j]]
        BY <1>9, <3>1, <4>2
      <4>4. next[s[j]] = s[j + 1] /\ c[j + 1] = s[j + 1]
        BY <1>7, <1>12, <3>1, <4>1
      <4> QED BY <3>4, <4>1, <4>3, <4>4
    <3> QED BY <3>5, <3>6
  <2>2. CASE ~ (j < p)
    <3>1. PICK k \in 1 .. len : k = j + 1 /\ c[j] = s[k] /\ s[k] # n /\ s[k] \in ListNodes
      BY <1>6, <1>13, <2>2
    <3>2. s[k] # previous[n]
      <4>1. p # 1 => p - 1 \in 1 .. len /\ k # p - 1
        BY <1>3, <1>4, <2>2, <3>1
      <4> QED BY <1>6, <1>7, <1>11, <3>1, <4>1
    <3>3. next'[c[j]] = next[s[k]]
      BY <1>9, <3>1, <3>2
    <3>4. next'[c[j]] = IF j = len - 1 THEN nil ELSE c[j + 1]
      <4>1. j # len - 1 => j + 1 \in 1 .. len - 1 /\ ~ (j + 1 < p) /\ (j + 1) + 1 = k + 1
        BY <1>3, <1>4, <2>2, <3>1
      <4>2. j # len - 1 => c[j + 1] = s[k + 1]
        BY <1>13, <4>1
      <4>3. k = len <=> j = len - 1
        BY <3>1
      <4>4. next[s[k]] = IF k = len THEN nil ELSE s[k + 1]
        BY <1>7
      <4> QED BY <3>3, <4>2, <4>3, <4>4
    <3>5. CASE k = p + 1
      <4>1. p # len /\ s[k] = next[n]
        BY <1>3, <1>4, <1>11, <3>1, <3>5
      <4>2. previous'[c[j]] = IF p = 1 THEN nil ELSE s[p - 1]
        BY <1>9, <1>11, <3>1, <4>1
      <4>3. j = p /\ (p # 1 => p - 1 \in 1 .. len - 1 /\ p - 1 < p)
        BY <1>3, <1>4, <3>1, <3>5
      <4>4. p # 1 => c[j - 1] = s[p - 1]
        BY <1>12, <4>3
      <4> QED BY <3>4, <4>2, <4>3, <4>4
    <3>6. CASE k # p + 1
      <4>1. s[k] # next[n]
        <5>1. p # len => p + 1 \in 1 .. len
          BY <1>3, <1>4
        <5> QED BY <1>6, <1>7, <1>11, <3>1, <3>6, <5>1
      <4>2. previous'[c[j]] = previous[s[k]]
        BY <1>9, <3>1, <4>1
      <4>3. j # 1 /\ j - 1 \in 1 .. len - 1 /\ ~ (j - 1 < p) /\ (j - 1) + 1 = k - 1 /\ k # 1
        <5>1. j # p /\ p \in Nat /\ j \in Nat
          BY <1>4, <3>1, <3>6
        <5>2. j > p
          BY <2>2, <5>1
        <5> QED BY <1>4, <3>1, <5>2
      <4>4. c[j - 1] = s[k - 1]
        BY <1>13, <4>3
      <4>5. previous[s[k]] = s[k - 1]
        BY <1>7, <4>3
      <4> QED BY <3>4, <4>2, <4>3, <4>4, <4>5
    <3> QED BY <3>5, <3>6
  <2> QED BY <2>1, <2>2
<1>16. /\ head'[l] = IF len - 1 = 0 THEN nil ELSE c[1]
       /\ tail'[l] = IF len - 1 = 0 THEN nil ELSE c[len - 1]
       /\ \A m \in Lists : m # l => head'[m] = head[m] /\ tail'[m] = tail[m]
       /\ DOMAIN head' = Lists /\ DOMAIN tail' = Lists
  <2>1. DOMAIN head = Lists /\ DOMAIN tail = Lists
    BY <1>1 DEF ListTypeOK
  <2>2. head[l] = s[1] /\ tail[l] = s[len] /\ 1 \in 1 .. len /\ len \in 1 .. len
    BY <1>3, <1>4, <1>7
  <2>3. n = head[l] <=> p = 1
    BY <1>8, <1>3, <1>4, <1>7, <2>2
  <2>4. n = tail[l] <=> p = len
    BY <1>8, <1>3, <1>4, <1>7, <2>2
  <2>5. head'[l] = IF p = 1 THEN next[n] ELSE s[1]
    BY <1>9, <2>1, <2>2, <2>3
  <2>6. tail'[l] = IF p = len THEN previous[n] ELSE s[len]
    BY <1>9, <2>1, <2>2, <2>4
  <2>7. head'[l] = IF len - 1 = 0 THEN nil ELSE c[1]
    <3>1. CASE p = 1
      <4>1. len # 1 => c[1] = s[2]
        BY <1>10, <3>1
      <4> QED BY <1>11, <2>5, <3>1, <4>1
    <3>2. CASE p # 1
      <4>1. len - 1 # 0 /\ 1 \in 1 .. len - 1 /\ 1 < p
        BY <1>3, <1>4, <3>2
      <4>2. c[1] = s[1]
        BY <1>10, <4>1
      <4> QED BY <2>5, <3>2, <4>1, <4>2
    <3> QED BY <3>1, <3>2
  <2>8. tail'[l] = IF len - 1 = 0 THEN nil ELSE c[len - 1]
    <3>1. CASE p = len
      <4>1. len - 1 # 0 => c[len - 1] = s[len - 1]
        BY <1>3, <1>4, <1>10, <3>1
      <4> QED BY <1>11, <2>6, <3>1, <4>1
    <3>2. CASE p # len
      <4>1. len - 1 \in 1 .. len - 1 /\ ~ (len - 1 < p) /\ (len - 1) + 1 = len
        BY <1>3, <1>4, <3>2
      <4>2. c[len - 1] = s[len]
        BY <1>13, <4>1
      <4> QED BY <2>6, <3>2, <4>1, <4>2
    <3> QED BY <3>1, <3>2
  <2>9. \A m \in Lists : m # l => head'[m] = head[m] /\ tail'[m] = tail[m]
    BY <1>9, <2>1
  <2>10. DOMAIN head' = Lists /\ DOMAIN tail' = Lists
    BY <1>9, <2>1
  <2> QED BY <2>7, <2>8, <2>9, <2>10
<1>17. Chain(c, head'[l], tail'[l], next', previous')
  <2>1. len - 1 \in Nat /\ len - 1 = Len(c)
    BY <1>4, <1>10
  <2>2. PICK k \in Nat : k = len - 1 /\ k = Len(c)
    BY <2>1
  <2>3. /\ head'[l] = IF k = 0 THEN nil ELSE c[1]
        /\ tail'[l] = IF k = 0 THEN nil ELSE c[k]
        /\ \A j, m \in 1 .. k : c[j] = c[m] => j = m
        /\ \A j \in 1 .. k : next'[c[j]] = IF j = k THEN nil ELSE c[j + 1]
        /\ \A j \in 1 .. k : previous'[c[j]] = IF j = 1 THEN nil ELSE c[j - 1]
    BY <1>14, <1>15, <1>16, <2>2
  <2> QED BY <2>2, <2>3, MakeChain
<1>18. NodeSet(c) = NodeSet(s) \ {n}
  <2>1. NodeSet(s) = {s[j] : j \in 1 .. len} /\ NodeSet(c) = {c[j] : j \in 1 .. len - 1}
    BY <1>3, <1>4, <1>10 DEF NodeSet
  <2>2. \A j \in 1 .. len - 1 : c[j] \in NodeSet(s) \ {n}
    BY <1>12, <1>13, <2>1
  <2>3. ASSUME NEW j \in 1 .. len, s[j] # n PROVE s[j] \in NodeSet(c)
    <3>1. CASE j < p
      <4>1. j \in 1 .. len - 1
        BY <1>3, <1>4, <3>1
      <4> QED BY <1>12, <2>1, <3>1, <4>1
    <3>2. CASE ~ (j < p)
      <4>1. j # p
        BY <1>8, <2>3
      <4>2. j - 1 \in 1 .. len - 1 /\ ~ (j - 1 < p) /\ (j - 1) + 1 = j
        BY <1>3, <1>4, <3>2, <4>1
      <4> QED BY <1>13, <2>1, <4>2
    <3> QED BY <3>1, <3>2
  <2> QED BY <2>1, <2>2, <2>3
<1>19. /\ element' \in [ListNodes -> Data]
       /\ \A m \in ListNodes : m # n => element'[m] = element[m]
  BY <1>1, <1>9 DEF ListTypeOK, Data
<1>20. ListTypeOK'
  BY <1>1, <1>9, <1>16, <1>19 DEF ListTypeOK
<1>21. \A m \in ListNodes : m \notin NodeSet(s) \cup NodeSet(c) =>
            next'[m] = next[m] /\ previous'[m] = previous[m] /\ element'[m] = element[m]
  <2>1. \A j \in 1 .. len : s[j] \in NodeSet(s)
    BY <1>3, <1>4 DEF NodeSet
  <2>2. n \in NodeSet(s)
    BY <1>8, <1>3, <1>4, <2>1
  <2>3. next[n] = nil \/ next[n] \in NodeSet(s)
    <3>1. p # len => p + 1 \in 1 .. len
      BY <1>3, <1>4
    <3> QED BY <1>11, <2>1, <3>1
  <2>4. previous[n] = nil \/ previous[n] \in NodeSet(s)
    <3>1. p # 1 => p - 1 \in 1 .. len
      BY <1>3, <1>4
    <3> QED BY <1>11, <2>1, <3>1
  <2> QED BY <1>9, <1>19, <2>2, <2>3, <2>4, ListAssumption
<1>22. NodeSet(c) \cap allocated \subseteq NodeSet(s)
       /\ allocated' = (allocated \ NodeSet(s)) \cup NodeSet(c)
  <2>1. n \in NodeSet(s)
    BY <1>8, <1>3, <1>4 DEF NodeSet
  <2> QED BY <1>9, <1>2, <1>18, <2>1
<1>23. /\ ListInv' /\ Items(l)' = [j \in DOMAIN c |-> element'[c[j]]]
       /\ \A m \in Lists : m # l => Items(m)' = Items(m)
  BY <1>2, <1>16, <1>17, <1>20, <1>21, <1>22, Relinked
<1>24. Items(l)' = D!RemoveAt(Items(l), p)
  <2>1. DOMAIN s = 1 .. len /\ DOMAIN c = 1 .. len - 1
    BY <1>3, <1>4, <1>10
  <2>2. Items(l) = [j \in 1 .. len |-> element[s[j]]]
    BY <1>2, <2>1 DEF Items
  <2>3. PICK t \in Seq(Data) : t = Items(l) /\ Len(t) = len
    <3>1. \A j \in 1 .. len : element[s[j]] \in Data
      BY <1>1, <1>6 DEF ListTypeOK
    <3> QED BY <2>2, <3>1
  <2>4. PICK r \in Seq(Data) :
          /\ r = D!RemoveAt(t, p) /\ Len(r) = len - 1
          /\ \A j \in 1 .. len - 1 : r[j] = IF j < p THEN t[j] ELSE t[j + 1]
    <3>1. t \in Seq(Data) /\ len = Len(t)
      BY <2>3
    <3>2. /\ D!RemoveAt(t, p) \in Seq(Data)
          /\ Len(D!RemoveAt(t, p)) = len - 1
          /\ \A j \in 1 .. len - 1 :
                D!RemoveAt(t, p)[j] = IF j < p THEN t[j] ELSE t[j + 1]
      BY <1>4, <3>1, Removed, Zenon
    <3> QED BY <3>2
  <2>5. \A j \in 1 .. len - 1 : r[j] = element'[c[j]]
    <3> SUFFICES ASSUME NEW j \in 1 .. len - 1 PROVE r[j] = element'[c[j]]
      OBVIOUS
    <3>1. CASE j < p
      <4>1. j \in 1 .. len /\ c[j] = s[j] /\ s[j] # n /\ s[j] \in ListNodes
        BY <1>6, <1>12, <3>1
      <4>2. r[j] = t[j] /\ t[j] = element[s[j]]
        BY <2>2, <2>3, <2>4, <3>1, <4>1
      <4> QED BY <1>19, <4>1, <4>2
    <3>2. CASE ~ (j < p)
      <4>1. j + 1 \in 1 .. len /\ c[j] = s[j + 1] /\ s[j + 1] # n /\ s[j + 1] \in ListNodes
        BY <1>6, <1>13, <3>2
      <4>2. r[j] = t[j + 1] /\ t[j + 1] = element[s[j + 1]]
        BY <2>2, <2>3, <2>4, <3>2, <4>1
      <4> QED BY <1>19, <4>1, <4>2
    <3> QED BY <3>1, <3>2
  <2>6. r = [j \in 1 .. Len(r) |-> r[j]]
    OBVIOUS
  <2> QED BY <1>23, <2>1, <2>3, <2>4, <2>5, <2>6
<1> QED BY <1>23, <1>24, PutItems

\* What Deque calls the items of a list, by its nodes.
LEMMA ItemsFacts ==
    ASSUME ListInv, NEW l \in Lists
    PROVE  /\ NodesOf(l) \in Seq(ListNodes) /\ Items(l) \in Seq(Data)
           /\ Len(Items(l)) = Len(NodesOf(l)) /\ Len(NodesOf(l)) \in Nat
           /\ DOMAIN NodesOf(l) = 1 .. Len(NodesOf(l))
           /\ DOMAIN Items(l) = 1 .. Len(NodesOf(l))
           /\ \A i \in 1 .. Len(NodesOf(l)) :
                 /\ NodesOf(l)[i] \in ListNodes /\ NodesOf(l)[i] # nil
                 /\ Items(l)[i] = element[NodesOf(l)[i]]
           /\ head[l] = IF Len(NodesOf(l)) = 0 THEN nil ELSE NodesOf(l)[1]
           /\ tail[l] = IF Len(NodesOf(l)) = 0 THEN nil ELSE NodesOf(l)[Len(NodesOf(l))]
<1>1. PICK s \in Seq(ListNodes) : s = NodesOf(l) /\ Chain(s, head[l], tail[l], next, previous)
  BY DEF ListInv, Chain
<1>2. PICK len \in Nat : len = Len(s)
  OBVIOUS
<1>3. \A i \in 1 .. len : s[i] \in ListNodes /\ s[i] # nil
  BY <1>2, ListAssumption
<1>4. DOMAIN s = 1 .. len
  BY <1>2
<1>5. Items(l) = [i \in 1 .. len |-> element[s[i]]]
  BY <1>1, <1>4 DEF Items
<1>6. \A i \in 1 .. len : element[s[i]] \in Data
  BY <1>3 DEF ListInv, ListTypeOK
<1>7. Items(l) \in Seq(Data) /\ Len(Items(l)) = len /\ DOMAIN Items(l) = 1 .. len
  BY <1>5, <1>6
<1>8. /\ head[l] = IF len = 0 THEN nil ELSE s[1]
      /\ tail[l] = IF len = 0 THEN nil ELSE s[len]
  BY <1>1, <1>2 DEF Chain, Linked, Backlinked
<1> QED BY <1>1, <1>2, <1>3, <1>4, <1>5, <1>7, <1>8

\* Nothing is asked of the nodes that are not read.
LEMMA SameItems ==
    ASSUME ListInv, UNCHANGED <<head, tail, next, previous, element, allocated>>
    PROVE  ListInv' /\ UNCHANGED [l \in Lists |-> Items(l)]
<1>1. \A l \in Lists : NodesOf(l)' = NodesOf(l) /\ Items(l)' = Items(l)
  BY DEF NodesOf, Items
<1>2. ListInv'
  <2>1. ListTypeOK'
    BY DEF ListInv, ListTypeOK
  <2>2. \A l \in Lists : Chain(NodesOf(l), head[l], tail[l], next, previous)'
    <3> SUFFICES ASSUME NEW l \in Lists
                 PROVE  Chain(NodesOf(l)', head'[l], tail'[l], next', previous')
      BY DEF Chain, Once, Linked, Backlinked
    <3>1. Chain(NodesOf(l), head[l], tail[l], next, previous)
      BY DEF ListInv
    <3> QED BY <1>1, <3>1
  <2>3. \A l \in Lists : NodeSet(NodesOf(l))' = NodeSet(NodesOf(l))
    <3> SUFFICES ASSUME NEW l \in Lists PROVE NodeSet(NodesOf(l)') = NodeSet(NodesOf(l))
      BY DEF NodeSet
    <3> QED BY <1>1
  <2>4. /\ \A l, m \in Lists : l # m => NodeSet(NodesOf(l)) \cap NodeSet(NodesOf(m)) = {}
        /\ allocated = UNION {NodeSet(NodesOf(l)) : l \in Lists}
    BY DEF ListInv
  <2>5. \A l, m \in Lists : l # m =>
              NodeSet(NodesOf(l))' \cap NodeSet(NodesOf(m))' = {}
    BY <2>3, <2>4
  <2>6. allocated' = UNION {NodeSet(NodesOf(l))' : l \in Lists}
    BY <2>3, <2>4
  <2> QED BY <2>1, <2>2, <2>5, <2>6 DEF ListInv
<1> QED BY <1>1, <1>2

\* list_find_first_occurrence looks for what Deque selects.
LEMMA FoundFirst ==
    ASSUME ListInv, NEW l \in Lists, NEW d
    PROVE  \E k \in 0 .. Len(NodesOf(l)) :
              /\ k = D!SelectInSeq(Items(l), LAMBDA x : x = d)
              /\ FirstOccurrence(l, d) = IF k = 0 THEN nil ELSE NodesOf(l)[k]
              /\ k # 0 <=> \E i \in 1 .. Len(Items(l)) : Items(l)[i] = d
<1>1. PICK t \in Seq(Data), len \in Nat :
        t = Items(l) /\ Len(t) = len /\ Len(NodesOf(l)) = len /\ DOMAIN t = 1 .. len
  BY ItemsFacts
<1> DEFINE hits == {i \in 1 .. len : t[i] = d}
<1>2. FirstOccurrence(l, d) = IF hits = {} THEN nil
                              ELSE NodesOf(l)[CHOOSE i \in hits : \A j \in hits : i <= j]
  BY <1>1 DEF FirstOccurrence
<1>3. D!SelectInSeq(t, LAMBDA x : x = d) =
        IF hits # {} THEN CHOOSE i \in hits : \A j \in hits : i <= j ELSE 0
  BY <1>1 DEF D!SelectInSeq, D!Min
<1>4. CASE hits = {}
  <2>1. 0 \in 0 .. len /\ ~ \E i \in 1 .. len : t[i] = d
    BY <1>4
  <2> QED BY <1>1, <1>2, <1>3, <1>4, <2>1
<1>5. CASE hits # {}
  <2>1. PICK k \in hits : k = CHOOSE i \in hits : \A j \in hits : i <= j
    <3>1. hits \in SUBSET Nat
      OBVIOUS
    <3> HIDE DEF hits
    <3>2. \E m \in hits : \A j \in hits : m <= j
      BY <1>5, <3>1, LeastNumber
    <3> QED BY <3>2
  <2>2. k \in 1 .. len /\ t[k] = d
    OBVIOUS
  <2>3. k \in 0 .. len /\ k # 0
    BY <2>2
  <2>4. \E i \in 1 .. len : t[i] = d
    BY <2>2
  <2> HIDE DEF hits
  <2>5. k = D!SelectInSeq(t, LAMBDA x : x = d) /\ FirstOccurrence(l, d) = NodesOf(l)[k]
    BY <1>2, <1>3, <1>5, <2>1
  <2> QED BY <1>1, <2>3, <2>4, <2>5
<1> QED BY <1>4, <1>5

\* Removing the first element is taking the tail.
LEMMA RemovedFirst ==
    ASSUME NEW S, NEW s \in Seq(S), s # <<>>
    PROVE  D!RemoveAt(s, 1) = Tail(s) /\ Head(s) = s[1]
<1>1. PICK len \in Nat : len = Len(s)
  OBVIOUS
<1>2. len # 0
  BY <1>1
<1>3. PICK one \in 1 .. len : one = 1
  BY <1>2
<1>4. /\ D!RemoveAt(s, one) \in Seq(S)
      /\ Len(D!RemoveAt(s, one)) = len - 1
      /\ \A j \in 1 .. len - 1 :
            D!RemoveAt(s, one)[j] = IF j < one THEN s[j] ELSE s[j + 1]
  <2>1. len = Len(s) /\ s \in Seq(S)
    BY <1>1
  <2>2. one \in 1 .. len
    OBVIOUS
  <2> QED BY <1>1, <1>3, <2>1, <2>2, Removed
<1>5. PICK r \in Seq(S) :
        /\ r = D!RemoveAt(s, 1) /\ Len(r) = len - 1
        /\ \A j \in 1 .. len - 1 : r[j] = s[j + 1]
  BY <1>3, <1>4
<1>6. PICK u \in Seq(S) :
        /\ u = Tail(s) /\ Len(u) = len - 1
        /\ \A j \in 1 .. len - 1 : u[j] = s[j + 1]
  <2>1. /\ Tail(s) \in Seq(S) /\ Len(Tail(s)) = len - 1
        /\ \A j \in 1 .. len - 1 : Tail(s)[j] = s[j + 1]
    BY <1>1, <1>2
  <2> QED BY <2>1
<1>7. r = [j \in 1 .. Len(r) |-> r[j]] /\ u = [j \in 1 .. Len(u) |-> u[j]]
  OBVIOUS
<1>8. r = u
  BY <1>5, <1>6, <1>7
<1>9. Head(s) = s[1]
  BY <1>1, <1>2
<1> QED BY <1>5, <1>6, <1>8, <1>9

\* list_remove_node, for the i-th node.
LEMMA RemoveNodeStep ==
    ASSUME ListInv, NEW l \in Lists, NEW p \in 1 .. Len(NodesOf(l)),
           RemoveNode(l, NodesOf(l)[p])
    PROVE  ListInv' /\ D!RemoveAny(l) /\ D!Put(l, D!RemoveAt(Items(l), p)) /\ UNCHANGED result
<1>1. UnlinkNode(l, NodesOf(l)[p]) /\ UNCHANGED result
  BY DEF RemoveNode
<1>2. ListInv' /\ D!Put(l, D!RemoveAt(Items(l), p))
  BY <1>1, UnlinkStep
<1>3. p \in DOMAIN Items(l) /\ [m \in Lists |-> Items(m)][l] = Items(l)
  BY ItemsFacts
<1>4. D!RemoveAny(l)
  BY <1>1, <1>2, <1>3 DEF D!RemoveAny
<1> QED BY <1>1, <1>2, <1>4

\* list_remove_last_node takes the tail.
LEMMA RemoveTailStep ==
    ASSUME ListInv, NEW l \in Lists, RemoveNode(l, tail[l])
    PROVE  ListInv' /\ D!RemoveAny(l)
<1>1. PICK len \in Nat : len = Len(NodesOf(l))
  BY ItemsFacts
<1>2. len # 0 /\ tail[l] = NodesOf(l)[len]
  BY <1>1, ItemsFacts DEF RemoveNode
<1>3. len \in 1 .. Len(NodesOf(l))
  BY <1>1, <1>2
<1> QED BY <1>2, <1>3, RemoveNodeStep

\* list_remove_first_occurrence.
LEMMA RemoveFirstOccurrenceStep ==
    ASSUME ListInv, NEW l \in Lists, NEW d \in ListData, RemoveFirstOccurrence(l, d)
    PROVE  ListInv' /\ D!RemoveOnce(l, d)
<1>1. PICK k \in 0 .. Len(NodesOf(l)) :
        /\ k = D!SelectInSeq(Items(l), LAMBDA x : x = d)
        /\ FirstOccurrence(l, d) = IF k = 0 THEN nil ELSE NodesOf(l)[k]
        /\ k # 0 <=> \E i \in 1 .. Len(Items(l)) : Items(l)[i] = d
  BY FoundFirst
<1>2. FirstOccurrence(l, d) # nil
  BY DEF RemoveFirstOccurrence, RemoveNode
<1>3. k \in 1 .. Len(NodesOf(l)) /\ k # 0
  BY <1>1, <1>2, ItemsFacts
<1>4. RemoveNode(l, NodesOf(l)[k])
  BY <1>1, <1>3 DEF RemoveFirstOccurrence
<1>5. ListInv' /\ D!Put(l, D!RemoveAt(Items(l), k)) /\ UNCHANGED result
  BY <1>3, <1>4, RemoveNodeStep
<1>6. D!RemoveFirst(Items(l), d) = D!RemoveAt(Items(l), k)
  BY <1>1, <1>3 DEF D!RemoveFirst
<1>7. [m \in Lists |-> Items(m)][l] = Items(l)
  OBVIOUS
<1>8. D!RemoveOnce(l, d)
  BY <1>5, <1>6, <1>7 DEF D!RemoveOnce
<1> QED BY <1>5, <1>8

\* stack_pop and queue_dequeue.
LEMMA TakeFirstStep ==
    ASSUME ListInv, NEW l \in Lists, TakeFirst(l)
    PROVE  ListInv' /\ (D!Take1(l) \/ D!TakeNone(l))
<1>1. PICK t \in Seq(Data), len \in Nat :
        t = Items(l) /\ Len(t) = len /\ Len(NodesOf(l)) = len
  BY ItemsFacts
<1>2. [m \in Lists |-> Items(m)][l] = t
  BY <1>1
<1>3. CASE head[l] = nil
  <2>1. len = 0
    <3>1. len # 0 => 1 \in 1 .. len
      OBVIOUS
    <3> QED BY <1>1, <1>3, <3>1, ItemsFacts
  <2>2. t = <<>>
    BY <1>1, <2>1
  <2>3. ListInv' /\ UNCHANGED [m \in Lists |-> Items(m)] /\ result' = nil
    BY <1>3, SameItems DEF TakeFirst
  <2> QED BY <1>2, <2>2, <2>3 DEF D!TakeNone
<1>4. CASE head[l] # nil
  <2>1. len # 0 /\ head[l] = NodesOf(l)[1]
    BY <1>1, <1>4, ItemsFacts
  <2>2. PICK one \in 1 .. len : one = 1
    BY <2>1
  <2>3. head[l] = NodesOf(l)[one] /\ one \in 1 .. Len(NodesOf(l))
    BY <1>1, <2>1, <2>2
  <2>4. UnlinkNode(l, NodesOf(l)[one]) /\ result' = element[NodesOf(l)[one]]
    BY <1>4, <2>3 DEF TakeFirst
  <2>5. ListInv' /\ D!Put(l, D!RemoveAt(Items(l), one))
    BY <2>3, <2>4, UnlinkStep
  <2>6. t # <<>>
    BY <1>1, <2>1
  <2>7. D!RemoveAt(t, 1) = Tail(t) /\ Head(t) = t[1]
    BY <2>6, RemovedFirst
  <2>8. Items(l)[one] = element[NodesOf(l)[one]]
    BY <2>3, ItemsFacts
  <2>9. result' = Head(t) /\ D!Put(l, Tail(t))
    BY <1>1, <2>2, <2>4, <2>5, <2>7, <2>8
  <2> QED BY <1>2, <2>5, <2>6, <2>9 DEF D!Take1
<1> QED BY <1>3, <1>4

\* list_get_count.
LEMMA GetCountStep ==
    ASSUME ListInv, NEW l \in Lists, GetCount(l)
    PROVE  ListInv' /\ D!Count(l)
<1>1. ListInv' /\ UNCHANGED [m \in Lists |-> Items(m)]
  BY SameItems DEF GetCount
<1>2. result' = Len(Items(l)) /\ [m \in Lists |-> Items(m)][l] = Items(l)
  BY ItemsFacts DEF GetCount
<1> QED BY <1>1, <1>2 DEF D!Count

\* list_find_first_occurrence_index counts from zero.
LEMMA FirstIndexStep ==
    ASSUME ListInv, NEW l \in Lists, NEW d \in ListData, FirstIndex(l, d)
    PROVE  ListInv' /\ D!IndexOf(l, d)
<1>1. ListInv' /\ UNCHANGED [m \in Lists |-> Items(m)]
  BY SameItems DEF FirstIndex
<1>2. PICK k \in 0 .. Len(NodesOf(l)) :
        /\ k = D!SelectInSeq(Items(l), LAMBDA x : x = d)
        /\ FirstOccurrence(l, d) = IF k = 0 THEN nil ELSE NodesOf(l)[k]
  BY FoundFirst
<1>3. result' = k - 1
  <2>1. CASE k = 0
    BY <1>2, <2>1 DEF FirstIndex
  <2>2. CASE k # 0
    <3>1. PICK s \in Seq(ListNodes) : s = NodesOf(l) /\ Once(s) /\ DOMAIN s = 1 .. Len(s)
      BY ItemsFacts DEF ListInv, Chain
    <3>2. k \in 1 .. Len(s)
      BY <1>2, <2>2, <3>1, ItemsFacts
    <3>3. FirstOccurrence(l, d) = s[k] /\ s[k] # nil
      BY <1>2, <2>2, <3>1, <3>2, ItemsFacts
    <3>4. \A i \in DOMAIN s : s[i] = s[k] <=> i = k
      BY <3>1, <3>2 DEF Once
    <3>5. (CHOOSE i \in DOMAIN s : s[i] = s[k]) = k
      BY <3>1, <3>2, <3>4
    <3>6. result' = (CHOOSE i \in DOMAIN s : s[i] = s[k]) - 1
      BY <3>1, <3>3 DEF FirstIndex
    <3> QED BY <3>5, <3>6
  <2> QED BY <2>1, <2>2
<1>4. [m \in Lists |-> Items(m)][l] = Items(l)
  OBVIOUS
<1> QED BY <1>1, <1>2, <1>3, <1>4 DEF D!IndexOf

\* list_clear leaves nothing of the list.
LEMMA ListClearStep ==
    ASSUME ListInv, NEW l \in Lists, ListClear(l)
    PROVE  ListInv' /\ D!Empty(l)
<1> DEFINE gone == NodeSet(NodesOf(l))
<1>1. /\ allocated' = allocated \ gone
      /\ head' = [head EXCEPT ![l] = nil]
      /\ tail' = [tail EXCEPT ![l] = nil]
      /\ next' = [n \in ListNodes |-> IF n \in gone THEN nil ELSE next[n]]
      /\ previous' = [n \in ListNodes |-> IF n \in gone THEN nil ELSE previous[n]]
      /\ element' = [n \in ListNodes |-> IF n \in gone THEN nil ELSE element[n]]
      /\ UNCHANGED result
  <2>1. {NodesOf(l)[i] : i \in DOMAIN NodesOf(l)} = gone
    BY ItemsFacts DEF NodeSet
  <2> QED BY <2>1 DEF ListClear
<1>2. PICK c \in Seq(ListNodes) : c = <<>> /\ Len(c) = 0 /\ NodeSet(c) = {} /\ DOMAIN c = {}
  <2>1. <<>> \in Seq(ListNodes) /\ Len(<<>>) = 0 /\ DOMAIN <<>> = {} /\ NodeSet(<<>>) = {}
    BY DEF NodeSet
  <2> QED BY <2>1
<1> HIDE DEF gone
<1>3. ListTypeOK
  BY DEF ListInv
<1>4. /\ head'[l] = nil /\ tail'[l] = nil
      /\ \A m \in Lists : m # l => head'[m] = head[m] /\ tail'[m] = tail[m]
  BY <1>1, <1>3 DEF ListTypeOK
<1>5. Chain(c, head'[l], tail'[l], next', previous')
  BY <1>2, <1>4 DEF Chain, Once, Linked, Backlinked
<1>6. ListTypeOK'
  BY <1>1, <1>3 DEF ListTypeOK, Data
<1>7. \A n \in ListNodes : n \notin gone \cup NodeSet(c) =>
          next'[n] = next[n] /\ previous'[n] = previous[n] /\ element'[n] = element[n]
  BY <1>1
<1>8. NodeSet(c) \cap allocated \subseteq gone /\ allocated' = (allocated \ gone) \cup NodeSet(c)
  BY <1>1, <1>2
<1>9. /\ ListInv' /\ Items(l)' = [i \in DOMAIN c |-> element'[c[i]]]
      /\ \A m \in Lists : m # l => Items(m)' = Items(m)
  BY <1>4, <1>5, <1>6, <1>7, <1>8, Relinked DEF gone
<1>10. Items(l)' = <<>>
  BY <1>2, <1>9
<1>11. D!Put(l, <<>>)
  BY <1>9, <1>10, PutItems
<1> QED BY <1>1, <1>9, <1>11 DEF D!Empty

\* list_create_clone makes new nodes with the same data.
LEMMA ListCloneStep ==
    ASSUME ListInv, NEW l \in Lists, NEW to \in Lists \ {l}, ListClone(l, to)
    PROVE  ListInv' /\ D!Copy(l, to)
<1>1. PICK t \in Seq(Data), k \in Nat :
        t = Items(l) /\ Len(t) = k /\ Len(NodesOf(l)) = k
  BY ItemsFacts
<1>2. k > 0 /\ HasMemory(k) /\ head[to] = nil
  BY <1>1 DEF ListClone
<1>3. PICK place \in [1 .. k -> ListNodes \ allocated] :
        place = NewMemory(k) /\ \A i, j \in 1 .. k : place[i] = place[j] => i = j
  <2>1. allocated \subseteq ListNodes
    BY DEF ListInv, ListTypeOK
  <2> QED BY <1>1, <1>2, <2>1, NewMemoryIsFree
<1> DEFINE at(n) == CHOOSE i \in 1 .. k : place[i] = n
           new == {place[i] : i \in 1 .. k}
<1>4. /\ head' = [head EXCEPT ![to] = place[1]]
      /\ tail' = [tail EXCEPT ![to] = place[k]]
      /\ next' = [n \in ListNodes |->
            IF n \notin new THEN next[n]
            ELSE IF at(n) = k THEN nil ELSE place[at(n) + 1]]
      /\ previous' = [n \in ListNodes |->
            IF n \notin new THEN previous[n]
            ELSE IF at(n) = 1 THEN nil ELSE place[at(n) - 1]]
      /\ element' = [n \in ListNodes |-> IF n \notin new THEN element[n] ELSE t[at(n)]]
      /\ allocated' = allocated \cup new
      /\ UNCHANGED result
  BY <1>1, <1>3 DEF ListClone
<1>5. \A i \in 1 .. k : at(place[i]) = i /\ place[i] \in new /\ place[i] \in ListNodes
  <2> SUFFICES ASSUME NEW i \in 1 .. k PROVE at(place[i]) = i
    BY <1>3
  <2>1. \A j \in 1 .. k : place[j] = place[i] <=> j = i
    BY <1>3
  <2> QED BY <2>1
<1>6. \A n \in new : at(n) \in 1 .. k
  BY <1>5
<1> HIDE DEF at
<1>7. PICK c \in Seq(ListNodes) : c = place /\ Len(c) = k
  <2>1. place \in Seq(ListNodes) /\ Len(place) = k
    BY <1>1, <1>3
  <2> QED BY <2>1
<1>8. NodeSet(c) = new
  BY <1>7 DEF NodeSet
<1> HIDE DEF new
<1>9. ListTypeOK
  BY DEF ListInv
<1>10. /\ head'[to] = c[1] /\ tail'[to] = c[k]
       /\ \A m \in Lists : m # to => head'[m] = head[m] /\ tail'[m] = tail[m]
  BY <1>4, <1>7, <1>9 DEF ListTypeOK
<1>11. \A i \in 1 .. k :
           /\ next'[c[i]] = IF i = k THEN nil ELSE c[i + 1]
           /\ previous'[c[i]] = IF i = 1 THEN nil ELSE c[i - 1]
           /\ element'[c[i]] = t[i]
  <2> SUFFICES ASSUME NEW i \in 1 .. k
               PROVE  /\ next'[place[i]] = IF i = k THEN nil ELSE place[i + 1]
                      /\ previous'[place[i]] = IF i = 1 THEN nil ELSE place[i - 1]
                      /\ element'[place[i]] = t[i]
    BY <1>7
  <2>1. PICK n \in ListNodes : n = place[i] /\ n \in new /\ at(n) = i
    BY <1>5
  <2>2. next'[n] = IF at(n) = k THEN nil ELSE place[at(n) + 1]
    BY <1>4, <2>1
  <2>3. previous'[n] = IF at(n) = 1 THEN nil ELSE place[at(n) - 1]
    BY <1>4, <2>1
  <2>4. element'[n] = t[at(n)]
    BY <1>4, <2>1
  <2> QED BY <2>1, <2>2, <2>3, <2>4
<1>12. \A i, j \in 1 .. k : c[i] = c[j] => i = j
  BY <1>3, <1>7
<1>13. Chain(c, head'[to], tail'[to], next', previous')
  <2>1. k = Len(c) /\ k # 0 /\ c \in Seq(ListNodes)
    BY <1>1, <1>2, <1>7
  <2>2. Linked(c, head'[to], next') /\ Backlinked(c, tail'[to], previous')
    BY <1>10, <1>11, <2>1 DEF Linked, Backlinked
  <2>3. Once(c)
    BY <1>12, <2>1 DEF Once
  <2> QED BY <2>1, <2>2, <2>3 DEF Chain
<1>14. ListTypeOK'
  <2>1. new \subseteq ListNodes
    BY <1>7, <1>8 DEF NodeSet
  <2>2. \A n \in new : t[at(n)] \in Data
    BY <1>1, <1>6
  <2> QED BY <1>4, <1>9, <2>1, <2>2 DEF ListTypeOK
<1>15. NodeSet(NodesOf(to)) = {}
  <2>1. PICK len \in Nat : len = Len(NodesOf(to))
    BY ItemsFacts
  <2>2. len # 0 => 1 \in 1 .. len
    BY <2>1
  <2>3. len = 0
    BY <1>2, <2>1, <2>2, ItemsFacts
  <2> QED BY <2>1, <2>3 DEF NodeSet
<1>16. new \cap allocated = {}
  BY <1>3, <1>7, <1>8 DEF NodeSet
<1>17. \A n \in ListNodes : n \notin NodeSet(NodesOf(to)) \cup NodeSet(c) =>
           next'[n] = next[n] /\ previous'[n] = previous[n] /\ element'[n] = element[n]
  BY <1>4, <1>8
<1>18. /\ NodeSet(c) \cap allocated \subseteq NodeSet(NodesOf(to))
       /\ allocated' = (allocated \ NodeSet(NodesOf(to))) \cup NodeSet(c)
  BY <1>4, <1>8, <1>15, <1>16
<1>19. /\ ListInv' /\ Items(to)' = [i \in DOMAIN c |-> element'[c[i]]]
       /\ \A m \in Lists : m # to => Items(m)' = Items(m)
  BY <1>10, <1>13, <1>14, <1>17, <1>18, Relinked
<1>20. Items(to)' = t
  <2>1. DOMAIN c = 1 .. k /\ t = [i \in 1 .. k |-> t[i]]
    <3>1. t = [i \in 1 .. Len(t) |-> t[i]] /\ DOMAIN c = 1 .. Len(c)
      OBVIOUS
    <3> QED BY <1>1, <1>7, <3>1
  <2>2. Items(to)' = [i \in 1 .. k |-> element'[c[i]]]
    BY <1>19, <2>1
  <2>3. \A i \in 1 .. k : element'[c[i]] = t[i]
    BY <1>11
  <2> QED BY <2>1, <2>2, <2>3
<1>21. D!Put(to, t) /\ [m \in Lists |-> Items(m)][l] = t
  BY <1>1, <1>19, <1>20, PutItems
<1> QED BY <1>4, <1>19, <1>21 DEF D!Copy

\* A list read backwards from its tail is the list reversed.
LEMMA BackwardsIsReversed ==
    ASSUME NEW s \in Seq(ListNodes), NEW first, NEW last, NEW fore, NEW back,
           Chain(s, first, last, fore, back)
    PROVE  /\ Len(Visited(last, back)) = Len(s)
           /\ \A i \in 1 .. Len(s) : Visited(last, back)[Len(s) + 1 - i] = s[i]
<1>1. PICK len \in Nat : len = Len(s)
  OBVIOUS
<1>2. /\ last = IF len = 0 THEN nil ELSE s[len]
      /\ \A i, j \in 1 .. len : s[i] = s[j] => i = j
      /\ \A i \in 1 .. len : back[s[i]] = IF i = 1 THEN nil ELSE s[i - 1]
  BY <1>1 DEF Chain, Once, Backlinked
<1>3. PICK r \in Seq(ListNodes) : Len(r) = len /\ \A i \in 1 .. len : r[i] = s[len + 1 - i]
  <2> DEFINE t == [i \in 1 .. len |-> s[len + 1 - i]]
  <2>1. \A i \in 1 .. len : len + 1 - i \in 1 .. len
    BY <1>1
  <2>2. \A i \in 1 .. len : t[i] \in ListNodes
    BY <1>1, <2>1
  <2>3. t \in Seq(ListNodes) /\ Len(t) = len
    BY <1>1, <2>2
  <2>4. \A i \in 1 .. len : t[i] = s[len + 1 - i]
    OBVIOUS
  <2> HIDE DEF t
  <2> QED BY <2>3, <2>4
<1>4. Once(r)
  <2> SUFFICES ASSUME NEW i \in 1 .. len, NEW j \in 1 .. len, r[i] = r[j] PROVE i = j
    BY <1>3 DEF Once
  <2>1. len + 1 - i \in 1 .. len /\ len + 1 - j \in 1 .. len
    BY <1>1
  <2>2. s[len + 1 - i] = s[len + 1 - j]
    BY <1>3
  <2>3. len + 1 - i = len + 1 - j
    BY <1>2, <2>1, <2>2
  <2> QED BY <1>1, <2>3
<1>5. last = IF len = 0 THEN nil ELSE r[1]
  <2>1. len # 0 => 1 \in 1 .. len /\ len + 1 - 1 = len
    BY <1>1
  <2> QED BY <1>2, <1>3, <2>1
<1>6. ASSUME NEW i \in 1 .. len PROVE back[r[i]] = IF i = len THEN nil ELSE r[i + 1]
  <2>1. PICK j \in 1 .. len : j = len + 1 - i /\ (j = 1 <=> i = len)
    <3>1. len + 1 - i \in 1 .. len /\ (len + 1 - i = 1 <=> i = len)
      BY <1>1
    <3> QED BY <3>1
  <2>2. back[r[i]] = IF j = 1 THEN nil ELSE s[j - 1]
    BY <1>2, <1>3, <2>1
  <2>3. i # len => i + 1 \in 1 .. len /\ len + 1 - (i + 1) = j - 1
    BY <1>1, <2>1
  <2>4. i # len => r[i + 1] = s[j - 1]
    BY <1>3, <2>3
  <2> QED BY <2>1, <2>2, <2>4
<1>7. Linked(r, last, back)
  BY <1>3, <1>5, <1>6 DEF Linked
<1>8. Visited(last, back) = r
  BY <1>4, <1>7, VisitedIsLinked
<1>9. ASSUME NEW i \in 1 .. len PROVE r[len + 1 - i] = s[i]
  <2>1. PICK j \in 1 .. len : j = len + 1 - i /\ len + 1 - j = i
    <3>1. len + 1 - i \in 1 .. len /\ len + 1 - (len + 1 - i) = i
      BY <1>1
    <3> QED BY <3>1
  <2> QED BY <1>3, <2>1
<1> QED BY <1>1, <1>3, <1>8, <1>9

-----------------------------------------------------------------------------
(* The lists implement Deque *)

\* A step of the lists is a step of Deque.
LEMMA ListStep == ListInv /\ [ListNext]_listVars => ListInv' /\ [D!DequeNext]_D!dequeVars
<1> SUFFICES ASSUME ListInv, [ListNext]_listVars
             PROVE  ListInv' /\ [D!DequeNext]_D!dequeVars
  OBVIOUS
<1>1. CASE UNCHANGED listVars
  BY <1>1, SameItems DEF listVars, D!dequeVars
<1>2. CASE ListNext
  <2> SUFFICES ListInv' /\ D!DequeNext
    OBVIOUS
  <2>1. PICK l \in Lists :
        \/ \E d \in ListData :
              \/ ListAppend(l, d) \/ ListPrepend(l, d)
              \/ RemoveFirstOccurrence(l, d) \/ FirstIndex(l, d)
        \/ \E i \in DOMAIN NodesOf(l) : RemoveNode(l, NodesOf(l)[i])
        \/ RemoveNode(l, tail[l])
        \/ TakeFirst(l) \/ ListClear(l) \/ GetCount(l)
        \/ \E to \in Lists \ {l} : ListClone(l, to)
    BY <1>2 DEF ListNext
  <2>2. ASSUME NEW d \in ListData, ListAppend(l, d) PROVE ListInv' /\ D!DequeNext
    BY <2>2, AppendStep DEF D!DequeNext
  <2>3. ASSUME NEW d \in ListData, ListPrepend(l, d) PROVE ListInv' /\ D!DequeNext
    BY <2>3, PrependStep DEF D!DequeNext
  <2>4. ASSUME NEW d \in ListData, RemoveFirstOccurrence(l, d) PROVE ListInv' /\ D!DequeNext
    BY <2>4, RemoveFirstOccurrenceStep DEF D!DequeNext
  <2>5. ASSUME NEW d \in ListData, FirstIndex(l, d) PROVE ListInv' /\ D!DequeNext
    BY <2>5, FirstIndexStep DEF D!DequeNext
  <2>6. ASSUME NEW i \in DOMAIN NodesOf(l), RemoveNode(l, NodesOf(l)[i])
        PROVE  ListInv' /\ D!DequeNext
    <3>1. i \in 1 .. Len(NodesOf(l))
      BY ItemsFacts
    <3>2. ListInv' /\ D!RemoveAny(l)
      BY <2>6, <3>1, RemoveNodeStep
    <3> QED BY <3>2 DEF D!DequeNext
  <2>7. CASE RemoveNode(l, tail[l])
    BY <2>7, RemoveTailStep DEF D!DequeNext
  <2>8. CASE TakeFirst(l)
    BY <2>8, TakeFirstStep DEF D!DequeNext
  <2>9. CASE ListClear(l)
    BY <2>9, ListClearStep DEF D!DequeNext
  <2>10. CASE GetCount(l)
    BY <2>10, GetCountStep DEF D!DequeNext
  <2>11. ASSUME NEW to \in Lists \ {l}, ListClone(l, to) PROVE ListInv' /\ D!DequeNext
    BY <2>11, ListCloneStep DEF D!DequeNext
  <2> QED BY <2>1, <2>2, <2>3, <2>4, <2>5, <2>6, <2>7, <2>8, <2>9, <2>10, <2>11
<1> QED BY <1>1, <1>2

\* Every behaviour of the lists is one of Deque: whatever is appended, prepended,
\* removed, popped, cleared and copied, the lists are the sequences their users take
\* them for, and no operation on one list disturbs another.
THEOREM ListIsDeque == ListSpec => ImplementsDeque
<1>1. ListInit => ListInv /\ D!DequeInit
  BY ListInitInv
<1>2. ListInv /\ [ListNext]_listVars => ListInv' /\ [D!DequeNext]_D!dequeVars
  BY ListStep
<1> QED BY <1>1, <1>2, PTL DEF ListSpec, ImplementsDeque, D!DequeSpec

\* The links of the lists stay those of separate chains that read the same from
\* either end, and the nodes of the lists are the nodes allocated: kfree gets each
\* node once, none leaks, and none is reached after kfree.
THEOREM ListsKeepShape == ListSpec => []ListShape
<1>1. ListInit => ListInv
  BY ListInitInv
<1>2. ListInv /\ [ListNext]_listVars => ListInv'
  BY ListStep
<1>3. ListInv => ListShape
  <2> SUFFICES ASSUME ListInv PROVE ListShape
    OBVIOUS
  <2>1. ASSUME NEW l \in Lists
        PROVE  /\ Len(Visited(tail[l], previous)) = Len(NodesOf(l))
               /\ \A i \in DOMAIN NodesOf(l) :
                     Visited(tail[l], previous)[Len(NodesOf(l)) + 1 - i] = NodesOf(l)[i]
    <3>1. PICK s \in Seq(ListNodes) :
            /\ s = NodesOf(l) /\ DOMAIN s = 1 .. Len(s)
            /\ Chain(s, head[l], tail[l], next, previous)
      BY DEF ListInv, Chain
    <3>2. /\ Len(Visited(tail[l], previous)) = Len(s)
          /\ \A i \in 1 .. Len(s) : Visited(tail[l], previous)[Len(s) + 1 - i] = s[i]
      BY <3>1, BackwardsIsReversed
    <3> QED BY <3>1, <3>2
  <2>2. \A l \in Lists : NodeSet(NodesOf(l)) = {NodesOf(l)[i] : i \in DOMAIN NodesOf(l)}
    BY ItemsFacts DEF NodeSet
  <2>3. allocated = UNION {{NodesOf(l)[i] : i \in DOMAIN NodesOf(l)} : l \in Lists}
    BY <2>2 DEF ListInv
  <2>4. ASSUME NEW l \in Lists, NEW m \in Lists, l # m,
               NEW i \in DOMAIN NodesOf(l), NEW j \in DOMAIN NodesOf(m)
        PROVE  NodesOf(l)[i] # NodesOf(m)[j]
    BY <2>2, <2>4 DEF ListInv
  <2> QED BY <2>1, <2>3, <2>4 DEF ListShape
<1> QED BY <1>1, <1>2, <1>3, PTL DEF ListSpec
=============================================================================
