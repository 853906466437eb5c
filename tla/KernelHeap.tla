----------------------------- MODULE KernelHeap -----------------------------
(***************************************************************************)
(* kmalloc, kfree and ksbrk_page of alloc.c.  The heap is a row of chunks, *)
(* each with a header that holds its size and whether it is used; a chunk  *)
(* begins where the one before it ends.  Addresses are counted from        *)
(* KERN_HEAP_BEGIN.  Interrupts are disabled in all callers, so a call is  *)
(* one action.  The counter g_kernel_heap_used has no reader.              *)
(***************************************************************************)
EXTENDS Integers

CONSTANTS
    PageSize,       \* PAGESIZE_4K
    HeapEnd,        \* KERN_HEAP_END
    HeaderSize,     \* sizeof(struct malloc_header)
    MinSize,        \* KMALLOC_MINSIZE
    Request         \* the sizes asked for

ASSUME HeapAssumption ==
    /\ PageSize \in Nat /\ HeapEnd \in Nat /\ HeaderSize \in Nat /\ MinSize \in Nat
    /\ 0 < HeaderSize /\ HeaderSize < MinSize
    /\ MinSize <= PageSize /\ PageSize <= HeapEnd
    /\ Request \subseteq Nat \ {0}

VARIABLES
    size,       \* the size in the header at an address, 0 where no chunk begins
    used,       \* the chunks whose header says used
    asked,      \* what the user of a chunk asked for: the bytes it may write
    heap,       \* g_kernel_heap: where the heap ends
    halted      \* the kernel has panicked

heapVars == <<size, used, asked, heap, halted>>

-----------------------------------------------------------------------------
Addr == 0..(HeapEnd - 1)
HeapChunks == {a \in Addr : size[a] > 0}
End(c) == c + size[c]

\* initialize_kernel_heap: ksbrk_page(1)
HeapInit ==
    /\ size = [a \in Addr |-> IF a = 0 THEN PageSize ELSE 0]
    /\ used = {}
    /\ asked = [a \in Addr |-> 0]
    /\ heap = PageSize
    /\ halted = FALSE

RealSize(n) == IF HeaderSize + n < MinSize THEN MinSize ELSE HeaderSize + n

\* The chunks at which the walk of kmalloc stops; it begins at the lowest address.
\* Faulty variant: a used chunk is taken.
FittingUsed(real) == {c \in HeapChunks : size[c] >= real}
Fitting(real) == {c \in HeapChunks \ used : size[c] >= real}

\* The end of kmalloc: chunk c, of this size, is used, and what is left over becomes
\* a chunk of its own unless it is too small for one.
Split(c, real, whole) ==
    IF whole - real < MinSize
    THEN [size EXCEPT ![c] = whole]
    ELSE [size EXCEPT ![c] = real, ![c + real] = whole - real]

Take(c, n, whole) ==
    /\ size' = Split(c, RealSize(n), whole)
    /\ used' = used \cup {c}
    /\ asked' = [asked EXCEPT ![c] = n]
    /\ UNCHANGED halted

\* ksbrk_page(n): a chunk of n pages behind the last one, if there is room.
KsbrkBytes(real) == ((real \div PageSize) + 1) * PageSize

Kmalloc(n) ==
    LET real == RealSize(n)
    IN \/ \E c \in Fitting(real) :
             /\ \A d \in Fitting(real) : c <= d
             /\ Take(c, n, size[c])
             /\ UNCHANGED heap
       \/ /\ Fitting(real) = {}
          /\ heap + KsbrkBytes(real) <= HeapEnd
          /\ Take(heap, n, KsbrkBytes(real))
          /\ heap' = heap + KsbrkBytes(real)
       \/ /\ Fitting(real) = {}
          /\ heap + KsbrkBytes(real) > HeapEnd
          /\ halted' = TRUE
          /\ UNCHANGED <<size, used, asked, heap>>

\* kfree: the chunk and the free ones behind it become one, up to the next used
\* chunk or the end of the heap.
\* Faulty variant: merges up to the end of the heap.
MergeEndHeap(c, stop) == stop = heap
MergeEnd(c, stop) ==
    /\ stop \in used \cup {heap} /\ c < stop
    /\ \A d \in used : c < d => stop <= d

Kfree(c) ==
    /\ \E stop \in used \cup {heap} :
        /\ MergeEnd(c, stop)
        /\ size' = [a \in Addr |-> IF a = c THEN stop - c
                                   ELSE IF c < a /\ a < stop THEN 0
                                   ELSE size[a]]
    /\ used' = used \ {c}
    /\ asked' = [asked EXCEPT ![c] = 0]
    /\ UNCHANGED <<heap, halted>>

HeapNext == ~halted /\ ((\E n \in Request : Kmalloc(n)) \/ (\E c \in used : Kfree(c)))

HeapSpec == HeapInit /\ [][HeapNext]_heapVars

-----------------------------------------------------------------------------
HeapTypeOK ==
    /\ size \in [Addr -> 0..HeapEnd]
    /\ used \subseteq Addr
    /\ asked \in [Addr -> Nat]
    /\ heap \in 0..HeapEnd
    /\ halted \in BOOLEAN

\* The walk of kmalloc never leaves the row of chunks: it starts at a chunk, each
\* chunk ends where another begins or the heap ends, none begins inside another,
\* and what a user may write lies inside its chunk.  So no header is overwritten
\* and the two panics for a corrupted heap are never reached, whatever was merged
\* and split before.
Tiled ==
    /\ 0 \in HeapChunks
    /\ used \subseteq HeapChunks
    /\ \A c \in HeapChunks : /\ size[c] >= MinSize
                         /\ End(c) \in HeapChunks \cup {heap}
                         /\ End(c) <= heap
    /\ \A c, d \in HeapChunks : c < d => End(c) <= d
    /\ \A c \in used : HeaderSize + asked[c] <= size[c]

\* kmalloc and kfree give their users disjoint blocks of the size asked for
\* and leave the blocks of others alone (Allocator).
A == INSTANCE Allocator WITH
    blocks <- {[start |-> c + HeaderSize, length |-> asked[c]] : c \in used}
ImplementsAllocator == A!Spec
=============================================================================
