------------------------------- MODULE Memory -------------------------------
(***************************************************************************)
(* Page frames and who holds them: vmm.c, sharedmemory.c, the page level   *)
(* of sbrk in alloc.c, and the system calls mmap, munmap, shm_open, unlink *)
(* and ftruncate.                                                          *)
(*                                                                         *)
(* One bitmap of frames is shared by the kernel heap, the page tables, the *)
(* user pages and the shared memory objects.  A user page or page table    *)
(* entry carries PG_OWNED if removing it has to release the frame.         *)
(* A process has one page directory, so the directory stands for it.  All  *)
(* of these functions run with interrupts disabled: one action per call.   *)
(*                                                                         *)
(* Addresses are page numbers counted from USER_OFFSET.                    *)
(***************************************************************************)
EXTENDS Integers, FiniteSets, Sequences, Functions

CONSTANTS
    Frame,              \* the frames of the bitmap, numbers
    NDirs,              \* page directories in the PD area
    NPages,             \* user pages below MEMORY_END
    TableSize,          \* pages per page table
    MmapStart,          \* USER_MMAP_START
    ImagePages,         \* pages of a program image
    StackBegin,         \* first page of the stack of a new process
    StackPages,         \* its size, the page of arguments included
    Shm,                \* names of shared memory objects
    MaxShmPages,        \* bound on the pages of an object
    MaxMappings,        \* bound on the MapInfo records of one object
    MaxKernelPages,     \* pages between KERN_HEAP_BEGIN and KERN_HEAP_END
    MaxLost,            \* bound on the frames sbrk loses
    MaxRequest,         \* bound on the pages one mmap asks for
    MaxSbrk,            \* bound on the pages one sbrk adds or removes
    AcquireFrames(_, _),\* the frame each need gets out of the free ones
    None

ASSUME MemoryAssumption ==
    /\ Frame \subseteq Nat
    /\ {NDirs, NPages, TableSize, ImagePages, StackPages} \subseteq Nat \ {0}
    /\ {MmapStart, StackBegin, MaxShmPages, MaxMappings, MaxKernelPages, MaxLost, MaxRequest,
        MaxSbrk} \subseteq Nat
    /\ ImagePages <= StackBegin /\ ImagePages <= StackPages
    /\ StackBegin + StackPages <= NPages
    /\ None \notin Shm \cup Nat \cup [frame : Frame, owned : BOOLEAN]

VARIABLES
    used,       \* g_physical_page_frame_bitmap: the frames marked used
    status,     \* of a directory: "unused" (pd[0] = 0), "live", or "stale" after its process
    pte,        \* user page table entries of a directory
    pde,        \* its page directory entries for user memory
    bitmap,     \* mmapped_virtual_memory of the process
    brk,        \* brk_next_unallocated_page_begin
    kview,      \* the kernel page tables a directory has entries for
    kernel,     \* g_kernel_page_directory and the heap: [tables, pages]
    shmList,    \* g_shm_list, the objects in order of creation
    frames,     \* physical_address_list of an object
    maps,       \* its mmapped_list: how often process d has it mapped at page a
    unlinked,   \* its marked_unlink
    halted      \* the kernel has panicked

vars == <<used, status, pte, pde, bitmap, brk, kview, kernel, shmList, frames, maps,
          unlinked, halted>>
processVars == <<status, pte, pde, bitmap, brk>>
kernelVars == <<kview, kernel>>
shmVars == <<shmList, frames, maps, unlinked>>

-----------------------------------------------------------------------------
Directory == 1..NDirs
Page == 0..(NPages - 1)
TableOf(page) == page \div TableSize
Region == 0..TableOf(NPages - 1)
Entry == [frame : Frame, owned : BOOLEAN]

\* vmm_map_memory returned NULL: the MapInfo records address 0.
Address == Page \cup {None}

Free == Frame \ used

\* vmm_get_free_page_count, from the total and the used ones.
FreePages == Cardinality(Free)

\* vmm_acquire_page_frame_4k, called once for every element of need in order: the
\* lowest free frames.
Rank(x, set) == Cardinality({y \in set : y < x})
FirstFit(need, free) == [a \in need |-> CHOOSE x \in free : Rank(x, free) = Rank(a, need)]

\* Another policy, under which the same need tends to get the same frame.  Frames are
\* interchangeable, so it reaches the same states as first fit does, up to the
\* numbering of frames, and far fewer of them.
ByNeed(need, free) ==
    LET direct == need \cap free
        spare == free \ direct
        rest == need \ direct
    IN [a \in need |-> IF a \in direct THEN a
                       ELSE CHOOSE x \in spare : Rank(x, spare) = Rank(a, rest)]

\* The frames that the calls hand out: distinct and free.
Acquire(need) ==
    {f \in {AcquireFrames(need, Free)} :
        /\ f \in [need -> Free]
        /\ \A a, b \in need : f[a] = f[b] => a = b}

\* What a frame is needed for, as a number: a page or a page table of a directory.
\* Pages come before tables; the kernel heap and shared objects use those of
\* directories that do not exist.
Span == NPages + TableOf(NPages - 1) + 1
PageNeed(d, page) == d * Span + page
TableNeed(d, region) == d * Span + NPages + region
Missing(d, pages) == {r \in Region : pde[d][r] = None /\ \E x \in pages : TableOf(x) = r}
PageNeeds(d, pages) == {PageNeed(d, x) : x \in pages}
TableNeeds(d, pages) == {TableNeed(d, r) : r \in Missing(d, pages)}

\* vmm_add_page_to_pd for each page: a missing table gets the flags of the page.
AddTables(d, pages, tableFrame, owned) ==
    [r \in Region |-> IF r \in Missing(d, pages)
                      THEN [frame |-> tableFrame[TableNeed(d, r)], owned |-> owned]
                      ELSE pde[d][r]]
AddPages(d, pages, pageFrame, owned) ==
    [x \in Page |-> IF x \in pages /\ pte[d][x] = None
                    THEN [frame |-> pageFrame[x], owned |-> owned]
                    ELSE pte[d][x]]

\* Where vmm_map_memory finds n adjacent unused pages: the first place, or none.
Fits(d, v, n) == v + n <= NPages /\ \A x \in v..(v + n - 1) : x \notin bitmap[d]
Places(d, start, n) ==
    {v \in start..(NPages - 1) :
        /\ Fits(d, v, n)
        /\ \A w \in start..(v - 1) : ~Fits(d, w, n)}

-----------------------------------------------------------------------------
\* vmm_remove_page_from_pd for each page: an owned frame is released, and then an
\* empty table, if it is owned itself.
PagesAfterRemoval(d, pages) == [x \in Page |-> IF x \in pages THEN None ELSE pte[d][x]]
EmptiedTables(d, pages) ==
    {r \in Region : /\ pde[d][r] # None
                    /\ \E x \in pages : TableOf(x) = r
                    /\ \A x \in Page : TableOf(x) = r => PagesAfterRemoval(d, pages)[x] = None
                    /\ pde[d][r].owned}
TablesAfterRemoval(d, pages) ==
    [r \in Region |-> IF r \in EmptiedTables(d, pages) THEN None ELSE pde[d][r]]
OwnedFrames(d, pages) ==
    {pte[d][x].frame : x \in {y \in pages : pte[d][y] # None /\ pte[d][y].owned}}
FramesOfRemoval(d, pages) ==
    OwnedFrames(d, pages) \cup {pde[d][r].frame : r \in EmptiedTables(d, pages)}

\* Faulty variant: the frames of shared pages are released as well.
FramesOfDirectoryAll(d) ==
    {pte[d][x].frame : x \in {y \in Page : pte[d][y] # None}} \cup
    {pde[d][r].frame : r \in {q \in Region : pde[d][q] # None /\ pde[d][q].owned}}

\* What vmm_destroy_page_directory_with_memory releases.
FramesOfDirectory(d) ==
    OwnedFrames(d, Page) \cup
    {pde[d][r].frame : r \in {q \in Region : pde[d][q] # None /\ pde[d][q].owned}}

Frames(n) == {frames[n][i] : i \in DOMAIN frames[n]}
Mapped(m, n) == \E d \in Directory, a \in Address : m[n][d][a] > 0
MapInfos(n) ==
    FoldFunction(LAMBDA x, y : x + y, 0, [p \in Directory \X Address |-> maps[n][p[1]][p[2]]])
NoMaps == [d \in Directory |-> [a \in Address |-> 0]]

\* Faulty variants: the mappings, or the objects to look at, are forgotten.
DoomedWhileMapped(candidates, m, u) == {n \in candidates : u[n]}
DoomedNever(candidates, m, u) == {n \in candidates : FALSE}

\* sharedmemory_destroy_if_suitable for the objects in candidates, once the mapping
\* records are m and the unlink marks u: the objects that are destroyed.
Doomed(candidates, m, u) == {n \in candidates : u[n] /\ ~Mapped(m, n)}

DestroyShm(doomed, m, u) ==
    /\ shmList' = SelectSeq(shmList, LAMBDA n : n \notin doomed)
    /\ frames' = [n \in Shm |-> IF n \in doomed THEN <<>> ELSE frames[n]]
    /\ maps' = [n \in Shm |-> IF n \in doomed THEN NoMaps ELSE m[n]]
    /\ unlinked' = [n \in Shm |-> n \notin doomed /\ u[n]]
FramesOfShm(doomed) == UNION {Frames(n) : n \in doomed}

Exists(n) == \E i \in DOMAIN shmList : shmList[i] = n

\* Everything that counts on a frame being its own: an owned page, a page table,
\* a page of a shared memory object, the kernel.
PageClaims(d) ==
    {<<"page", d, x, pte[d][x].frame>> : x \in {y \in Page : pte[d][y] # None /\ pte[d][y].owned}}
TableClaims(d) ==
    {<<"table", d, r, pde[d][r].frame>> : r \in {q \in Region : pde[d][q] # None}}
ShmClaims(n) == {<<"shm", n, i, frames[n][i]>> : i \in DOMAIN frames[n]}
KernelClaims ==
    {<<"kernel", 0, 0, f>> : f \in kernel.pages} \cup {<<"kernel", 0, 1, f>> : f \in kernel.tables}
Claims ==
    (UNION {PageClaims(d) \cup TableClaims(d) : d \in Directory})
    \cup (UNION {ShmClaims(n) : n \in Shm}) \cup KernelClaims

\* Frames that are marked used and belong to nobody.
Lost == used \ {c[4] : c \in Claims}

-----------------------------------------------------------------------------
Init ==
    /\ used = {}
    /\ status = [d \in Directory |-> "unused"]
    /\ pte = [d \in Directory |-> [x \in Page |-> None]]
    /\ pde = [d \in Directory |-> [r \in Region |-> None]]
    /\ bitmap = [d \in Directory |-> {}]
    /\ brk = [d \in Directory |-> 0]
    /\ kview = [d \in Directory |-> {}]
    /\ kernel = [tables |-> {}, pages |-> {}]
    /\ shmList = <<>>
    /\ frames = [n \in Shm |-> <<>>]
    /\ maps = [n \in Shm |-> NoMaps]
    /\ unlinked = [n \in Shm |-> FALSE]
    /\ halted = FALSE

\* PANIC: everything stops.
Panic == halted' = TRUE /\ UNCHANGED <<used, processVars, kernelVars, shmVars>>

Acquired(f) == {f[a] : a \in DOMAIN f}
Running(d) == ~halted /\ status[d] = "live"

\* ksbrk_page(1), called by kmalloc when the heap has no room: a frame for the
\* page, one for a table at the start of each region, and the copies in all
\* directories whose first entry is not 0.
\* Faulty variant: the directories are not brought up to date.
SyncedNot(tables) == kview
Synced(tables) == [d \in Directory |-> IF status[d] # "unused" THEN tables ELSE kview[d]]

KernelHeapGrows ==
    /\ ~halted
    /\ Cardinality(kernel.pages) < MaxKernelPages
    /\ LET atBoundary == Cardinality(kernel.pages) % TableSize = 0
           page == PageNeed(0, Cardinality(kernel.pages))
           table == TableNeed(0, Cardinality(kernel.pages))
           need == IF atBoundary THEN {page, table} ELSE {page}
       IN IF FreePages < Cardinality(need) THEN Panic
          ELSE \E f \in Acquire(need) :
            /\ used' = used \cup Acquired(f)
            /\ kernel' = [tables |-> IF atBoundary THEN kernel.tables \cup {f[table]}
                                    ELSE kernel.tables,
                          pages |-> kernel.pages \cup {f[page]}]
            /\ kview' = Synced(kernel'.tables)
            /\ UNCHANGED <<processVars, shmVars, halted>>

\* process_create_ex: the first directory whose first entry is 0, the program break
\* moved over the image, and the stack.  Without a directory the kernel loads
\* CR3 with 0.
CreateProcess ==
    /\ ~halted
    /\ LET unused == {d \in Directory : status[d] = "unused"}
           image == 0..(ImagePages - 1)
           pages == image \cup StackBegin..(StackBegin + StackPages - 1)
       IN \/ unused = {} /\ Panic
          \/ \E d \in unused :
               /\ \A e \in unused : d <= e
               /\ LET need == PageNeeds(d, pages) \cup TableNeeds(d, pages)
                  IN IF FreePages < Cardinality(need) THEN Panic
                     ELSE \E f \in Acquire(need) :
                       /\ used' = used \cup Acquired(f)
                       /\ status' = [status EXCEPT ![d] = "live"]
                       /\ pte' = [pte EXCEPT ![d] =
                                    AddPages(d, pages, [x \in pages |-> f[PageNeed(d, x)]], TRUE)]
                       /\ pde' = [pde EXCEPT ![d] = AddTables(d, pages, f, TRUE)]
                       /\ bitmap' = [bitmap EXCEPT ![d] = pages]
                       /\ brk' = [brk EXCEPT ![d] = ImagePages]
                       /\ kview' = [kview EXCEPT ![d] = kernel.tables]
                       /\ UNCHANGED <<kernel, shmVars, halted>>

\* sharedmemory_unmap_for_process_all: the process is in no mmapped_list.
MapsOfOthers(d) ==
    [n \in Shm |-> [maps[n] EXCEPT ![d] = NoMaps[d]]]

\* process_destroy: the shared mappings are dropped first, then the memory.
DestroyProcess(d) ==
    /\ Running(d)
    /\ LET without == MapsOfOthers(d)
           touched == {n \in Shm : \E a \in Address : maps[n][d][a] > 0}
           doomed == Doomed(touched, without, unlinked)
       IN /\ DestroyShm(doomed, without, unlinked)
          /\ used' = (used \ FramesOfShm(doomed)) \ FramesOfDirectory(d)
    /\ status' = [status EXCEPT ![d] = "stale"]
    /\ pte' = [pte EXCEPT ![d] = [x \in Page |-> None]]
    /\ pde' = [pde EXCEPT ![d] = [r \in Region |-> None]]
    /\ bitmap' = [bitmap EXCEPT ![d] = {}]
    /\ brk' = [brk EXCEPT ![d] = 0]
    /\ UNCHANGED <<kernelVars, halted>>

-----------------------------------------------------------------------------
\* syscall_mmap without a file: n pages from address hint on.  The call checks
\* for one frame more than the pages, for a page table.
Mmap(d, hint, n) ==
    /\ Running(d)
    /\ n + 1 <= FreePages
    /\ \E v \in Places(d, hint, n) :
         LET pages == v..(v + n - 1)
             need == PageNeeds(d, pages) \cup TableNeeds(d, pages)
         IN IF FreePages < Cardinality(need) THEN Panic
            ELSE \E f \in Acquire(need) :
              /\ used' = used \cup Acquired(f)
              /\ pte' = [pte EXCEPT ![d] =
                           AddPages(d, pages, [x \in pages |-> f[PageNeed(d, x)]], TRUE)]
              /\ pde' = [pde EXCEPT ![d] = AddTables(d, pages, f, TRUE)]
              /\ bitmap' = [bitmap EXCEPT ![d] = @ \cup pages]
              /\ UNCHANGED <<status, brk, kernelVars, shmVars, halted>>

\* The pages sbrk_page adds, below MEMORY_END.
GrowthPages(d, n) == {x \in brk[d]..(brk[d] + n - 1) : x + 1 <= NPages - 1}

\* sbrk by n more pages, and sbrk_page.  A page that is mapped already stays, and
\* the frame acquired for it belongs to nobody.
SbrkGrow(d, n) ==
    /\ Running(d)
    /\ n + 1 <= FreePages
    /\ LET pages == GrowthPages(d, n)
           need == PageNeeds(d, pages) \cup TableNeeds(d, pages)
       IN /\ pages # {}
          /\ Cardinality(Lost) + Cardinality({x \in pages : pte[d][x] # None}) <= MaxLost
          /\ IF FreePages < Cardinality(need) THEN Panic
             ELSE \E f \in Acquire(need) :
               /\ used' = used \cup Acquired(f)
               /\ pte' = [pte EXCEPT ![d] =
                            AddPages(d, pages, [x \in pages |-> f[PageNeed(d, x)]], TRUE)]
               /\ pde' = [pde EXCEPT ![d] = AddTables(d, pages, f, TRUE)]
               /\ bitmap' = [bitmap EXCEPT ![d] = @ \cup pages]
               /\ brk' = [brk EXCEPT ![d] = @ + Cardinality(pages)]
               /\ UNCHANGED <<status, kernelVars, shmVars, halted>>

\* The pages leave the page table, the bitmap and, emptied, their tables.
RemovePages(d, pages) ==
    /\ pte' = [pte EXCEPT ![d] = PagesAfterRemoval(d, pages)]
    /\ pde' = [pde EXCEPT ![d] = TablesAfterRemoval(d, pages)]
    /\ bitmap' = [bitmap EXCEPT ![d] = @ \ pages]

\* sbrk by n pages less: where the break ends up.
BreakAfter(d, n) == IF n <= brk[d] THEN brk[d] - n ELSE 0

SbrkShrink(d, n) ==
    /\ Running(d)
    /\ LET begin == BreakAfter(d, n)
           pages == begin..(brk[d] - 1)
       IN /\ pages # {}
          /\ RemovePages(d, pages)
          /\ used' = used \ FramesOfRemoval(d, pages)
          /\ brk' = [brk EXCEPT ![d] = begin]
    /\ UNCHANGED <<status, kernelVars, shmVars, halted>>

-----------------------------------------------------------------------------
\* sharedmemory_create, from shm_open with O_CREAT.
ShmCreate(d, n) ==
    /\ Running(d)
    /\ ~Exists(n)
    /\ shmList' = Append(shmList, n)
    /\ UNCHANGED <<used, processVars, kernelVars, frames, maps, unlinked, halted>>

\* sharedmemory_ftruncate: the size is set once, and nothing is checked.
ShmFtruncate(d, n, count) ==
    /\ Running(d)
    /\ Exists(n)
    /\ frames[n] = <<>>
    /\ IF FreePages < count THEN Panic
       ELSE \E f \in Acquire(PageNeeds(NDirs + 1, 1..count)) :
         /\ used' = used \cup Acquired(f)
         /\ frames' = [frames EXCEPT ![n] = [i \in 1..count |-> f[PageNeed(NDirs + 1, i)]]]
         /\ UNCHANGED <<processVars, kernelVars, shmList, maps, unlinked, halted>>

\* sharedmemory_mmap: all pages of the object, not owned.  The MapInfo is made even
\* if there is no room.
ShmMmap(d, n) ==
    /\ Running(d)
    /\ Exists(n)
    /\ frames[n] # <<>>
    /\ MapInfos(n) < MaxMappings
    /\ LET count == Len(frames[n])
           places == Places(d, MmapStart, count)
       IN \/ /\ places = {}
             /\ maps' = [maps EXCEPT ![n][d][None] = @ + 1]
             /\ UNCHANGED <<used, processVars, kernelVars, shmList, frames, unlinked, halted>>
          \/ \E v \in places :
               LET pages == v..(v + count - 1)
                   need == TableNeeds(d, pages)
                   shared == [x \in pages |-> frames[n][x - v + 1]]
               IN IF FreePages < Cardinality(need) THEN Panic
                  ELSE \E f \in Acquire(need) :
                    /\ used' = used \cup Acquired(f)
                    /\ pte' = [pte EXCEPT ![d] = AddPages(d, pages, shared, FALSE)]
                    /\ pde' = [pde EXCEPT ![d] = AddTables(d, pages, f, FALSE)]
                    /\ bitmap' = [bitmap EXCEPT ![d] = @ \cup pages]
                    /\ maps' = [maps EXCEPT ![n][d][v] = @ + 1]
                    /\ UNCHANGED <<status, brk, kernelVars, shmList, frames, unlinked, halted>>

\* sharedmemory_unlink
ShmUnlink(d, n) ==
    /\ Running(d)
    /\ Exists(n)
    /\ LET marked == [unlinked EXCEPT ![n] = TRUE]
           doomed == Doomed({n}, maps, marked)
       IN /\ DestroyShm(doomed, maps, marked)
          /\ used' = used \ FramesOfShm(doomed)
    /\ UNCHANGED <<processVars, kernelVars, halted>>

\* sharedmemory_unmap_if_exists: the first object with a mapping at this address.
MappedAt(d, a) == {n \in Shm : maps[n][d][a] > 0}
FirstMappedAt(d, a) ==
    {n \in MappedAt(d, a) :
        \E i \in DOMAIN shmList :
            shmList[i] = n /\ \A j \in 1..(i - 1) : shmList[j] \notin MappedAt(d, a)}

\* syscall_munmap of n pages from address a on.
Munmap(d, a, n) ==
    /\ Running(d)
    /\ LET hit == FirstMappedAt(d, a)
           without == [m \in Shm |-> IF m \in hit THEN [maps[m] EXCEPT ![d][a] = @ - 1]
                                                  ELSE maps[m]]
           doomed == Doomed(hit, without, unlinked)
           pages == (a..(a + n - 1)) \cap bitmap[d]
       IN /\ hit # {} \/ pages # {}
          /\ DestroyShm(doomed, without, unlinked)
          /\ RemovePages(d, pages)
          /\ used' = (used \ FramesOfShm(doomed)) \ FramesOfRemoval(d, pages)
    /\ UNCHANGED <<status, brk, kernelVars, halted>>

Call(d) ==
    \/ DestroyProcess(d)
    \/ \E n \in 1..MaxSbrk : SbrkGrow(d, n) \/ SbrkShrink(d, n)
    \/ \E n \in 1..MaxRequest, hint \in Page : Mmap(d, hint, n)
    \/ \E n \in Shm :
        \/ ShmCreate(d, n) \/ ShmMmap(d, n) \/ ShmUnlink(d, n)
        \/ \E count \in 1..MaxShmPages : ShmFtruncate(d, n, count)

Step == KernelHeapGrows \/ CreateProcess \/ \E d \in Directory : Call(d)

Next == Step \/ \E d \in Directory, a \in Page, n \in 1..NPages : Munmap(d, a, n)

Spec == Init /\ [][Next]_vars

-----------------------------------------------------------------------------
\* No frame is claimed twice and none is claimed while the bitmap has it free,
\* whatever the order of map, unmap, sbrk, unlink and exit: vmm_acquire_page_frame_4k
\* never hands out memory that is in use, and nobody releases what another holds.
OneOwner ==
    /\ \A c, e \in Claims : c[4] = e[4] => c = e
    /\ \A c \in Claims : c[4] \in used

\* mmapped_virtual_memory and the page tables are two records of the same thing,
\* written in different functions: vmm_map_memory relies on the bitmap and ignores
\* the result of vmm_add_page_to_pd, vmm_unmap_memory skips pages not in the bitmap.
BitmapIsPageTable ==
    \A d \in Directory : bitmap[d] = {x \in Page : pte[d][x] # None}

\* The kernel heap is mapped alike in every process, however it grew between the
\* creation of the processes (vmm_sync_all_from_kernel).
KernelViewsAgree == \A d \in Directory : status[d] = "live" => kview[d] = kernel.tables

\* The records of what is mapped agree: the bitmap with the page tables of its
\* directory, and the directories of the processes with that of the kernel.
PageTablesAgree == BitmapIsPageTable /\ KernelViewsAgree

\* An unlinked object does not outlive its last mapping: as long as it exists, a
\* living process still has a MapInfo for it.
UnlinkedHasMapper ==
    \A n \in Shm : unlinked[n] =>
        \E d \in Directory, a \in Address : status[d] = "live" /\ maps[n][d][a] > 0

\* "All page table entries are unmapped.  Lets destroy this page table and remove
\* it from PD" (vmm_remove_page_from_pd): no table in a directory is empty.
EmptyTablesAreRemoved ==
    \A d \in Directory, r \in Region : pde[d][r] # None =>
        \E x \in Page : TableOf(x) = r /\ pte[d][x] # None

\* "Found an in-use page directory" (vmm_sync_all_from_kernel): a directory whose
\* first entry is not 0 is that of a process.
InUseHasProcess == \A d \in Directory : status[d] # "unused" => status[d] = "live"
=============================================================================
