---------------------------- MODULE MemoryProofs ----------------------------
(***************************************************************************)
(* Proofs about page frames and page tables, for any number of frames,     *)
(* processes, pages and shared memory objects, and for any policy that     *)
(* hands out distinct free frames.                                         *)
(***************************************************************************)
EXTENDS MemoryHistory, FiniteSetTheorems, TLAPS

-----------------------------------------------------------------------------
(* The inductive invariant *)

MemTypeOK ==
    /\ used \subseteq Frame
    /\ status \in [Directory -> {"unused", "live", "stale"}]
    /\ pte \in [Directory -> [Page -> Entry \cup {None}]]
    /\ pde \in [Directory -> [Region -> Entry \cup {None}]]
    /\ bitmap \in [Directory -> SUBSET Page]
    /\ brk \in [Directory -> 0 .. NPages]
    /\ kview \in [Directory -> SUBSET Frame]
    /\ kernel \in [tables : SUBSET Frame, pages : SUBSET Frame]
    /\ IsFiniteSet(kernel.pages)
    /\ frames \in [Shm -> Seq(Frame)]
    /\ maps \in [Shm -> [Directory -> [Address -> Nat]]]
    /\ unlinked \in [Shm -> BOOLEAN]

\* A directory that was never used maps nothing.
UnusedIsEmpty ==
    \A d \in Directory : status[d] = "unused" => \A x \in Page : pte[d][x] = None

\* Only living processes have MapInfo records.
MapsLive ==
    \A n \in Shm, d \in Directory, a \in Address : maps[n][d][a] > 0 => status[d] = "live"

MemInv ==
    /\ MemTypeOK /\ OneOwner /\ PageTablesAgree /\ UnusedIsEmpty /\ MapsLive
    /\ UnlinkedHasMapper

\* x is the page of object n that its mapping at v puts there.
PageOf(n, d, v, x) ==
    /\ maps[n][d][v] > 0
    /\ x - v + 1 \in DOMAIN frames[n]
    /\ pte[d][x].frame = frames[n][x - v + 1]

\* A page that is not owned belongs to a mapping the process has, at its place:
\* the page is gone when munmap drops the mapping, unless it unmaps too little.
SharedPagesMapped ==
    \A d \in Directory \ torn : \A x \in Page : pte[d][x] # None /\ ~pte[d][x].owned =>
        \E n \in Shm, v \in Page : PageOf(n, d, v, x)

-----------------------------------------------------------------------------
(* Claims *)

LEMMA ClaimsNow ==
    /\ \A d \in Directory, x \in Page : pte[d][x] # None /\ pte[d][x].owned =>
          <<"page", d, x, pte[d][x].frame>> \in Claims
    /\ \A d \in Directory, r \in Region : pde[d][r] # None =>
          <<"table", d, r, pde[d][r].frame>> \in Claims
    /\ \A n \in Shm : \A i \in DOMAIN frames[n] : <<"shm", n, i, frames[n][i]>> \in Claims
    /\ \A f \in kernel.pages : <<"kernel", 0, 0, f>> \in Claims
    /\ \A f \in kernel.tables : <<"kernel", 0, 1, f>> \in Claims
<1>1. ASSUME NEW d \in Directory, NEW x \in Page, pte[d][x] # None, pte[d][x].owned
      PROVE  <<"page", d, x, pte[d][x].frame>> \in Claims
  <2>1. <<"page", d, x, pte[d][x].frame>> \in PageClaims(d)
    BY <1>1 DEF PageClaims
  <2> QED
    BY <2>1, Zenon DEF Claims
<1>2. ASSUME NEW d \in Directory, NEW r \in Region, pde[d][r] # None
      PROVE  <<"table", d, r, pde[d][r].frame>> \in Claims
  <2>1. <<"table", d, r, pde[d][r].frame>> \in TableClaims(d)
    BY <1>2 DEF TableClaims
  <2> QED
    BY <2>1, Zenon DEF Claims
<1>3. ASSUME NEW n \in Shm, NEW i \in DOMAIN frames[n]
      PROVE  <<"shm", n, i, frames[n][i]>> \in Claims
  <2>1. <<"shm", n, i, frames[n][i]>> \in ShmClaims(n)
    BY DEF ShmClaims
  <2> QED
    BY <2>1, Zenon DEF Claims
<1>4. /\ \A f \in kernel.pages : <<"kernel", 0, 0, f>> \in KernelClaims
      /\ \A f \in kernel.tables : <<"kernel", 0, 1, f>> \in KernelClaims
  BY DEF KernelClaims
<1>5. KernelClaims \subseteq Claims
  BY Zenon DEF Claims
<1> QED
  BY <1>1, <1>2, <1>3, <1>4, <1>5

LEMMA ClaimsNext ==
    ASSUME NEW c \in Claims'
    PROVE  \/ \E d \in Directory, x \in Page : 
                 /\ pte'[d][x] # None /\ pte'[d][x].owned
                 /\ c = <<"page", d, x, pte'[d][x].frame>>
           \/ \E d \in Directory, r \in Region :
                 pde'[d][r] # None /\ c = <<"table", d, r, pde'[d][r].frame>>
           \/ \E n \in Shm : \E i \in DOMAIN frames'[n] : c = <<"shm", n, i, frames'[n][i]>>
           \/ \E f \in kernel.pages' : c = <<"kernel", 0, 0, f>>
           \/ \E f \in kernel.tables' : c = <<"kernel", 0, 1, f>>
<1>1. CASE c \in UNION {PageClaims(d) \cup TableClaims(d) : d \in Directory}'
  <2>1. PICK d \in Directory : c \in PageClaims(d)' \/ c \in TableClaims(d)'
    BY <1>1
  <2>2. CASE c \in PageClaims(d)'
    BY <2>2 DEF PageClaims
  <2>3. CASE c \in TableClaims(d)'
    BY <2>3 DEF TableClaims
  <2> QED
    BY <2>1, <2>2, <2>3
<1>2. CASE c \in UNION {ShmClaims(n) : n \in Shm}'
  BY <1>2 DEF ShmClaims
<1>3. CASE c \in KernelClaims'
  BY <1>3 DEF KernelClaims
<1>4. c \in UNION {PageClaims(d) \cup TableClaims(d) : d \in Directory}'
      \/ c \in UNION {ShmClaims(n) : n \in Shm}' \/ c \in KernelClaims'
  BY Zenon DEF Claims
<1> QED
  BY <1>1, <1>2, <1>3, <1>4

\* New claims are of frames that were free.
LEMMA NewOwners ==
    ASSUME OneOwner, NEW New, Claims' \subseteq Claims \cup New, used \subseteq used',
           \A c \in New : c[4] \in used' \ used,
           \A c, e \in New : c[4] = e[4] => c = e
    PROVE  OneOwner'
  BY DEF OneOwner

LEMMA OldOwners ==
    ASSUME OneOwner, Claims' \subseteq Claims, \A c \in Claims' : c[4] \in used'
    PROVE  OneOwner'
  BY DEF OneOwner

TableFrames(d, regions) == {pde[d][r].frame : r \in regions}

\* Frames are released together with the claims on them.
LEMMA Released ==
    ASSUME MemTypeOK, OneOwner, NEW doomed \in SUBSET Shm,
           NEW d \in Directory, NEW pages \in SUBSET Page, NEW regions \in SUBSET Region,
           \A e \in Directory, x \in Page : pte'[e][x] = None \/ pte'[e][x] = pte[e][x],
           \A e \in Directory, r \in Region : pde'[e][r] = None \/ pde'[e][r] = pde[e][r],
           \A x \in pages : pte'[d][x] = None,
           \A r \in regions : pde[d][r] # None /\ pde'[d][r] = None,
           \A n \in Shm : frames'[n] = IF n \in doomed THEN <<>> ELSE frames[n],
           kernel' = kernel,
           used' = (used \ FramesOfShm(doomed))
                      \ (OwnedFrames(d, pages) \cup TableFrames(d, regions))
    PROVE  OneOwner'
<1>1. ASSUME NEW c \in Claims'
      PROVE  /\ c \in Claims
             /\ \A e \in Directory, x \in Page : \A f :
                   c = <<"page", e, x, f>> => pte'[e][x] # None
             /\ \A e \in Directory, r \in Region : \A f :
                   c = <<"table", e, r, f>> => pde'[e][r] # None
             /\ \A n \in Shm : \A i, f : c = <<"shm", n, i, f>> => n \notin doomed
  <2>1. CASE \E e \in Directory, x \in Page : 
                 /\ pte'[e][x] # None /\ pte'[e][x].owned
                 /\ c = <<"page", e, x, pte'[e][x].frame>>
    BY <2>1, ClaimsNow
  <2>2. CASE \E e \in Directory, r \in Region :
                 pde'[e][r] # None /\ c = <<"table", e, r, pde'[e][r].frame>>
    BY <2>2, ClaimsNow
  <2>3. CASE \E n \in Shm : \E i \in DOMAIN frames'[n] : c = <<"shm", n, i, frames'[n][i]>>
    <3>1. PICK n \in Shm : \E i \in DOMAIN frames'[n] : c = <<"shm", n, i, frames'[n][i]>>
      BY <2>3
    <3>2. n \notin doomed /\ frames'[n] = frames[n]
      BY <3>1
    <3> QED
      BY <3>1, <3>2, ClaimsNow
  <2>4. CASE (\E f \in kernel.pages' : c = <<"kernel", 0, 0, f>>)
             \/ (\E f \in kernel.tables' : c = <<"kernel", 0, 1, f>>)
    BY <2>4, ClaimsNow
  <2> QED
    BY <2>1, <2>2, <2>3, <2>4, ClaimsNext
<1>2. ASSUME NEW c \in Claims'
      PROVE  c[4] \in used'
  <2>1. c \in Claims /\ c[4] \in used /\ \A e \in Claims : e[4] = c[4] => e = c
    BY <1>1 DEF OneOwner
  <2>2. c[4] \notin FramesOfShm(doomed)
    <3> SUFFICES ASSUME NEW n \in doomed, NEW i \in DOMAIN frames[n], frames[n][i] = c[4]
                 PROVE  FALSE
      BY DEF FramesOfShm, Frames
    <3>1. <<"shm", n, i, frames[n][i]>> \in Claims
      BY ClaimsNow
    <3>2. c = <<"shm", n, i, frames[n][i]>>
      BY <2>1, <3>1
    <3> QED
      BY <1>1, <3>2
  <2>3. c[4] \notin OwnedFrames(d, pages)
    <3> SUFFICES ASSUME NEW x \in pages, pte[d][x] # None, pte[d][x].owned,
                        pte[d][x].frame = c[4]
                 PROVE  FALSE
      BY DEF OwnedFrames
    <3>1. <<"page", d, x, pte[d][x].frame>> \in Claims
      BY ClaimsNow
    <3>2. c = <<"page", d, x, pte[d][x].frame>>
      BY <2>1, <3>1
    <3> QED
      BY <1>1, <3>2
  <2>4. c[4] \notin TableFrames(d, regions)
    <3> SUFFICES ASSUME NEW r \in regions, pde[d][r].frame = c[4]
                 PROVE  FALSE
      BY DEF TableFrames
    <3>1. <<"table", d, r, pde[d][r].frame>> \in Claims
      BY ClaimsNow
    <3>2. c = <<"table", d, r, pde[d][r].frame>>
      BY <2>1, <3>1
    <3> QED
      BY <1>1, <3>2
  <2> QED
    BY <2>1, <2>2, <2>3, <2>4
<1> QED
  BY <1>1, <1>2, OldOwners

-----------------------------------------------------------------------------
(* Frames and what they are for *)

LEMMA AcquireFacts ==
    ASSUME NEW need, NEW f \in Acquire(need)
    PROVE  /\ f \in [need -> Free]
           /\ \A a, b \in need : f[a] = f[b] => a = b
           /\ \A a \in need : f[a] \in Acquired(f) /\ f[a] \in Frame \ used
           /\ Acquired(f) \subseteq Frame
  BY DEF Acquire, Acquired, Free

LEMMA NeedsDiffer ==
    ASSUME NEW d \in Nat
    PROVE  /\ \A x, y \in Nat : PageNeed(d, x) = PageNeed(d, y) => x = y
           /\ \A r, q \in Nat : TableNeed(d, r) = TableNeed(d, q) => r = q
           /\ \A x \in Page, r \in Nat : PageNeed(d, x) # TableNeed(d, r)
<1>1. NPages \in Nat /\ TableSize \in Nat \ {0} /\ NPages - 1 \in Nat
  BY MemoryAssumption
<1>2. TableOf(NPages - 1) \in Nat
  BY <1>1 DEF TableOf
<1>3. Span \in Nat
  BY <1>1, <1>2 DEF Span
<1>4. PICK k \in Nat : k = d * Span
  BY <1>3
<1>5. /\ \A x \in Nat : PageNeed(d, x) = k + x
      /\ \A r \in Nat : TableNeed(d, r) = k + NPages + r
  BY <1>4 DEF PageNeed, TableNeed
<1> QED
  BY <1>1, <1>4, <1>5 DEF Page

LEMMA SmallNumbers ==
    /\ Directory \subseteq Nat /\ Page \subseteq Nat /\ Region \subseteq Nat
    /\ Page \subseteq Address /\ None \in Address /\ None \notin Page /\ None \notin Entry
  BY MemoryAssumption DEF Directory, Page, Region, Address, Entry

LEMMA EntryFacts ==
    ASSUME NEW g \in Frame, NEW owned \in BOOLEAN
    PROVE  [frame |-> g, owned |-> owned] \in Entry /\ [frame |-> g, owned |-> owned] # None
<1>1. [frame |-> g, owned |-> owned] \in Entry
  BY DEF Entry
<1> QED
  BY <1>1, SmallNumbers

\* A directory gets pages and, where they are missing, page tables, all owned.
MapsOwned(d, pages, f) ==
    /\ f \in Acquire(PageNeeds(d, pages) \cup TableNeeds(d, pages))
    /\ used' = used \cup Acquired(f)
    /\ pte' = [pte EXCEPT ![d] =
                 AddPages(d, pages, [x \in pages |-> f[PageNeed(d, x)]], TRUE)]
    /\ pde' = [pde EXCEPT ![d] = AddTables(d, pages, f, TRUE)]
    /\ bitmap' = [bitmap EXCEPT ![d] = bitmap[d] \cup pages]
    /\ UNCHANGED <<kernel, frames>>

LEMMA MapsOwnedFacts ==
    ASSUME MemInv, NEW d \in Directory, NEW pages \in SUBSET Page, NEW f,
           MapsOwned(d, pages, f)
    PROVE  /\ \A x \in Page :
                 \/ pte'[d][x] = pte[d][x] /\ (x \in pages => pte[d][x] # None)
                 \/ /\ x \in pages /\ pte[d][x] = None
                    /\ PageNeed(d, x) \in PageNeeds(d, pages)
                    /\ pte'[d][x] = [frame |-> f[PageNeed(d, x)], owned |-> TRUE]
           /\ \A r \in Region :
                 \/ pde'[d][r] = pde[d][r]
                 \/ /\ TableNeed(d, r) \in TableNeeds(d, pages)
                    /\ pde'[d][r] = [frame |-> f[TableNeed(d, r)], owned |-> TRUE]
           /\ \A e \in Directory \ {d} : pte'[e] = pte[e] /\ pde'[e] = pde[e]
<1> USE DEF MemInv, MemTypeOK, MapsOwned
<1>1. pte'[d] = AddPages(d, pages, [x \in pages |-> f[PageNeed(d, x)]], TRUE)
      /\ pde'[d] = AddTables(d, pages, f, TRUE)
  OBVIOUS
<1>2. \A e \in Directory \ {d} : pte'[e] = pte[e] /\ pde'[e] = pde[e]
  OBVIOUS
<1>3. \A x \in Page :
         \/ pte'[d][x] = pte[d][x] /\ (x \in pages => pte[d][x] # None)
         \/ /\ x \in pages /\ pte[d][x] = None
            /\ PageNeed(d, x) \in PageNeeds(d, pages)
            /\ pte'[d][x] = [frame |-> f[PageNeed(d, x)], owned |-> TRUE]
  BY <1>1 DEF AddPages, PageNeeds
<1>4. \A r \in Region :
         \/ pde'[d][r] = pde[d][r]
         \/ /\ TableNeed(d, r) \in TableNeeds(d, pages)
            /\ pde'[d][r] = [frame |-> f[TableNeed(d, r)], owned |-> TRUE]
  BY <1>1 DEF AddTables, TableNeeds
<1> QED
  BY <1>2, <1>3, <1>4

LEMMA MapsOwnedTypes ==
    ASSUME MemInv, NEW d \in Directory, NEW pages \in SUBSET Page, NEW f,
           MapsOwned(d, pages, f)
    PROVE  /\ used' \subseteq Frame
           /\ pte' \in [Directory -> [Page -> Entry \cup {None}]]
           /\ pde' \in [Directory -> [Region -> Entry \cup {None}]]
           /\ bitmap' \in [Directory -> SUBSET Page]
           /\ BitmapIsPageTable'
<1> DEFINE need == PageNeeds(d, pages) \cup TableNeeds(d, pages)
<1>1. f \in Acquire(need) /\ Acquired(f) \subseteq Frame
      /\ \A a \in need : f[a] \in Frame
  BY AcquireFacts DEF MapsOwned
<1>2. used' \subseteq Frame
  BY <1>1 DEF MapsOwned, MemInv, MemTypeOK
<1>3. ASSUME NEW x \in Page PROVE pte'[d][x] \in Entry \cup {None}
  <2>1. CASE pte'[d][x] = pte[d][x]
    BY <2>1 DEF MemInv, MemTypeOK
  <2>2. CASE PageNeed(d, x) \in need
             /\ pte'[d][x] = [frame |-> f[PageNeed(d, x)], owned |-> TRUE]
    BY <1>1, <2>2, EntryFacts
  <2>3. \/ pte'[d][x] = pte[d][x]
        \/ PageNeed(d, x) \in need
           /\ pte'[d][x] = [frame |-> f[PageNeed(d, x)], owned |-> TRUE]
    BY MapsOwnedFacts
  <2> QED
    BY <2>1, <2>2, <2>3
<1>4. ASSUME NEW r \in Region PROVE pde'[d][r] \in Entry \cup {None}
  <2>1. CASE pde'[d][r] = pde[d][r]
    BY <2>1 DEF MemInv, MemTypeOK
  <2>2. CASE TableNeed(d, r) \in need
             /\ pde'[d][r] = [frame |-> f[TableNeed(d, r)], owned |-> TRUE]
    BY <1>1, <2>2, EntryFacts
  <2> QED
    BY <2>1, <2>2, MapsOwnedFacts
<1>5. pte' \in [Directory -> [Page -> Entry \cup {None}]]
  <2>1. AddPages(d, pages, [x \in pages |-> f[PageNeed(d, x)]], TRUE)
           \in [Page -> Entry \cup {None}]
    <3>1. pte'[d] = AddPages(d, pages, [x \in pages |-> f[PageNeed(d, x)]], TRUE)
      BY DEF MapsOwned, MemInv, MemTypeOK
    <3> QED
      BY <1>3, <3>1 DEF AddPages
  <2> QED
    BY <2>1 DEF MapsOwned, MemInv, MemTypeOK
<1>6. pde' \in [Directory -> [Region -> Entry \cup {None}]]
  <2>1. AddTables(d, pages, f, TRUE) \in [Region -> Entry \cup {None}]
    <3>1. pde'[d] = AddTables(d, pages, f, TRUE)
      BY DEF MapsOwned, MemInv, MemTypeOK
    <3> QED
      BY <1>4, <3>1 DEF AddTables
  <2> QED
    BY <2>1 DEF MapsOwned, MemInv, MemTypeOK
<1>7. bitmap' \in [Directory -> SUBSET Page]
  BY DEF MapsOwned, MemInv, MemTypeOK
<1>8. BitmapIsPageTable'
  <2> SUFFICES ASSUME NEW e \in Directory
               PROVE  bitmap'[e] = {x \in Page : pte'[e][x] # None}
    BY DEF BitmapIsPageTable
  <2>1. bitmap[e] = {x \in Page : pte[e][x] # None}
    BY DEF MemInv, PageTablesAgree, BitmapIsPageTable
  <2>2. CASE e # d
    BY <2>1, <2>2, MapsOwnedFacts DEF MapsOwned, MemInv, MemTypeOK
  <2>3. CASE e = d
    <3>1. bitmap'[d] = bitmap[d] \cup pages
      BY DEF MapsOwned, MemInv, MemTypeOK
    <3>2. \A x \in Page : pte'[d][x] # None <=> pte[d][x] # None \/ x \in pages
      <4> SUFFICES ASSUME NEW x \in Page
                   PROVE  pte'[d][x] # None <=> pte[d][x] # None \/ x \in pages
        OBVIOUS
      <4>1. CASE pte'[d][x] = pte[d][x] /\ (x \in pages => pte[d][x] # None)
        BY <4>1
      <4>2. CASE x \in pages /\ PageNeed(d, x) \in need
                 /\ pte'[d][x] = [frame |-> f[PageNeed(d, x)], owned |-> TRUE]
        <5>1. [frame |-> f[PageNeed(d, x)], owned |-> TRUE] # None
          BY <1>1, <4>2, EntryFacts
        <5> QED
          BY <4>2, <5>1
      <4> QED
        BY <4>1, <4>2, MapsOwnedFacts
    <3> QED
      BY <2>1, <2>3, <3>1, <3>2
  <2> QED
    BY <2>2, <2>3
<1> QED
  BY <1>2, <1>5, <1>6, <1>7, <1>8

LEMMA MapsOwnedOwners ==
    ASSUME MemInv, NEW d \in Directory, NEW pages \in SUBSET Page, NEW f,
           MapsOwned(d, pages, f)
    PROVE  OneOwner'
<1> DEFINE need == PageNeeds(d, pages) \cup TableNeeds(d, pages)
           New == {<<"page", d, x, f[PageNeed(d, x)]>> :
                      x \in {y \in Page : PageNeed(d, y) \in need}}
                  \cup {<<"table", d, r, f[TableNeed(d, r)]>> :
                      r \in {q \in Region : TableNeed(d, q) \in need}}
<1>1. /\ \A a, b \in need : f[a] = f[b] => a = b
      /\ \A a \in need : f[a] \in Acquired(f) /\ f[a] \notin used
  BY AcquireFacts DEF MapsOwned
<1>2. ASSUME NEW c \in Claims' PROVE c \in Claims \cup New
  <2>1. ASSUME NEW e \in Directory, NEW x \in Page,
               pte'[e][x] # None, pte'[e][x].owned, c = <<"page", e, x, pte'[e][x].frame>>
        PROVE  c \in Claims \cup New
    <3>1. CASE pte'[e][x] = pte[e][x]
      BY <2>1, <3>1, ClaimsNow
    <3>2. CASE pte'[e][x] # pte[e][x]
      <4>1. e = d /\ PageNeed(d, x) \in need
            /\ pte'[d][x] = [frame |-> f[PageNeed(d, x)], owned |-> TRUE]
        BY <3>2, MapsOwnedFacts
      <4> QED
        BY <2>1, <4>1
    <3> QED
      BY <3>1, <3>2
  <2>2. ASSUME NEW e \in Directory, NEW r \in Region,
               pde'[e][r] # None, c = <<"table", e, r, pde'[e][r].frame>>
        PROVE  c \in Claims \cup New
    <3>1. CASE pde'[e][r] = pde[e][r]
      BY <2>2, <3>1, ClaimsNow
    <3>2. CASE pde'[e][r] # pde[e][r]
      <4>1. e = d /\ TableNeed(d, r) \in need
            /\ pde'[d][r] = [frame |-> f[TableNeed(d, r)], owned |-> TRUE]
        BY <3>2, MapsOwnedFacts
      <4> QED
        BY <2>2, <4>1
    <3> QED
      BY <3>1, <3>2
  <2>3. CASE \/ \E n \in Shm : \E i \in DOMAIN frames'[n] : c = <<"shm", n, i, frames'[n][i]>>
             \/ \E g \in kernel.pages' : c = <<"kernel", 0, 0, g>>
             \/ \E g \in kernel.tables' : c = <<"kernel", 0, 1, g>>
    BY <2>3, ClaimsNow DEF MapsOwned
  <2> QED
    BY <2>1, <2>2, <2>3, ClaimsNext
<1>3. \A c \in New : c[4] \in used' \ used
  BY <1>1 DEF MapsOwned
<1>4. ASSUME NEW c \in New, NEW e \in New, c[4] = e[4] PROVE c = e
  <2>1. \/ \E x \in Page : PageNeed(d, x) \in need /\ c = <<"page", d, x, f[PageNeed(d, x)]>>
        \/ \E r \in Region : TableNeed(d, r) \in need /\ c = <<"table", d, r, f[TableNeed(d, r)]>>
    BY <1>4
  <2>2. \/ \E x \in Page : PageNeed(d, x) \in need /\ e = <<"page", d, x, f[PageNeed(d, x)]>>
        \/ \E r \in Region : TableNeed(d, r) \in need /\ e = <<"table", d, r, f[TableNeed(d, r)]>>
    BY <1>4
  <2> HIDE DEF need, New
  <2> QED
    BY <1>1, <1>4, <2>1, <2>2, NeedsDiffer, SmallNumbers
<1>5. used \subseteq used'
  BY DEF MapsOwned
<1> HIDE DEF New
<1> QED
  BY <1>2, <1>3, <1>4, <1>5, NewOwners DEF MemInv

-----------------------------------------------------------------------------
(* The actions that map owned pages *)

\* The end of a call that changes nothing, or panics.
Stops == UNCHANGED <<used, processVars, kernelVars, shmVars>>

LEMMA StopsInv == MemInv /\ Stops => MemInv'
<1> SUFFICES ASSUME MemInv, Stops PROVE MemInv'
  OBVIOUS
<1> USE DEF Stops, processVars, kernelVars, shmVars
<1>1. MemTypeOK'
  BY DEF MemInv, MemTypeOK
<1>2. Claims' = Claims
  BY DEF Claims, PageClaims, TableClaims, ShmClaims, KernelClaims
<1>3. OneOwner'
  BY <1>2 DEF MemInv, OneOwner
<1>4. PageTablesAgree'
  BY DEF MemInv, PageTablesAgree, BitmapIsPageTable, KernelViewsAgree
<1>5. UnusedIsEmpty' /\ MapsLive' /\ UnlinkedHasMapper'
  BY DEF MemInv, UnusedIsEmpty, MapsLive, UnlinkedHasMapper
<1> QED
  BY <1>1, <1>3, <1>4, <1>5 DEF MemInv

LEMMA MapsOwnedInv ==
    ASSUME MemInv, NEW d \in Directory, NEW pages \in SUBSET Page, NEW f,
           MapsOwned(d, pages, f), UNCHANGED shmVars, brk' \in [Directory -> 0 .. NPages],
           \/ status[d] = "live" /\ UNCHANGED <<status, kview>>
           \/ /\ status[d] = "unused"
              /\ status' = [status EXCEPT ![d] = "live"]
              /\ kview' = [kview EXCEPT ![d] = kernel.tables]
    PROVE  MemInv'
<1> USE DEF shmVars
<1>0. kernel' = kernel
  BY DEF MapsOwned
<1>1. MemTypeOK'
  <2>1. status' \in [Directory -> {"unused", "live", "stale"}]
    BY DEF MemInv, MemTypeOK
  <2>2. kview' \in [Directory -> SUBSET Frame]
    BY DEF MemInv, MemTypeOK
  <2>3. /\ kernel' \in [tables : SUBSET Frame, pages : SUBSET Frame]
        /\ frames' \in [Shm -> Seq(Frame)]
        /\ maps' \in [Shm -> [Directory -> [Address -> Nat]]]
        /\ unlinked' \in [Shm -> BOOLEAN]
    BY <1>0 DEF MemInv, MemTypeOK
  <2>4. IsFiniteSet(kernel'.pages)
    BY <1>0 DEF MemInv, MemTypeOK
  <2> QED
    BY <2>1, <2>2, <2>3, <2>4, MapsOwnedTypes DEF MemTypeOK
<1>2. OneOwner'
  BY MapsOwnedOwners
<1>3. KernelViewsAgree'
  BY <1>0 DEF MemInv, MemTypeOK, PageTablesAgree, KernelViewsAgree
<1>4. PageTablesAgree'
  BY <1>3, MapsOwnedTypes DEF PageTablesAgree
<1>5. \A e \in Directory : status'[e] = status[e] \/ (e = d /\ status'[d] = "live")
  BY DEF MemInv, MemTypeOK
<1>6. status'[d] = "live"
  BY DEF MemInv, MemTypeOK
<1>7. UnusedIsEmpty'
  <2> SUFFICES ASSUME NEW e \in Directory, status'[e] = "unused", NEW x \in Page
               PROVE  pte'[e][x] = None
    BY DEF UnusedIsEmpty
  <2>1. e # d /\ status[e] = "unused"
    BY <1>5, <1>6
  <2>2. pte'[e] = pte[e]
    BY <2>1, MapsOwnedFacts, ZenonT(40)
  <2> QED
    BY <2>1, <2>2 DEF MemInv, UnusedIsEmpty
<1>8. MapsLive' /\ UnlinkedHasMapper'
  BY <1>5 DEF MemInv, MapsLive, UnlinkedHasMapper
<1> QED
  BY <1>1, <1>2, <1>4, <1>7, <1>8 DEF MemInv

\* The pages of a new process.
LaunchPages == 0 .. (ImagePages - 1) \cup StackBegin .. (StackBegin + StackPages - 1)

LEMMA LaunchPagesFit ==
    LaunchPages \subseteq Page /\ ImagePages \in 0 .. NPages
<1>1. /\ ImagePages \in Nat /\ StackBegin \in Nat /\ StackPages \in Nat /\ NPages \in Nat
      /\ ImagePages <= StackBegin /\ StackBegin + StackPages <= NPages
  BY MemoryAssumption
<1> QED
  BY <1>1 DEF LaunchPages, Page

Created(d, f) ==
    /\ status[d] = "unused"
    /\ MapsOwned(d, LaunchPages, f)
    /\ status' = [status EXCEPT ![d] = "live"]
    /\ brk' = [brk EXCEPT ![d] = ImagePages]
    /\ kview' = [kview EXCEPT ![d] = kernel.tables]
    /\ UNCHANGED shmVars

LEMMA CreateOutcomes ==
    ASSUME MemInv, CreateProcess
    PROVE  Stops \/ \E d \in Directory : \E f : Created(d, f)
<1> USE DEF CreateProcess
<1>1. CASE Panic
  BY <1>1 DEF Panic, Stops
<1>2. ASSUME NEW d \in Directory, status[d] = "unused",
             NEW f \in Acquire(PageNeeds(d, LaunchPages) \cup TableNeeds(d, LaunchPages)),
             used' = used \cup Acquired(f),
             status' = [status EXCEPT ![d] = "live"],
             pte' = [pte EXCEPT ![d] = AddPages(d, LaunchPages,
                        [x \in LaunchPages |-> f[PageNeed(d, x)]], TRUE)],
             pde' = [pde EXCEPT ![d] = AddTables(d, LaunchPages, f, TRUE)],
             bitmap' = [bitmap EXCEPT ![d] = LaunchPages],
             brk' = [brk EXCEPT ![d] = ImagePages],
             kview' = [kview EXCEPT ![d] = kernel.tables],
             UNCHANGED <<kernel, shmVars, halted>>
      PROVE  Created(d, f)
  <2>1. bitmap[d] = {}
    BY <1>2 DEF MemInv, PageTablesAgree, BitmapIsPageTable, UnusedIsEmpty
  <2>2. bitmap' = [bitmap EXCEPT ![d] = bitmap[d] \cup LaunchPages]
    BY <1>2, <2>1
  <2>3. frames' = frames /\ kernel' = kernel
    BY <1>2 DEF shmVars
  <2> QED
    BY <1>2, <2>2, <2>3 DEF Created, MapsOwned
<1> QED
  BY <1>1, <1>2 DEF LaunchPages

LEMMA CreateInv ==
    ASSUME MemInv, CreateProcess
    PROVE  MemInv'
<1>1. ASSUME NEW d \in Directory, NEW f, Created(d, f)
      PROVE  MemInv'
  <2>1. brk' \in [Directory -> 0 .. NPages]
    BY <1>1, LaunchPagesFit DEF Created, MemInv, MemTypeOK
  <2> QED
    BY <1>1, <2>1, MapsOwnedInv, LaunchPagesFit DEF Created
<1> QED
  BY <1>1, CreateOutcomes, StopsInv

\* The place vmm_map_memory finds is free.
LEMMA PlaceFacts ==
    ASSUME MemInv, NEW d \in Directory, NEW start \in Nat, NEW n \in Nat,
           NEW v \in Places(d, start, n)
    PROVE  /\ v \in Page
           /\ v .. (v + n - 1) \in SUBSET Page
           /\ \A x \in v .. (v + n - 1) : pte[d][x] = None
<1>1. v \in start .. (NPages - 1) /\ v + n <= NPages /\ NPages \in Nat
      /\ \A x \in v .. (v + n - 1) : x \notin bitmap[d]
  BY MemoryAssumption DEF Places, Fits
<1>2. v \in Page /\ v .. (v + n - 1) \subseteq Page
  BY <1>1 DEF Page
<1> QED
  BY <1>1, <1>2 DEF MemInv, PageTablesAgree, BitmapIsPageTable

Grown(d, pages, f) == Running(d) /\ MapsOwned(d, pages, f) /\ UNCHANGED <<status, kview, shmVars>>

LEMMA MmapOutcomes ==
    ASSUME MemInv, NEW d \in Directory, NEW hint \in Page, NEW n \in Nat, Mmap(d, hint, n)
    PROVE  Stops \/ \E pages \in SUBSET Page : \E f : Grown(d, pages, f) /\ brk' = brk
<1>1. PICK v \in Places(d, hint, n) :
         LET pages == v .. (v + n - 1)
             need == PageNeeds(d, pages) \cup TableNeeds(d, pages)
         IN  IF FreePages < Cardinality(need) THEN Panic
             ELSE \E f \in Acquire(need) :
               /\ used' = used \cup Acquired(f)
               /\ pte' = [pte EXCEPT ![d] =
                            AddPages(d, pages, [x \in pages |-> f[PageNeed(d, x)]], TRUE)]
               /\ pde' = [pde EXCEPT ![d] = AddTables(d, pages, f, TRUE)]
               /\ bitmap' = [bitmap EXCEPT ![d] = bitmap[d] \cup pages]
               /\ UNCHANGED <<status, brk, kernelVars, shmVars, halted>>
  BY DEF Mmap
<1> DEFINE pages == v .. (v + n - 1)
           need == PageNeeds(d, pages) \cup TableNeeds(d, pages)
<1>2. pages \in SUBSET Page
  BY PlaceFacts, SmallNumbers
<1>3. CASE Panic
  BY <1>3 DEF Panic, Stops
<1>4. ASSUME NEW f \in Acquire(need),
             used' = used \cup Acquired(f),
             pte' = [pte EXCEPT ![d] =
                       AddPages(d, pages, [x \in pages |-> f[PageNeed(d, x)]], TRUE)],
             pde' = [pde EXCEPT ![d] = AddTables(d, pages, f, TRUE)],
             bitmap' = [bitmap EXCEPT ![d] = bitmap[d] \cup pages],
             UNCHANGED <<status, brk, kernelVars, shmVars, halted>>
      PROVE  Grown(d, pages, f) /\ brk' = brk
  BY <1>4 DEF Grown, MapsOwned, kernelVars, shmVars, Mmap
<1> QED
  BY <1>1, <1>2, <1>3, <1>4

LEMMA GrowthFits ==
    ASSUME MemInv, NEW d \in Directory, NEW n \in Nat, GrowthPages(d, n) # {}
    PROVE  /\ GrowthPages(d, n) \in SUBSET Page
           /\ brk[d] + Cardinality(GrowthPages(d, n)) \in 0 .. NPages
<1> DEFINE last == IF brk[d] + n - 1 <= NPages - 2 THEN brk[d] + n - 1 ELSE NPages - 2
<1>0. NPages \in Nat /\ brk[d] \in Nat
  BY MemoryAssumption DEF MemInv, MemTypeOK
<1>1. NPages \in Nat /\ brk[d] \in Nat /\ last \in Int /\ last <= NPages - 2
  BY <1>0
<1>2. GrowthPages(d, n) = brk[d] .. last
  BY <1>1 DEF GrowthPages
<1>3. brk[d] <= last
  BY <1>1, <1>2
<1> HIDE DEF last
<1>4. Cardinality(brk[d] .. last) = last - brk[d] + 1
  BY <1>1, <1>3, FS_Interval
<1> QED
  BY <1>1, <1>2, <1>3, <1>4 DEF Page

LEMMA SbrkGrowOutcomes ==
    ASSUME MemInv, NEW d \in Directory, NEW n \in Nat, SbrkGrow(d, n)
    PROVE  \/ Stops
           \/ \E pages \in SUBSET Page : \E f :
                 Grown(d, pages, f) /\ brk' \in [Directory -> 0 .. NPages]
<1> DEFINE pages == GrowthPages(d, n)
           need == PageNeeds(d, pages) \cup TableNeeds(d, pages)
<1>1. pages # {}
  BY DEF SbrkGrow
<1>2. CASE Panic
  BY <1>2 DEF Panic, Stops
<1>3. ASSUME NEW f \in Acquire(need),
             used' = used \cup Acquired(f),
             pte' = [pte EXCEPT ![d] =
                       AddPages(d, pages, [x \in pages |-> f[PageNeed(d, x)]], TRUE)],
             pde' = [pde EXCEPT ![d] = AddTables(d, pages, f, TRUE)],
             bitmap' = [bitmap EXCEPT ![d] = bitmap[d] \cup pages],
             brk' = [brk EXCEPT ![d] = brk[d] + Cardinality(pages)],
             UNCHANGED <<status, kernelVars, shmVars, halted>>
      PROVE  Grown(d, pages, f) /\ brk' \in [Directory -> 0 .. NPages]
  <2>1. brk' \in [Directory -> 0 .. NPages]
    <3>1. brk[d] + Cardinality(pages) \in 0 .. NPages
      BY <1>1, GrowthFits
    <3> HIDE DEF pages
    <3> QED
      BY <1>3, <3>1 DEF MemInv, MemTypeOK
  <2> QED
    BY <1>3, <2>1 DEF Grown, MapsOwned, kernelVars, shmVars, SbrkGrow
<1>4. pages \in SUBSET Page
  BY <1>1, GrowthFits
<1> QED
  BY <1>2, <1>3, <1>4 DEF SbrkGrow

LEMMA GrowInv ==
    ASSUME MemInv, NEW d \in Directory, NEW n \in Nat,
           SbrkGrow(d, n) \/ \E hint \in Page : Mmap(d, hint, n)
    PROVE  MemInv'
<1>1. ASSUME NEW pages \in SUBSET Page, NEW f, Grown(d, pages, f),
             brk' \in [Directory -> 0 .. NPages]
      PROVE  MemInv'
  BY <1>1, MapsOwnedInv DEF Grown, Running
<1>2. ASSUME brk' = brk PROVE brk' \in [Directory -> 0 .. NPages]
  BY <1>2 DEF MemInv, MemTypeOK
<1> QED
  BY <1>1, <1>2, MmapOutcomes, SbrkGrowOutcomes, StopsInv

-----------------------------------------------------------------------------
(* The kernel heap *)

LEMMA KernelHeapInv ==
    ASSUME MemInv, KernelHeapGrows
    PROVE  MemInv'
<1> DEFINE count == Cardinality(kernel.pages)
           page == PageNeed(0, count)
           table == TableNeed(0, count)
           atBoundary == count % TableSize = 0
           need == IF atBoundary THEN {page, table} ELSE {page}
<1>1. count \in Nat
  BY FS_CardinalityType DEF MemInv, MemTypeOK
<1>2. page # table
  <2>1. NPages \in Nat \ {0} /\ \E k \in Int : k = 0 * Span
    <3>1. NPages \in Nat \ {0} /\ TableSize \in Nat \ {0} /\ NPages - 1 \in Nat
      BY MemoryAssumption
    <3>2. TableOf(NPages - 1) \in Nat
      BY <3>1 DEF TableOf
    <3> QED
      BY <3>1, <3>2 DEF Span
  <2> QED
    BY <1>1, <2>1 DEF PageNeed, TableNeed
<1>3. CASE Panic
  BY <1>3, StopsInv DEF Panic, Stops
<1>4. ASSUME NEW f \in Acquire(need),
             used' = used \cup Acquired(f),
             kernel' = [tables |-> IF atBoundary THEN kernel.tables \cup {f[table]}
                                   ELSE kernel.tables,
                        pages |-> kernel.pages \cup {f[page]}],
             kview' = Synced(kernel'.tables),
             UNCHANGED <<processVars, shmVars, halted>>
      PROVE  MemInv'
  <2> USE DEF processVars, shmVars
  <2>1. /\ \A a, b \in need : f[a] = f[b] => a = b
        /\ \A a \in need : f[a] \in Acquired(f) /\ f[a] \in Frame /\ f[a] \notin used
        /\ Acquired(f) \subseteq Frame
    BY <1>4, AcquireFacts
  <2>2. page \in need /\ (atBoundary => table \in need)
    OBVIOUS
  <2> HIDE DEF page, table, need, count, atBoundary
  <2> DEFINE New == {<<"kernel", 0, 0, f[page]>>}
                    \cup (IF atBoundary THEN {<<"kernel", 0, 1, f[table]>>} ELSE {})
  <2>3. /\ kernel'.pages = kernel.pages \cup {f[page]}
        /\ kernel'.tables = kernel.tables \cup (IF atBoundary THEN {f[table]} ELSE {})
    BY <1>4
  <2>4. MemTypeOK'
    <3>1. IsFiniteSet(kernel'.pages)
      <4>1. IsFiniteSet(kernel.pages)
        BY DEF MemInv, MemTypeOK
      <4>2. IsFiniteSet(kernel.pages \cup {f[page]})
        BY <4>1, FS_AddElement
      <4> QED
        BY <2>3, <4>2
    <3>2. kernel.pages \subseteq Frame /\ kernel.tables \subseteq Frame
      BY DEF MemInv, MemTypeOK
    <3>3. kernel' \in [tables : SUBSET Frame, pages : SUBSET Frame]
      BY <1>4, <2>1, <2>2, <3>2
    <3>4. kview' \in [Directory -> SUBSET Frame]
      <4>1. kernel'.tables \in SUBSET Frame
        BY <3>3
      <4> QED
        BY <1>4, <4>1 DEF Synced, MemInv, MemTypeOK
    <3> QED
      BY <1>4, <2>1, <3>1, <3>3, <3>4 DEF MemInv, MemTypeOK
  <2>5. OneOwner'
    <3>1. ASSUME NEW c \in Claims' PROVE c \in Claims \cup New
      <4>1. CASE \E d \in Directory, x \in Page :
                    /\ pte'[d][x] # None /\ pte'[d][x].owned
                    /\ c = <<"page", d, x, pte'[d][x].frame>>
        BY <1>4, <4>1, ClaimsNow
      <4>2. CASE \E d \in Directory, r \in Region :
                    pde'[d][r] # None /\ c = <<"table", d, r, pde'[d][r].frame>>
        BY <1>4, <4>2, ClaimsNow
      <4>3. CASE \E n \in Shm : \E i \in DOMAIN frames'[n] : c = <<"shm", n, i, frames'[n][i]>>
        BY <1>4, <4>3, ClaimsNow
      <4>4. CASE \E g \in kernel'.pages : c = <<"kernel", 0, 0, g>>
        BY <2>3, <4>4, ClaimsNow
      <4>5. CASE \E g \in kernel'.tables : c = <<"kernel", 0, 1, g>>
        BY <2>3, <4>5, ClaimsNow
      <4> QED
        BY <4>1, <4>2, <4>3, <4>4, <4>5, ClaimsNext
    <3>2. \A c \in New : c[4] \in used' \ used
      BY <1>4, <2>1, <2>2
    <3>3. \A c, e \in New : c[4] = e[4] => c = e
      BY <1>2, <2>1, <2>2
    <3>4. used \subseteq used'
      BY <1>4
    <3> HIDE DEF New
    <3> QED
      BY <3>1, <3>2, <3>3, <3>4, NewOwners DEF MemInv
  <2>6. PageTablesAgree'
    <3>1. BitmapIsPageTable'
      BY <1>4 DEF MemInv, PageTablesAgree, BitmapIsPageTable
    <3>2. KernelViewsAgree'
      BY <1>4 DEF Synced, KernelViewsAgree
    <3> QED
      BY <3>1, <3>2 DEF PageTablesAgree
  <2>7. UnusedIsEmpty' /\ MapsLive' /\ UnlinkedHasMapper'
    BY <1>4 DEF MemInv, UnusedIsEmpty, MapsLive, UnlinkedHasMapper
  <2> QED
    BY <2>4, <2>5, <2>6, <2>7 DEF MemInv
<1> QED
  BY <1>3, <1>4 DEF KernelHeapGrows

-----------------------------------------------------------------------------
(* Shared memory objects *)

LEMMA ShmCreateInv ==
    ASSUME MemInv, NEW d \in Directory, NEW n \in Shm, ShmCreate(d, n)
    PROVE  MemInv'
<1> USE DEF ShmCreate, processVars, kernelVars
<1>1. MemTypeOK'
  BY DEF MemInv, MemTypeOK
<1>2. Claims' = Claims
  BY DEF Claims, PageClaims, TableClaims, ShmClaims, KernelClaims
<1>3. OneOwner'
  BY <1>2 DEF MemInv, OneOwner
<1>4. PageTablesAgree'
  BY DEF MemInv, PageTablesAgree, BitmapIsPageTable, KernelViewsAgree
<1>5. UnusedIsEmpty' /\ MapsLive' /\ UnlinkedHasMapper'
  BY DEF MemInv, UnusedIsEmpty, MapsLive, UnlinkedHasMapper
<1> QED
  BY <1>1, <1>3, <1>4, <1>5 DEF MemInv

LEMMA ShmFtruncateInv ==
    ASSUME MemInv, NEW d \in Directory, NEW n \in Shm, NEW count \in Nat,
           ShmFtruncate(d, n, count)
    PROVE  MemInv'
<1> DEFINE need == PageNeeds(NDirs + 1, 1 .. count)
<1>1. CASE Panic
  BY <1>1, StopsInv DEF Panic, Stops
<1>2. ASSUME NEW f \in Acquire(need),
             used' = used \cup Acquired(f),
             frames' = [frames EXCEPT ![n] = [i \in 1 .. count |-> f[PageNeed(NDirs + 1, i)]]],
             UNCHANGED <<processVars, kernelVars, shmList, maps, unlinked, halted>>
      PROVE  MemInv'
  <2> USE DEF processVars, kernelVars
  <2>1. /\ \A a, b \in need : f[a] = f[b] => a = b
        /\ \A a \in need : f[a] \in Acquired(f) /\ f[a] \in Frame /\ f[a] \notin used
        /\ Acquired(f) \subseteq Frame
    BY <1>2, AcquireFacts
  <2>2. \A i \in 1 .. count : PageNeed(NDirs + 1, i) \in need
    BY DEF PageNeeds
  <2>3. \A i, j \in 1 .. count : PageNeed(NDirs + 1, i) = PageNeed(NDirs + 1, j) => i = j
    <3>1. NDirs + 1 \in Nat
      BY MemoryAssumption, SMTT(20)
    <3> QED
      BY <3>1, NeedsDiffer
  <2> DEFINE New == {<<"shm", n, i, f[PageNeed(NDirs + 1, i)]>> : i \in 1 .. count}
             made == [i \in 1 .. count |-> f[PageNeed(NDirs + 1, i)]]
  <2>4. made \in Seq(Frame)
    BY <2>1, <2>2
  <2>5. MemTypeOK'
    BY <1>2, <2>1, <2>4 DEF MemInv, MemTypeOK
  <2>6. /\ \A m \in Shm \ {n} : frames'[m] = frames[m]
        /\ DOMAIN frames'[n] = 1 .. count
        /\ \A i \in 1 .. count : frames'[n][i] = f[PageNeed(NDirs + 1, i)]
    BY <1>2 DEF MemInv, MemTypeOK
  <2> HIDE DEF need, made
  <2>7. OneOwner'
    <3>1. ASSUME NEW c \in Claims' PROVE c \in Claims \cup New
      <4>1. CASE \E e \in Directory, x \in Page :
                    /\ pte'[e][x] # None /\ pte'[e][x].owned
                    /\ c = <<"page", e, x, pte'[e][x].frame>>
        BY <1>2, <4>1, ClaimsNow
      <4>2. CASE \E e \in Directory, r \in Region :
                    pde'[e][r] # None /\ c = <<"table", e, r, pde'[e][r].frame>>
        BY <1>2, <4>2, ClaimsNow
      <4>3. CASE \E m \in Shm : \E i \in DOMAIN frames'[m] : c = <<"shm", m, i, frames'[m][i]>>
        BY <2>6, <4>3, ClaimsNow
      <4>4. CASE (\E g \in kernel'.pages : c = <<"kernel", 0, 0, g>>)
                 \/ (\E g \in kernel'.tables : c = <<"kernel", 0, 1, g>>)
        BY <1>2, <4>4, ClaimsNow
      <4> QED
        BY <4>1, <4>2, <4>3, <4>4, ClaimsNext
    <3>2. \A c \in New : c[4] \in used' \ used
      BY <1>2, <2>1, <2>2
    <3>3. \A c, e \in New : c[4] = e[4] => c = e
      BY <2>1, <2>2, <2>3
    <3>4. used \subseteq used'
      BY <1>2
    <3> HIDE DEF New
    <3> QED
      BY <3>1, <3>2, <3>3, <3>4, NewOwners DEF MemInv
  <2>8. PageTablesAgree'
    BY <1>2 DEF MemInv, PageTablesAgree, BitmapIsPageTable, KernelViewsAgree
  <2>9. UnusedIsEmpty' /\ MapsLive' /\ UnlinkedHasMapper'
    BY <1>2 DEF MemInv, UnusedIsEmpty, MapsLive, UnlinkedHasMapper
  <2> QED
    BY <2>5, <2>7, <2>8, <2>9 DEF MemInv
<1> QED
  BY <1>1, <1>2 DEF ShmFtruncate

\* sharedmemory_mmap found room at v.
MapsShared(d, n, v, f) ==
    LET pages == v .. (v + Len(frames[n]) - 1)
    IN  /\ Running(d)
        /\ v \in Places(d, MmapStart, Len(frames[n]))
        /\ f \in Acquire(TableNeeds(d, pages))
        /\ used' = used \cup Acquired(f)
        /\ pte' = [pte EXCEPT ![d] =
                     AddPages(d, pages, [x \in pages |-> frames[n][x - v + 1]], FALSE)]
        /\ pde' = [pde EXCEPT ![d] = AddTables(d, pages, f, FALSE)]
        /\ bitmap' = [bitmap EXCEPT ![d] = bitmap[d] \cup pages]
        /\ maps' = [maps EXCEPT ![n][d][v] = maps[n][d][v] + 1]
        /\ UNCHANGED <<status, brk, kernelVars, frames, unlinked>>

MapsNothing(d, n) ==
    /\ Running(d)
    /\ maps' = [maps EXCEPT ![n][d][None] = maps[n][d][None] + 1]
    /\ UNCHANGED <<used, processVars, kernelVars, frames, unlinked>>

LEMMA ShmMmapOutcomes ==
    ASSUME NEW d, NEW n, ShmMmap(d, n)
    PROVE  \/ Stops \/ MapsNothing(d, n)
           \/ \E v \in Places(d, MmapStart, Len(frames[n])) : \E f : MapsShared(d, n, v, f)
<1> DEFINE count == Len(frames[n])
           places == Places(d, MmapStart, count)
<1>1. CASE maps' = [maps EXCEPT ![n][d][None] = @ + 1]
           /\ UNCHANGED <<used, processVars, kernelVars, shmList, frames, unlinked, halted>>
  BY <1>1 DEF MapsNothing, ShmMmap
<1>2. ASSUME NEW v \in places, Panic
      PROVE  Stops
  BY <1>2 DEF Panic, Stops
<1>3. ASSUME NEW v \in places,
             NEW f \in Acquire(TableNeeds(d, v .. (v + count - 1))),
             used' = used \cup Acquired(f),
             pte' = [pte EXCEPT ![d] = AddPages(d, v .. (v + count - 1),
                       [x \in v .. (v + count - 1) |-> frames[n][x - v + 1]], FALSE)],
             pde' = [pde EXCEPT ![d] = AddTables(d, v .. (v + count - 1), f, FALSE)],
             bitmap' = [bitmap EXCEPT ![d] = @ \cup v .. (v + count - 1)],
             maps' = [maps EXCEPT ![n][d][v] = @ + 1],
             UNCHANGED <<status, brk, kernelVars, shmList, frames, unlinked, halted>>
      PROVE  MapsShared(d, n, v, f)
  BY <1>3 DEF MapsShared, ShmMmap
<1> QED
  BY <1>1, <1>2, <1>3 DEF ShmMmap

\* One more MapInfo of a running process.
LEMMA MapsCounted ==
    ASSUME MemInv, NEW d \in Directory, NEW n \in Shm, NEW a \in Address,
           maps' = [maps EXCEPT ![n][d][a] = maps[n][d][a] + 1],
           Running(d), UNCHANGED <<status, unlinked>>
    PROVE  /\ maps' \in [Shm -> [Directory -> [Address -> Nat]]]
           /\ \A m \in Shm, e \in Directory, b \in Address :
                 /\ maps[m][e][b] > 0 => maps'[m][e][b] > 0
                 /\ maps'[m][e][b] > 0 => maps[m][e][b] > 0 \/ (m = n /\ e = d /\ b = a)
           /\ maps'[n][d][a] > 0
           /\ MapsLive' /\ UnlinkedHasMapper'
<1>0. maps \in [Shm -> [Directory -> [Address -> Nat]]]
  BY DEF MemInv, MemTypeOK
<1>1. maps' \in [Shm -> [Directory -> [Address -> Nat]]]
  BY <1>0
<1>2. /\ maps'[n][d][a] = maps[n][d][a] + 1
      /\ \A m \in Shm, e \in Directory, b \in Address :
            m # n \/ e # d \/ b # a => maps'[m][e][b] = maps[m][e][b]
  BY <1>0
<1>3. /\ \A m \in Shm, e \in Directory, b \in Address :
            /\ maps[m][e][b] > 0 => maps'[m][e][b] > 0
            /\ maps'[m][e][b] > 0 => maps[m][e][b] > 0 \/ (m = n /\ e = d /\ b = a)
      /\ maps'[n][d][a] > 0
  <2>1. maps[n][d][a] \in Nat
    BY <1>0
  <2> QED
    BY <1>2, <2>1
<1>4. MapsLive'
  BY <1>3 DEF MemInv, MapsLive, Running
<1>5. UnlinkedHasMapper'
  BY <1>3 DEF MemInv, UnlinkedHasMapper
<1> QED
  BY <1>1, <1>3, <1>4, <1>5

LEMMA MapsSharedFacts ==
    ASSUME MemInv, NEW d \in Directory, NEW n \in Shm, NEW v, NEW f, MapsShared(d, n, v, f)
    PROVE  LET pages == v .. (v + Len(frames[n]) - 1)
           IN  /\ v \in Page /\ pages \in SUBSET Page
               /\ \A x \in pages : pte[d][x] = None /\ x - v + 1 \in DOMAIN frames[n]
                     /\ pte'[d][x] = [frame |-> frames[n][x - v + 1], owned |-> FALSE]
               /\ \A x \in Page \ pages : pte'[d][x] = pte[d][x]
               /\ \A r \in Region :
                     \/ pde'[d][r] = pde[d][r]
                     \/ /\ TableNeed(d, r) \in TableNeeds(d, pages)
                        /\ pde'[d][r] = [frame |-> f[TableNeed(d, r)], owned |-> FALSE]
               /\ \A e \in Directory \ {d} : pte'[e] = pte[e] /\ pde'[e] = pde[e]
<1> DEFINE pages == v .. (v + Len(frames[n]) - 1)
           shared == [x \in pages |-> frames[n][x - v + 1]]
<1>0. frames[n] \in Seq(Frame) /\ Len(frames[n]) \in Nat /\ MmapStart \in Nat
  BY MemoryAssumption DEF MemInv, MemTypeOK
<1>1. v \in Page /\ pages \in SUBSET Page /\ \A x \in pages : pte[d][x] = None
  BY <1>0, PlaceFacts DEF MapsShared
<1>2. \A x \in pages : x - v + 1 \in DOMAIN frames[n]
  BY <1>0, <1>1, SmallNumbers
<1>3. /\ pte' = [pte EXCEPT ![d] = AddPages(d, pages, shared, FALSE)]
      /\ pde' = [pde EXCEPT ![d] = AddTables(d, pages, f, FALSE)]
  BY DEF MapsShared
<1>4. /\ pte'[d] = AddPages(d, pages, shared, FALSE)
      /\ pde'[d] = AddTables(d, pages, f, FALSE)
      /\ \A e \in Directory \ {d} : pte'[e] = pte[e] /\ pde'[e] = pde[e]
  BY <1>3 DEF MemInv, MemTypeOK
<1>5. \A x \in Page :
         pte'[d][x] = IF x \in pages THEN [frame |-> frames[n][x - v + 1], owned |-> FALSE]
                      ELSE pte[d][x]
  BY <1>1, <1>4 DEF AddPages
<1>6. \A r \in Region :
         \/ pde'[d][r] = pde[d][r]
         \/ /\ TableNeed(d, r) \in TableNeeds(d, pages)
            /\ pde'[d][r] = [frame |-> f[TableNeed(d, r)], owned |-> FALSE]
  BY <1>4 DEF AddTables, TableNeeds
<1> QED
  BY <1>1, <1>2, <1>4, <1>5, <1>6

LEMMA MapsSharedInv ==
    ASSUME MemInv, NEW d \in Directory, NEW n \in Shm, NEW v, NEW f, MapsShared(d, n, v, f)
    PROVE  MemInv'
<1> DEFINE pages == v .. (v + Len(frames[n]) - 1)
           need == TableNeeds(d, pages)
           New == {<<"table", d, r, f[TableNeed(d, r)]>> :
                      r \in {q \in Region : TableNeed(d, q) \in need}}
<1>0. /\ used' = used \cup Acquired(f)
      /\ bitmap' = [bitmap EXCEPT ![d] = bitmap[d] \cup pages]
      /\ maps' = [maps EXCEPT ![n][d][v] = maps[n][d][v] + 1]
      /\ UNCHANGED <<status, brk, kernelVars, frames, unlinked>>
      /\ pte' = [pte EXCEPT ![d] =
                   AddPages(d, pages, [x \in pages |-> frames[n][x - v + 1]], FALSE)]
      /\ pde' = [pde EXCEPT ![d] = AddTables(d, pages, f, FALSE)]
      /\ f \in Acquire(need) /\ Running(d)
  BY DEF MapsShared
<1>1. /\ \A a, b \in need : f[a] = f[b] => a = b
      /\ \A a \in need : f[a] \in Acquired(f) /\ f[a] \in Frame /\ f[a] \notin used
      /\ Acquired(f) \subseteq Frame
  BY <1>0, AcquireFacts
<1>2. /\ v \in Page /\ pages \in SUBSET Page
      /\ \A x \in pages : pte[d][x] = None /\ x - v + 1 \in DOMAIN frames[n]
            /\ pte'[d][x] = [frame |-> frames[n][x - v + 1], owned |-> FALSE]
      /\ \A x \in Page \ pages : pte'[d][x] = pte[d][x]
      /\ \A r \in Region :
            \/ pde'[d][r] = pde[d][r]
            \/ /\ TableNeed(d, r) \in need
               /\ pde'[d][r] = [frame |-> f[TableNeed(d, r)], owned |-> FALSE]
      /\ \A e \in Directory \ {d} : pte'[e] = pte[e] /\ pde'[e] = pde[e]
  BY MapsSharedFacts
<1>3. \A x \in pages : [frame |-> frames[n][x - v + 1], owned |-> FALSE] \in Entry
                       /\ [frame |-> frames[n][x - v + 1], owned |-> FALSE] # None
  <2>1. \A i \in DOMAIN frames[n] : frames[n][i] \in Frame
    BY DEF MemInv, MemTypeOK
  <2> HIDE DEF pages
  <2> QED
    BY <1>2, <2>1, EntryFacts
<1>4. \A r \in Region : TableNeed(d, r) \in need =>
         [frame |-> f[TableNeed(d, r)], owned |-> FALSE] \in Entry
  BY <1>1, EntryFacts
<1> HIDE DEF pages, need
<1>5. pte' \in [Directory -> [Page -> Entry \cup {None}]]
  <2>1. ASSUME NEW x \in Page PROVE pte'[d][x] \in Entry \cup {None}
    <3>1. CASE x \in pages
      BY <1>2, <1>3, <3>1
    <3>2. CASE x \notin pages
      <4>1. pte'[d][x] = pte[d][x]
        BY <1>2, <3>2
      <4> QED
        BY <4>1 DEF MemInv, MemTypeOK
    <3> QED
      BY <3>1, <3>2
  <2>2. pte'[d] \in [Page -> Entry \cup {None}]
    <3>1. pte'[d] = AddPages(d, pages, [x \in pages |-> frames[n][x - v + 1]], FALSE)
      BY <1>0 DEF MemInv, MemTypeOK
    <3> QED
      BY <2>1, <3>1 DEF AddPages
  <2>3. pte' = [pte EXCEPT ![d] = pte'[d]]
    BY <1>0 DEF MemInv, MemTypeOK
  <2> QED
    BY <2>2, <2>3 DEF MemInv, MemTypeOK
<1>6. pde' \in [Directory -> [Region -> Entry \cup {None}]]
  <2>1. \A r \in Region : pde'[d][r] \in Entry \cup {None}
    BY <1>2, <1>4, ZenonT(40) DEF MemInv, MemTypeOK
  <2>2. pde'[d] \in [Region -> Entry \cup {None}]
    <3>1. pde'[d] = AddTables(d, pages, f, FALSE)
      BY <1>0 DEF MemInv, MemTypeOK
    <3> QED
      BY <2>1, <3>1 DEF AddTables
  <2>3. pde' = [pde EXCEPT ![d] = pde'[d]]
    BY <1>0 DEF MemInv, MemTypeOK
  <2> QED
    BY <2>2, <2>3 DEF MemInv, MemTypeOK
<1>7. v \in Address
  BY <1>2, SmallNumbers
<1>8. MapsLive' /\ UnlinkedHasMapper' /\ maps' \in [Shm -> [Directory -> [Address -> Nat]]]
  BY <1>0, <1>7, MapsCounted
<1>9. MemTypeOK'
  <2>1. used' \subseteq Frame /\ bitmap' \in [Directory -> SUBSET Page]
    BY <1>0, <1>1, <1>2 DEF MemInv, MemTypeOK
  <2> QED
    BY <1>0, <1>5, <1>6, <1>8, <2>1 DEF MemInv, MemTypeOK, kernelVars
<1>10. OneOwner'
  <2>1. ASSUME NEW c \in Claims' PROVE c \in Claims \cup New
    <3>1. ASSUME NEW e \in Directory, NEW x \in Page, pte'[e][x] # None, pte'[e][x].owned,
                 c = <<"page", e, x, pte'[e][x].frame>>
          PROVE  c \in Claims
      <4>1. pte'[e][x] = pte[e][x]
        <5>1. CASE e = d /\ x \in pages
          <6>1. pte'[e][x] = [frame |-> frames[n][x - v + 1], owned |-> FALSE]
            BY <1>2, <5>1
          <6> QED
            BY <3>1, <6>1
        <5>2. CASE ~(e = d /\ x \in pages)
          BY <1>2, <5>2
        <5> QED
          BY <5>1, <5>2
      <4> QED
        BY <3>1, <4>1, ClaimsNow
    <3>2. ASSUME NEW e \in Directory, NEW r \in Region, pde'[e][r] # None,
                 c = <<"table", e, r, pde'[e][r].frame>>
          PROVE  c \in Claims \cup New
      <4>1. CASE pde'[e][r] = pde[e][r]
        BY <3>2, <4>1, ClaimsNow
      <4>2. CASE pde'[e][r] # pde[e][r]
        <5>1. e = d /\ TableNeed(d, r) \in need
              /\ pde'[d][r] = [frame |-> f[TableNeed(d, r)], owned |-> FALSE]
          BY <1>2, <4>2
        <5> QED
          BY <3>2, <5>1
      <4> QED
        BY <4>1, <4>2
    <3>3. CASE \/ \E m \in Shm : \E i \in DOMAIN frames'[m] : c = <<"shm", m, i, frames'[m][i]>>
               \/ \E g \in kernel.pages' : c = <<"kernel", 0, 0, g>>
               \/ \E g \in kernel.tables' : c = <<"kernel", 0, 1, g>>
      BY <1>0, <3>3, ClaimsNow DEF kernelVars
    <3> QED
      BY <3>1, <3>2, <3>3, ClaimsNext
  <2>2. \A c \in New : c[4] \in used' \ used
    BY <1>0, <1>1
  <2>3. \A c, e \in New : c[4] = e[4] => c = e
    BY <1>1, NeedsDiffer, SmallNumbers
  <2>4. used \subseteq used'
    BY <1>0
  <2> HIDE DEF New
  <2> QED
    BY <2>1, <2>2, <2>3, <2>4, NewOwners DEF MemInv
<1>11. PageTablesAgree'
  <2>1. BitmapIsPageTable'
    <3> SUFFICES ASSUME NEW e \in Directory
                 PROVE  bitmap'[e] = {x \in Page : pte'[e][x] # None}
      BY DEF BitmapIsPageTable
    <3>1. bitmap[e] = {x \in Page : pte[e][x] # None}
      BY DEF MemInv, PageTablesAgree, BitmapIsPageTable
    <3>2. CASE e # d
      BY <1>0, <1>2, <3>1, <3>2 DEF MemInv, MemTypeOK
    <3>3. CASE e = d
      <4>1. bitmap'[d] = bitmap[d] \cup pages
        BY <1>0 DEF MemInv, MemTypeOK
      <4>2. \A x \in Page : pte'[d][x] # None <=> pte[d][x] # None \/ x \in pages
        BY <1>2, <1>3
      <4> QED
        BY <1>2, <3>1, <3>3, <4>1, <4>2
    <3> QED
      BY <3>2, <3>3
  <2>2. KernelViewsAgree'
    BY <1>0 DEF MemInv, PageTablesAgree, KernelViewsAgree, kernelVars
  <2> QED
    BY <2>1, <2>2 DEF PageTablesAgree
<1>12. UnusedIsEmpty'
  <2> SUFFICES ASSUME NEW e \in Directory, status'[e] = "unused", NEW x \in Page
               PROVE  pte'[e][x] = None
    BY DEF UnusedIsEmpty
  <2>1. e # d /\ status[e] = "unused"
    BY <1>0 DEF Running
  <2> QED
    BY <1>2, <2>1 DEF MemInv, UnusedIsEmpty
<1> QED
  BY <1>8, <1>9, <1>10, <1>11, <1>12 DEF MemInv

LEMMA ShmMmapInv ==
    ASSUME MemInv, NEW d \in Directory, NEW n \in Shm, ShmMmap(d, n)
    PROVE  MemInv'
<1>1. CASE MapsNothing(d, n)
  <2> USE <1>1 DEF MapsNothing, processVars, kernelVars
  <2>1. MapsLive' /\ UnlinkedHasMapper' /\ maps' \in [Shm -> [Directory -> [Address -> Nat]]]
    BY MapsCounted, SmallNumbers
  <2>2. MemTypeOK'
    BY <2>1 DEF MemInv, MemTypeOK
  <2>3. Claims' = Claims
    BY DEF Claims, PageClaims, TableClaims, ShmClaims, KernelClaims
  <2>4. OneOwner'
    BY <2>3 DEF MemInv, OneOwner
  <2>5. PageTablesAgree' /\ UnusedIsEmpty'
    BY DEF MemInv, PageTablesAgree, BitmapIsPageTable, KernelViewsAgree, UnusedIsEmpty
  <2> QED
    BY <2>1, <2>2, <2>4, <2>5 DEF MemInv
<1> QED
  BY <1>1, ShmMmapOutcomes, MapsSharedInv, StopsInv

-----------------------------------------------------------------------------
(* The actions that release frames *)

\* The objects in doomed are forgotten with their MapInfo records, which were
\* none in the records m that the call leaves.
LEMMA DestroyFacts ==
    ASSUME NEW candidates \in SUBSET Shm, NEW m, NEW u,
           \A n \in Shm : maps'[n] = IF n \in Doomed(candidates, m, u) THEN NoMaps ELSE m[n],
           \A n \in Shm : unlinked'[n] => n \notin Doomed(candidates, m, u) /\ u[n]
    PROVE  /\ Doomed(candidates, m, u) \in SUBSET Shm
           /\ \A n \in Shm, d \in Directory, a \in Address :
                 /\ maps'[n][d][a] > 0 => m[n][d][a] > 0
                 /\ m[n][d][a] > 0 => maps'[n][d][a] > 0 /\ n \notin Doomed(candidates, m, u)
<1> DEFINE doomed == Doomed(candidates, m, u)
<1>1. doomed = {n \in candidates : u[n] /\ ~Mapped(m, n)}
  BY DEF Doomed
<1>2. /\ \A n \in Shm : maps'[n] = IF n \in doomed THEN NoMaps ELSE m[n]
      /\ \A n \in Shm : unlinked'[n] => n \notin doomed /\ u[n]
  OBVIOUS
<1> HIDE DEF doomed
<1>3. \A d \in Directory, a \in Address : NoMaps[d][a] = 0
  BY DEF NoMaps
<1>4. \A n \in doomed, d \in Directory, a \in Address : ~(m[n][d][a] > 0)
  BY <1>1 DEF Mapped
<1>5. doomed \in SUBSET Shm
  BY <1>1
<1>6. ASSUME NEW n \in Shm, NEW d \in Directory, NEW a \in Address
      PROVE  /\ maps'[n][d][a] > 0 => m[n][d][a] > 0
             /\ m[n][d][a] > 0 => maps'[n][d][a] > 0 /\ n \notin doomed
  <2>1. CASE n \in doomed
    BY <1>2, <1>3, <1>4, <2>1
  <2>2. CASE n \notin doomed
    BY <1>2, <2>2
  <2> QED
    BY <2>1, <2>2
<1> QED
  BY <1>5, <1>6 DEF doomed

\* An object that was looked at and stays, unlinked, is still mapped.
LEMMA SparedIsMapped ==
    ASSUME NEW candidates \in SUBSET Shm, NEW m, NEW u,
           \A n \in Shm : unlinked'[n] => n \notin Doomed(candidates, m, u) /\ u[n]
    PROVE  \A n \in candidates : unlinked'[n] =>
                 \E d \in Directory, a \in Address : m[n][d][a] > 0
BY DEF Doomed, Mapped

LEMMA RemovalFacts ==
    ASSUME MemInv, NEW d \in Directory, NEW pages \in SUBSET Page, RemovePages(d, pages)
    PROVE  /\ pte' \in [Directory -> [Page -> Entry \cup {None}]]
           /\ pde' \in [Directory -> [Region -> Entry \cup {None}]]
           /\ bitmap' \in [Directory -> SUBSET Page]
           /\ BitmapIsPageTable'
           /\ \A x \in Page : pte'[d][x] = IF x \in pages THEN None ELSE pte[d][x]
           /\ \A r \in Region : pde'[d][r] = IF r \in EmptiedTables(d, pages) THEN None
                                             ELSE pde[d][r]
           /\ \A e \in Directory \ {d} : pte'[e] = pte[e] /\ pde'[e] = pde[e]
<1> USE DEF MemInv, MemTypeOK
<1>0. /\ pte' = [pte EXCEPT ![d] = PagesAfterRemoval(d, pages)]
      /\ pde' = [pde EXCEPT ![d] = TablesAfterRemoval(d, pages)]
      /\ bitmap' = [bitmap EXCEPT ![d] = bitmap[d] \ pages]
  BY DEF RemovePages
<1>1. pte'[d] = PagesAfterRemoval(d, pages) /\ pde'[d] = TablesAfterRemoval(d, pages)
      /\ bitmap'[d] = bitmap[d] \ pages
      /\ \A e \in Directory \ {d} : pte'[e] = pte[e] /\ pde'[e] = pde[e] /\ bitmap'[e] = bitmap[e]
  BY <1>0
<1>2. \A x \in Page : pte'[d][x] = IF x \in pages THEN None ELSE pte[d][x]
  BY <1>1 DEF PagesAfterRemoval
<1>3. \A r \in Region : pde'[d][r] = IF r \in EmptiedTables(d, pages) THEN None ELSE pde[d][r]
  BY <1>1 DEF TablesAfterRemoval
<1>4. pte' \in [Directory -> [Page -> Entry \cup {None}]]
  <2>1. PagesAfterRemoval(d, pages) \in [Page -> Entry \cup {None}]
    BY DEF PagesAfterRemoval
  <2> QED
    BY <1>0, <2>1
<1>5. pde' \in [Directory -> [Region -> Entry \cup {None}]]
  <2>1. TablesAfterRemoval(d, pages) \in [Region -> Entry \cup {None}]
    BY DEF TablesAfterRemoval
  <2> QED
    BY <1>0, <2>1
<1>6. bitmap' \in [Directory -> SUBSET Page]
  BY <1>0
<1>7. BitmapIsPageTable'
  <2> SUFFICES ASSUME NEW e \in Directory
               PROVE  bitmap'[e] = {x \in Page : pte'[e][x] # None}
    BY DEF BitmapIsPageTable
  <2>1. bitmap[e] = {x \in Page : pte[e][x] # None}
    BY DEF PageTablesAgree, BitmapIsPageTable
  <2>2. CASE e # d
    BY <1>1, <2>1, <2>2
  <2>3. CASE e = d
    BY <1>1, <1>2, <2>1, <2>3
  <2> QED
    BY <2>2, <2>3
<1> QED
  BY <1>1, <1>2, <1>3, <1>4, <1>5, <1>6, <1>7

LEMMA RemovalOwners ==
    ASSUME MemInv, NEW d \in Directory, NEW pages \in SUBSET Page, RemovePages(d, pages),
           NEW doomed \in SUBSET Shm, kernel' = kernel,
           \A n \in Shm : frames'[n] = IF n \in doomed THEN <<>> ELSE frames[n],
           used' = (used \ FramesOfShm(doomed)) \ FramesOfRemoval(d, pages)
    PROVE  OneOwner'
<1> DEFINE regions == EmptiedTables(d, pages)
<1>1. /\ \A x \in Page : pte'[d][x] = IF x \in pages THEN None ELSE pte[d][x]
      /\ \A r \in Region : pde'[d][r] = IF r \in regions THEN None ELSE pde[d][r]
      /\ \A e \in Directory \ {d} : pte'[e] = pte[e] /\ pde'[e] = pde[e]
  BY RemovalFacts
<1>2. ASSUME NEW e \in Directory, NEW x \in Page
      PROVE  pte'[e][x] = None \/ pte'[e][x] = pte[e][x]
  <2>1. CASE e = d
    BY <1>1, <2>1
  <2>2. CASE e # d
    BY <1>1, <2>2
  <2> QED
    BY <2>1, <2>2
<1>3. ASSUME NEW e \in Directory, NEW r \in Region
      PROVE  pde'[e][r] = None \/ pde'[e][r] = pde[e][r]
  <2>1. CASE e = d
    BY <1>1, <2>1
  <2>2. CASE e # d
    BY <1>1, <2>2
  <2> QED
    BY <2>1, <2>2
<1>4. regions \in SUBSET Region /\ \A r \in regions : pde[d][r] # None
  BY DEF EmptiedTables
<1>5. used' = (used \ FramesOfShm(doomed)) \ (OwnedFrames(d, pages) \cup TableFrames(d, regions))
  BY DEF FramesOfRemoval, TableFrames
<1> HIDE DEF regions
<1>6. PICK gone \in SUBSET Region : gone = regions
  BY <1>4
<1>7. MemTypeOK /\ OneOwner
  BY DEF MemInv
<1>8. \A x \in pages : pte'[d][x] = None
  BY <1>1
<1>9. \A r \in gone : pde[d][r] # None /\ pde'[d][r] = None
  BY <1>1, <1>4, <1>6
<1>10. used' = (used \ FramesOfShm(doomed)) \ (OwnedFrames(d, pages) \cup TableFrames(d, gone))
  BY <1>5, <1>6
<1> QED
  BY <1>2, <1>3, <1>7, <1>8, <1>9, <1>10, Released, SMTT(40)

LEMMA SbrkShrinkInv ==
    ASSUME MemInv, NEW d \in Directory, NEW n \in Nat, SbrkShrink(d, n)
    PROVE  MemInv'
<1> DEFINE begin == BreakAfter(d, n)
           pages == begin .. (brk[d] - 1)
<1>0. /\ RemovePages(d, pages)
      /\ used' = used \ FramesOfRemoval(d, pages)
      /\ brk' = [brk EXCEPT ![d] = begin]
      /\ UNCHANGED <<status, kernelVars, shmVars>> /\ Running(d)
  BY DEF SbrkShrink
<1>1. brk[d] \in 0 .. NPages /\ NPages \in Nat
  BY MemoryAssumption DEF MemInv, MemTypeOK
<1>2. begin \in 0 .. NPages /\ begin <= brk[d]
  BY <1>1 DEF BreakAfter
<1>3. pages \in SUBSET Page
  BY <1>1, <1>2 DEF Page
<1> HIDE DEF begin, pages
<1>4. MemTypeOK'
  BY <1>0, <1>2, <1>3, RemovalFacts DEF MemInv, MemTypeOK, kernelVars, shmVars
<1>5. OneOwner'
  <2>1. PICK doomed \in SUBSET Shm : doomed = {}
    OBVIOUS
  <2>2. used' = (used \ FramesOfShm(doomed)) \ FramesOfRemoval(d, pages)
    BY <1>0, <2>1 DEF FramesOfShm
  <2>3. kernel' = kernel /\ \A k \in Shm : frames'[k] = IF k \in doomed THEN <<>> ELSE frames[k]
    BY <1>0, <2>1 DEF kernelVars, shmVars
  <2> QED
    BY <1>0, <1>3, <2>2, <2>3, RemovalOwners
<1>6. PageTablesAgree'
  BY <1>0, <1>3, RemovalFacts DEF MemInv, PageTablesAgree, KernelViewsAgree, kernelVars
<1>7. UnusedIsEmpty'
  <2> SUFFICES ASSUME NEW e \in Directory, status[e] = "unused", NEW x \in Page
               PROVE  pte'[e][x] = None
    BY <1>0 DEF UnusedIsEmpty
  <2>1. e # d /\ pte[e][x] = None
    BY <1>0 DEF Running, MemInv, UnusedIsEmpty
  <2> QED
    BY <1>0, <1>3, <2>1, RemovalFacts
<1>8. MapsLive' /\ UnlinkedHasMapper'
  BY <1>0 DEF MemInv, MapsLive, UnlinkedHasMapper, shmVars
<1> QED
  BY <1>4, <1>5, <1>6, <1>7, <1>8 DEF MemInv

LEMMA ShmUnlinkInv ==
    ASSUME MemInv, NEW d \in Directory, NEW n \in Shm, ShmUnlink(d, n)
    PROVE  /\ MemInv' /\ pte' = pte
           /\ \A k \in Shm, e \in Directory, a \in Address :
                 maps[k][e][a] > 0 => maps'[k][e][a] > 0 /\ frames'[k] = frames[k]
<1>0. PICK marked :
         /\ marked = [unlinked EXCEPT ![n] = TRUE]
         /\ DestroyShm(Doomed({n}, maps, marked), maps, marked)
         /\ used' = used \ FramesOfShm(Doomed({n}, maps, marked))
         /\ UNCHANGED <<processVars, kernelVars>>
  BY DEF ShmUnlink
<1> DEFINE doomed == Doomed({n}, maps, marked)
<1>1. marked \in [Shm -> BOOLEAN] /\ maps \in [Shm -> [Directory -> [Address -> Nat]]]
      /\ \A k \in Shm \ {n} : marked[k] = unlinked[k]
  BY <1>0 DEF MemInv, MemTypeOK
<1>10. DestroyShm(doomed, maps, marked) /\ used' = used \ FramesOfShm(doomed)
  BY <1>0
<1>2. /\ frames' \in [Shm -> Seq(Frame)]
      /\ maps' \in [Shm -> [Directory -> [Address -> Nat]]]
      /\ unlinked' \in [Shm -> BOOLEAN]
      /\ \A k \in Shm : frames'[k] = IF k \in doomed THEN <<>> ELSE frames[k]
      /\ \A k \in Shm : maps'[k] = IF k \in doomed THEN NoMaps ELSE maps[k]
      /\ \A k \in Shm : unlinked'[k] => k \notin doomed /\ marked[k]
  <2> HIDE DEF doomed
  <2>1. NoMaps \in [Directory -> [Address -> Nat]]
    BY DEF NoMaps
  <2>2. frames' \in [Shm -> Seq(Frame)]
        /\ \A k \in Shm : frames'[k] = IF k \in doomed THEN <<>> ELSE frames[k]
    BY <1>10 DEF DestroyShm, MemInv, MemTypeOK
  <2>3. maps' \in [Shm -> [Directory -> [Address -> Nat]]]
        /\ \A k \in Shm : maps'[k] = IF k \in doomed THEN NoMaps ELSE maps[k]
    BY <1>10, <1>1, <2>1 DEF DestroyShm
  <2>4. unlinked' \in [Shm -> BOOLEAN]
        /\ \A k \in Shm : unlinked'[k] => k \notin doomed /\ marked[k]
    BY <1>10, <1>1 DEF DestroyShm
  <2> QED
    BY <2>2, <2>3, <2>4
<1>9. /\ doomed \in SUBSET Shm
      /\ \A k \in Shm, e \in Directory, a \in Address :
            /\ maps'[k][e][a] > 0 <=> maps[k][e][a] > 0
            /\ maps[k][e][a] > 0 => k \notin doomed
      /\ unlinked'[n] => \E e \in Directory, a \in Address : maps[n][e][a] > 0
  <2>1. {n} \in SUBSET Shm
    OBVIOUS
  <2>2. /\ \A k \in Shm : maps'[k] = IF k \in Doomed({n}, maps, marked) THEN NoMaps ELSE maps[k]
        /\ \A k \in Shm : unlinked'[k] => k \notin Doomed({n}, maps, marked) /\ marked[k]
    BY <1>2
  <2>3. /\ Doomed({n}, maps, marked) \in SUBSET Shm
        /\ \A k \in Shm, e \in Directory, a \in Address :
              /\ maps'[k][e][a] > 0 => maps[k][e][a] > 0
              /\ maps[k][e][a] > 0 => maps'[k][e][a] > 0 /\ k \notin Doomed({n}, maps, marked)
    BY <2>1, <2>2, DestroyFacts
  <2>4. \A k \in {n} : unlinked'[k] =>
              \E e \in Directory, a \in Address : maps[k][e][a] > 0
    BY <2>1, <2>2, SparedIsMapped
  <2> QED
    BY <2>3, <2>4
<1> HIDE DEF doomed
<1>3. MemTypeOK'
  BY <1>0, <1>10, <1>2 DEF MemInv, MemTypeOK, processVars, kernelVars
<1>4. OneOwner'
  <2>1. PICK pages \in SUBSET Page, regions \in SUBSET Region : pages = {} /\ regions = {}
    OBVIOUS
  <2>2. OwnedFrames(d, pages) = {} /\ TableFrames(d, regions) = {}
    BY <2>1 DEF OwnedFrames, TableFrames
  <2>3. used' = (used \ FramesOfShm(doomed))
                   \ (OwnedFrames(d, pages) \cup TableFrames(d, regions))
    BY <1>10, <2>2
  <2>4. UNCHANGED <<pte, pde, kernel>>
    BY <1>0 DEF processVars, kernelVars
  <2>5. MemTypeOK /\ OneOwner
    BY DEF MemInv
  <2>6. /\ \A e \in Directory, x \in Page : pte'[e][x] = None \/ pte'[e][x] = pte[e][x]
        /\ \A e \in Directory, r \in Region : pde'[e][r] = None \/ pde'[e][r] = pde[e][r]
        /\ \A x \in pages : pte'[d][x] = None
        /\ \A r \in regions : pde[d][r] # None /\ pde'[d][r] = None
        /\ kernel' = kernel
    BY <2>1, <2>4
  <2>7. PICK gone \in SUBSET Shm : gone = doomed
    BY <1>9
  <2>8. /\ \A k \in Shm : frames'[k] = IF k \in gone THEN <<>> ELSE frames[k]
        /\ used' = (used \ FramesOfShm(gone))
                      \ (OwnedFrames(d, pages) \cup TableFrames(d, regions))
    BY <1>2, <2>3, <2>7
  <2> QED
    BY <2>5, <2>6, <2>8, Released
<1>5. PageTablesAgree' /\ UnusedIsEmpty'
  BY <1>0 DEF MemInv, PageTablesAgree, BitmapIsPageTable, KernelViewsAgree, UnusedIsEmpty,
              processVars, kernelVars
<1>6. MapsLive'
  BY <1>0, <1>9 DEF MemInv, MapsLive, processVars
<1>7. UnlinkedHasMapper'
  <2> SUFFICES ASSUME NEW k \in Shm, unlinked'[k]
               PROVE  \E e \in Directory, a \in Address : status[e] = "live" /\ maps'[k][e][a] > 0
    BY <1>0 DEF UnlinkedHasMapper, processVars
  <2>1. CASE k = n
    BY <1>9, <2>1 DEF MemInv, MapsLive
  <2>2. CASE k # n
    <3>1. unlinked[k]
      BY <1>1, <1>2, <2>2
    <3> QED
      BY <1>9, <3>1 DEF MemInv, UnlinkedHasMapper
  <2> QED
    BY <2>1, <2>2
<1>8. pte' = pte
  BY <1>0 DEF processVars
<1>11. \A k \in Shm, e \in Directory, a \in Address :
          maps[k][e][a] > 0 => maps'[k][e][a] > 0 /\ frames'[k] = frames[k]
  BY <1>2, <1>9
<1> QED
  BY <1>3, <1>4, <1>5, <1>6, <1>7, <1>8, <1>11 DEF MemInv

LEMMA MunmapInv ==
    ASSUME MemInv, NEW d \in Directory, NEW a \in Page, NEW n \in Nat, Munmap(d, a, n)
    PROVE  /\ MemInv'
           /\ \A x \in Page : pte'[d][x] = IF x \in (a .. (a + n - 1)) \cap bitmap[d] THEN None
                                            ELSE pte[d][x]
           /\ \A e \in Directory \ {d} : pte'[e] = pte[e]
           /\ \A m \in Shm, e \in Directory, b \in Address :
                 maps[m][e][b] > 0 /\ ~(m \in FirstMappedAt(d, a) /\ e = d /\ b = a)
                    => maps'[m][e][b] > 0 /\ frames'[m] = frames[m]
<1>1. PICK hit, without, pages :
         /\ hit = FirstMappedAt(d, a)
         /\ without = [m \in Shm |-> IF m \in hit THEN [maps[m] EXCEPT ![d][a] = maps[m][d][a] - 1]
                                                 ELSE maps[m]]
         /\ pages = (a .. (a + n - 1)) \cap bitmap[d]
         /\ DestroyShm(Doomed(hit, without, unlinked), without, unlinked)
         /\ used' = (used \ FramesOfShm(Doomed(hit, without, unlinked)))
                       \ FramesOfRemoval(d, pages)
  BY DEF Munmap
<1>2. RemovePages(d, pages) /\ Running(d) /\ UNCHANGED <<status, brk, kernelVars>>
  BY <1>1 DEF Munmap
<1>3. /\ maps \in [Shm -> [Directory -> [Address -> Nat]]] /\ unlinked \in [Shm -> BOOLEAN]
      /\ a \in Address
  BY SmallNumbers DEF MemInv, MemTypeOK
<1>4. pages \in SUBSET Page
  BY <1>1 DEF MemInv, MemTypeOK
<1>5. hit \in SUBSET Shm /\ \A m \in hit : maps[m][d][a] > 0
  BY <1>1 DEF FirstMappedAt, MappedAt
<1>6. without \in [Shm -> [Directory -> [Address -> Nat]]]
  <2>1. ASSUME NEW m \in hit
        PROVE  [maps[m] EXCEPT ![d][a] = maps[m][d][a] - 1] \in [Directory -> [Address -> Nat]]
    <3>1. m \in Shm /\ maps[m][d][a] - 1 \in Nat
      BY <1>3, <1>5
    <3> QED
      BY <1>3, <3>1
  <2> QED
    BY <1>1, <1>3, <2>1
<1>7. /\ \A m \in Shm \ hit : without[m] = maps[m]
      /\ \A m \in Shm, e \in Directory, b \in Address :
            without[m][e][b] > 0 => maps[m][e][b] > 0
  <2>1. \A m \in Shm \ hit : without[m] = maps[m]
    BY <1>1
  <2>2. ASSUME NEW m \in hit, NEW e \in Directory, NEW b \in Address, without[m][e][b] > 0
        PROVE  maps[m][e][b] > 0
    <3>1. m \in Shm /\ without[m] = [maps[m] EXCEPT ![d][a] = maps[m][d][a] - 1]
      BY <1>1, <1>5
    <3>2. CASE e = d /\ b = a
      BY <1>5, <3>2
    <3>3. CASE ~(e = d /\ b = a)
      <4>1. without[m][e][b] = maps[m][e][b]
        BY <1>3, <3>1, <3>3
      <4> QED
        BY <2>2, <4>1
    <3> QED
      BY <3>2, <3>3
  <2> QED
    BY <2>1, <2>2
<1> DEFINE doomed == Doomed(hit, without, unlinked)
<1>8. DestroyShm(doomed, without, unlinked)
      /\ used' = (used \ FramesOfShm(doomed)) \ FramesOfRemoval(d, pages)
  BY <1>1
<1>9. /\ frames' \in [Shm -> Seq(Frame)]
      /\ maps' \in [Shm -> [Directory -> [Address -> Nat]]]
      /\ unlinked' \in [Shm -> BOOLEAN]
      /\ \A k \in Shm : frames'[k] = IF k \in doomed THEN <<>> ELSE frames[k]
      /\ \A k \in Shm : maps'[k] = IF k \in doomed THEN NoMaps ELSE without[k]
      /\ \A k \in Shm : unlinked'[k] => k \notin doomed /\ unlinked[k]
  <2> HIDE DEF doomed
  <2>1. NoMaps \in [Directory -> [Address -> Nat]]
    BY DEF NoMaps
  <2>2. frames' \in [Shm -> Seq(Frame)]
        /\ \A k \in Shm : frames'[k] = IF k \in doomed THEN <<>> ELSE frames[k]
    BY <1>8 DEF DestroyShm, MemInv, MemTypeOK
  <2>3. maps' \in [Shm -> [Directory -> [Address -> Nat]]]
        /\ \A k \in Shm : maps'[k] = IF k \in doomed THEN NoMaps ELSE without[k]
    BY <1>6, <1>8, <2>1 DEF DestroyShm
  <2>4. unlinked' \in [Shm -> BOOLEAN]
        /\ \A k \in Shm : unlinked'[k] => k \notin doomed /\ unlinked[k]
    BY <1>3, <1>8 DEF DestroyShm
  <2> QED
    BY <2>2, <2>3, <2>4
<1>10. /\ doomed \in SUBSET Shm
       /\ \A m \in Shm, e \in Directory, b \in Address :
             /\ maps'[m][e][b] > 0 => without[m][e][b] > 0
             /\ without[m][e][b] > 0 => maps'[m][e][b] > 0 /\ m \notin doomed
  BY <1>5, <1>9, DestroyFacts
<1>11. \A m \in hit : unlinked'[m] => \E e \in Directory, b \in Address : without[m][e][b] > 0
  BY <1>5, <1>9, SparedIsMapped, ZenonT(40)
<1> HIDE DEF doomed
<1>12. /\ pte' \in [Directory -> [Page -> Entry \cup {None}]]
       /\ pde' \in [Directory -> [Region -> Entry \cup {None}]]
       /\ bitmap' \in [Directory -> SUBSET Page]
       /\ BitmapIsPageTable'
       /\ \A x \in Page : pte'[d][x] = IF x \in pages THEN None ELSE pte[d][x]
       /\ \A e \in Directory \ {d} : pte'[e] = pte[e] /\ pde'[e] = pde[e]
  BY <1>2, <1>4, RemovalFacts
<1>13. MemTypeOK'
  BY <1>2, <1>8, <1>9, <1>12 DEF MemInv, MemTypeOK, kernelVars
<1>14. OneOwner'
  BY <1>2, <1>4, <1>8, <1>9, <1>10, RemovalOwners DEF kernelVars
<1>15. PageTablesAgree'
  BY <1>2, <1>12 DEF MemInv, PageTablesAgree, KernelViewsAgree, kernelVars
<1>16. UnusedIsEmpty'
  <2> SUFFICES ASSUME NEW e \in Directory, status[e] = "unused", NEW x \in Page
               PROVE  pte'[e][x] = None
    BY <1>2 DEF UnusedIsEmpty
  <2>1. e # d /\ pte[e][x] = None
    BY <1>2 DEF Running, MemInv, UnusedIsEmpty
  <2> QED
    BY <1>12, <2>1
<1>17. MapsLive'
  BY <1>2, <1>7, <1>10 DEF MemInv, MapsLive
<1>18. UnlinkedHasMapper'
  <2> SUFFICES ASSUME NEW k \in Shm, unlinked'[k]
               PROVE  \E e \in Directory, b \in Address : status[e] = "live" /\ maps'[k][e][b] > 0
    BY <1>2 DEF UnlinkedHasMapper
  <2>1. PICK e \in Directory, b \in Address : without[k][e][b] > 0
    <3>1. CASE k \in hit
      BY <1>11, <3>1
    <3>2. CASE k \notin hit
      <4>1. unlinked[k] /\ without[k] = maps[k]
        BY <1>7, <1>9, <3>2
      <4> QED
        BY <4>1 DEF MemInv, UnlinkedHasMapper
    <3> QED
      BY <3>1, <3>2
  <2>2. maps[k][e][b] > 0 /\ maps'[k][e][b] > 0
    BY <1>7, <1>10, <2>1
  <2> QED
    BY <2>2 DEF MemInv, MapsLive
<1>19. ASSUME NEW m \in Shm, NEW e \in Directory, NEW b \in Address,
              maps[m][e][b] > 0, ~(m \in hit /\ e = d /\ b = a)
       PROVE  maps'[m][e][b] > 0 /\ frames'[m] = frames[m]
  <2>1. without[m][e][b] = maps[m][e][b]
    <3>1. CASE m \in hit
      <4>1. without[m] = [maps[m] EXCEPT ![d][a] = maps[m][d][a] - 1]
        BY <1>1, <3>1
      <4> QED
        BY <1>3, <1>19, <3>1, <4>1
    <3>2. CASE m \notin hit
      BY <1>7, <3>2
    <3> QED
      BY <3>1, <3>2
  <2> QED
    BY <1>9, <1>10, <1>19, <2>1
<1>20. MemInv'
  BY <1>13, <1>14, <1>15, <1>16, <1>17, <1>18 DEF MemInv
<1> QED
  BY <1>1, <1>12, <1>19, <1>20

LEMMA DestroyProcessInv ==
    ASSUME MemInv, NEW d \in Directory, DestroyProcess(d)
    PROVE  /\ MemInv'
           /\ \A x \in Page : pte'[d][x] = None
           /\ \A e \in Directory \ {d} : pte'[e] = pte[e]
           /\ \A m \in Shm, e \in Directory \ {d}, b \in Address :
                 maps[m][e][b] > 0 => maps'[m][e][b] > 0 /\ frames'[m] = frames[m]
<1>1. PICK touched, without :
         /\ touched = {n \in Shm : \E a \in Address : maps[n][d][a] > 0}
         /\ without = MapsOfOthers(d)
         /\ DestroyShm(Doomed(touched, without, unlinked), without, unlinked)
         /\ used' = (used \ FramesOfShm(Doomed(touched, without, unlinked)))
                       \ FramesOfDirectory(d)
  BY DEF DestroyProcess
<1>2. /\ status' = [status EXCEPT ![d] = "stale"]
      /\ pte' = [pte EXCEPT ![d] = [x \in Page |-> None]]
      /\ pde' = [pde EXCEPT ![d] = [r \in Region |-> None]]
      /\ bitmap' = [bitmap EXCEPT ![d] = {}]
      /\ brk' = [brk EXCEPT ![d] = 0]
      /\ UNCHANGED kernelVars
  BY DEF DestroyProcess
<1>3. maps \in [Shm -> [Directory -> [Address -> Nat]]] /\ unlinked \in [Shm -> BOOLEAN]
      /\ NPages \in Nat
  BY MemoryAssumption DEF MemInv, MemTypeOK
<1>4. touched \in SUBSET Shm
  BY <1>1
<1>5. /\ without \in [Shm -> [Directory -> [Address -> Nat]]]
      /\ \A n \in Shm, a \in Address : without[n][d][a] = 0
      /\ \A n \in Shm, e \in Directory \ {d} : without[n][e] = maps[n][e]
  <2>1. NoMaps \in [Directory -> [Address -> Nat]]
        /\ \A a \in Address : NoMaps[d][a] = 0
    BY DEF NoMaps
  <2>2. without = [n \in Shm |-> [maps[n] EXCEPT ![d] = NoMaps[d]]]
    BY <1>1 DEF MapsOfOthers
  <2>3. ASSUME NEW n \in Shm
        PROVE  /\ [maps[n] EXCEPT ![d] = NoMaps[d]] \in [Directory -> [Address -> Nat]]
               /\ [maps[n] EXCEPT ![d] = NoMaps[d]][d] = NoMaps[d]
               /\ \A e \in Directory \ {d} : [maps[n] EXCEPT ![d] = NoMaps[d]][e] = maps[n][e]
    <3>1. maps[n] \in [Directory -> [Address -> Nat]] /\ NoMaps[d] \in [Address -> Nat]
      BY <1>3, <2>1
    <3> QED
      BY <3>1
  <2> QED
    BY <2>1, <2>2, <2>3
<1> DEFINE doomed == Doomed(touched, without, unlinked)
<1>6. DestroyShm(doomed, without, unlinked)
      /\ used' = (used \ FramesOfShm(doomed)) \ FramesOfDirectory(d)
  BY <1>1
<1>7. /\ frames' \in [Shm -> Seq(Frame)]
      /\ maps' \in [Shm -> [Directory -> [Address -> Nat]]]
      /\ unlinked' \in [Shm -> BOOLEAN]
      /\ \A k \in Shm : frames'[k] = IF k \in doomed THEN <<>> ELSE frames[k]
      /\ \A k \in Shm : maps'[k] = IF k \in doomed THEN NoMaps ELSE without[k]
      /\ \A k \in Shm : unlinked'[k] => k \notin doomed /\ unlinked[k]
  <2> HIDE DEF doomed
  <2>1. NoMaps \in [Directory -> [Address -> Nat]]
    BY DEF NoMaps
  <2>2. frames' \in [Shm -> Seq(Frame)]
        /\ \A k \in Shm : frames'[k] = IF k \in doomed THEN <<>> ELSE frames[k]
    BY <1>6 DEF DestroyShm, MemInv, MemTypeOK
  <2>3. maps' \in [Shm -> [Directory -> [Address -> Nat]]]
        /\ \A k \in Shm : maps'[k] = IF k \in doomed THEN NoMaps ELSE without[k]
    BY <1>5, <1>6, <2>1 DEF DestroyShm
  <2>4. unlinked' \in [Shm -> BOOLEAN]
        /\ \A k \in Shm : unlinked'[k] => k \notin doomed /\ unlinked[k]
    BY <1>3, <1>6 DEF DestroyShm
  <2> QED
    BY <2>2, <2>3, <2>4
<1>8. /\ doomed \in SUBSET Shm
      /\ \A m \in Shm, e \in Directory, b \in Address :
            /\ maps'[m][e][b] > 0 => without[m][e][b] > 0
            /\ without[m][e][b] > 0 => maps'[m][e][b] > 0 /\ m \notin doomed
  BY <1>4, <1>7, DestroyFacts
<1>9. \A m \in touched : unlinked'[m] => \E e \in Directory, b \in Address : without[m][e][b] > 0
  <2>1. \A m \in Shm : unlinked'[m] => m \notin Doomed(touched, without, unlinked) /\ unlinked[m]
    BY <1>7
  <2> QED
    BY <1>4, <2>1, SparedIsMapped
<1> HIDE DEF doomed
<1>10. /\ status' \in [Directory -> {"unused", "live", "stale"}]
       /\ bitmap' \in [Directory -> SUBSET Page]
       /\ brk' \in [Directory -> 0 .. NPages]
       /\ status'[d] = "stale" /\ bitmap'[d] = {}
       /\ \A e \in Directory \ {d} : status'[e] = status[e] /\ bitmap'[e] = bitmap[e]
  BY <1>2, <1>3 DEF MemInv, MemTypeOK
<1>11. /\ pte' \in [Directory -> [Page -> Entry \cup {None}]]
       /\ \A x \in Page : pte'[d][x] = None
       /\ \A e \in Directory \ {d} : pte'[e] = pte[e]
  BY <1>2 DEF MemInv, MemTypeOK
<1>12. /\ pde' \in [Directory -> [Region -> Entry \cup {None}]]
       /\ \A r \in Region : pde'[d][r] = None
       /\ \A e \in Directory \ {d} : pde'[e] = pde[e]
  BY <1>2 DEF MemInv, MemTypeOK
<1>13. MemTypeOK'
  BY <1>2, <1>6, <1>7, <1>10, <1>11, <1>12 DEF MemInv, MemTypeOK, kernelVars
<1>14. OneOwner'
  <2>1. PICK regions \in SUBSET Region : regions = {r \in Region : pde[d][r] # None /\ pde[d][r].owned}
    OBVIOUS
  <2>2. ASSUME NEW e \in Directory, NEW x \in Page
        PROVE  pte'[e][x] = None \/ pte'[e][x] = pte[e][x]
    <3>1. CASE e = d
      BY <1>11, <3>1
    <3>2. CASE e # d
      BY <1>11, <3>2
    <3> QED
      BY <3>1, <3>2
  <2>3. ASSUME NEW e \in Directory, NEW r \in Region
        PROVE  pde'[e][r] = None \/ pde'[e][r] = pde[e][r]
    <3>1. CASE e = d
      BY <1>12, <3>1
    <3>2. CASE e # d
      BY <1>12, <3>2
    <3> QED
      BY <3>1, <3>2
  <2>4. used' = (used \ FramesOfShm(doomed))
                   \ (OwnedFrames(d, Page) \cup TableFrames(d, regions))
    BY <1>6, <2>1 DEF FramesOfDirectory, TableFrames
  <2>5. MemTypeOK /\ OneOwner /\ kernel' = kernel /\ Page \in SUBSET Page
    BY <1>2 DEF MemInv, kernelVars
  <2>6. /\ \A x \in Page : pte'[d][x] = None
        /\ \A r \in regions : pde[d][r] # None /\ pde'[d][r] = None
        /\ \A e \in Directory, x \in Page : pte'[e][x] = None \/ pte'[e][x] = pte[e][x]
        /\ \A e \in Directory, r \in Region : pde'[e][r] = None \/ pde'[e][r] = pde[e][r]
        /\ kernel' = kernel
    BY <1>11, <1>12, <2>1, <2>2, <2>3, <2>5
  <2>7. PICK gone \in SUBSET Shm : gone = doomed
    BY <1>8
  <2>8. /\ \A k \in Shm : frames'[k] = IF k \in gone THEN <<>> ELSE frames[k]
        /\ used' = (used \ FramesOfShm(gone))
                      \ (OwnedFrames(d, Page) \cup TableFrames(d, regions))
    BY <1>7, <2>4, <2>7
  <2> QED
    BY <2>5, <2>6, <2>8, Released
<1>15. PageTablesAgree'
  <2>1. BitmapIsPageTable'
    <3> SUFFICES ASSUME NEW e \in Directory
                 PROVE  bitmap'[e] = {x \in Page : pte'[e][x] # None}
      BY DEF BitmapIsPageTable
    <3>1. bitmap[e] = {x \in Page : pte[e][x] # None}
      BY DEF MemInv, PageTablesAgree, BitmapIsPageTable
    <3>2. CASE e = d
      BY <1>10, <1>11, <3>2
    <3>3. CASE e # d
      BY <1>10, <1>11, <3>1, <3>3
    <3> QED
      BY <3>2, <3>3
  <2>2. KernelViewsAgree'
    BY <1>2, <1>10 DEF MemInv, PageTablesAgree, KernelViewsAgree, kernelVars
  <2> QED
    BY <2>1, <2>2 DEF PageTablesAgree
<1>16. UnusedIsEmpty'
  BY <1>10, <1>11 DEF MemInv, UnusedIsEmpty
<1>17. ASSUME NEW m \in Shm, NEW e \in Directory, NEW b \in Address, without[m][e][b] > 0
       PROVE  maps[m][e][b] > 0 /\ status'[e] = "live" /\ maps'[m][e][b] > 0
  <2>1. e # d
    BY <1>5, <1>17
  <2>2. maps[m][e][b] > 0
    BY <1>5, <1>17, <2>1
  <2> QED
    BY <1>8, <1>10, <1>17, <2>1, <2>2 DEF MemInv, MapsLive
<1>18. MapsLive'
  BY <1>8, <1>17 DEF MapsLive
<1>19. UnlinkedHasMapper'
  <2> SUFFICES ASSUME NEW k \in Shm, unlinked'[k]
               PROVE  \E e \in Directory, b \in Address : status'[e] = "live" /\ maps'[k][e][b] > 0
    BY DEF UnlinkedHasMapper
  <2>1. PICK e \in Directory, b \in Address : without[k][e][b] > 0
    <3>1. CASE k \in touched
      BY <1>9, <3>1
    <3>2. CASE k \notin touched
      <4>1. unlinked[k] /\ \A b \in Address : ~(maps[k][d][b] > 0)
        BY <1>1, <1>7, <3>2
      <4>2. PICK e \in Directory, b \in Address : maps[k][e][b] > 0
        BY <4>1 DEF MemInv, UnlinkedHasMapper
      <4>3. e # d
        BY <4>1, <4>2
      <4> QED
        BY <1>5, <4>2, <4>3
    <3> QED
      BY <3>1, <3>2
  <2> QED
    BY <1>17, <2>1
<1>20. ASSUME NEW m \in Shm, NEW e \in Directory \ {d}, NEW b \in Address, maps[m][e][b] > 0
       PROVE  maps'[m][e][b] > 0 /\ frames'[m] = frames[m]
  <2>1. without[m][e][b] > 0
    BY <1>5, <1>20
  <2> QED
    BY <1>7, <1>8, <2>1
<1>21. MemInv'
  BY <1>13, <1>14, <1>15, <1>16, <1>18, <1>19 DEF MemInv
<1> QED
  BY <1>11, <1>20, <1>21

-----------------------------------------------------------------------------
(* The invariant holds *)

LEMMA InitInv == Init => MemInv
<1> SUFFICES ASSUME Init PROVE MemInv
  OBVIOUS
<1>1. NPages \in Nat
  BY MemoryAssumption
<1>2. NoMaps \in [Directory -> [Address -> Nat]]
      /\ \A d \in Directory, a \in Address : NoMaps[d][a] = 0
  BY DEF NoMaps
<1>3. maps \in [Shm -> [Directory -> [Address -> Nat]]]
      /\ \A n \in Shm : maps[n] = NoMaps
  BY <1>2 DEF Init
<1>4. IsFiniteSet(kernel.pages)
  BY FS_EmptySet DEF Init
<1>5. MemTypeOK
  BY <1>1, <1>3, <1>4 DEF Init, MemTypeOK
<1>6. Claims = {}
  BY DEF Init, Claims, PageClaims, TableClaims, ShmClaims, KernelClaims
<1>7. OneOwner
  BY <1>6 DEF OneOwner
<1>8. PageTablesAgree /\ UnusedIsEmpty /\ UnlinkedHasMapper
  BY DEF Init, PageTablesAgree, BitmapIsPageTable, KernelViewsAgree, UnusedIsEmpty,
         UnlinkedHasMapper
<1>9. MapsLive
  BY <1>2, <1>3 DEF MapsLive
<1> QED
  BY <1>5, <1>7, <1>8, <1>9 DEF MemInv

LEMMA StepInv == MemInv /\ [Next]_vars => MemInv'
<1> SUFFICES ASSUME MemInv, [Next]_vars PROVE MemInv'
  OBVIOUS
<1>1. CASE UNCHANGED vars
  BY <1>1, StopsInv DEF vars, Stops, processVars, kernelVars, shmVars
<1>2. CASE KernelHeapGrows
  BY <1>2, KernelHeapInv
<1>3. CASE CreateProcess
  BY <1>3, CreateInv
<1>4. ASSUME NEW d \in Directory, Call(d) PROVE MemInv'
  <2>1. CASE DestroyProcess(d)
    BY <2>1, DestroyProcessInv
  <2>2. CASE \E n \in 1 .. MaxSbrk : SbrkGrow(d, n) \/ SbrkShrink(d, n)
    BY <2>2, GrowInv, SbrkShrinkInv
  <2>3. CASE \E n \in 1 .. MaxRequest, hint \in Page : Mmap(d, hint, n)
    BY <2>3, GrowInv
  <2>4. CASE \E n \in Shm :
               \/ ShmCreate(d, n) \/ ShmMmap(d, n) \/ ShmUnlink(d, n)
               \/ \E count \in 1 .. MaxShmPages : ShmFtruncate(d, n, count)
    BY <2>4, ShmCreateInv, ShmMmapInv, ShmUnlinkInv, ShmFtruncateInv
  <2> QED
    BY <1>4, <2>1, <2>2, <2>3, <2>4 DEF Call
<1>5. CASE \E d \in Directory, a \in Page, n \in 1 .. NPages : Munmap(d, a, n)
  BY <1>5, MunmapInv
<1> QED
  BY <1>1, <1>2, <1>3, <1>4, <1>5 DEF Next, Step

\* What the frames, page tables and shared memory objects of all processes satisfy
\* together, after any sequence of calls.
THEOREM MemoryHoldsInvariant == Spec => []MemInv
<1> QED
  BY InitInv, StepInv, PTL DEF Spec

\* vmm_acquire_page_frame_4k never hands out a frame that a page, a page table, a
\* shared memory object or the kernel heap has, and none of them is released early.
THEOREM FramesHaveOneOwner == Spec => []OneOwner
<1>1. MemInv => OneOwner
  BY DEF MemInv
<1> QED
  BY <1>1, MemoryHoldsInvariant, PTL

\* mmapped_virtual_memory and the page tables, and the kernel part of all page
\* directories, are kept alike by vmm_map_memory, vmm_unmap_memory, sbrk and
\* process_destroy.
THEOREM PageTablesStayInStep == Spec => []PageTablesAgree
<1>1. MemInv => PageTablesAgree
  BY DEF MemInv
<1> QED
  BY <1>1, MemoryHoldsInvariant, PTL

\* sharedmemory_destroy_if_suitable is called wherever the last mapping of an
\* unlinked object goes away.
THEOREM UnlinkedIsMapped == Spec => []UnlinkedHasMapper
<1>1. MemInv => UnlinkedHasMapper
  BY DEF MemInv
<1> QED
  BY <1>1, MemoryHoldsInvariant, PTL

-----------------------------------------------------------------------------
(* What a process can reach is its own *)

\* Pages that are not owned stay where they are, with their mapping, or go.
KeepsShared(d) ==
    /\ \A x \in Page :
          \/ pte'[d][x] = None \/ pte'[d][x].owned
          \/ pte'[d][x] = pte[d][x]
    /\ \A n \in Shm, v \in Page, x \in Page :
          PageOf(n, d, v, x) /\ pte'[d][x] # None => maps'[n][d][v] > 0 /\ frames'[n] = frames[n]

LEMMA SharedKept ==
    ASSUME SharedPagesMapped, torn \subseteq torn', \A d \in Directory \ torn' : KeepsShared(d)
    PROVE  SharedPagesMapped'
<1> SUFFICES ASSUME NEW d \in Directory \ torn', NEW x \in Page,
                    pte'[d][x] # None, ~pte'[d][x].owned
             PROVE  \E n \in Shm, v \in Page : PageOf(n, d, v, x)'
  BY DEF SharedPagesMapped
<1>1. KeepsShared(d) /\ d \in Directory \ torn
  OBVIOUS
<1>2. pte'[d][x] = pte[d][x]
  BY <1>1 DEF KeepsShared
<1>3. PICK n \in Shm, v \in Page : PageOf(n, d, v, x)
  BY <1>1, <1>2 DEF SharedPagesMapped
<1>4. maps'[n][d][v] > 0 /\ frames'[n] = frames[n]
  BY <1>1, <1>3 DEF KeepsShared
<1>5. PageOf(n, d, v, x)'
  BY <1>2, <1>3, <1>4 DEF PageOf
<1> QED
  BY <1>5

\* All mappings and objects stay, and what changes in the page tables is owned.
LEMMA SharedUntouched ==
    ASSUME SharedPagesMapped, torn \subseteq torn', UNCHANGED <<maps, frames>>,
           \A e \in Directory, x \in Page :
              pte'[e][x] = None \/ pte'[e][x].owned \/ pte'[e][x] = pte[e][x]
    PROVE  SharedPagesMapped'
<1>1. \A d \in Directory \ torn' : KeepsShared(d)
  BY DEF KeepsShared, PageOf
<1> QED
  BY <1>1, SharedKept

LEMMA OwnedPagesShared ==
    ASSUME MemInv, SharedPagesMapped, torn \subseteq torn', NEW d \in Directory,
           NEW pages \in SUBSET Page, NEW f, MapsOwned(d, pages, f), UNCHANGED shmVars
    PROVE  SharedPagesMapped'
<1>1. ASSUME NEW e \in Directory, NEW x \in Page
      PROVE  pte'[e][x] = None \/ pte'[e][x].owned \/ pte'[e][x] = pte[e][x]
  <2>1. CASE e = d
    <3>1. CASE pte'[d][x] = pte[d][x]
      BY <2>1, <3>1
    <3>2. CASE pte'[d][x] # pte[d][x]
      <4>1. pte'[d][x] = [frame |-> f[PageNeed(d, x)], owned |-> TRUE]
        BY <3>2, MapsOwnedFacts
      <4> QED
        BY <2>1, <4>1
    <3> QED
      BY <3>1, <3>2
  <2>2. CASE e # d
    BY <2>2, MapsOwnedFacts
  <2> QED
    BY <2>1, <2>2
<1> QED
  BY <1>1, SharedUntouched DEF shmVars

LEMMA MmapShared ==
    ASSUME MemInv, SharedPagesMapped, torn' = torn, NEW d \in Directory, NEW n \in Shm,
           ShmMmap(d, n)
    PROVE  SharedPagesMapped'
<1>1. CASE Stops
  BY <1>1, SharedUntouched DEF Stops, processVars, shmVars
<1>2. CASE MapsNothing(d, n)
  <2>1. \A m \in Shm, e \in Directory, b \in Address : maps[m][e][b] > 0 => maps'[m][e][b] > 0
    BY <1>2, MapsCounted, SmallNumbers DEF MapsNothing, processVars
  <2>2. \A e \in Directory \ torn' : KeepsShared(e)
    BY <1>2, <2>1, SmallNumbers DEF KeepsShared, PageOf, MapsNothing, processVars
  <2> QED
    BY <2>2, SharedKept
<1>3. ASSUME NEW v, NEW f, MapsShared(d, n, v, f)
      PROVE  SharedPagesMapped'
  <2> DEFINE pages == v .. (v + Len(frames[n]) - 1)
  <2>1. /\ v \in Page /\ pages \in SUBSET Page
        /\ \A x \in pages : x - v + 1 \in DOMAIN frames[n]
              /\ pte'[d][x] = [frame |-> frames[n][x - v + 1], owned |-> FALSE]
        /\ \A x \in Page \ pages : pte'[d][x] = pte[d][x]
        /\ \A e \in Directory \ {d} : pte'[e] = pte[e]
    BY <1>3, MapsSharedFacts
  <2>2. Running(d) /\ maps' = [maps EXCEPT ![n][d][v] = maps[n][d][v] + 1]
        /\ UNCHANGED <<status, unlinked, frames>>
    BY <1>3 DEF MapsShared
  <2>3. /\ \A m \in Shm, e \in Directory, b \in Address : maps[m][e][b] > 0 => maps'[m][e][b] > 0
        /\ maps'[n][d][v] > 0
    BY <2>1, <2>2, MapsCounted, SmallNumbers
  <2> HIDE DEF pages
  <2> SUFFICES ASSUME NEW e \in Directory \ torn', NEW x \in Page,
                      pte'[e][x] # None, ~pte'[e][x].owned
               PROVE  \E m \in Shm, w \in Page : PageOf(m, e, w, x)'
    BY DEF SharedPagesMapped
  <2>4. CASE e = d /\ x \in pages
    <3>0. /\ x - v + 1 \in DOMAIN frames[n] /\ frames' = frames /\ maps'[n][d][v] > 0
          /\ pte'[d][x].frame = frames[n][x - v + 1]
      <4>1. pte'[d][x] = [frame |-> frames[n][x - v + 1], owned |-> FALSE]
            /\ x - v + 1 \in DOMAIN frames[n]
        BY <2>1, <2>4
      <4>2. pte'[d][x].frame = frames[n][x - v + 1]
        BY <4>1
      <4> QED
        BY <2>2, <2>3, <4>1, <4>2
    <3>1. PageOf(n, d, v, x)'
      BY <3>0 DEF PageOf
    <3> QED
      BY <2>1, <2>4, <3>1
  <2>5. CASE ~(e = d /\ x \in pages)
    <3>1. pte'[e][x] = pte[e][x]
      BY <2>1, <2>5
    <3>2. PICK m \in Shm, w \in Page : PageOf(m, e, w, x)
      BY <3>1 DEF SharedPagesMapped
    <3>3. PageOf(m, e, w, x)'
      BY <2>2, <2>3, <3>1, <3>2, SmallNumbers DEF PageOf
    <3> QED
      BY <3>3
  <2> QED
    BY <2>4, <2>5
<1> QED
  BY <1>1, <1>2, <1>3, ShmMmapOutcomes

\* A call that drops a mapping removes its pages, if it unmaps enough.
LEMMA MunmapShared ==
    ASSUME MemInv, SharedPagesMapped, NEW d \in Directory, NEW a \in Page, NEW n \in Nat,
           Munmap(d, a, n), torn' = IF Tears(d, a, n) THEN torn \cup {d} ELSE torn
    PROVE  SharedPagesMapped'
<1>1. /\ \A x \in Page : pte'[d][x] = IF x \in (a .. (a + n - 1)) \cap bitmap[d] THEN None
                                      ELSE pte[d][x]
      /\ \A e \in Directory \ {d} : pte'[e] = pte[e]
      /\ \A m \in Shm, e \in Directory, b \in Address :
            maps[m][e][b] > 0 /\ ~(m \in FirstMappedAt(d, a) /\ e = d /\ b = a)
               => maps'[m][e][b] > 0 /\ frames'[m] = frames[m]
  BY MunmapInv
<1>2. ASSUME NEW e \in Directory \ torn', NEW x \in Page
      PROVE  pte'[e][x] = None \/ pte'[e][x] = pte[e][x]
  <2>1. CASE e = d
    BY <1>1, <2>1
  <2>2. CASE e # d
    BY <1>1, <2>2
  <2> QED
    BY <2>1, <2>2
<1>3. ASSUME NEW e \in Directory \ torn', NEW m \in Shm, NEW v \in Page, NEW x \in Page,
             PageOf(m, e, v, x), pte'[e][x] # None
      PROVE  maps'[m][e][v] > 0 /\ frames'[m] = frames[m]
  <2>1. maps[m][e][v] > 0 /\ v \in Address
    BY <1>3, SmallNumbers DEF PageOf
  <2>2. CASE m \in FirstMappedAt(d, a) /\ e = d /\ v = a
    <3>1. ~(n < Len(frames[m]))
      BY <2>2 DEF Tears
    <3>2. frames[m] \in Seq(Frame) /\ x - a + 1 \in DOMAIN frames[m]
      BY <1>3, <2>2 DEF PageOf, MemInv, MemTypeOK
    <3>3. x \in a .. (a + n - 1)
      BY <3>1, <3>2, SmallNumbers
    <3>4. pte[d][x] # None
      BY <1>2, <1>3, <2>2
    <3>5. x \in bitmap[d]
      BY <3>4 DEF MemInv, PageTablesAgree, BitmapIsPageTable
    <3>6. pte'[d][x] = None
      BY <1>1, <3>3, <3>5
    <3> QED
      BY <1>3, <2>2, <3>6
  <2>3. CASE ~(m \in FirstMappedAt(d, a) /\ e = d /\ v = a)
    BY <1>1, <2>1, <2>3
  <2> QED
    BY <2>2, <2>3
<1>4. \A e \in Directory \ torn' : KeepsShared(e)
  BY <1>2, <1>3 DEF KeepsShared
<1>5. torn \subseteq torn'
  OBVIOUS
<1> QED
  BY <1>4, <1>5, SharedKept

LEMMA CallShared ==
    ASSUME MemInv, SharedPagesMapped, torn' = torn, NEW d \in Directory, Call(d)
    PROVE  SharedPagesMapped'
<1>1. CASE Stops
  BY <1>1, SharedUntouched DEF Stops, processVars, shmVars
<1>2. CASE DestroyProcess(d)
  <2>1. /\ \A x \in Page : pte'[d][x] = None
        /\ \A e \in Directory \ {d} : pte'[e] = pte[e]
        /\ \A m \in Shm, e \in Directory \ {d}, b \in Address :
              maps[m][e][b] > 0 => maps'[m][e][b] > 0 /\ frames'[m] = frames[m]
    BY <1>2, DestroyProcessInv
  <2>2. ASSUME NEW e \in Directory PROVE KeepsShared(e)
    <3>1. CASE e = d
      BY <2>1, <3>1 DEF KeepsShared
    <3>2. CASE e # d
      BY <2>1, <3>2, SmallNumbers DEF KeepsShared, PageOf
    <3> QED
      BY <3>1, <3>2
  <2> QED
    BY <2>2, SharedKept
<1>3. ASSUME NEW pages \in SUBSET Page, NEW f, Grown(d, pages, f)
      PROVE  SharedPagesMapped'
  BY <1>3, OwnedPagesShared DEF Grown
<1>4. ASSUME NEW n \in Nat, SbrkGrow(d, n)
      PROVE  SharedPagesMapped'
  BY <1>1, <1>3, <1>4, SbrkGrowOutcomes
<1>5. ASSUME NEW n \in Nat, NEW hint \in Page, Mmap(d, hint, n)
      PROVE  SharedPagesMapped'
  BY <1>1, <1>3, <1>5, MmapOutcomes
<1>6. ASSUME NEW n \in Nat, SbrkShrink(d, n)
      PROVE  SharedPagesMapped'
  <2>1. PICK pages : pages = BreakAfter(d, n) .. (brk[d] - 1)
    OBVIOUS
  <2>2. RemovePages(d, pages) /\ UNCHANGED shmVars
    BY <1>6, <2>1 DEF SbrkShrink
  <2>3. pte' = [pte EXCEPT ![d] = PagesAfterRemoval(d, pages)]
    BY <2>2 DEF RemovePages
  <2>4. ASSUME NEW e \in Directory, NEW x \in Page
        PROVE  pte'[e][x] = None \/ pte'[e][x] = pte[e][x]
    <3>1. CASE e = d
      BY <2>3, <3>1 DEF PagesAfterRemoval, MemInv, MemTypeOK
    <3>2. CASE e # d
      BY <2>3, <3>2 DEF MemInv, MemTypeOK
    <3> QED
      BY <3>1, <3>2
  <2> QED
    BY <2>2, <2>4, SharedUntouched DEF shmVars
<1>7. ASSUME NEW n \in Shm, ShmCreate(d, n)
      PROVE  SharedPagesMapped'
  BY <1>7, SharedUntouched DEF ShmCreate, processVars
<1>8. ASSUME NEW n \in Shm, ShmUnlink(d, n)
      PROVE  SharedPagesMapped'
  <2>1. /\ pte' = pte
        /\ \A k \in Shm, e \in Directory, a \in Address :
              maps[k][e][a] > 0 => maps'[k][e][a] > 0 /\ frames'[k] = frames[k]
    BY <1>8, ShmUnlinkInv
  <2>2. \A e \in Directory \ torn' : KeepsShared(e)
    BY <2>1, SmallNumbers DEF KeepsShared, PageOf
  <2> QED
    BY <2>2, SharedKept
<1>9. ASSUME NEW n \in Shm, NEW count \in Nat, ShmFtruncate(d, n, count)
      PROVE  SharedPagesMapped'
  <2>1. CASE Panic
    BY <1>1, <2>1 DEF Panic, Stops
  <2>2. CASE ~Panic
    <3>1. /\ frames[n] = <<>> /\ UNCHANGED <<processVars, maps>>
          /\ \E s : frames' = [frames EXCEPT ![n] = s]
      BY <1>9, <2>2 DEF ShmFtruncate
    <3>2. \A m \in Shm \ {n} : frames'[m] = frames[m]
      BY <3>1 DEF MemInv, MemTypeOK
    <3>3. \A e \in Directory \ torn' : KeepsShared(e)
      BY <3>1, <3>2 DEF KeepsShared, PageOf, processVars
    <3> QED
      BY <3>3, SharedKept
  <2> QED
    BY <2>1, <2>2
<1>10. ASSUME NEW n \in Shm, ShmMmap(d, n)
       PROVE  SharedPagesMapped'
  BY <1>10, MmapShared
<1>11. 1 .. MaxSbrk \subseteq Nat /\ 1 .. MaxRequest \subseteq Nat /\ 1 .. MaxShmPages \subseteq Nat
  BY MemoryAssumption
<1> QED
  BY <1>2, <1>4, <1>5, <1>6, <1>7, <1>8, <1>9, <1>10, <1>11 DEF Call

LEMMA HistoryStepInv ==
    MemInv /\ SharedPagesMapped /\ [HistoryNext]_<<vars, torn>> => MemInv' /\ SharedPagesMapped'
<1> SUFFICES ASSUME MemInv, SharedPagesMapped, [HistoryNext]_<<vars, torn>>
             PROVE  MemInv' /\ SharedPagesMapped'
  OBVIOUS
<1>1. [Next]_vars
  BY DEF HistoryNext, Next
<1>2. MemInv'
  BY <1>1, StepInv
<1>3. SharedPagesMapped'
  <2>1. CASE UNCHANGED <<vars, torn>>
    BY <2>1, SharedUntouched DEF vars
  <2>2. CASE KernelHeapGrows /\ torn' = torn
    <3>1. UNCHANGED <<pte, maps, frames>>
      BY <2>2 DEF KernelHeapGrows, Panic, processVars, shmVars
    <3> QED
      BY <2>2, <3>1, SharedUntouched
  <2>3. CASE CreateProcess /\ torn' = torn
    <3>1. CASE Stops
      BY <2>3, <3>1, SharedUntouched DEF Stops, processVars, shmVars
    <3>2. ASSUME NEW d \in Directory, NEW f, Created(d, f)
          PROVE  SharedPagesMapped'
      BY <2>3, <3>2, OwnedPagesShared, LaunchPagesFit DEF Created
    <3> QED
      BY <2>3, <3>1, <3>2, CreateOutcomes
  <2>4. CASE (\E d \in Directory : Call(d)) /\ torn' = torn
    BY <2>4, CallShared
  <2>5. CASE \E d \in Directory, a \in Page, n \in 1 .. NPages :
               /\ Munmap(d, a, n)
               /\ torn' = IF Tears(d, a, n) THEN torn \cup {d} ELSE torn
    BY <2>5, MunmapShared
  <2> QED
    BY <2>1, <2>2, <2>3, <2>4, <2>5 DEF HistoryNext, Step
<1> QED
  BY <1>2, <1>3

LEMMA SharedIsIsolated == MemInv /\ SharedPagesMapped => Isolated
<1> SUFFICES ASSUME MemInv, SharedPagesMapped, NEW d \in Directory \ torn, NEW x \in Page,
                    pte[d][x] # None
             PROVE  /\ pte[d][x].frame \in used
                    /\ ~pte[d][x].owned =>
                          \E n \in Shm : /\ pte[d][x].frame \in Frames(n)
                                         /\ \E a \in Address : maps[n][d][a] > 0
  BY DEF Isolated
<1>1. CASE pte[d][x].owned
  <2>1. <<"page", d, x, pte[d][x].frame>> \in Claims
    BY <1>1, ClaimsNow
  <2> QED
    BY <1>1, <2>1 DEF MemInv, OneOwner
<1>2. CASE ~pte[d][x].owned
  <2>1. PICK n \in Shm, v \in Page : PageOf(n, d, v, x)
    BY <1>2 DEF SharedPagesMapped
  <2>2. maps[n][d][v] > 0 /\ v \in Address /\ pte[d][x].frame \in Frames(n)
    BY <2>1, SmallNumbers DEF PageOf, Frames
  <2>3. <<"shm", n, x - v + 1, frames[n][x - v + 1]>> \in Claims
    BY <2>1, ClaimsNow DEF PageOf
  <2>4. pte[d][x].frame \in used
    BY <2>1, <2>3 DEF PageOf, MemInv, OneOwner
  <2> QED
    BY <2>2, <2>4
<1> QED
  BY <1>1, <1>2

\* A process that never unmapped part of a shared memory object reaches only frames
\* that are its own or those of objects it has mapped: whatever sharedmemory_unlink,
\* munmap and the death of other processes release, its page table has no entry for it.
THEOREM ProcessesAreIsolated == HistorySpec => []Isolated
<1>1. HistoryInit => MemInv /\ SharedPagesMapped
  <2>1. Init => SharedPagesMapped
    BY DEF Init, SharedPagesMapped
  <2> QED
    BY <2>1, InitInv DEF HistoryInit
<1> QED
  BY <1>1, HistoryStepInv, SharedIsIsolated, PTL DEF HistorySpec
=============================================================================
