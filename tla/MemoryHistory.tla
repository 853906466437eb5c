--------------------------- MODULE MemoryHistory ---------------------------
(***************************************************************************)
(* Memory with a variable that remembers which processes have unmapped     *)
(* only part of a shared memory object from its first page on.             *)
(* sharedmemory_unmap_if_exists then drops the MapInfo of the whole        *)
(* object, and nothing keeps its frames for the remaining pages.           *)
(***************************************************************************)
EXTENDS Memory

VARIABLE torn

HistoryInit == Init /\ torn = {}

\* The object whose MapInfo the call drops has more pages than it unmaps.
Tears(d, a, n) == \E m \in FirstMappedAt(d, a) : n < Len(frames[m])

HistoryNext ==
    \/ Step /\ UNCHANGED torn
    \/ \E d \in Directory, a \in Page, n \in 1..NPages :
        /\ Munmap(d, a, n)
        /\ torn' = IF Tears(d, a, n) THEN torn \cup {d} ELSE torn
HistorySpec == HistoryInit /\ [][HistoryNext]_<<vars, torn>>

\* What a process can reach is its own: a page of a living process refers to a
\* frame that is in use, and if another process, a table, the kernel or a shared
\* object has the same frame, it is a shared object the process has mapped.  Only
\* a process that unmapped part of a shared object is excepted.
Isolated ==
    \A d \in Directory \ torn : \A x \in Page : pte[d][x] # None =>
        /\ pte[d][x].frame \in used
        /\ ~pte[d][x].owned =>
              \E n \in Shm : /\ pte[d][x].frame \in Frames(n)
                             /\ \E a \in Address : maps[n][d][a] > 0
=============================================================================
