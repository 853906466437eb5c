---------------------------- MODULE ProgramBreak ----------------------------
(***************************************************************************)
(* sbrk, in bytes: how brk_end moves and which pages sbrk_page adds or     *)
(* removes for it (alloc.c).  Memory models what happens to the pages.     *)
(* Addresses are counted from brk_begin, so a negative one lies below it.  *)
(***************************************************************************)
EXTENDS Integers

CONSTANTS
    BrkPageSize,    \* PAGESIZE_4K
    Limit,          \* the last page boundary sbrk_page moves to, below MEMORY_END
    MaxBytes        \* bound on the bytes of one call

ASSUME BreakAssumption ==
    /\ BrkPageSize \in Nat \ {0}
    /\ Limit \in Nat
    /\ Limit % BrkPageSize = 0
    /\ MaxBytes \in Nat

VARIABLES
    brk_end,        \* the program break
    nextPage        \* brk_next_unallocated_page_begin

brkVars == <<brk_end, nextPage>>

-----------------------------------------------------------------------------
BrkInit == brk_end = 0 /\ nextPage = 0

\* ((bytes - 1) / PAGESIZE_4K) + 1, for bytes > 0
\* Faulty variant: rounds down.
PageCountDown(bytes) == bytes \div BrkPageSize
PageCount(bytes) == ((bytes - 1) \div BrkPageSize) + 1

\* sbrk_page: grows up to the limit, shrinks down to the beginning.
AfterGrowth(pages) ==
    IF nextPage + pages * BrkPageSize <= Limit THEN nextPage + pages * BrkPageSize ELSE Limit
AfterShrink(pages) ==
    IF nextPage - pages * BrkPageSize >= 0 THEN nextPage - pages * BrkPageSize ELSE 0

\* sbrk with n > 0.  It is refused without effect when too few frames are free.
Grow(n) ==
    LET remainingInThePage == nextPage - brk_end
    IN /\ nextPage' = IF n > remainingInThePage
                      THEN AfterGrowth(PageCount(n - remainingInThePage))
                      ELSE nextPage
       /\ brk_end' = brk_end + n

\* sbrk with -n < 0
Shrink(n) ==
    LET currentPageBegin == nextPage - BrkPageSize
        remainingInThePage == brk_end - currentPageBegin
    IN /\ nextPage' = IF n > remainingInThePage
                      THEN AfterShrink(PageCount(n - remainingInThePage))
                      ELSE nextPage
       /\ brk_end' = brk_end - n

\* A call beyond these bounds is not explored.
BrkNext ==
    \E n \in 1..MaxBytes :
        \/ brk_end + n <= Limit + MaxBytes /\ Grow(n)
        \/ brk_end - n >= 0 - MaxBytes /\ Shrink(n)

BrkSpec == BrkInit /\ [][BrkNext]_brkVars

-----------------------------------------------------------------------------
BrkTypeOK == brk_end \in Int /\ nextPage \in Int

\* Every byte below the break is in an allocated page, unless the break has reached
\* the end of user memory: the pages that shrinking gives back hold no byte that is
\* still below the break.
BreakIsBacked == brk_end <= nextPage \/ nextPage = Limit

\* Not more than one page is kept beyond the break, once the break lies at or
\* above its beginning: repeated calls do not drift away from what is in use.
NoPageWasted == brk_end >= 0 => nextPage - brk_end <= BrkPageSize
=============================================================================
