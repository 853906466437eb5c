------------------------------- MODULE Loader -------------------------------
(***************************************************************************)
(* How a process gets its first memory: process_create_ex moves the break  *)
(* over the image, maps a stack and an argument block, copies argv, envp   *)
(* and the auxiliary vector into the block, and loads the ELF segments     *)
(* (process.c, elf.c).  Memory is the user part of one address space, byte *)
(* by byte, where an address may be unmapped.  A new page frame keeps the  *)
(* bytes it had, so its contents are any fill.  Frames suffice.  The last  *)
(* section is what a program reads of it.                                  *)
(***************************************************************************)
EXTENDS Integers, Sequences, FiniteSets, SequencesExt, FiniteSetsExt

CONSTANTS
    WordBytes,      \* sizeof(char*), 4 in the program
    FramePage,      \* PAGESIZE_4K
    USER_OFFSET,
    USER_STACK,
    MEMORY_END,
    StackPages,     \* stack_page_count, 50 in the program
    AUX_CNT,
    Programs,       \* ELF files: [magic, entry, segments]
    StringLists,    \* argument and environment arrays without their last NULL
    Fills           \* bytes a new page frame may hold

\* The range of a 32-bit address, scaled with sizeof(char*).
AddressRange == 256 ^ WordBytes

ASSUME LoaderAssumption ==
    /\ WordBytes \in Nat \ {0} /\ FramePage \in Nat \ {0} /\ StackPages \in Nat \ {0}
    /\ AUX_CNT \in 18..MEMORY_END
    /\ \A a \in {USER_OFFSET, USER_STACK, MEMORY_END} : a % FramePage = 0
    /\ USER_OFFSET < USER_STACK - StackPages * FramePage
    /\ USER_STACK < MEMORY_END - FramePage /\ MEMORY_END < AddressRange

VARIABLES
    created,        \* the last call: its arguments, and what it returned
    image,          \* the new address space: the byte at each address, or Unmapped
    registers       \* regs.eip and regs.esp of the new thread

loaderVars == <<created, image, registers>>

-----------------------------------------------------------------------------
(* Address spaces *)

UserBytes == USER_OFFSET..MEMORY_END - 1
UserPages == USER_OFFSET \div FramePage..(MEMORY_END \div FramePage) - 1
Unmapped == -1

\* An address space without pages.  It also stands for one whose creation faulted,
\* which ends the call: the page fault handler signals the thread that makes it.
NoSpace == [a \in UserBytes |-> Unmapped]

Mapped(m, addresses) ==
    addresses \subseteq UserBytes /\ \A a \in addresses : m[a] # Unmapped

\* vmm_add_page_to_pd for each page: the frame shows what was left in it.
AddPages(m, pages, fill) ==
    [a \in UserBytes |-> IF a \div FramePage \in pages THEN fill ELSE m[a]]

\* vmm_map_memory: the first run of unused pages at or behind the address asked for.
vmm_map_memory(m, address, count, fill) ==
    LET free == {p \in UserPages : p >= address \div FramePage /\ m[p * FramePage] = Unmapped}
        runs == {p \in free : p..p + count - 1 \subseteq free}
    IN IF runs = {} THEN m ELSE AddPages(m, Min(runs)..Min(runs) + count - 1, fill)

\* initialize_program_break: sbrk takes the size as an int, and moves up to the last
\* page below MEMORY_END - PAGESIZE_4K.
initialize_program_break(size, fill) ==
    LET pages == IF size < AddressRange \div 2 THEN ((size - 1) \div FramePage) + 1 ELSE 0
        first == USER_OFFSET \div FramePage
    IN AddPages(NoSpace, {p \in first..first + pages - 1 :
                              (p + 1) * FramePage <= MEMORY_END - FramePage}, fill)

\* A write of some bytes, of which every one must be mapped.
Store(m, write) ==
    LET to == write.at..write.at + Len(write.bytes) - 1
    IN IF Mapped(m, to)
       THEN [a \in UserBytes |-> IF a \in to THEN write.bytes[a - write.at + 1] ELSE m[a]]
       ELSE NoSpace

StoreAll(m, writes) == FoldLeft(Store, m, writes)

\* A word in memory, least byte first.
BytesOf(word) == [i \in 1..WordBytes |-> (word \div 256 ^ (i - 1)) % 256]
WordAt(m, a) == MapThenSumSet(LAMBDA i : m[a + i] * 256 ^ i, 0..WordBytes - 1)

-----------------------------------------------------------------------------
(* The ELF file *)

\* Segment ends wrap around the address space.
SegmentEnd(segment) == (segment.vaddr + segment.memsz) % AddressRange

Loadable(file) == SelectSeq(file.segments, LAMBDA s : s.type = "PT_LOAD")

elf_get_end_in_memory(file) ==
    IF file.magic THEN Max({0} \cup {SegmentEnd(s) : s \in Range(Loadable(file))}) ELSE 0

\* elf_load skips what lies outside.
LoadsHere(segment) == segment.vaddr >= USER_OFFSET /\ SegmentEnd(segment) <= USER_STACK

\* memcpy of the bytes in the file, then a loop for the rest of the segment.
\* Faulty variant: trusts new page frames to be empty.
SegmentWritesUnfilled(segment) == << [at |-> segment.vaddr, bytes |-> segment.bytes] >>
SegmentWrites(segment) ==
    << [at |-> segment.vaddr, bytes |-> segment.bytes],
       [at |-> segment.vaddr + Len(segment.bytes),
        bytes |-> [i \in 1..segment.memsz - Len(segment.bytes) |-> 0]] >>

elf_load(m, file) ==
    StoreAll(m, FlattenSeq([i \in DOMAIN SelectSeq(Loadable(file), LoadsHere) |->
                               SegmentWrites(SelectSeq(Loadable(file), LoadsHere)[i])]))

-----------------------------------------------------------------------------
(* The argument block *)

AT_NULL == 0
AT_PAGESZ == 6
AT_ENTRY == 9
AT_CLKTCK == 17
AT_SECURE == 23
AT_HWCAP2 == 26
AuxBytes == AUX_CNT * 2 * WordBytes

\* The types and values of the entries, in order.
AuxEntries(file) ==
    LET valueOf(type) == CASE type = AT_PAGESZ -> FramePage
                           [] type = AT_ENTRY -> file.entry
                           [] type = AT_CLKTCK -> 100
                           [] OTHER -> 0
        types == <<AT_HWCAP2>> \o [t \in 1..14 |-> t] \o <<AT_CLKTCK, AT_SECURE, AT_NULL>>
    IN [i \in DOMAIN types |-> <<types[i], valueOf(types[i])>>]

\* memset of the whole vector, then the entries.
fill_auxilary_vector(location, file) ==
    << [at |-> location, bytes |-> [i \in 1..AuxBytes |-> 0]] >>
    \o [i \in DOMAIN AuxEntries(file) |->
           [at |-> location + 2 * WordBytes * (i - 1),
            bytes |-> BytesOf(AuxEntries(file)[i][1]) \o BytesOf(AuxEntries(file)[i][2])]]

\* Where string i of the table is: each takes its length, its 0 and one byte more.
StringTable(location, strings) ==
    location + WordBytes * (Len(strings) + 3) + AuxBytes
StringAt(location, strings, i) ==
    StringTable(location, strings)
    + FoldLeft(LAMBDA sum, s : sum + Len(s) + 2, 0, SubSeq(strings, 1, i - 1))

\* strcpy into the table and the pointer to it, for one string; index is its place
\* among the pointers, counted from 0.
StringWrites(location, strings, i, index) ==
    << [at |-> StringAt(location, strings, i), bytes |-> Append(strings[i], 0)],
       [at |-> location + WordBytes * index,
        bytes |-> BytesOf(StringAt(location, strings, i))] >>

\* argv, NULL, envp, NULL, the auxiliary vector, and behind them the strings.
copy_argv_env_to_process(location, file, argv, envp) ==
    LET strings == argv \o envp
        null(index) == << [at |-> location + WordBytes * index, bytes |-> BytesOf(0)] >>
    IN FlattenSeq([i \in DOMAIN argv |-> StringWrites(location, strings, i, i - 1)])
       \o null(Len(argv))
       \o FlattenSeq([i \in DOMAIN envp |->
              StringWrites(location, strings, Len(argv) + i, Len(argv) + i)])
       \o null(Len(strings) + 1)
       \o fill_auxilary_vector(location + WordBytes * (Len(strings) + 2), file)

-----------------------------------------------------------------------------
\* The address space process_create_ex leaves: break, stack, block, segments.
AddressSpace(file, argv, envp, fill) ==
    LET broken == initialize_program_break(elf_get_end_in_memory(file) - USER_OFFSET, fill)
        stacked == vmm_map_memory(broken, USER_STACK - FramePage * StackPages,
                                  StackPages, fill)
        blocked == vmm_map_memory(stacked, USER_STACK, 1, fill)
        copied == IF blocked = stacked THEN blocked
                  ELSE StoreAll(blocked,
                           copy_argv_env_to_process(USER_STACK, file, argv, envp))
    IN IF copied = NoSpace THEN NoSpace ELSE elf_load(copied, file)

\* process_create_ex with an image that ends at or below USER_OFFSET fails before
\* anything is made.
process_create_ex(file, argv, envp, fill) ==
    LET refused == elf_get_end_in_memory(file) <= USER_OFFSET
        space == IF refused THEN NoSpace ELSE AddressSpace(file, argv, envp, fill)
    IN /\ created' = [result |-> IF refused THEN "NULL"
                                 ELSE IF space = NoSpace THEN "fault" ELSE "process",
                      file |-> file, argv |-> argv, envp |-> envp]
       /\ image' = space
       /\ registers' = IF refused THEN registers
                       ELSE [eip |-> file.entry, esp |-> USER_STACK - WordBytes]

LoaderInit ==
    /\ created = [result |-> "none"]
    /\ image = NoSpace
    /\ registers = [eip |-> 0, esp |-> 0]

\* One creation per behaviour: a call depends on nothing an earlier one left.
LoaderNext ==
    /\ created.result = "none"
    /\ \E file \in Programs, argv, envp \in StringLists, fill \in Fills :
           process_create_ex(file, argv, envp, fill)

-----------------------------------------------------------------------------
(* What the program reads *)

\* The string at an address.
CString(a) ==
    LET end == Min({b \in UserBytes : b >= a /\ image[b] = 0})
    IN [i \in 1..end - a |-> image[a + i - 1]]

\* The strings the pointers from a on lead to, up to a NULL.
StringsFrom(a) ==
    LET count == Min({n \in 0..FramePage \div WordBytes - 1 :
                         WordAt(image, a + WordBytes * n) = 0})
    IN [i \in 1..count |-> CString(WordAt(image, a + WordBytes * (i - 1)))]

\* The entries of the vector at a, up to AT_NULL.
Vector(a) ==
    LET type(n) == WordAt(image, a + 2 * WordBytes * n)
        count == Min({n \in 0..AUX_CNT : type(n) = AT_NULL})
    IN {<<type(n), WordAt(image, a + (2 * n + 1) * WordBytes)>> : n \in 0..count - 1}

\* Bytes from USER_STACK to the end of the last string.
ArgumentBytes(strings) ==
    IF strings = <<>> THEN StringTable(0, strings)
    ELSE StringAt(0, strings, Len(strings)) + Len(Last(strings)) + 1

\* The segment elf_load wrote last at an address.
LastSegmentAt(a, segments) ==
    Max({i \in DOMAIN segments : a \in segments[i].vaddr..SegmentEnd(segments[i]) - 1})

\* A new process finds what its creator gave it, whatever its page frames held before:
\* the block at USER_STACK reads back as the arguments, the environment and a vector
\* with the entry point and the page size; every segment that is loaded has its bytes
\* and is zero behind them; the stack below USER_STACK is mapped down to the image or
\* to its full size; and creation faults only when the block is larger than its page.
ProgramStarts ==
    LET strings == created.argv \o created.envp
        segments == SelectSeq(Loadable(created.file), LoadsHere)
        byte(s, a) == IF a < s.vaddr + Len(s.bytes) THEN s.bytes[a - s.vaddr + 1] ELSE 0
        imageEnd == elf_get_end_in_memory(created.file)
    IN /\ created.result = "fault" => ArgumentBytes(strings) > FramePage
       /\ created.result = "process" =>
              LET envAt == USER_STACK + WordBytes * (Len(created.argv) + 1)
                  auxAt == envAt + WordBytes * (Len(created.envp) + 1)
              IN /\ StringsFrom(USER_STACK) = created.argv
                 /\ StringsFrom(envAt) = created.envp
                 /\ {<<AT_ENTRY, registers.eip>>, <<AT_PAGESZ, FramePage>>}
                        \subseteq Vector(auxAt)
                 /\ registers.eip = created.file.entry
                 /\ \A a \in UNION {s.vaddr..SegmentEnd(s) - 1 : s \in Range(segments)} :
                        image[a] = byte(segments[LastSegmentAt(a, segments)], a)
                 /\ Mapped(image, Max({imageEnd, USER_STACK - StackPages * FramePage})
                                      ..USER_STACK - 1)
=============================================================================
