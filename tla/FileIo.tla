------------------------------- MODULE FileIo -------------------------------
(***************************************************************************)
(* Reading, writing and seeking through descriptors: the system calls      *)
(* (read, write, readv, writev, lseek, llseek, ioctl in syscalls.c), the   *)
(* dispatch to the node's functions (fs.c) and the drivers that keep a     *)
(* position: FAT files (fatfilesystem.c), the reports of /system           *)
(* (systemfs.c), the framebuffer, and the devices without one (random.c,   *)
(* null.c).  Vfs models how descriptors come and go, Fat what the bytes    *)
(* are; here a file is a size and positions in it.  Bytes are counted.     *)
(***************************************************************************)
EXTENDS Integers, Sequences, FiniteSets, SequencesExt

CONSTANTS
    FdSlots,        \* ASTERISK_MAX_OPENED_FILES
    FileKinds,      \* what open may lead to: [driver, flags, objsize]
    IoSizes,        \* byte counts of read and write
    Vectors,        \* iov_len of each part, for readv and writev
    Seeks,          \* offsets given to lseek
    FatRoom,        \* bytes a FAT file can grow to on its disk
    SeekRange,      \* 2^32 in the program
    ReportSize,     \* length of a report; at least 4
    ScreenBytes     \* width * height * 4 of the framebuffer

ASSUME FileIoAssumption ==
    /\ FdSlots \in Nat \ {0}
    /\ FatRoom \in Nat /\ SeekRange \in Nat /\ FatRoom < SeekRange
    /\ ReportSize \in Nat \ {0} /\ ScreenBytes \in Nat
    /\ \A kind \in FileKinds :
          kind \in [driver : STRING, flags : SUBSET {"READ", "WRITE"}, objsize : 0 .. FatRoom]
    /\ IoSizes \subseteq Nat /\ Vectors \subseteq Seq(Nat) /\ Seeks \subseteq Int

EBADF == -9

VARIABLES
    fd,             \* process->fd
    alive,          \* whether the thread of the reports' files still exists
    returned        \* what the last call returned

ioVars == <<fd, alive, returned>>

NoFile == [driver |-> "none"]

\* A File after fs_open and f_open.  The last two fields are history: the position
\* that follows from the results of the calls, and whether a call of several parts
\* failed behind its first one.
Opened(kind) ==
    [driver |-> kind.driver, flags |-> kind.flags, offset |-> 0, fptr |-> 0,
     objsize |-> kind.objsize, known |-> 0, cut |-> FALSE]

\* The drivers that read or write from a position on.
Positioned == {"fat", "meminfo", "thread", "fb"}

Lesser(a, b) == IF a < b THEN a ELSE b

-----------------------------------------------------------------------------
(* Drivers: what a call returns, and the file after it *)

Gives(n, file) == [n |-> n, file |-> file]

\* read of fatfilesystem.c: the offset follows the FIL, whatever f_read says.
FatRead(file, n) ==
    LET br == Lesser(n, file.objsize - file.fptr)
    IN IF "READ" \in file.flags
       THEN Gives(br, [file EXCEPT !.fptr = @ + br, !.offset = file.fptr + br])
       ELSE Gives(-1, [file EXCEPT !.offset = file.fptr])

\* write of fatfilesystem.c: a full disk makes it short.
\* Faulty variant: only reading moves the offset.
FatWriteKeepsOffset(file, n) ==
    LET bw == Lesser(n, FatRoom - file.fptr)
        end == file.fptr + bw
    IN IF "WRITE" \in file.flags
       THEN Gives(bw, [file EXCEPT !.fptr = end,
                                   !.objsize = IF end > @ THEN end ELSE @])
       ELSE Gives(-1, file)
FatWrite(file, n) ==
    LET bw == Lesser(n, FatRoom - file.fptr)
        end == file.fptr + bw
    IN IF "WRITE" \in file.flags
       THEN Gives(bw, [file EXCEPT !.fptr = end, !.offset = end,
                                   !.objsize = IF end > @ THEN end ELSE @])
       ELSE Gives(-1, [file EXCEPT !.offset = file.fptr])

\* f_lseek: clipped to the size, or as far as the disk lets the file grow.
FLseekTo(file, to) ==
    LET end == Lesser(to, IF "WRITE" \in file.flags THEN FatRoom ELSE file.objsize)
    IN [file EXCEPT !.fptr = end, !.objsize = IF end > @ THEN end ELSE @]

\* lseek of fatfilesystem.c: places are 32-bit words, so one before the beginning is
\* far behind the end.
FatLseek(file, offset, whence) ==
    LET from == CASE whence = "SEEK_SET" -> 0
                  [] whence = "SEEK_CUR" -> file.fptr
                  [] whence = "SEEK_END" -> file.objsize
                  [] OTHER -> 0
        moved == FLseekTo(file, (from + offset) % SeekRange)
    IN IF whence \in {"SEEK_SET", "SEEK_CUR", "SEEK_END"}
       THEN Gives(moved.fptr, [moved EXCEPT !.offset = moved.fptr])
       ELSE Gives(-1, file)

\* systemfs_read_meminfo_totalpages and _usedpages, systemfs_read_thread_file: the
\* whole report at once, at position 0.
ReportRead(file, n, least, there) ==
    CASE n >= least /\ file.offset = 0 /\ there ->
            Gives(ReportSize, [file EXCEPT !.offset = ReportSize])
      [] n >= least /\ file.offset # 0 -> Gives(0, file)
      [] OTHER -> Gives(-1, file)

\* random_read: as much as the number has, with no position.
RandomRead(file, n) ==
    Gives(CASE n >= 4 -> 4 [] n \in {2, 3} -> 2 [] OTHER -> n, file)

\* fb_write
FbWriteBytes(file, n) ==
    LET available == ScreenBytes - file.offset
        written == Lesser(n, available)
    IN CASE n = 0 -> Gives(0, file)
         [] n > 0 /\ available <= 0 -> Gives(-1, file)
         [] OTHER -> Gives(written, [file EXCEPT !.offset = @ + written])

\* fs_read and fs_write: -1 without a function.  A report on a thread wants room for
\* 128 bytes, which stand for 8 here.
FsRead(file, n) ==
    CASE file.driver = "fat" -> FatRead(file, n)
      [] file.driver = "meminfo" -> ReportRead(file, n, 4, TRUE)
      [] file.driver = "thread" -> ReportRead(file, n, 8, alive)
      [] file.driver = "random" -> RandomRead(file, n)
      [] file.driver = "fb" /\ n = 0 -> Gives(0, file)
      [] OTHER -> Gives(-1, file)

FsWrite(file, n) ==
    CASE file.driver = "fat" -> FatWrite(file, n)
      [] file.driver = "fb" -> FbWriteBytes(file, n)
      [] OTHER -> Gives(-1, file)

\* fs_lseek and fs_ioctl: 0 without a function, and nothing moves.
FsLseek(file, offset, whence) ==
    IF file.driver = "fat" THEN FatLseek(file, offset, whence) ELSE Gives(0, file)

FsIoctl(file, request) ==
    IF file.driver # "fb" THEN 0
    ELSE CASE request = "FB_GET_WIDTH" -> ScreenBytes \div 4
           [] request = "FB_GET_HEIGHT" -> 1
           [] request = "FB_GET_BITSPERPIXEL" -> 32
           [] OTHER -> -1

-----------------------------------------------------------------------------
(* System calls *)

IsOpen(i) == i < FdSlots /\ fd[i] # NoFile

\* The end of a call that moved the file by what it returns.
Moves(i, done) ==
    /\ fd' = [fd EXCEPT ![i] = [done.file EXCEPT
                 !.known = IF done.n > 0 /\ fd[i].driver \in Positioned
                           THEN @ + done.n ELSE @]]
    /\ returned' = done.n
    /\ UNCHANGED alive

Refused == returned' = EBADF /\ UNCHANGED <<fd, alive>>

syscall_read(i, n) == IF IsOpen(i) THEN Moves(i, FsRead(fd[i], n)) ELSE Refused

syscall_write(i, n) == IF IsOpen(i) THEN Moves(i, FsWrite(fd[i], n)) ELSE Refused

\* The loop of readv and writev: one call for each part that is not empty, up to the
\* first that fails.  done is what the call for this part gives.
Part(s, n, done) ==
    IF s.n < 0 \/ n = 0 THEN s
    ELSE IF done.n < 0
         THEN Gives(done.n, [done.file EXCEPT !.cut = s.n > 0 \/ @])
         ELSE Gives(s.n + done.n, done.file)

syscall_readv(i, lengths) ==
    LET Done[k \in 0 .. Len(lengths)] ==
            IF k = 0 THEN Gives(0, fd[i])
            ELSE Part(Done[k - 1], lengths[k], FsRead(Done[k - 1].file, lengths[k]))
    IN
    IF IsOpen(i)
    THEN Moves(i, Done[Len(lengths)])
    ELSE /\ returned' = IF \E k \in DOMAIN lengths : lengths[k] > 0 THEN EBADF ELSE 0
         /\ UNCHANGED <<fd, alive>>

syscall_writev(i, lengths) ==
    LET Done[k \in 0 .. Len(lengths)] ==
            IF k = 0 THEN Gives(0, fd[i])
            ELSE Part(Done[k - 1], lengths[k], FsWrite(Done[k - 1].file, lengths[k]))
    IN
    IF IsOpen(i)
    THEN Moves(i, Done[Len(lengths)])
    ELSE /\ returned' = IF \E k \in DOMAIN lengths : lengths[k] > 0 THEN EBADF ELSE 0
         /\ UNCHANGED <<fd, alive>>

\* A result of lseek is the new position.
Placed(i, done, result) ==
    /\ fd' = [fd EXCEPT ![i] = [done.file EXCEPT
                 !.known = IF done.n >= 0 /\ fd[i].driver = "fat" THEN done.n ELSE @,
                 !.cut = @ /\ ~(done.n >= 0 /\ fd[i].driver = "fat")]]
    /\ returned' = result
    /\ UNCHANGED alive

syscall_lseek(i, offset, whence) ==
    LET done == FsLseek(fd[i], offset, whence)
    IN IF IsOpen(i) THEN Placed(i, done, done.n) ELSE Refused

\* syscall_llseek: only 32-bit offsets.  It returns 0, the position goes to *result.
syscall_llseek(i, high, offset, whence) ==
    LET done == FsLseek(fd[i], offset, whence)
    IN IF high # 0 THEN returned' = -1 /\ UNCHANGED <<fd, alive>>
       ELSE IF IsOpen(i) THEN Placed(i, done, Lesser(done.n, 0)) ELSE Refused

syscall_ioctl(i, request) ==
    /\ returned' = IF IsOpen(i) THEN FsIoctl(fd[i], request) ELSE EBADF
    /\ UNCHANGED <<fd, alive>>

\* External: syscall_open and syscall_close, which Vfs models.
OpenFd(i, kind) ==
    /\ fd[i] = NoFile
    /\ fd' = [fd EXCEPT ![i] = Opened(kind)]
    /\ UNCHANGED <<alive, returned>>

ReleaseFd(i) ==
    /\ fd[i] # NoFile
    /\ fd' = [fd EXCEPT ![i] = NoFile]
    /\ UNCHANGED <<alive, returned>>

ThreadEnds == alive /\ alive' = FALSE /\ UNCHANGED <<fd, returned>>

FileIoInit ==
    /\ fd = [i \in 0..FdSlots - 1 |-> NoFile]
    /\ alive = TRUE
    /\ returned = 0

FileIoNext ==
    \/ \E i \in 0..FdSlots - 1 : ReleaseFd(i) \/ \E kind \in FileKinds : OpenFd(i, kind)
    \/ \E i \in 0..FdSlots, n \in IoSizes : syscall_read(i, n) \/ syscall_write(i, n)
    \/ \E i \in 0..FdSlots, v \in Vectors : syscall_readv(i, v) \/ syscall_writev(i, v)
    \/ \E i \in 0..FdSlots, to \in Seeks,
          whence \in {"SEEK_SET", "SEEK_CUR", "SEEK_END", "SEEK_DATA"} :
          \/ syscall_lseek(i, to, whence)
          \/ \E high \in {0, 1} : syscall_llseek(i, high, to, whence)
    \/ \E i \in 0..FdSlots,
          request \in {"FB_GET_WIDTH", "FB_GET_HEIGHT", "FB_GET_BITSPERPIXEL", "TCGETS"} :
          syscall_ioctl(i, request)
    \/ ThreadEnds

FileIoSpec == FileIoInit /\ [][FileIoNext]_ioVars

-----------------------------------------------------------------------------
\* A program that adds up the results of its calls knows where it is in each file: the
\* File and the FIL agree with it after any sequence of reads, writes, vectors and seeks,
\* short or failed ones and seeks past either end included.  The exception is a vector
\* that failed behind its first part, whose earlier parts are not reported.
PositionsFollow ==
    \A i \in 0..FdSlots - 1 :
        /\ fd[i].driver = "fat" =>
               fd[i].offset = fd[i].fptr /\ fd[i].fptr <= fd[i].objsize
        /\ fd[i].driver \in Positioned /\ ~fd[i].cut =>
               fd[i].known = fd[i].offset
=============================================================================
