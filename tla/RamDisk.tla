------------------------------ MODULE RamDisk ------------------------------
(***************************************************************************)
(* RAM disks and the layer FatFs reaches them through (ramdisk.c, and      *)
(* disk_read, disk_write and disk_ioctl of fatfilesystem.c).  A drive is a *)
(* mounted block device.  A disk is a sequence of blocks, and a block has  *)
(* one value; the kernel's heap may leave a last part of a block, which no *)
(* request reaches.  Byte addresses are 32-bit words, so block numbers     *)
(* wrap.  Copies run in critical sections: a call is one action.           *)
(***************************************************************************)
EXTENDS Integers, Sequences, FiniteSets

CONSTANTS
    FatDrives,          \* physical drive numbers
    Disks,              \* RAM disks
    RamDiskSizes,       \* sizes given to ramdisk_create, in bytes
    RAMDISK_BLOCKSIZE,  \* 512 in the program
    ByteRange,          \* 2^32 in the program
    DiskSectors,        \* sector numbers of requests
    DiskCounts,         \* sector counts of requests
    BlockValues,
    noDisk

\* FatFs asks for the sectors of a volume that fits on a disk, so no request ends
\* beyond the last block number.
ASSUME RamDiskAssumption ==
    /\ RAMDISK_BLOCKSIZE \in Nat \ {0}
    /\ ByteRange \in Nat \ {0} /\ ByteRange % RAMDISK_BLOCKSIZE = 0
    /\ RamDiskSizes \subseteq 0..ByteRange - 1
    /\ DiskSectors \subseteq Nat /\ DiskCounts \subseteq Nat
    /\ \A sector \in DiskSectors, count \in DiskCounts :
           sector + count < ByteRange \div RAMDISK_BLOCKSIZE
    /\ noDisk \notin Disks

VARIABLES
    diskSize,       \* ramdisk->diskSize, or 0 before ramdisk_create
    blocks,         \* ramdisk->buffer
    mounted,        \* g_mounted_block_devices
    descriptor,     \* whether the current thread has a free file descriptor
    diskAnswer,     \* what the last call returned, and its buffer
    wrote           \* history: what was last written to each block of a disk

diskVars == <<diskSize, blocks, mounted, descriptor, diskAnswer, wrote>>

-----------------------------------------------------------------------------
BlocksOf(bytes) == bytes \div RAMDISK_BLOCKSIZE

ramdisk_create(d, bytes) ==
    /\ diskSize[d] = 0
    /\ diskSize' = [diskSize EXCEPT ![d] = bytes]
    /\ \E v \in BlockValues :
           /\ blocks' = [blocks EXCEPT ![d] = [b \in 0..BlocksOf(bytes) - 1 |-> v]]
           /\ wrote' = [wrote EXCEPT ![d] = [b \in 0..BlocksOf(bytes) - 1 |-> v]]
    /\ UNCHANGED <<mounted, descriptor, diskAnswer>>

\* mount and unmount of fatfilesystem.c fill and clear the entry.
SetDrive(p, d) ==
    /\ mounted' = [mounted EXCEPT ![p] = d]
    /\ UNCHANGED <<diskSize, blocks, descriptor, diskAnswer, wrote>>

\* Another call of the thread opens or closes files.
OtherOpens ==
    /\ descriptor' = ~descriptor
    /\ UNCHANGED <<diskSize, blocks, mounted, diskAnswer, wrote>>

\* The location and size of a request in bytes.
ByteAt(sector) == (sector * RAMDISK_BLOCKSIZE) % ByteRange

\* Faulty variant: only the first byte of a request is tested.
InsideFirst(d, sector, count) == ByteAt(sector) < diskSize[d]

\* The test of read_block and write_block.
Inside(d, sector, count) == (ByteAt(sector) + ByteAt(count)) % ByteRange <= diskSize[d]

\* The blocks that a request inside reaches: block numbers wrap.
Reached(sector, count) ==
    [i \in 1..count |-> (BlocksOf(ByteAt(sector)) + i - 1) % BlocksOf(ByteRange)]

\* read_block; a refused request leaves the buffer alone.
ReadBlock(d, sector, count) ==
    IF Inside(d, sector, count)
    THEN [i \in 1..count |-> IF Reached(sector, count)[i] \in DOMAIN blocks[d]
                             THEN blocks[d][Reached(sector, count)[i]] ELSE noDisk]
    ELSE [i \in 1..count |-> noDisk]

\* write_block of count blocks with one value.
WriteBlock(d, sector, count, v) ==
    IF Inside(d, sector, count)
    THEN [b \in DOMAIN blocks[d] |->
             IF \E i \in 1..count : Reached(sector, count)[i] = b THEN v ELSE blocks[d][b]]
    ELSE blocks[d]

\* disk_read: the result of read_block is not looked at.
disk_read(p, sector, count) ==
    /\ diskAnswer' =
           IF mounted[p] = noDisk THEN [call |-> "read", result |-> "RES_NOTRDY"]
           ELSE [call |-> "read", result |-> "RES_OK", disk |-> mounted[p],
                 sector |-> sector, data |-> ReadBlock(mounted[p], sector, count)]
    /\ UNCHANGED <<diskSize, blocks, mounted, descriptor, wrote>>

disk_write(p, sector, count, v) ==
    LET d == mounted[p]
    IN /\ diskAnswer' = [call |-> "write",
                         result |-> IF d = noDisk THEN "RES_NOTRDY" ELSE "RES_OK"]
       /\ IF d = noDisk THEN UNCHANGED <<blocks, wrote>>
          ELSE /\ blocks' = [blocks EXCEPT ![d] = WriteBlock(d, sector, count, v)]
               /\ wrote' = [wrote EXCEPT ![d] = [b \in DOMAIN @ |->
                                IF b \in sector..sector + count - 1
                                   /\ sector + count <= BlocksOf(diskSize[d])
                                THEN v ELSE @[b]]]
       /\ UNCHANGED <<diskSize, mounted, descriptor>>

\* disk_ioctl with GET_SECTOR_COUNT and GET_BLOCK_SIZE: the device is opened with a
\* descriptor of the current thread.  Only the first reports that this failed.
disk_ioctl(p, control) ==
    /\ diskAnswer' =
           [call |-> control,
            result |-> IF mounted[p] = noDisk \/ (control = "GET_SECTOR_COUNT" /\ ~descriptor)
                       THEN "RES_ERROR" ELSE "RES_OK",
            disk |-> mounted[p],
            value |-> CASE mounted[p] = noDisk \/ ~descriptor -> 0
                        [] control = "GET_SECTOR_COUNT" -> BlocksOf(diskSize[mounted[p]])
                        [] OTHER -> RAMDISK_BLOCKSIZE]
    /\ UNCHANGED <<diskSize, blocks, mounted, descriptor, wrote>>

RamDiskInit ==
    /\ diskSize = [d \in Disks |-> 0]
    /\ blocks = [d \in Disks |-> << >>]
    /\ mounted = [p \in FatDrives |-> noDisk]
    /\ descriptor = TRUE
    /\ diskAnswer = [call |-> "none"]
    /\ wrote = [d \in Disks |-> << >>]

RamDiskNext ==
    \/ \E d \in Disks, bytes \in RamDiskSizes : ramdisk_create(d, bytes)
    \/ \E p \in FatDrives, d \in Disks :
           diskSize[d] > 0 /\ mounted[p] = noDisk /\ SetDrive(p, d)
    \/ \E p \in FatDrives : mounted[p] # noDisk /\ SetDrive(p, noDisk)
    \/ OtherOpens
    \/ \E p \in FatDrives, sector \in DiskSectors, count \in DiskCounts :
           \/ disk_read(p, sector, count)
           \/ \E v \in BlockValues : disk_write(p, sector, count, v)
    \/ \E p \in FatDrives, control \in {"GET_SECTOR_COUNT", "GET_BLOCK_SIZE"} :
           disk_ioctl(p, control)

RamDiskSpec == RamDiskInit /\ [][RamDiskNext]_diskVars

-----------------------------------------------------------------------------
\* A block holds what was last written to it through any drive that shows its disk, and
\* every request for sectors below the count that disk_ioctl reports is served from
\* these blocks, through either of two drives that show one disk; a request that
\* goes beyond the disk changes no block.  FatFs asks for sectors of its volume only,
\* so that it never meets the wrap of a block's byte address.
BlocksKept ==
    /\ \A d \in Disks : \A b \in DOMAIN wrote[d] : blocks[d][b] = wrote[d][b]
    /\ /\ diskAnswer.call = "read" /\ diskAnswer.result = "RES_OK"
       /\ diskAnswer.sector + Len(diskAnswer.data) <= BlocksOf(diskSize[diskAnswer.disk])
       => \A i \in 1..Len(diskAnswer.data) :
                   diskAnswer.data[i] = wrote[diskAnswer.disk][diskAnswer.sector + i - 1]
    /\ diskAnswer.call = "GET_SECTOR_COUNT" /\ diskAnswer.result = "RES_OK" =>
           \A sector \in 0..diskAnswer.value - 1 :
               Inside(diskAnswer.disk, sector, diskAnswer.value - sector)
=============================================================================
