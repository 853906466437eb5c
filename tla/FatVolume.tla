------------------------------ MODULE FatVolume ------------------------------
(***************************************************************************)
(* How fatfs_ff.c lays out a FAT volume (f_mkfs) and how it finds one on a *)
(* disk (f_mount, find_volume).  A sector that matters here is a boot      *)
(* record; every other sector is none.  Lengths are in sectors of SS       *)
(* bytes, and the limits are those of the code.                            *)
(***************************************************************************)
EXTENDS Integers, Sequences

CONSTANTS
    Drives,         \* logical drives, each a block device of its own
    DiskSizes,      \* sectors a device may have
    Boots,          \* boot records a device may hold at address 0 at first
    sz_blk,         \* what disk_ioctl answers to GET_BLOCK_SIZE
    MkfsOptions,    \* subsets of {"FAT", "FAT32", "SFD"}
    Units,          \* au: allocation unit in sectors, 0 to choose one
    unset           \* no record, no volume

SS == 512
EntriesPerSector == 16      \* SS / SZDIRE
MAX_FAT12 == 4085
MAX_FAT16 == 65525
MAX_FAT32 == 268435445
FirstTrack == 63            \* where the partition of f_mkfs starts

\* A boot sector: a FAT volume's, with its fields, or a partition table.  fatSz
\* and totSec are the 16-bit fields or, if those are 0, the 32-bit ones; the
\* FATs together have fewer than 2^32 sectors.
IsRecord(r) ==
    \/ r = unset
    \/ /\ r.fat = FALSE
       /\ r.partitions \in [1 .. 4 -> {0, FirstTrack}]
    \/ /\ r.fat = TRUE
       /\ r.rsvd \in Nat
       /\ r.fatSz \in Nat
       /\ r.rootEnt \in Nat
       /\ r.totSec \in Nat

PowersOfTwo == {1, 2, 4, 8, 16, 32, 64, 128}

\* The allocation units and erase blocks that f_mkfs takes: at most 32768 sectors.
Blocks == PowersOfTwo \cup {256, 512, 1024, 2048, 4096, 8192, 16384, 32768}

\* What unset is different from: boot records that f_mkfs writes and parts of volumes.
PartitionTable == [fat |-> FALSE, partitions |-> <<FirstTrack, 0, 0, 0>>]
MadeRecords ==
    {PartitionTable} \cup
    [fat : {TRUE}, partitions : {<<0, 0, 0, 0>>}, bytsPerSec : {SS}, fatSz : Nat,
     numFats : {1}, secPerClus : Nat, rootEnt : {0, 512}, totSec : Nat, rsvd : Nat,
     rootClus : {2}, freeCount : Int]
Layouts ==
    [fs_type : {"FAT12", "FAT16", "FAT32"}, volbase : Nat, volend : Nat, fatbase : Nat,
     fsize : Nat, n_fats : Nat, n_rootdir : Nat, dirbase : Nat, database : Nat,
     csize : Nat, n_fatent : Nat, free_clst : Int \cup {unset}]

ASSUME VolumeAssumption ==
    /\ DiskSizes \subseteq Nat
    /\ sz_blk \in Nat \ {0}
    /\ MkfsOptions \subseteq SUBSET {"FAT", "FAT32", "SFD"}
    /\ Units \subseteq {0} \cup Blocks
    /\ \A r \in Boots : IsRecord(r)
    /\ unset \notin Nat /\ unset \notin MadeRecords /\ unset \notin Layouts

VARIABLES
    size,       \* size[d]: sectors of the device
    boot,       \* boot[d][s]: the boot record in sector s \in {0, 63}
    volume,     \* volume[d]: the parts of the mounted volume, or unset
    made        \* made[d]: what the last f_mkfs that answered FR_OK decided

volVars == <<size, boot, volume, made>>

CeilDiv(a, b) == (a + b - 1) \div b

-----------------------------------------------------------------------------
(* Mounting *)

\* check_fs: 0 for a FAT boot record, 2 for another one, 3 for none.
CheckFs(r) ==
    IF r = unset THEN 3 ELSE IF r.fat THEN 0 ELSE 2

\* The partitions that hold a FAT volume.
FatPartitions(records) ==
    {i \in 1 .. 4 : LET s == records[0].partitions[i]
                    IN  s # 0 /\ CheckFs(records[s]) = 0}

FirstPartition(records) ==
    CHOOSE i \in FatPartitions(records) :
       \A j \in FatPartitions(records) : i <= j

\* Where find_volume finds the volume: in sector 0, or in the first partition
\* that has one.
VolumeStart(records) ==
    IF CheckFs(records[0]) = 0 THEN 0
    ELSE IF CheckFs(records[0]) = 3 \/ FatPartitions(records) = {} THEN unset
    ELSE records[0].partitions[FirstPartition(records)]

FatType(nclst) ==
    CASE nclst <= MAX_FAT12 -> "FAT12"
      [] nclst > MAX_FAT12 /\ nclst <= MAX_FAT16 -> "FAT16"
      [] nclst > MAX_FAT16 -> "FAT32"

\* Bytes that n entries take in the FAT.
EntryBytes(type, n) ==
    CASE type = "FAT32" -> n * 4
      [] type = "FAT16" -> n * 2
      [] type = "FAT12" -> ((n * 3) \div 2) + (n % 2)

\* Sectors before the clusters of a boot record.
SystemSectors(r) == r.rsvd + r.fatSz * r.numFats + r.rootEnt \div EntriesPerSector

ClusterTotal(r) == (r.totSec - SystemSectors(r)) \div r.secPerClus

\* Faulty variant: the FAT may be smaller than its entries.
FatHoldsAny(r) == TRUE

\* BPB_FATSz must not be less than the size needed.
FatHolds(r) ==
    r.fatSz >= CeilDiv(EntryBytes(FatType(ClusterTotal(r)), ClusterTotal(r) + 2),
                       SS)

\* The checks of find_volume on a boot record.
Acceptable(r) ==
    /\ r.bytsPerSec = SS
    /\ r.numFats \in {1, 2}
    /\ r.secPerClus \in PowersOfTwo
    /\ r.rootEnt % EntriesPerSector = 0
    /\ r.rsvd # 0
    /\ r.totSec >= SystemSectors(r)
    /\ ClusterTotal(r) # 0
    /\ ClusterTotal(r) <= MAX_FAT32
    /\ (r.rootEnt = 0) <=> (FatType(ClusterTotal(r)) = "FAT32")
    /\ FatHolds(r)

\* The end of find_volume: the parts of the volume at sector start.
Layout(r, start) ==
    LET type == FatType(ClusterTotal(r))
    IN  [fs_type |-> type,
         volbase |-> start,
         volend |-> start + r.totSec,
         fatbase |-> start + r.rsvd,
         fsize |-> r.fatSz,
         n_fats |-> r.numFats,
         n_rootdir |-> r.rootEnt,
         dirbase |-> IF type = "FAT32" THEN r.rootClus
                     ELSE start + r.rsvd + r.fatSz * r.numFats,
         database |-> start + SystemSectors(r),
         csize |-> r.secPerClus,
         n_fatent |-> ClusterTotal(r) + 2,
         free_clst |-> IF type = "FAT32" THEN r.freeCount ELSE unset]

\* find_volume on a drive that is not mounted.
FindVolume(records) ==
    LET start == VolumeStart(records)
    IN  IF start = unset THEN unset
        ELSE IF Acceptable(records[start]) THEN Layout(records[start], start)
        ELSE unset

-----------------------------------------------------------------------------
(* Formatting *)

\* The allocation unit that f_mkfs takes if the caller leaves it open: by the
\* first entry of the table that is above the size.
UnitFrom(table, n) ==
    LET above == {i \in 1 .. 6 : n < table[i]}
    IN  IF above = {} THEN 64
        ELSE <<1, 2, 4, 8, 16, 32>>[CHOOSE i \in above :
                                        \A j \in above : i <= j]

DefaultUnit(fmt, sz_vol) ==
    IF fmt = "FAT32" THEN UnitFrom(<<1, 2, 4, 8, 16, 32>>, sz_vol \div 131072)
    ELSE UnitFrom(<<1, 4, 16, 64, 256, 512>>, sz_vol \div 4096)

\* sz_blk counts only if it is a power of two; the data area starts at a
\* multiple of it.
EraseBlock == IF sz_blk \in Blocks THEN sz_blk ELSE 1

\* Sectors of the FAT for n clusters, as f_mkfs estimates them.
FatSectors(fmt, n) ==
    CASE fmt = "FAT32" -> CeilDiv(n * 4 + 8, SS)
      [] fmt = "FAT16" -> CeilDiv(n * 2 + 4, SS)
      [] fmt = "FAT12" -> CeilDiv((n * 3 + 1) \div 2 + 3, SS)

\* An unsigned quotient; a difference that wraps is above every limit.
Quotient(a, b) == IF a < 0 THEN MAX_FAT32 + 1 ELSE a \div b

\* The layout that a pass of the loop of f_mkfs tries: used counts the sectors
\* before the data area, which then moves to the next erase block.
Tried(q) ==
    LET pau == IF q.au = 0 THEN DefaultUnit(q.fmt, q.sz_vol) ELSE q.au
        n0 == q.sz_vol \div pau
        fmt == IF q.fmt = "FAT16" /\ n0 <= MAX_FAT12 THEN "FAT12" ELSE q.fmt
        wide == fmt = "FAT32"
        fat == FatSectors(fmt, n0)
        rsv == IF wide THEN 32 ELSE 1
        dir == IF wide THEN 0 ELSE 32
        used == rsv + fat + dir
        pad == CeilDiv(q.b_vol + used, EraseBlock) * EraseBlock
                   - (q.b_vol + used)
    IN  [q EXCEPT !.fmt = fmt, !.pau = pau, !.used = used,
                  !.rsv = IF wide THEN rsv + pad ELSE rsv,
                  !.fat = IF wide THEN fat ELSE fat + pad,
                  !.n_clst = Quotient(q.sz_vol - used - pad, pau)]

Retry(q, fmt, au) == [q EXCEPT !.fmt = fmt, !.au = au]
GiveUp(q) == [q EXCEPT !.go = "aborted"]
Accept(t) == [t EXCEPT !.go = "ok"]

\* A first look at the layout t of q: too small, or not for FAT32.
Hopeless(q, t) ==
    LET n0 == q.sz_vol \div t.pau
    IN  \/ t.fmt = "FAT32" /\ (n0 <= MAX_FAT16 \/ n0 > MAX_FAT32)
        \/ q.sz_vol < t.used + t.pau * 16

\* The end of a pass: the layout will do, has to be tried again with another
\* unit or format, or is given up.
Verdict(q, t) ==
    IF Hopeless(q, t) THEN GiveUp(q)
    ELSE IF t.fmt = "FAT32" /\ t.n_clst <= MAX_FAT16
    THEN IF q.au = 0 /\ t.pau > 1 THEN Retry(q, t.fmt, t.pau \div 2)
         ELSE GiveUp(q)
    ELSE IF t.fmt = "FAT16" /\ t.n_clst > MAX_FAT16
    THEN IF q.au = 0 /\ t.pau * 2 <= 64 THEN Retry(q, t.fmt, t.pau * 2)
         ELSE IF "FAT32" \in q.opt THEN Retry(q, "FAT32", q.au)
         ELSE IF q.au = 0 /\ t.pau * 2 <= 128 THEN Retry(q, t.fmt, t.pau * 2)
         ELSE GiveUp(q)
    ELSE IF t.fmt = "FAT16" /\ t.n_clst <= MAX_FAT12
    THEN IF q.au = 0 /\ t.pau * 2 <= 128 THEN Retry(q, t.fmt, t.pau * 2)
         ELSE GiveUp(q)
    ELSE IF t.fmt = "FAT12" /\ t.n_clst > MAX_FAT12 THEN GiveUp(q)
    ELSE Accept(t)

Pass(q) == Verdict(q, Tried(q))

\* The unit is changed once and so is the format: four passes are enough.
Passes(q) ==
    LET Step(r) == IF r.go = "again" THEN Pass(r) ELSE r
    IN  Step(Step(Step(Step(q))))

\* The format f_mkfs starts with; none if the options do not allow any.
FirstFormat(opt) ==
    IF "FAT32" \in opt /\ "FAT" \notin opt THEN "FAT32"
    ELSE IF "FAT" \in opt THEN "FAT16" ELSE unset

\* Faulty variant: the track of the partition table is taken for the volume's.
VolumeSectorsAll(n, b_vol) == n

\* sz_vol: what a device of n sectors has for a volume that starts at b_vol.
VolumeSectors(n, b_vol) == n - b_vol

\* What f_mkfs decides for a device of n sectors.
Plan(n, opt, au) ==
    LET b_vol == IF "SFD" \in opt THEN 0 ELSE FirstTrack
        q == [go |-> "again", fmt |-> FirstFormat(opt), au |-> au, opt |-> opt,
              b_vol |-> b_vol, sz_vol |-> VolumeSectors(n, b_vol), pau |-> 0,
              used |-> 0, rsv |-> 0, fat |-> 0, n_clst |-> 0]
    IN  IF \/ VolumeSectors(n, b_vol) < 128
           \/ au > 128
           \/ FirstFormat(opt) = unset
        THEN [q EXCEPT !.go = "aborted"]
        ELSE Passes(q)

\* The boot record it writes, and the partition table that leads to it.
BootRecord(p) ==
    [fat |-> TRUE, partitions |-> <<0, 0, 0, 0>>, bytsPerSec |-> SS,
     fatSz |-> p.fat, numFats |-> 1, secPerClus |-> p.pau,
     rootEnt |-> IF p.fmt = "FAT32" THEN 0 ELSE 512,
     totSec |-> p.sz_vol, rsvd |-> p.rsv,
     rootClus |-> 2, freeCount |-> p.n_clst - 1]

-----------------------------------------------------------------------------
(* Behaviours *)

VolumeInit ==
    /\ size \in [Drives -> DiskSizes]
    /\ \E r \in [Drives -> Boots] :
          boot = [d \in Drives |-> [s \in {0, FirstTrack} |->
                                       IF s = 0 THEN r[d] ELSE unset]]
    /\ volume = [d \in Drives |-> unset]
    /\ made = [d \in Drives |-> unset]

\* f_mkfs: what was mounted is not mounted any more, whatever the result.
Mkfs(d, opt, au) ==
    LET p == Plan(size[d], opt, au)
    IN  /\ volume' = [volume EXCEPT ![d] = unset]
        /\ boot' = IF p.go # "ok" THEN boot
                   ELSE [boot EXCEPT
                           ![d] = [s \in {0, FirstTrack} |->
                                     IF s = p.b_vol THEN BootRecord(p)
                                     ELSE IF s = 0 THEN PartitionTable
                                     ELSE @[s]]]
        /\ made' = IF p.go = "ok" THEN [made EXCEPT ![d] = p] ELSE made
        /\ UNCHANGED size

\* f_mount, and find_volume for a call after it.
MountDrive(d) ==
    /\ volume' = [volume EXCEPT ![d] = FindVolume(boot[d])]
    /\ UNCHANGED <<size, boot, made>>

VolumeNext ==
    \E d \in Drives :
       \/ MountDrive(d)
       \/ \E opt \in MkfsOptions, au \in Units : Mkfs(d, opt, au)

VolumeSpec == VolumeInit /\ [][VolumeNext]_volVars

-----------------------------------------------------------------------------
(* Properties *)

\* The parts of a volume, as FatFs addresses them, follow one another without
\* overlap inside the volume, and the FAT holds an entry for every cluster.
SoundLayout(v) ==
    LET rootend == v.fatbase + v.fsize * v.n_fats
                       + v.n_rootdir \div EntriesPerSector
    IN  /\ v.volbase < v.fatbase
        /\ rootend <= v.database
        /\ v.database + v.csize * (v.n_fatent - 2) <= v.volend
        /\ EntryBytes(v.fs_type, v.n_fatent) <= v.fsize * SS
        /\ v.fs_type # "FAT32" => v.dirbase = v.fatbase + v.fsize * v.n_fats

\* Whatever boot record find_volume accepts, the windows of the FAT, of the
\* root directory and of the clusters it gives out are apart.
LayoutsSound == \A d \in Drives : volume[d] # unset => SoundLayout(volume[d])

\* Where f_mkfs answered FR_OK for a volume of at least one cluster, f_mount
\* finds it, of the same type and of the same size, inside the device.
MadeVolumesMount ==
    \A d \in Drives :
       LET p == made[d]
           v == FindVolume(boot[d])
       IN  p # unset /\ p.n_clst > 0 =>
             /\ v # unset
             /\ v.fs_type = p.fmt
             /\ v.n_fatent = p.n_clst + 2
             /\ v.volend <= size[d]
=============================================================================
