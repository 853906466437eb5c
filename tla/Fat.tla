--------------------------------- MODULE Fat ---------------------------------
(***************************************************************************)
(* The FAT volume of fatfs_ff.c, as kernel/fatfilesystem.c mounts it: the  *)
(* window through which FatFs sees the FAT and the directories, cluster    *)
(* chains, directories, and the file objects with a sector buffer each.    *)
(*                                                                         *)
(* A sector has SectorSize cells; a cell is a byte of a file, an entry of  *)
(* the FAT or an entry of a directory.  The volume is one with a root      *)
(* directory of its own (FAT16, as scripts/initrd.sh makes it); names are  *)
(* short, FatNames has the long ones.  FatFs is called with interrupts     *)
(* disabled, so a call is one step.  disk_read and disk_write of           *)
(* fatfilesystem.c never report an error for a mounted volume, so there    *)
(* are no disk errors here.                                                *)
(***************************************************************************)
EXTENDS Integers, Sequences, FiniteSets, SequencesExt

CONSTANTS
    ClusterCount,   \* n_fatent - 2
    SectorSize,     \* cells of a sector
    csize,          \* sectors of a cluster
    n_fats,         \* copies of the FAT
    n_rootdir,      \* entries of the root directory
    Volumes,        \* what the disk may hold when the volume is mounted
    Handles,        \* FIL objects
    Paths,          \* paths, as sequences of names
    Modes,          \* mode arguments of f_open
    Counts,         \* cell counts asked of f_read
    Writes,         \* sequences of cells for f_write
    Offsets,        \* arguments of f_lseek
    Renames,        \* pairs of paths for f_rename
    MaxCalls,       \* bound on the calls of a behaviour
    none,           \* no file object
    blank,          \* a cell that was never written
    deleted,        \* a directory entry that is free (DDEM, 0xE5)
    directory       \* stands for a directory in the tree of files

n_fatent == ClusterCount + 2

ASSUME FatAssumption ==
    /\ ClusterCount \in Nat \ {0}
    /\ SectorSize \in Nat \ {0, 1}
    /\ csize \in {1, 2, 4, 8, 16, 32, 64, 128}
    /\ n_fats \in {1, 2}
    /\ n_rootdir \in Nat \ {0} /\ n_rootdir % SectorSize = 0

VARIABLES
    fs,         \* FATFS and the disk below it
    fil,        \* fil[h]: FIL, or none
    got,        \* cells returned by the last f_read
    calls       \* number of calls so far

fatVars == <<fs, fil, got, calls>>

\* Where find_volume finds the parts of the volume.
fatbase == 1
fsize == (n_fatent + SectorSize - 1) \div SectorSize
dirbase == fatbase + n_fats * fsize
database == dirbase + n_rootdir \div SectorSize
SectorCount == database + csize * ClusterCount

Clusters == 2 .. n_fatent - 1
Cells == 0 .. SectorSize - 1
ClusterCells == csize * SectorSize

\* Stand for 0xFFFF in the FAT and 0xFFFFFFFF in a counter: not below n_fatent.
EOC == n_fatent
Unknown == n_fatent

Zeroed == [i \in Cells |-> blank]

Lower(a, b) == IF a < b THEN a ELSE b

-----------------------------------------------------------------------------
(* The window *)

\* sync_window; a sector of the FAT goes to its copy as well.
SyncWindow(v) ==
    LET copies == {v.winsect} \cup
                  (IF n_fats = 2 /\ v.winsect - fatbase \in 0 .. fsize - 1
                   THEN {v.winsect + fsize} ELSE {})
    IN  IF v.wflag
        THEN [v EXCEPT !.wflag = FALSE,
                       !.disk = [s \in DOMAIN v.disk |->
                                   IF s \in copies THEN v.win ELSE v.disk[s]]]
        ELSE v

MoveWindow(v, sector) ==
    LET w == SyncWindow(v)
    IN  IF sector = v.winsect THEN v
        ELSE [w EXCEPT !.win = w.disk[sector], !.winsect = sector]

\* A cell is changed in the window only.
Store(v, cell, x) == [v EXCEPT !.win[cell] = x, !.wflag = TRUE]

\* What a sector holds, in the window or on the disk.
View(v, sector) == IF sector = v.winsect THEN v.win ELSE v.disk[sector]

-----------------------------------------------------------------------------
(* Clusters *)

clst2sect(c) == database + csize * (c - 2)

FatSector(c) == fatbase + c \div SectorSize

\* get_fat: the value, and the window afterwards.
GetFat(v, c) == IF c \in Clusters THEN View(v, FatSector(c))[c % SectorSize] ELSE 1
SeeFat(v, c) == IF c \in Clusters THEN MoveWindow(v, FatSector(c)) ELSE v

PutFat(v, c, x) == Store(MoveWindow(v, FatSector(c)), c % SectorSize, x)

\* An internal error is noted for good.
Fault(v) == [v EXCEPT !.fault = TRUE]

\* The clusters a walk from c comes to; it ends at the end of the chain, at an
\* entry that is no cluster, or where it has been.
Chain(v, c) ==
    LET walk[k \in 0 .. ClusterCount] ==
            IF k = 0 THEN <<c>>
            ELSE LET s == walk[k - 1]
                     next == GetFat(v, Last(s))
                 IN  IF next \in Clusters /\ next \notin ToSet(s)
                     THEN Append(s, next) ELSE s
    IN  IF c \in Clusters THEN walk[ClusterCount] ELSE <<>>

FreeCluster(v, c) ==
    [PutFat(SeeFat(v, c), c, 0) EXCEPT
        !.free_clst = IF @ < ClusterCount THEN @ + 1 ELSE @]

\* Faulty variant: the cluster before the removed ones keeps its link.
RemoveChainKeepsLink(v, c, pclst) ==
    IF c \notin Clusters THEN Fault(v) ELSE FoldLeft(FreeCluster, v, Chain(v, c))

\* remove_chain
RemoveChain(v, c, pclst) ==
    LET w == IF pclst = 0 THEN v ELSE PutFat(v, pclst, EOC)
    IN  IF c \notin Clusters THEN Fault(v)
        ELSE FoldLeft(FreeCluster, w, Chain(v, c))

\* The order in which create_chain looks for a free cluster: from the one
\* behind scl to the last, then from the first to scl.
SearchFrom(scl) ==
    [i \in 1 .. n_fatent - 1 - scl |-> scl + i]
        \o (IF scl < 2 THEN <<>> ELSE [i \in 1 .. scl - 1 |-> i + 1])

\* Where that search starts: at the cluster allocated last.
SearchStart(v, c) ==
    IF c = 0
    THEN IF v.last_clst \in 1 .. n_fatent - 1 THEN v.last_clst ELSE 1
    ELSE IF v.last_clst \in Clusters THEN v.last_clst ELSE c

\* The clusters whose entries are looked at; the last of them is free, or
\* there is none.
Candidates(v, c) ==
    LET next == IF c + 1 >= n_fatent THEN 2 ELSE c + 1
        order == SearchFrom(SearchStart(v, c))
        free == {i \in DOMAIN order : GetFat(v, order[i]) = 0}
        looked == IF free = {} THEN order
                  ELSE SubSeq(order, 1, CHOOSE i \in free :
                                            \A j \in free : i <= j)
    IN  IF c = 0 THEN looked
        ELSE IF GetFat(v, next) = 0 THEN <<next>> ELSE <<next>> \o looked

\* The cluster ncl becomes the one behind c, or the first of a chain.
Allocated(v, c, ncl) ==
    LET one == PutFat(v, ncl, EOC)
    IN  [(IF c = 0 THEN one ELSE PutFat(one, c, ncl)) EXCEPT
            !.last_clst = ncl,
            !.free_clst = IF @ <= ClusterCount THEN @ - 1 ELSE @]

\* The search has looked at the candidates.
Searched(v, c, ncl) ==
    IF GetFat(v, ncl) # 0 THEN [fs |-> v, clst |-> 0]
    ELSE [fs |-> Allocated(v, c, ncl), clst |-> ncl]

Search(v, c, cand) == Searched(FoldLeft(SeeFat, v, cand), c, Last(cand))

\* create_chain: a new chain if c = 0, otherwise the cluster behind c, which
\* is allocated if there is none.  clst = 0: the volume is full.
CreateChain(v, c) ==
    LET cs == GetFat(v, c)
        seen == IF c = 0 THEN v ELSE SeeFat(v, c)
    IN  CASE c # 0 /\ cs < 2 -> [fs |-> Fault(seen), clst |-> 1]
          [] c # 0 /\ cs \in Clusters -> [fs |-> seen, clst |-> cs]
          [] (c = 0 \/ cs >= n_fatent) /\ v.free_clst = 0 ->
                [fs |-> seen, clst |-> 0]
          [] OTHER -> Search(seen, c, Candidates(v, c))

-----------------------------------------------------------------------------
(* Directories *)

Entry(name, attr) == [name |-> name, attr |-> attr, clust |-> 0, size |-> 0]

\* A blank entry was never used, and none behind it either.
IsEntry(x) == x # blank /\ x # deleted

\* The entries of the directory that starts at cluster c (0: the root), in the
\* order of dir_sdi and dir_next: their sector and cell, and the sector of the
\* FAT that is looked at on the way to the first one of a cluster.
Slots(v, c) ==
    LET chain == Chain(v, c)
        Of(sect, n, fat) ==
            [i \in 1 .. n |-> [sect |-> sect + (i - 1) \div SectorSize,
                               cell |-> (i - 1) % SectorSize,
                               fat |-> IF i = 1 THEN fat ELSE 0]]
    IN  IF c = 0 THEN Of(dirbase, n_rootdir, 0)
        ELSE FoldLeft(\o, <<>>,
                [k \in DOMAIN chain |->
                    Of(clst2sect(chain[k]), ClusterCells,
                       IF k = 1 THEN 0 ELSE FatSector(chain[k - 1]))])

SlotValue(v, slot) == View(v, slot.sect)[slot.cell]

\* dir_next and move_window.
SeeSlot(v, slot) ==
    MoveWindow(IF slot.fat = 0 THEN v ELSE MoveWindow(v, slot.fat), slot.sect)

FirstOf(S) == CHOOSE i \in S : \A j \in S : i <= j

\* A scan over the slots of directory c up to the first entry that Stops; the
\* slot is at sector 0 if there is none.  Behind the last cluster the FAT is
\* looked at once more.
Scan(v, c, slots, Stops(_)) ==
    LET stops == {i \in DOMAIN slots : Stops(SlotValue(v, slots[i]))}
        all == FoldLeft(SeeSlot, v, slots)
    IN  IF stops = {}
        THEN [fs |-> IF c = 0 THEN all ELSE SeeFat(all, Last(Chain(v, c))),
              slot |-> [sect |-> 0, cell |-> 0, fat |-> 0]]
        ELSE LET at == FirstOf(stops)
             IN  [fs |-> FoldLeft(SeeSlot, v, SubSeq(slots, 1, at)),
                  slot |-> slots[at]]

\* A scan that looks for an entry also ends at the first that was never used.
Answered(s) ==
    [fs |-> s.fs, slot |-> s.slot,
     res |-> IF s.slot.sect # 0 /\ SlotValue(s.fs, s.slot) # blank
             THEN "OK" ELSE "NO_FILE"]

\* dir_find
DirFind(v, c, name) ==
    Answered(Scan(v, c, Slots(v, c),
                  LAMBDA x : x = blank \/ (IsEntry(x) /\ x.name = name)))

\* dir_read from the start: the first entry that is neither "." nor "..".
DirRead(v, c) ==
    Answered(Scan(v, c, Slots(v, c),
                  LAMBDA x : x = blank \/
                             (IsEntry(x) /\ x.name \notin {".", ".."})))

\* dir_clear
DirClear(v, c) ==
    LET w == SyncWindow(v)
        sect == clst2sect(c)
    IN  [w EXCEPT !.winsect = sect, !.win = Zeroed,
                  !.disk = [s \in DOMAIN w.disk |->
                              IF s \in sect .. sect + csize - 1 THEN Zeroed
                              ELSE w.disk[s]]]

\* A directory without a free entry gets the cluster new.clst.
Extended(slot, new) ==
    CASE new.clst = 0 -> [fs |-> new.fs, slot |-> slot, res |-> "DENIED"]
      [] new.clst = 1 -> [fs |-> new.fs, slot |-> slot, res |-> "INT_ERR"]
      [] OTHER -> [fs |-> DirClear(new.fs, new.clst), res |-> "OK",
                   slot |-> [sect |-> clst2sect(new.clst), cell |-> 0, fat |-> 0]]

\* The root directory, which has no last cluster, cannot grow.
Roomy(s, c, last) ==
    IF s.slot.sect # 0 THEN [fs |-> s.fs, slot |-> s.slot, res |-> "OK"]
    ELSE IF c = 0 THEN [fs |-> s.fs, slot |-> s.slot, res |-> "DENIED"]
    ELSE Extended(s.slot, CreateChain(s.fs, last))

\* dir_alloc for one entry: a free one, or the first of a new cluster.
DirAlloc(v, c) ==
    Roomy(Scan(v, c, Slots(v, c), LAMBDA x : ~IsEntry(x)), c, Last(Chain(v, c)))

EntryMade(d, name) ==
    IF d.res = "OK"
    THEN [d EXCEPT !.fs = Store(MoveWindow(d.fs, d.slot.sect), d.slot.cell,
                                Entry(name, {}))]
    ELSE d

\* dir_register
DirRegister(v, c, name) == EntryMade(DirAlloc(v, c), name)

\* dir_remove
DirRemove(v, slot) == Store(MoveWindow(v, slot.sect), slot.cell, deleted)

\* The entry at slot, which is in the window, gets other fields.
Rewrite(v, slot, entry) == Store(MoveWindow(v, slot.sect), slot.cell, entry)

\* One name of a path has been looked up with the answer f.
Entered(g, f, more) ==
    LET x == SlotValue(f.fs, f.slot)
    IN  IF f.res # "OK"
        THEN [g EXCEPT !.fs = f.fs, !.dir = g.next,
                       !.res = IF more THEN "NO_PATH" ELSE "NO_FILE"]
        ELSE IF more /\ "DIR" \notin x.attr
        THEN [g EXCEPT !.fs = f.fs, !.res = "NO_PATH"]
        ELSE [fs |-> f.fs, dir |-> g.next, slot |-> f.slot, res |-> "OK",
              next |-> x.clust]

Descend(g, name, more) ==
    IF g.res # "OK" THEN g ELSE Entered(g, DirFind(g.fs, g.next, name), more)

\* follow_path: the entry of the path, or where it could be registered (dir,
\* the first cluster of its directory).  NO_PATH: a name on the way is missing
\* or is no directory.
FollowPath(v, path) ==
    LET go[k \in 0 .. Len(path)] ==
            IF k = 0
            THEN [fs |-> v, dir |-> 0, res |-> "OK", next |-> 0,
                  slot |-> [sect |-> 0, cell |-> 0, fat |-> 0]]
            ELSE Descend(go[k - 1], path[k], k < Len(path))
    IN  go[Len(path)]

-----------------------------------------------------------------------------
(* Open files *)

Disk(v, sector, content) == [v EXCEPT !.disk[sector] = content]

\* Faulty variant: a changed buffer is given up.
FlushBufNever(v, f) == v

\* The sector buffer of a file is written to the disk if it has changed.
FlushBuf(v, f) == IF "DIRTY" \in f.flag THEN Disk(v, f.sect, f.buf) ELSE v
Clean(f) == [f EXCEPT !.flag = @ \ {"DIRTY"}]

\* The file buffer is filled with another sector.
LoadBuf(v, f, sector) == [Clean(f) EXCEPT !.buf = FlushBuf(v, f).disk[sector],
                                          !.sect = sector]

Within(f) == f.fptr % SectorSize
AtSector(f) == Within(f) = 0
csect(f) == (f.fptr \div SectorSize) % csize
AtCluster(f) == AtSector(f) /\ csect(f) = 0

\* Cells of whole sectors from sector on.
CellsOf(sectors) == [i \in 1 .. Len(sectors) * SectorSize |->
                        sectors[(i - 1) \div SectorSize + 1][(i - 1) % SectorSize]]

\* Abort: the file object keeps the error.
Broken(s) == [s EXCEPT !.f.err = TRUE, !.fs = Fault(@), !.left = 0]

\* One iteration of the loop of f_read: s.left cells are still to be read.
\* Whole sectors do not go through the buffer; if one of them is in it and
\* changed, it is taken from there.
ReadPiece(s) ==
    LET f0 == s.f
        clst == IF f0.fptr = 0 THEN f0.sclust ELSE GetFat(s.fs, f0.clust)
        f == IF AtCluster(f0) THEN [f0 EXCEPT !.clust = clst] ELSE f0
        v == IF AtCluster(f0) /\ f0.fptr # 0 THEN SeeFat(s.fs, f0.clust) ELSE s.fs
        sect == clst2sect(f.clust) + csect(f)
        cc == Lower(s.left \div SectorSize, csize - csect(f))
        Whole(k) == IF "DIRTY" \in f.flag /\ f.sect = sect + k - 1
                    THEN f.buf ELSE v.disk[sect + k - 1]
        load == AtSector(f) /\ f.sect # sect
        g == IF load THEN LoadBuf(v, f, sect) ELSE f
        n == Lower(SectorSize - Within(f), s.left)
    IN  IF AtSector(f) /\ f.clust \notin Clusters
        THEN Broken([s EXCEPT !.fs = v])
        ELSE IF AtSector(f) /\ cc > 0
        THEN [s EXCEPT !.fs = v,
                       !.f = [f EXCEPT !.fptr = @ + cc * SectorSize],
                       !.left = @ - cc * SectorSize,
                       !.out = @ \o CellsOf([k \in 1 .. cc |-> Whole(k)])]
        ELSE [s EXCEPT !.fs = IF load THEN FlushBuf(v, f) ELSE v,
                       !.f = [g EXCEPT !.fptr = @ + n],
                       !.left = @ - n,
                       !.out = @ \o [i \in 1 .. n |->
                                       g.buf[Within(f) + i - 1]]]

\* One iteration of the loop of f_write, from the inside out.  The file object
\* is moved on by n cells.
Moved(f, n) ==
    [f EXCEPT !.fptr = @ + n,
              !.objsize = IF @ < f.fptr + n THEN f.fptr + n ELSE @]

\* Whole sectors do not go through the buffer.
WriteWhole(s, sect, cc) ==
    LET Part(k) == [i \in Cells |-> s.data[(k - sect) * SectorSize + i + 1]]
        f == IF s.f.sect \in sect .. sect + cc - 1
             THEN [s.f EXCEPT !.buf = Part(s.f.sect)] ELSE s.f
    IN  [fs |-> [s.fs EXCEPT !.disk =
                   [k \in DOMAIN @ |->
                      IF k \in sect .. sect + cc - 1 THEN Part(k) ELSE @[k]]],
         f |-> Moved(f, cc * SectorSize),
         data |-> SubSeq(s.data, cc * SectorSize + 1, Len(s.data))]

\* The rest goes into the buffer f.buf.
WritePart(s, f, n) ==
    LET Filled(i, j) == IF j \in 1 .. n THEN s.data[j] ELSE f.buf[i]
    IN  [fs |-> s.fs,
         f |-> [Moved(f, n) EXCEPT
                  !.buf = [i \in Cells |-> Filled(i, i - Within(f) + 1)],
                  !.flag = @ \cup {"DIRTY"}],
         data |-> SubSeq(s.data, n + 1, Len(s.data))]

\* Another sector is read only if it holds something of the file.
Begun(v, f, sect) ==
    IF ~AtSector(f) THEN f
    ELSE IF f.sect # sect /\ f.fptr < f.objsize
    THEN [f EXCEPT !.buf = v.disk[sect], !.sect = sect]
    ELSE [f EXCEPT !.sect = sect]

WriteSector(s, sect) ==
    LET cc == Lower(Len(s.data) \div SectorSize, csize - csect(s.f))
    IN  IF AtSector(s.f) /\ cc > 0 THEN WriteWhole(s, sect, cc)
        ELSE WritePart(s, Begun(s.fs, s.f, sect),
                       Lower(SectorSize - Within(s.f), Len(s.data)))

\* The cluster of the file at its position, allocated if there is none.
WriteCluster(v, f) ==
    CASE AtCluster(f) /\ f.fptr = 0 /\ f.sclust = 0 -> CreateChain(v, 0)
      [] AtCluster(f) /\ f.fptr = 0 /\ f.sclust # 0 -> [fs |-> v, clst |-> f.sclust]
      [] AtCluster(f) /\ f.fptr # 0 -> CreateChain(v, f.clust)
      [] OTHER -> [fs |-> v, clst |-> f.clust]

\* A buffer that has changed is written before another sector is begun.
WriteIn(s, new) ==
    LET f == [s.f EXCEPT !.clust = new.clst,
                         !.sclust = IF @ = 0 THEN new.clst ELSE @]
        sect == clst2sect(new.clst) + csect(f)
    IN  IF AtCluster(f) /\ new.clst = 0
        THEN [s EXCEPT !.fs = new.fs, !.data = <<>>]
        ELSE IF AtSector(f) /\ new.clst \notin Clusters
        THEN [s EXCEPT !.fs = Fault(new.fs), !.f.err = TRUE, !.data = <<>>]
        ELSE WriteSector([s EXCEPT
                !.fs = IF AtSector(f) THEN FlushBuf(new.fs, f) ELSE new.fs,
                !.f = IF AtSector(f) THEN Clean(f) ELSE f], sect)

WritePiece(s) == WriteIn(s, WriteCluster(s.fs, s.f))

\* A loop of at most n iterations.
Loop(Piece(_), Goes(_), s0, n) ==
    FoldLeft(LAMBDA s, i : IF Goes(s) THEN Piece(s) ELSE s, s0,
             [i \in 1 .. n |-> i])

-----------------------------------------------------------------------------
(* The calls.  Each returns the volume, the file object and an answer. *)

Usable(h) == fil[h] # none /\ ~fil[h].err

ReadAll(f, n) ==
    LET left == Lower(n, f.objsize - f.fptr)
    IN  Loop(ReadPiece, LAMBDA s : s.left > 0,
             [fs |-> fs, f |-> f, left |-> left, out |-> <<>>], left)

WriteAll(f, data) ==
    Loop(WritePiece, LAMBDA s : s.data # <<>>,
         [fs |-> fs, f |-> f, data |-> data], Len(data))

Done(s, h) ==
    /\ fs' = s.fs
    /\ fil' = [fil EXCEPT ![h] = s.f]

\* f_read, from read of fatfilesystem.c.
FRead(h, n) ==
    /\ Usable(h)
    /\ "READ" \in fil[h].flag
    /\ \E s \in {ReadAll(fil[h], n)} : Done(s, h) /\ got' = s.out

Written(s) ==
    IF s.f.err THEN s ELSE [s EXCEPT !.f.flag = @ \cup {"MODIFIED"}]

\* f_write, from write of fatfilesystem.c.
FWrite(h, data) ==
    /\ Usable(h)
    /\ "WRITE" \in fil[h].flag
    /\ Done(Written(WriteAll(fil[h], data)), h)
    /\ UNCHANGED got

\* f_sync: the buffer, then the entry of the file, then the window.
Synced(v, f) ==
    LET w == FlushBuf(v, f)
        entry == View(w, f.dir_sect)[f.dir_cell]
        x == [entry EXCEPT !.attr = @ \cup {"ARC"}, !.clust = f.sclust,
                           !.size = f.objsize]
    IN  IF "MODIFIED" \in f.flag
        THEN [fs |-> SyncWindow(Store(MoveWindow(w, f.dir_sect), f.dir_cell, x)),
              f |-> [f EXCEPT !.flag = @ \ {"DIRTY", "MODIFIED"}]]
        ELSE [fs |-> v, f |-> f]

FSync(h) == fil[h] # none /\ Done(Synced(fs, fil[h]), h) /\ UNCHANGED got

\* f_close, from close of fatfilesystem.c.
FClose(h) ==
    /\ fil[h] # none
    /\ Done([fs |-> Synced(fs, fil[h]).fs, f |-> none], h)
    /\ UNCHANGED got

\* The loop of f_lseek: one cluster further, which is new.clst.
SeekIn(s, new, f) ==
    IF "WRITE" \in f.flag /\ new.clst = 0
    THEN [fs |-> new.fs, f |-> f, ofs |-> 0, clst |-> 0]
    ELSE IF new.clst \notin Clusters
    THEN [fs |-> Fault(new.fs), f |-> [f EXCEPT !.err = TRUE], ofs |-> 0,
          clst |-> 0]
    ELSE [fs |-> new.fs, f |-> [f EXCEPT !.clust = new.clst],
          ofs |-> s.ofs - ClusterCells, clst |-> new.clst]

\* A file that is written grows.
SeekPiece(s) ==
    SeekIn(s,
           IF "WRITE" \in s.f.flag THEN CreateChain(s.fs, s.clst)
           ELSE [fs |-> SeeFat(s.fs, s.clst), clst |-> GetFat(s.fs, s.clst)],
           [s.f EXCEPT !.fptr = @ + ClusterCells])

\* Where f_lseek starts: at the cluster it is in, or at the first one.
Rewound(new, f, ofs) ==
    [fs |-> new.fs, ofs |-> ofs, clst |-> new.clst,
     f |-> [f EXCEPT !.fptr = 0, !.sclust = new.clst, !.clust = new.clst]]

SeekStart(v, f, ofs) ==
    LET onward == f.fptr > 0 /\ (ofs - 1) \div ClusterCells
                                    >= (f.fptr - 1) \div ClusterCells
        base == ((f.fptr - 1) \div ClusterCells) * ClusterCells
    IN  IF onward
        THEN [fs |-> v, f |-> [f EXCEPT !.fptr = base], ofs |-> ofs - base,
              clst |-> f.clust]
        ELSE Rewound(IF f.sclust = 0 THEN CreateChain(v, 0)
                     ELSE [fs |-> v, clst |-> f.sclust], f, ofs)

\* The end of f_lseek: the size, and the buffer if the place is inside a sector.
SeekEnd(s) ==
    LET f1 == IF s.clst = 0 THEN s.f ELSE [s.f EXCEPT !.fptr = @ + s.ofs]
        f == IF f1.fptr > f1.objsize
             THEN [f1 EXCEPT !.objsize = f1.fptr, !.flag = @ \cup {"MODIFIED"}]
             ELSE f1
        nsect == clst2sect(s.clst) + s.ofs \div SectorSize
    IN  IF ~s.f.err /\ ~AtSector(f) /\ nsect # f.sect
        THEN [fs |-> FlushBuf(s.fs, f), f |-> LoadBuf(s.fs, f, nsect)]
        ELSE [fs |-> s.fs, f |-> IF s.f.err THEN s.f ELSE f]

\* f_lseek, from lseek of fatfilesystem.c; only a file that is written is
\* taken past its end.
FLseek(h, to) ==
    LET f == fil[h]
        ofs == IF "WRITE" \in f.flag THEN to ELSE Lower(to, f.objsize)
        walked == Loop(SeekPiece, LAMBDA s : s.clst # 0 /\ s.ofs > ClusterCells,
                       SeekStart(fs, f, ofs), to)
    IN  /\ Usable(h)
        /\ Done(IF ofs = 0 THEN [fs |-> fs, f |-> [f EXCEPT !.fptr = 0]]
                ELSE SeekEnd(walked), h)
        /\ UNCHANGED got

\* f_truncate
FTruncate(h) ==
    LET f == fil[h]
        ncl == GetFat(fs, f.clust)
        v == IF f.fptr = 0 THEN RemoveChain(fs, f.sclust, 0)
             ELSE IF ncl \in Clusters \cup {0}
             THEN RemoveChain(SeeFat(fs, f.clust), ncl, f.clust)
             ELSE SeeFat(fs, f.clust)
        g == [f EXCEPT !.objsize = f.fptr,
                       !.sclust = IF f.fptr = 0 THEN 0 ELSE @,
                       !.flag = @ \cup {"MODIFIED"}]
    IN  /\ Usable(h)
        /\ "WRITE" \in f.flag
        /\ f.fptr < f.objsize
        /\ Done([fs |-> FlushBuf(v, f), f |-> Clean(g)], h)
        /\ UNCHANGED got

-----------------------------------------------------------------------------
(* Calls with a path *)

Creates(mode) == mode \cap {"CREATE_ALWAYS", "CREATE_NEW", "OPEN_ALWAYS"} # {}

\* The lookup of f_open and, if the mode says so, the creation of the file.
Looked(d, mode) == [fs |-> d.fs, slot |-> d.slot, res |-> d.res, mode |-> mode]

Refusal(x, mode) ==
    CASE Creates(mode) ->
            IF x.attr \cap {"DIR", "RDO"} # {} THEN "DENIED"
            ELSE IF "CREATE_NEW" \in mode THEN "EXIST" ELSE "OK"
      [] ~Creates(mode) ->
            IF "DIR" \in x.attr THEN "NO_FILE"
            ELSE IF "WRITE" \in mode /\ "RDO" \in x.attr THEN "DENIED" ELSE "OK"

FoundAs(d, name, mode) ==
    CASE d.res = "NO_FILE" /\ Creates(mode) ->
            Looked(DirRegister(d.fs, d.dir, name), mode \cup {"CREATE_ALWAYS"})
      [] d.res = "OK" ->
            [Looked(d, mode) EXCEPT !.res = Refusal(SlotValue(d.fs, d.slot), mode)]
      [] OTHER -> Looked(d, mode)

Found(path, mode) == FoundAs(FollowPath(fs, path), Last(path), mode)

\* CREATE_ALWAYS: the file is empty and its old clusters are free; the next
\* search for a free cluster starts there.
Emptied(v, slot) ==
    LET old == SlotValue(v, slot)
        w == Rewrite(v, slot, [old EXCEPT !.attr = {"ARC"}, !.clust = 0,
                                          !.size = 0])
    IN  IF old.clust = 0 THEN w
        ELSE [MoveWindow(RemoveChain(w, old.clust, 0), slot.sect) EXCEPT
                 !.last_clst = old.clust - 1]

NewFil(v, slot, mode) ==
    LET x == SlotValue(v, slot)
    IN  [sclust |-> x.clust, objsize |-> x.size, err |-> FALSE, fptr |-> 0,
         clust |-> 0, sect |-> 0, buf |-> Zeroed,
         dir_sect |-> slot.sect, dir_cell |-> slot.cell,
         flag |-> (mode \cap {"READ", "WRITE"}) \cup
                  (IF "CREATE_ALWAYS" \in mode THEN {"MODIFIED"} ELSE {})]

\* APPEND: the file object is taken to the end of the file.
ToEnd(v, f) ==
    LET k == (f.objsize - 1) \div ClusterCells      \* full clusters before it
        walk == Chain(v, f.sclust)
        ofs == f.objsize - k * ClusterCells
        clst == walk[k + 1]
        g == [f EXCEPT !.fptr = f.objsize, !.clust = clst]
        w == FoldLeft(SeeFat, v, SubSeq(walk, 1, k))
        sect == clst2sect(clst) + ofs \div SectorSize
    IN  IF f.objsize = 0 THEN [fs |-> v, f |-> f]
        ELSE IF Len(walk) <= k THEN [fs |-> Fault(w), f |-> none]
        ELSE [fs |-> w, f |-> IF ofs % SectorSize = 0 THEN g
                              ELSE [g EXCEPT !.sect = sect, !.buf = w.disk[sect]]]

Opened(v, slot, mode) ==
    LET f == NewFil(v, slot, mode)
    IN  IF "APPEND" \in mode THEN ToEnd(v, f) ELSE [fs |-> v, f |-> f]

\* f_open
FOpen(h, path, mode) ==
    /\ fil[h] = none
    /\ \E d \in {Found(path, mode)} :
          IF d.res # "OK" THEN Done([fs |-> d.fs, f |-> none], h)
          ELSE Done(Opened(IF "CREATE_ALWAYS" \in d.mode THEN Emptied(d.fs, d.slot)
                           ELSE d.fs, d.slot, d.mode), h)
    /\ UNCHANGED got

\* f_unlink of the object x at a slot, with what dir_read says of the
\* directory it is: that must be empty.
Unlinked(v, slot, x, inside) ==
    LET seen == IF "DIR" \in x.attr THEN inside.fs ELSE v
        w == DirRemove(seen, slot)
    IN  IF "RDO" \in x.attr \/ ("DIR" \in x.attr /\ inside.res = "OK") THEN seen
        ELSE SyncWindow(IF x.clust = 0 THEN w ELSE RemoveChain(w, x.clust, 0))

FUnlink(path) ==
    /\ \E d \in {FollowPath(fs, path)} :
          LET x == SlotValue(d.fs, d.slot)
          IN  fs' = IF d.res # "OK" THEN d.fs
                    ELSE Unlinked(d.fs, d.slot, x, DirRead(d.fs, x.clust))
    /\ UNCHANGED <<fil, got>>

\* A new directory has "." and "..".
Dots(v, clst, parent) ==
    Store(Store(DirClear(SyncWindow(v), clst),
                0, [Entry(".", {"DIR"}) EXCEPT !.clust = clst]),
          1, [Entry("..", {"DIR"}) EXCEPT !.clust = parent])

\* Without room for its entry its cluster is given back.
Housed(r, clst, name) ==
    IF r.res # "OK" THEN RemoveChain(r.fs, clst, 0)
    ELSE SyncWindow(Rewrite(r.fs, r.slot,
                            [Entry(name, {"DIR"}) EXCEPT !.clust = clst]))

\* f_mkdir: the cluster, then the entry.
FMkdir(path) ==
    /\ \E d \in {FollowPath(fs, path)} : \E new \in {CreateChain(d.fs, 0)} :
          fs' = CASE d.res # "NO_FILE" -> d.fs
                  [] d.res = "NO_FILE" /\ new.clst < 2 -> new.fs
                  [] OTHER ->
                        Housed(DirRegister(Dots(new.fs, new.clst, d.dir),
                                           d.dir, Last(path)),
                               new.clst, Last(path))
    /\ UNCHANGED <<fil, got>>

\* The object x gets the entry r under another name; if it is a directory that
\* moves, its ".." is set to its new parent.
Renamed(x, r, name) ==
    Rewrite(r.fs, r.slot,
            [x EXCEPT !.name = name,
                      !.attr = IF "DIR" \in @ THEN @ ELSE @ \cup {"ARC"}])

Rehomed(v, x, o, n) ==
    LET w == MoveWindow(v, clst2sect(x.clust))
    IN  IF "DIR" \in x.attr /\ o.dir # n.dir
        THEN Store(w, 1, [w.win[1] EXCEPT !.clust = n.dir]) ELSE v

Relinked(o, n, x, r, name) ==
    IF r.res # "OK" THEN r.fs
    ELSE SyncWindow(DirRemove(Rehomed(Renamed(x, r, name), x, o, n), o.slot))

\* f_rename: a new entry with what the old one had, which is then removed.
\* Renaming to the same name is allowed.
FRename(from, to) ==
    /\ \E o \in {FollowPath(fs, from)} : \E n \in {FollowPath(o.fs, to)} :
          fs' = IF o.res # "OK" THEN o.fs
                ELSE IF n.res # "NO_FILE" /\ ~(n.res = "OK" /\ n.slot = o.slot)
                THEN n.fs
                ELSE Relinked(o, n, SlotValue(o.fs, o.slot),
                              DirRegister(n.fs, n.dir, Last(to)), Last(to))
    /\ UNCHANGED <<fil, got>>

\* f_stat, f_opendir and f_readdir change nothing but the window.
FStatFile(path) == fs' = FollowPath(fs, path).fs /\ UNCHANGED <<fil, got>>

\* f_getfree counts once what is not known.
FGetfree ==
    LET v == FoldLeft(MoveWindow, fs, [i \in 1 .. fsize |-> fatbase + i - 1])
    IN  /\ fs.free_clst > ClusterCount
        /\ fs' = [v EXCEPT !.free_clst =
                     Cardinality({c \in Clusters : GetFat(fs, c) = 0})]
        /\ UNCHANGED <<fil, got>>

-----------------------------------------------------------------------------
(* Behaviours *)

\* A volume without files, as mkfs leaves it.
EmptyVolume ==
    [s \in 0 .. SectorCount - 1 |->
        [i \in Cells |-> IF s \notin fatbase .. dirbase - 1 THEN blank
                         ELSE IF ((s - fatbase) % fsize) * SectorSize + i < 2
                         THEN EOC ELSE 0]]

\* After f_mount nothing is known of the free clusters.
FatInit ==
    /\ \E disk \in Volumes :
          fs = [disk |-> disk,
                win |-> disk[0], winsect |-> 0, wflag |-> FALSE,
                last_clst |-> Unknown, free_clst |-> Unknown, fault |-> FALSE]
    /\ fil = [h \in Handles |-> none]
    /\ got = <<>>
    /\ calls = 0

\* The open file objects of the entry at a slot.
OpenAs(o, slot) == {h \in Handles : /\ o[h] # none
                                    /\ o[h].dir_sect = slot.sect
                                    /\ o[h].dir_cell = slot.cell}

\* FF_FS_LOCK is 0, and fatfs_ffconf.h leaves it to the application not to
\* open a file twice if one of them writes, and not to remove or rename what
\* is open: Free is what the application has to keep to.
Free(path, mode) ==
    LET d == FollowPath(fs, path)
    IN  d.res = "OK" =>
          \A h \in OpenAs(fil, d.slot) :
             "WRITE" \notin fil[h].flag \cup mode /\ ~Creates(mode)

FatNext ==
    /\ calls < MaxCalls
    /\ calls' = calls + 1
    /\ \/ \E h \in Handles :
             \/ \E path \in Paths, mode \in Modes :
                   Free(path, mode) /\ FOpen(h, path, mode)
             \/ FClose(h)
             \/ FSync(h)
             \/ FTruncate(h)
             \/ \E n \in Counts : FRead(h, n)
             \/ \E data \in Writes : FWrite(h, data)
             \/ \E ofs \in Offsets : FLseek(h, ofs)
       \/ \E path \in Paths :
             \/ Free(path, {"WRITE"}) /\ FUnlink(path)
             \/ FMkdir(path)
             \/ FStatFile(path)
       \/ \E r \in Renames :
             /\ Free(r[1], {"WRITE"})
             /\ ~IsPrefix(r[1], r[2])
             /\ FRename(r[1], r[2])
       \/ FGetfree

-----------------------------------------------------------------------------
(* Properties *)

\* Where a file or directory starts and how long it is: the object that writes
\* it knows better than its entry.
ObjectAt(v, o, slot) ==
    LET x == SlotValue(v, slot)
        writers == {h \in OpenAs(o, slot) : "WRITE" \in o[h].flag}
        w == o[CHOOSE h \in writers : TRUE]
    IN  IF writers = {} THEN [dir |-> "DIR" \in x.attr, clust |-> x.clust,
                              size |-> x.size]
        ELSE [dir |-> FALSE, clust |-> w.sclust, size |-> w.objsize]

Existing(v) == {p \in Paths : FollowPath(v, p).res = "OK"}

ObjectOf(v, o, p) == ObjectAt(v, o, FollowPath(v, p).slot)

ObjectsOf(v, o) == [p \in Existing(v) |-> ObjectOf(v, o, p)]

ChainsOf(v, objects) == [p \in DOMAIN objects |-> Chain(v, objects[p].clust)]

EveryChainSound(objects, chains) ==
    LET used(p) == ToSet(chains[p])
        free == {c \in Clusters : GetFat(fs, c) = 0}
    IN  /\ \A p, q \in DOMAIN objects : p # q => used(p) \cap used(q) = {}
        /\ \A p \in DOMAIN objects :
              /\ chains[p] # <<>> => GetFat(fs, Last(chains[p])) = EOC
              /\ Len(chains[p]) * ClusterCells >= objects[p].size
              /\ objects[p].dir => chains[p] # <<>>
        /\ free = Clusters \ UNION {used(p) : p \in DOMAIN objects}
        /\ fs.free_clst <= ClusterCount => fs.free_clst = Cardinality(free)

\* The clusters of a volume: no call met an inconsistent chain, a cluster
\* belongs to one chain or is free, chains end where they should and hold the
\* size of their file, and the count of free clusters is right when it is known.
ChainsSound ==
    /\ ~fs.fault
    /\ EveryChainSound(ObjectsOf(fs, fil), ChainsOf(fs, ObjectsOf(fs, fil)))

\* The cells of a file, as its sector buffer, the window and the disk have them.
CellAt(v, o, c, i) ==
    LET sect == clst2sect(Chain(v, c)[i \div ClusterCells + 1])
                    + (i % ClusterCells) \div SectorSize
        dirty == {h \in Handles : /\ o[h] # none
                                  /\ "DIRTY" \in o[h].flag
                                  /\ o[h].sect = sect}
    IN  IF dirty = {} THEN v.disk[sect][i % SectorSize]
        ELSE o[CHOOSE h \in dirty : TRUE].buf[i % SectorSize]

\* The tree of files and the positions in it.
TreeOf(v, o) ==
    [p \in Paths |->
        IF p \notin Existing(v) THEN none
        ELSE LET x == ObjectOf(v, o, p)
             IN  IF x.dir THEN directory
                 ELSE [i \in 1 .. x.size |-> CellAt(v, o, x.clust, i - 1)]]

PathOf(v, o, h) == CHOOSE p \in Existing(v) : h \in OpenAs(o, FollowPath(v, p).slot)

CursorOf(v, o) == [h \in Handles |-> IF o[h] = none THEN none
                               ELSE [path |-> PathOf(v, o, h), pos |-> o[h].fptr]]

-----------------------------------------------------------------------------
(***************************************************************************)
(* The volume as its callers see it.  view is a history variable: the      *)
(* files and positions that the volume, its window and the file objects    *)
(* stand for in each state, kept so that TLC computes them once a state.   *)
(***************************************************************************)
VARIABLE view

fatViewVars == <<fs, fil, got, calls, view>>

ViewOf(v, o) == [tree |-> TreeOf(v, o), cursor |-> CursorOf(v, o),
                 room |-> Cardinality({c \in Clusters : GetFat(v, c) = 0})]

FatViewInit == FatInit /\ view = ViewOf(fs, fil)

FatViewNext == FatNext /\ view' = ViewOf(fs', fil')

Caller == INSTANCE FileStore WITH
    TreePaths <- Paths, OpenFiles <- Handles, ReadCounts <- Counts,
    WriteData <- Writes, Nothing <- none, Directory <- directory,
    tree <- view.tree, cursor <- view.cursor, room <- view.room, answer <- got

\* Through windows, buffers and chains the callers of fatfs_ff.c see a tree of
\* files: what a call writes is what later reads return, whatever the calls
\* between them, a write is cut short only on a full volume, and no call
\* changes a file or directory other than the one it names.
ImplementsFileStore == Caller!StoreSpec
=============================================================================
