------------------------------ MODULE MCFiles ------------------------------
(***************************************************************************)
(* Files from the system calls down to the disk: the virtual file system,  *)
(* FAT files and their clusters, the names in a FAT directory, and the     *)
(* layout of FAT volumes.  Each module states what the one above relies    *)
(* on; they share no state, so a behaviour is one of the part that part    *)
(* names, and the others stay as they began.                               *)
(***************************************************************************)
EXTENDS Vfs, Fat, FatVolume, FatNames, TLC

(***************************************************************************)
(* The virtual file system: a FAT image that has a directory to mount on,  *)
(* a device without one, and names that begin with dots.                   *)
(***************************************************************************)
Abs(names) == [abs |-> TRUE, names |-> names]
Rel(names) == [abs |-> FALSE, names |-> names]

MCVolumeNames == <<"@0", "@1", "@2">>
MCDeviceType == [disk |-> "BLOCK", raw |-> "BLOCK", tty |-> "CHAR"]
MCBootDevices == <<"disk", "raw">>
MCImages ==
    [disk |-> [formatted |-> TRUE,
               tree |-> (<<"bin">> :> "dir") @@ (<<"bin", "sh">> :> "readonly")],
     raw |-> [formatted |-> FALSE, tree |-> <<"bin">> :> "dir"]]

MCCallPaths ==
    ("1" :> [open |-> {Abs(<<"initrd", "..", "initrd", "bin", "sh">>), Abs(<<"dev", "tty">>),
                       Abs(<<"initrd", "bin">>)},
             chdir |-> {Abs(<<"initrd", "bin">>)},
             stat |-> {Abs(<<"initrd", "bin">>), Rel(<<"..", ".x">>)}]) @@
    ("2" :> [open |-> {Abs(<<"system", "threads">>), Rel(<<"sh">>)}, chdir |-> {}, stat |-> {}])
MCMkdirPaths == {Abs(<<"initrd", "bin">>)}
MCMountPairs ==
    {<<Abs(<<"dev", "disk">>), Abs(<<"initrd">>)>>,
     <<Abs(<<"dev", "disk">>), Abs(<<"initrd", "bin">>)>>,
     <<Abs(<<"dev", "raw">>), Abs(<<"initrd">>)>>}

(***************************************************************************)
(* FAT files: an empty volume, and one with a file of two clusters and a   *)
(* directory.  Two handles, so that one object can be open twice.          *)
(***************************************************************************)
CONSTANTS c1, c2, c3

MCPaths == {<<"a">>, <<"d">>, <<"d", "a">>}
MCModes ==
    {{"READ"}, {"READ", "WRITE"}, {"WRITE", "CREATE_ALWAYS"},
     {"READ", "WRITE", "OPEN_ALWAYS", "APPEND"}}
MCWrites == {<<c1>>, <<c2, c3, c1>>}
MCRenames == {<<<<"a">>, <<"d", "a">>>>, <<<<"d", "a">>, <<"a">>>>}

Sector(s) == [i \in Cells |-> s[i + 1]]
PopulatedFat ==
    [s \in 0 .. fsize - 1 |-> [i \in Cells |->
       LET c == s * SectorSize + i
       IN  IF c \in {0, 1, 3, 4} THEN EOC ELSE IF c = 2 THEN 3 ELSE 0]]
PopulatedSectors ==
    (dirbase :> Sector(<<[Entry("a", {"ARC"}) EXCEPT !.clust = 2, !.size = 3],
                         [Entry("d", {"DIR"}) EXCEPT !.clust = 4]>>))
    @@ (clst2sect(2) :> Sector(<<c1, c2>>)) @@ (clst2sect(3) :> Sector(<<c3, blank>>))
    @@ (clst2sect(4) :> Sector(<<[Entry(".", {"DIR"}) EXCEPT !.clust = 4],
                                 Entry("..", {"DIR"})>>))
Populated ==
    [s \in 0 .. SectorCount - 1 |->
       IF s \in fatbase .. dirbase - 1 THEN PopulatedFat[(s - fatbase) % fsize]
       ELSE IF s \in DOMAIN PopulatedSectors THEN PopulatedSectors[s] ELSE EmptyVolume[s]]
MCVolumes == {EmptyVolume, Populated}

(***************************************************************************)
(* FAT volumes: real sizes around the limits of the FAT types, and boot    *)
(* records that were found on the disk, of which some are too small for    *)
(* their clusters or wrong in a field.                                     *)
(***************************************************************************)
Boot(sectors, rsvd, fatSz, root, unit) ==
    [fat |-> TRUE, partitions |-> <<0, 0, 0, 0>>, bytsPerSec |-> 512, fatSz |-> fatSz,
     numFats |-> 2, secPerClus |-> unit, rootEnt |-> root, totSec |-> sectors,
     rsvd |-> rsvd, rootClus |-> 2, freeCount |-> 7]
MCBoots ==
    {unset, [fat |-> FALSE, partitions |-> <<0, 63, 0, 0>>],
     Boot(2880, 1, 9, 224, 1), Boot(2880, 1, 8, 224, 1), Boot(2880, 1, 9, 220, 1),
     Boot(40, 1, 9, 224, 1), Boot(300000, 32, 600, 0, 4), Boot(300000, 32, 580, 0, 4),
     Boot(300000, 32, 580, 0, 3)}
MCDiskSizes ==
    {100, 191, 192, 512, 528, 575, 576, 2880, 4117, 4118, 4611, 65565, 66045, 66046, 66600,
     131500, 2098000, 4194304, 33554432}
MCMkfsOptions ==
    {{"FAT"}, {"FAT32"}, {"FAT", "FAT32"}, {"FAT", "SFD"}, {"FAT", "FAT32", "SFD"},
     {"FAT32", "SFD"}, {"SFD"}}

(***************************************************************************)
(* Names in a directory: long names at the limits of one entry, names that *)
(* collide in their short form, extended characters, names that no entry   *)
(* can have.  And directories that come with a label, with five short      *)
(* names in the way of the numbers, and with entries of long names whose   *)
(* object another system has removed.                                      *)
(***************************************************************************)
Letters(n) == [i \in 1 .. n |-> 96 + i]
MCNames ==
    {<<97>>, <<65>>, <<97, 43>>, <<97, 44, 46>>, <<69>>, <<130>>, <<144>>, <<229, 46, 98, 66>>,
     Letters(13), Letters(14), <<32, 46, 97>>, <<46>>, <<97, 58>>, [i \in 1 .. 256 |-> 97]}
MCNamePairs ==
    {<<<<97>>, <<65>>>>, <<<<97, 43>>, <<65, 43>>>>, <<<<144>>, <<69>>>>,
     <<Letters(14), <<97, 43>>>>}
Padded(s, n) == s \o [i \in 1 .. n - Len(s) |-> Blank]
Short(name) == ShortEntry(ShortName(name), {})
LabelOnly == Padded(<<Label>>, 5)
MCFoundDirs ==
    {LabelOnly,
     Padded(<<DotEntry, DotEntry>> \o [n \in 1 .. 5 |-> Short(<<97, 95, 126, 48 + n>>)], 9),
     Padded(<<put_lfn(<<98, 43>>, 1, 77), Short(<<97>>), put_lfn(<<98, 43>>, 1, 78), Deleted>>, 5)}

VARIABLE part

\* The parts that are not looked at begin in one of their simplest states.
MCInit ==
    /\ part \in {"vfs", "files", "volumes", "names"}
    /\ VfsInit /\ FatViewInit /\ VolumeInit /\ NamesInit
    /\ part # "files" => fs.disk = EmptyVolume
    /\ part # "volumes" => \A d \in Drives : size[d] = 100 /\ boot[d][0] = unset
    /\ part # "names" => slots = LabelOnly

MCNext ==
    /\ UNCHANGED part
    /\ \/ /\ part = "vfs"
          /\ VfsNext
          /\ UNCHANGED <<fatViewVars, volVars, nameVars>>
       \/ /\ part = "files"
          /\ FatViewNext
          /\ UNCHANGED <<vfsVars, volVars, nameVars>>
       \/ /\ part = "volumes"
          /\ VolumeNext
          /\ UNCHANGED <<vfsVars, fatViewVars, nameVars>>
       \/ /\ part = "names"
          /\ NamesNext
          /\ UNCHANGED <<vfsVars, fatViewVars, volVars>>

MCSpec == MCInit /\ [][MCNext]_<<part, vfsVars, fatViewVars, volVars, nameVars>>
=============================================================================
