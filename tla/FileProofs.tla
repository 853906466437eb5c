----------------------------- MODULE FileProofs ------------------------------
(***************************************************************************)
(* The layout that find_volume accepts is sound for every boot record and  *)
(* every device, and every volume that f_mkfs makes is one that            *)
(* find_volume finds as it was made; and the descriptors, files and        *)
(* drivers of the virtual file system agree for any processes, devices,    *)
(* volumes and paths.                                                      *)
(***************************************************************************)
EXTENDS FatVolume, Vfs, Recursion, FiniteSetTheorems, SequenceTheorems

-----------------------------------------------------------------------------
(* Arithmetic *)

\* A quotient is natural and its product with the divisor is not above.
LEMMA QuotientBelow ==
    ASSUME NEW a \in Nat, NEW b \in Nat \ {0}
    PROVE  /\ a \div b \in Nat
           /\ b * (a \div b) <= a
  BY SMT

\* A quotient that is rounded up covers the number.
LEMMA CeilCovers ==
    ASSUME NEW a \in Nat, NEW b \in Nat \ {0}
    PROVE  /\ CeilDiv(a, b) \in Nat
           /\ CeilDiv(a, b) * b >= a
<1>1. a + b - 1 \in Nat
  BY SMT
<1>2. (a + b - 1) \div b \in Nat
  BY <1>1, QuotientBelow
<1>3. (a + b - 1) = b * ((a + b - 1) \div b) + ((a + b - 1) % b)
      /\ (a + b - 1) % b \in 0 .. b - 1
  BY <1>1, SMT
<1> DEFINE q == (a + b - 1) \div b
           m == (a + b - 1) % b
<1>4. q \in Nat /\ m \in 0 .. b - 1 /\ a + b - 1 = b * q + m
  BY <1>2, <1>3
<1> HIDE DEF q, m
<1>5. b * q \in Nat /\ b * q = q * b
  BY <1>4, SMT
<1>6. q * b >= a
  BY <1>4, <1>5, SMT
<1> QED
  BY <1>4, <1>6 DEF CeilDiv, q

\* A set of small numbers has a least one.
LEMMA LeastOfSix ==
    ASSUME NEW S \in SUBSET (1 .. 6), S # {}
    PROVE  \E i \in S : \A j \in S : i <= j
<1>1. \A j \in S : j \in {1, 2, 3, 4, 5, 6}
  BY SMT
<1>2. CASE 1 \in S
  BY <1>1, <1>2
<1>3. CASE 1 \notin S /\ 2 \in S
  BY <1>1, <1>3
<1>4. CASE 1 \notin S /\ 2 \notin S /\ 3 \in S
  BY <1>1, <1>4
<1>5. CASE 1 \notin S /\ 2 \notin S /\ 3 \notin S /\ 4 \in S
  BY <1>1, <1>5
<1>6. CASE 1 \notin S /\ 2 \notin S /\ 3 \notin S /\ 4 \notin S /\ 5 \in S
  BY <1>1, <1>6
<1>7. CASE /\ 1 \notin S /\ 2 \notin S /\ 3 \notin S
           /\ 4 \notin S /\ 5 \notin S
  <2>1. PICK i \in S : TRUE
    OBVIOUS
  <2>2. \A j \in S : j = 6
    BY <1>1, <1>7
  <2>3. \A j \in S : i <= j
    BY <2>1, <2>2
  <2> QED
    BY <2>1, <2>3
<1> QED
  BY <1>2, <1>3, <1>4, <1>5, <1>6, <1>7

-----------------------------------------------------------------------------
(* find_volume *)

\* What find_volume accepts has a sound layout, wherever it starts.
LEMMA AcceptedIsSound ==
    ASSUME NEW r, NEW start \in Nat,
           r.rsvd \in Nat, r.fatSz \in Nat, r.rootEnt \in Nat, r.totSec \in Nat,
           Acceptable(r)
    PROVE  SoundLayout(Layout(r, start))
<1> DEFINE v == Layout(r, start)
           sys == SystemSectors(r)
           n == ClusterTotal(r)
           c == r.secPerClus
           fats == r.fatSz * r.numFats
           root == r.rootEnt \div EntriesPerSector
           bytes == EntryBytes(FatType(n), n + 2)
<1>1. c \in Nat \ {0} /\ r.rsvd \in Nat \ {0}
  BY SMT DEF Acceptable, PowersOfTwo
<1>2. fats \in Nat /\ root \in Nat
  BY SMT DEF Acceptable, EntriesPerSector
<1>3. sys = r.rsvd + fats + root
  BY DEF SystemSectors
<1>4. sys \in Nat /\ r.totSec - sys \in Nat
  <2>1. r.totSec >= sys
    BY DEF Acceptable
  <2> QED
    BY <1>1, <1>2, <1>3, <2>1, SMT
<1>5. n \in Nat /\ c * n <= r.totSec - sys
  BY <1>1, <1>4, QuotientBelow DEF ClusterTotal
<1>6. bytes \in Nat
  <2>1. FatType(n) \in {"FAT12", "FAT16", "FAT32"}
    BY <1>5, SMT DEF FatType, MAX_FAT12, MAX_FAT16
  <2>2. \A m \in Nat : /\ EntryBytes("FAT32", m) \in Nat
                       /\ EntryBytes("FAT16", m) \in Nat
                       /\ EntryBytes("FAT12", m) \in Nat
    BY SMT DEF EntryBytes
  <2> QED
    BY <1>5, <2>1, <2>2
<1>7. bytes <= r.fatSz * SS
  <2>1. r.fatSz >= CeilDiv(bytes, SS)
    BY DEF Acceptable, FatHolds
  <2>2. CeilDiv(bytes, SS) \in Nat /\ CeilDiv(bytes, SS) * SS >= bytes
    BY <1>6, CeilCovers DEF SS
  <2> QED
    BY <1>6, <2>1, <2>2, SMT DEF SS
<1>8. /\ v.volbase = start /\ v.fatbase = start + r.rsvd
      /\ v.fsize = r.fatSz /\ v.n_fats = r.numFats /\ v.n_rootdir = r.rootEnt
      /\ v.database = start + sys /\ v.csize = c /\ v.n_fatent = n + 2
      /\ v.volend = start + r.totSec /\ v.fs_type = FatType(n)
      /\ v.fs_type # "FAT32" => v.dirbase = start + r.rsvd + fats
  BY DEF Layout
<1> HIDE DEF v, sys, n, c, fats, root, bytes
<1>9. v.volbase < v.fatbase
  BY <1>1, <1>8, SMT
<1>10. v.fatbase + fats + root <= v.database
  BY <1>1, <1>2, <1>3, <1>4, <1>8, SMT
<1>11. v.database + c * n <= v.volend
  <2>1. c * n \in Nat
    BY <1>1, <1>5, SMT
  <2> QED
    BY <1>4, <1>5, <1>8, <2>1, SMT
<1>12. v.n_fatent - 2 = n
  BY <1>5, <1>8, SMT
<1>13. EntryBytes(v.fs_type, v.n_fatent) <= v.fsize * SS
  BY <1>7, <1>8 DEF bytes
<1> QED
  BY <1>8, <1>9, <1>10, <1>11, <1>12, <1>13 DEF SoundLayout, v, fats, root, c

\* The volume that find_volume finds, if any.
LEMMA FoundIsSound ==
    ASSUME NEW records,
           IsRecord(records[0]), IsRecord(records[FirstTrack]),
           FindVolume(records) # unset
    PROVE  SoundLayout(FindVolume(records))
<1> DEFINE start == VolumeStart(records)
<1>1. /\ start # unset
      /\ Acceptable(records[start])
      /\ FindVolume(records) = Layout(records[start], start)
  BY DEF FindVolume
<1>2. start \in {0, FirstTrack} /\ records[start].fat = TRUE
      /\ records[start] # unset
  <2>1. CASE CheckFs(records[0]) = 0
    BY <2>1 DEF VolumeStart, CheckFs, IsRecord
  <2>2. CASE CheckFs(records[0]) = 3
    BY <1>1, <2>2 DEF VolumeStart
  <2>3. CASE CheckFs(records[0]) = 2
    <3> DEFINE G == FatPartitions(records)
               k == FirstPartition(records)
    <3>1. records[0].partitions \in [1 .. 4 -> {0, FirstTrack}]
      BY <2>3 DEF CheckFs, IsRecord
    <3>2. G # {} /\ start = records[0].partitions[k]
      BY <1>1, <2>3 DEF VolumeStart
    <3>3. G \subseteq 1 .. 4
      BY DEF FatPartitions
    <3>4. k \in G
      <4>1. G \in SUBSET (1 .. 6)
        BY <3>3
      <4>2. \E i \in G : \A j \in G : i <= j
        BY <3>2, <4>1, LeastOfSix
      <4> QED
        BY <4>2 DEF FirstPartition
    <3>5. /\ k \in 1 .. 4
          /\ records[0].partitions[k] # 0
          /\ CheckFs(records[records[0].partitions[k]]) = 0
      BY <3>4 DEF FatPartitions
    <3> HIDE DEF k
    <3>6. records[0].partitions[k] = FirstTrack
      BY <3>1, <3>5
    <3> QED
      BY <3>2, <3>5, <3>6 DEF CheckFs, IsRecord
  <2> QED
    BY <2>1, <2>2, <2>3 DEF CheckFs
<1>3. IsRecord(records[start])
  BY <1>2
<1>4. start \in Nat
  BY <1>2 DEF FirstTrack
<1> HIDE DEF start
<1> QED
  BY <1>1, <1>2, <1>3, <1>4, AcceptedIsSound DEF IsRecord

-----------------------------------------------------------------------------
(* f_mkfs *)

Plans == [go : {"again", "ok", "aborted"}, fmt : {"FAT12", "FAT16", "FAT32"}, au : Nat,
          opt : SUBSET {"FAT", "FAT32", "SFD"}, b_vol : {0, FirstTrack},
          sz_vol : Nat, pau : Nat, used : Nat, rsv : Nat, fat : Nat,
          n_clst : Nat]

\* Units of allocation are numbers of sectors above 0.
LEMMA UnitIsPositive ==
    ASSUME NEW fmt, NEW n \in Nat
    PROVE  DefaultUnit(fmt, n) \in Nat \ {0}
<1>1. ASSUME NEW table, NEW m
      PROVE  UnitFrom(table, m) \in Nat \ {0}
  <2> DEFINE above == {i \in 1 .. 6 : m < table[i]}
             k == CHOOSE i \in above : \A j \in above : i <= j
  <2>1. CASE above = {}
    BY <2>1 DEF UnitFrom
  <2>2. CASE above # {}
    <3>1. above \in SUBSET (1 .. 6)
      OBVIOUS
    <3>2. \E i \in above : \A j \in above : i <= j
      BY <2>2, <3>1, LeastOfSix
    <3>3. k \in 1 .. 6
      BY <3>1, <3>2
    <3>4. UnitFrom(table, m) = <<1, 2, 4, 8, 16, 32>>[k]
      BY <2>2 DEF UnitFrom
    <3> HIDE DEF k
    <3>5. <<1, 2, 4, 8, 16, 32>>[k] \in Nat \ {0}
      BY <3>3
    <3> QED
      BY <3>4, <3>5
  <2> QED
    BY <2>1, <2>2
<1> QED
  BY <1>1 DEF DefaultUnit

\* So is the erase block.
LEMMA BlockIsPositive == EraseBlock \in Nat \ {0}
  BY VolumeAssumption, SMT DEF EraseBlock

\* The estimate of the FAT is natural.
LEMMA FatSectorsNatural ==
    ASSUME NEW fmt \in {"FAT12", "FAT16", "FAT32"}, NEW n \in Nat
    PROVE  FatSectors(fmt, n) \in Nat
<1>1. n * 4 + 8 \in Nat /\ n * 2 + 4 \in Nat
      /\ ((n * 3 + 1) \div 2) + 3 \in Nat
  BY SMT
<1>2. SS \in Nat \ {0}
  BY DEF SS
<1> QED
  BY <1>1, <1>2, CeilCovers DEF FatSectors

\* The layout of a pass is a plan, of at least one sector a cluster.
LEMMA TriedTyped ==
    ASSUME NEW q \in Plans
    PROVE  Tried(q) \in Plans /\ Tried(q).pau # 0
<1> DEFINE pau == IF q.au = 0 THEN DefaultUnit(q.fmt, q.sz_vol) ELSE q.au
           n0 == q.sz_vol \div pau
           fmt == IF q.fmt = "FAT16" /\ n0 <= MAX_FAT12 THEN "FAT12" ELSE q.fmt
           wide == fmt = "FAT32"
           fat == FatSectors(fmt, n0)
           rsv == IF wide THEN 32 ELSE 1
           dir == IF wide THEN 0 ELSE 32
           used == rsv + fat + dir
           pad == CeilDiv(q.b_vol + used, EraseBlock) * EraseBlock
                      - (q.b_vol + used)
           sz_rsv == IF wide THEN rsv + pad ELSE rsv
           sz_fat == IF wide THEN fat ELSE fat + pad
           n_clst == Quotient(q.sz_vol - used - pad, pau)
<1>1. Tried(q) = [q EXCEPT !.fmt = fmt, !.pau = pau, !.used = used,
                           !.rsv = sz_rsv, !.fat = sz_fat, !.n_clst = n_clst]
  BY DEF Tried
<1>2. /\ q.au \in Nat /\ q.sz_vol \in Nat /\ q.b_vol \in Nat
      /\ q.fmt \in {"FAT12", "FAT16", "FAT32"}
  BY DEF Plans, FirstTrack
<1>3. pau \in Nat \ {0}
  BY <1>2, UnitIsPositive
<1> HIDE DEF pau
<1>4. n0 \in Nat
  BY <1>2, <1>3, QuotientBelow
<1> HIDE DEF n0
<1>5. fmt \in {"FAT12", "FAT16", "FAT32"}
  BY <1>2
<1> HIDE DEF fmt
<1>6. fat \in Nat
  BY <1>4, <1>5, FatSectorsNatural
<1> HIDE DEF fat
<1>7. rsv \in Nat /\ dir \in Nat
  OBVIOUS
<1>8. used \in Nat /\ q.b_vol + used \in Nat
  BY <1>2, <1>6, <1>7, SMT
<1> HIDE DEF used
<1>9. pad \in Nat
  <2>1. CeilDiv(q.b_vol + used, EraseBlock) \in Nat
        /\ CeilDiv(q.b_vol + used, EraseBlock) * EraseBlock >= q.b_vol + used
    BY <1>8, BlockIsPositive, CeilCovers
  <2> QED
    BY <1>8, <2>1, BlockIsPositive, SMT
<1> HIDE DEF pad
<1>10. sz_rsv \in Nat /\ sz_fat \in Nat
  BY <1>6, <1>7, <1>9, SMT
<1> HIDE DEF sz_rsv, sz_fat
<1>11. n_clst \in Nat
  <2>1. ASSUME NEW a \in Int
        PROVE  Quotient(a, pau) \in Nat
    <3>1. CASE a < 0
      BY <3>1 DEF Quotient, MAX_FAT32
    <3>2. CASE ~(a < 0)
      BY <1>3, <3>2, QuotientBelow DEF Quotient
    <3> QED
      BY <3>1, <3>2
  <2>2. q.sz_vol - used - pad \in Int
    BY <1>2, <1>8, <1>9, SMT
  <2> QED
    BY <2>1, <2>2
<1> HIDE DEF n_clst
<1> QED
  BY <1>1, <1>3, <1>5, <1>8, <1>10, <1>11, ZenonT(40) DEF Plans

\* A pass takes plans to plans.
LEMMA PassTyped ==
    ASSUME NEW q \in Plans
    PROVE  Pass(q) \in Plans
<1> DEFINE t == Tried(q)
<1>1. t \in Plans /\ t.pau # 0
  BY TriedTyped
<1>2. /\ q.au \in Nat /\ t.pau \in Nat
      /\ t.fmt \in {"FAT12", "FAT16", "FAT32"} /\ t.n_clst \in Nat
  BY <1>1 DEF Plans
<1>3. t.pau \div 2 \in Nat /\ t.pau * 2 \in Nat
  BY <1>2, SMT
<1>4. GiveUp(q) \in Plans
  BY DEF GiveUp, Plans
<1>5. Accept(t) \in Plans
  BY <1>1 DEF Accept, Plans
<1>6. ASSUME NEW f \in {"FAT12", "FAT16", "FAT32"}, NEW au \in Nat
      PROVE  Retry(q, f, au) \in Plans
  BY DEF Retry, Plans
<1> HIDE DEF t
<1>7. \/ Verdict(q, t) = Accept(t)
      \/ Verdict(q, t) = GiveUp(q)
      \/ Verdict(q, t) = Retry(q, t.fmt, t.pau \div 2)
      \/ Verdict(q, t) = Retry(q, t.fmt, t.pau * 2)
      \/ Verdict(q, t) = Retry(q, "FAT32", q.au)
  BY Zenon DEF Verdict
<1>8. Pass(q) = Verdict(q, t)
  BY DEF Pass, t
<1> QED
  BY <1>2, <1>3, <1>4, <1>5, <1>6, <1>7, <1>8

\* What f_mkfs decides is a plan.
LEMMA PlanTyped ==
    ASSUME NEW n \in Nat, NEW opt \in SUBSET {"FAT", "FAT32", "SFD"},
           NEW au \in Nat, Plan(n, opt, au).go = "ok"
    PROVE  Plan(n, opt, au) \in Plans
<1> DEFINE b == IF "SFD" \in opt THEN 0 ELSE FirstTrack
           q == [go |-> "again", fmt |-> FirstFormat(opt), au |-> au, opt |-> opt,
                 b_vol |-> b, sz_vol |-> VolumeSectors(n, b), pau |-> 0,
                 used |-> 0, rsv |-> 0, fat |-> 0, n_clst |-> 0]
           Step(r) == IF r.go = "again" THEN Pass(r) ELSE r
<1>1. ~(VolumeSectors(n, b) < 128) /\ FirstFormat(opt) # unset
      /\ Plan(n, opt, au) = Passes(q)
  <2>1. Plan(n, opt, au) = IF \/ VolumeSectors(n, b) < 128
                              \/ au > 128
                              \/ FirstFormat(opt) = unset
                           THEN [q EXCEPT !.go = "aborted"]
                           ELSE Passes(q)
    BY DEF Plan
  <2>2. [q EXCEPT !.go = "aborted"].go = "aborted"
    OBVIOUS
  <2> HIDE DEF q
  <2> QED
    BY <2>1, <2>2
<1>2. b \in {0, FirstTrack} /\ b \in Nat
  BY DEF FirstTrack
<1>3. VolumeSectors(n, b) \in Nat
  BY <1>1, <1>2, SMT DEF VolumeSectors
<1>4. FirstFormat(opt) \in {"FAT12", "FAT16", "FAT32"}
  BY <1>1 DEF FirstFormat
<1>5. q \in Plans
  BY <1>2, <1>3, <1>4 DEF Plans
<1> HIDE DEF q
<1>6. \A r \in Plans : Step(r) \in Plans
  BY PassTyped
<1>7. Passes(q) = Step(Step(Step(Step(q))))
  BY DEF Passes
<1> HIDE DEF Step
<1> QED
  BY <1>1, <1>5, <1>6, <1>7

-----------------------------------------------------------------------------
(* The theorem *)

\* Sizes are numbers and boot sectors are records: what find_volume relies on.
VolumeInv ==
    /\ size \in [Drives -> Nat]
    /\ DOMAIN boot = Drives
    /\ \A d \in Drives : IsRecord(boot[d][0]) /\ IsRecord(boot[d][FirstTrack])
    /\ DOMAIN volume = Drives
    /\ LayoutsSound

\* f_mkfs writes boot records that find_volume can read.
LEMMA BootRecordTyped ==
    ASSUME NEW p \in Plans
    PROVE  IsRecord(BootRecord(p))
<1>1. p.rsv \in Nat /\ p.fat \in Nat /\ p.sz_vol \in Nat
  BY DEF Plans
<1> DEFINE r == BootRecord(p)
<1>2. /\ r.fat = TRUE /\ r.rsvd = p.rsv /\ r.fatSz = p.fat
      /\ r.totSec = p.sz_vol /\ r.rootEnt \in Nat
  BY DEF BootRecord
<1> QED
  BY <1>1, <1>2 DEF IsRecord

\* The partition table is a record too.
LEMMA TableTyped == IsRecord(PartitionTable)
  BY DEF IsRecord, PartitionTable, FirstTrack

\* Every volume that find_volume mounts, after any sequence of f_mkfs and
\* f_mount on devices of any size and with any boot records, has a FAT, a root
\* directory and clusters that do not overlap and a FAT with room for them.
THEOREM VolumesSound == VolumeSpec => []LayoutsSound
<1>1. VolumeInit => VolumeInv
  <2> SUFFICES ASSUME VolumeInit PROVE VolumeInv
    OBVIOUS
  <2>1. size \in [Drives -> Nat]
    BY VolumeAssumption DEF VolumeInit
  <2>2. PICK r \in [Drives -> Boots] :
          boot = [d \in Drives |-> [s \in {0, FirstTrack} |->
                                       IF s = 0 THEN r[d] ELSE unset]]
    BY DEF VolumeInit
  <2>3. ASSUME NEW d \in Drives
        PROVE  boot[d][0] = r[d] /\ boot[d][FirstTrack] = unset
    <3>1. boot[d] = [s \in {0, FirstTrack} |-> IF s = 0 THEN r[d] ELSE unset]
      BY <2>2
    <3>2. FirstTrack # 0
      BY DEF FirstTrack
    <3> QED
      BY <3>1, <3>2
  <2>4. \A d \in Drives : IsRecord(r[d])
    <3>1. \A d \in Drives : r[d] \in Boots
      OBVIOUS
    <3> QED
      BY <3>1, VolumeAssumption
  <2>5. IsRecord(unset)
    BY DEF IsRecord
  <2>6. volume = [d \in Drives |-> unset]
    BY DEF VolumeInit
  <2> QED
    BY <2>1, <2>2, <2>3, <2>4, <2>5, <2>6 DEF VolumeInv, LayoutsSound
<1>2. VolumeInv /\ [VolumeNext]_volVars => VolumeInv'
  <2> SUFFICES ASSUME VolumeInv, [VolumeNext]_volVars PROVE VolumeInv'
    OBVIOUS
  <2>1. ASSUME NEW d \in Drives, MountDrive(d)
        PROVE  VolumeInv'
    <3>1. size' = size /\ boot' = boot
          /\ volume' = [volume EXCEPT ![d] = FindVolume(boot[d])]
      BY <2>1 DEF MountDrive
    <3>2. FindVolume(boot[d]) # unset => SoundLayout(FindVolume(boot[d]))
      BY FoundIsSound DEF VolumeInv
    <3>3. LayoutsSound'
      <4> SUFFICES ASSUME NEW e \in Drives, volume'[e] # unset
                   PROVE  SoundLayout(volume'[e])
        BY DEF LayoutsSound
      <4>1. CASE e = d
        BY <3>1, <3>2, <4>1 DEF VolumeInv
      <4>2. CASE e # d
        BY <3>1, <4>2 DEF VolumeInv, LayoutsSound
      <4> QED
        BY <4>1, <4>2
    <3> QED
      BY <3>1, <3>3 DEF VolumeInv
  <2>2. ASSUME NEW d \in Drives, NEW opt \in MkfsOptions, NEW au \in Units,
               Mkfs(d, opt, au)
        PROVE  VolumeInv'
    <3> DEFINE p == Plan(size[d], opt, au)
    <3>1. /\ size' = size
          /\ volume' = [volume EXCEPT ![d] = unset]
          /\ boot' = IF p.go # "ok" THEN boot
                     ELSE [boot EXCEPT
                             ![d] = [s \in {0, FirstTrack} |->
                                       IF s = p.b_vol THEN BootRecord(p)
                                       ELSE IF s = 0 THEN PartitionTable
                                       ELSE @[s]]]
      BY <2>2 DEF Mkfs
    <3>2. LayoutsSound'
      BY <3>1 DEF VolumeInv, LayoutsSound
    <3>3. DOMAIN boot' = Drives
          /\ \A e \in Drives : IsRecord(boot'[e][0]) /\ IsRecord(boot'[e][FirstTrack])
      <4>1. CASE p.go # "ok"
        BY <3>1, <4>1 DEF VolumeInv
      <4>2. CASE p.go = "ok"
        <5>1. p \in Plans
          <6>1. au \in {0} \cup Blocks /\ opt \in SUBSET {"FAT", "FAT32", "SFD"}
            BY VolumeAssumption
          <6>2. au \in Nat /\ size[d] \in Nat
            BY <6>1 DEF Blocks, PowersOfTwo, VolumeInv
          <6> QED BY <4>2, <6>1, <6>2, PlanTyped
        <5>2. IsRecord(BootRecord(p))
          BY <5>1, BootRecordTyped
        <5> HIDE DEF p
        <5> DEFINE new == [s \in {0, FirstTrack} |->
                             IF s = p.b_vol THEN BootRecord(p)
                             ELSE IF s = 0 THEN PartitionTable ELSE boot[d][s]]
        <5>3. boot' = [boot EXCEPT ![d] = new]
          BY <3>1, <4>2
        <5>4. IsRecord(new[0]) /\ IsRecord(new[FirstTrack])
          BY <5>2, TableTyped DEF VolumeInv, FirstTrack
        <5> HIDE DEF new
        <5> QED
          BY <5>3, <5>4 DEF VolumeInv
      <4> QED
        BY <4>1, <4>2
    <3> QED
      BY <3>1, <3>2, <3>3 DEF VolumeInv
  <2>3. CASE UNCHANGED volVars
    BY <2>3 DEF volVars, VolumeInv, LayoutsSound
  <2> QED
    BY <2>1, <2>2, <2>3 DEF VolumeNext
<1>3. VolumeInv => LayoutsSound
  BY DEF VolumeInv
<1> QED
  BY <1>1, <1>2, <1>3, PTL DEF VolumeSpec

-----------------------------------------------------------------------------
(* What f_mkfs makes *)

\* A unit can be halved and doubled within the limits of a record.
LEMMA UnitsAround ==
    ASSUME NEW u \in PowersOfTwo
    PROVE  /\ u \in Nat \ {0}
           /\ u > 1 => u \div 2 \in PowersOfTwo
           /\ u * 2 <= 128 => u * 2 \in PowersOfTwo
  BY SMT DEF PowersOfTwo

\* The default is one of the units of a record.
LEMMA DefaultIsUnit ==
    ASSUME NEW fmt, NEW n
    PROVE  DefaultUnit(fmt, n) \in PowersOfTwo
<1>1. ASSUME NEW table, NEW m
      PROVE  UnitFrom(table, m) \in PowersOfTwo
  <2> DEFINE above == {i \in 1 .. 6 : m < table[i]}
             k == CHOOSE i \in above : \A j \in above : i <= j
  <2>1. CASE above = {}
    BY <2>1 DEF UnitFrom, PowersOfTwo
  <2>2. CASE above # {}
    <3>1. above \in SUBSET (1 .. 6)
      OBVIOUS
    <3>2. \E i \in above : \A j \in above : i <= j
      BY <2>2, <3>1, LeastOfSix
    <3>3. k \in 1 .. 6
      BY <3>1, <3>2
    <3>4. UnitFrom(table, m) = <<1, 2, 4, 8, 16, 32>>[k]
      BY <2>2 DEF UnitFrom
    <3> HIDE DEF k
    <3>5. <<1, 2, 4, 8, 16, 32>>[k] \in PowersOfTwo
      BY <3>3 DEF PowersOfTwo
    <3> QED
      BY <3>4, <3>5
  <2> QED
    BY <2>1, <2>2
<1> QED
  BY <1>1 DEF DefaultUnit

\* A quotient that is rounded up grows with the number.
LEMMA CeilGrows ==
    ASSUME NEW a \in Nat, NEW b \in Nat, a <= b
    PROVE  CeilDiv(a, SS) <= CeilDiv(b, SS)
<1>1. PICK x \in Nat, y \in Nat : x = a + 511 /\ y = b + 511
  OBVIOUS
<1>2. x \div 512 <= y \div 512
  BY <1>1, SMT
<1> QED
  BY <1>1, <1>2 DEF CeilDiv, SS

\* A FAT that was estimated for m clusters holds the entries of n, and of the first two.
LEMMA EstimateHolds ==
    ASSUME NEW fmt \in {"FAT12", "FAT16", "FAT32"}, NEW m \in Nat, NEW n \in Nat, n <= m
    PROVE  /\ EntryBytes(fmt, n + 2) \in Nat
           /\ CeilDiv(EntryBytes(fmt, n + 2), SS) <= FatSectors(fmt, m)
<1>1. CASE fmt = "FAT32"
  <2>1. (n + 2) * 4 \in Nat /\ m * 4 + 8 \in Nat /\ (n + 2) * 4 <= m * 4 + 8
    BY SMT
  <2> QED
    BY <1>1, <2>1, CeilGrows DEF EntryBytes, FatSectors
<1>2. CASE fmt = "FAT16"
  <2>1. (n + 2) * 2 \in Nat /\ m * 2 + 4 \in Nat /\ (n + 2) * 2 <= m * 2 + 4
    BY SMT
  <2> QED
    BY <1>2, <2>1, CeilGrows DEF EntryBytes, FatSectors
<1>3. CASE fmt = "FAT12"
  <2> DEFINE b == (((n + 2) * 3) \div 2) + ((n + 2) % 2)
             e == ((m * 3 + 1) \div 2) + 3
  <2>1. b \in Nat /\ e \in Nat /\ b <= e
    BY SMT
  <2>2. EntryBytes(fmt, n + 2) = b /\ FatSectors(fmt, m) = CeilDiv(e, SS)
    BY <1>3 DEF EntryBytes, FatSectors
  <2> HIDE DEF b, e
  <2> QED
    BY <2>1, <2>2, CeilGrows
<1> QED
  BY <1>1, <1>2, <1>3

\* A pass that can go on, and a layout whose boot record will be accepted.
Trying(q) == /\ q.fmt \in {"FAT16", "FAT32"}
             /\ q.au \in {0} \cup PowersOfTwo

Dir(p) == IF p.fmt = "FAT32" THEN 0 ELSE 32
Before(p) == p.rsv + p.fat + Dir(p)
Fits(p) ==
    /\ p.pau \in PowersOfTwo
    /\ p.rsv # 0
    /\ Before(p) <= p.sz_vol
    /\ p.n_clst = (p.sz_vol - Before(p)) \div p.pau
    /\ FatType(p.n_clst) = p.fmt /\ p.n_clst <= MAX_FAT32
    /\ CeilDiv(EntryBytes(p.fmt, p.n_clst + 2), SS) <= p.fat

\* What a pass has tried, for the clusters n0 that would fit a volume without a FAT.
LEMMA TriedLayout ==
    ASSUME NEW q \in Plans, Trying(q)
    PROVE  LET t == Tried(q)
               n0 == q.sz_vol \div t.pau
           IN  /\ t.pau \in PowersOfTwo /\ n0 \in Nat
               /\ t.sz_vol = q.sz_vol /\ t.b_vol = q.b_vol /\ t.opt = q.opt
               /\ t.fmt \in {"FAT12", "FAT16", "FAT32"} /\ t.rsv \in Nat \ {0}
               /\ t.fmt = "FAT12" => n0 <= MAX_FAT12
               /\ t.fat \in Nat /\ t.fat >= FatSectors(t.fmt, n0)
               /\ Before(t) \in Nat
               /\ Before(t) < t.rsv + FatSectors(t.fmt, n0) + 32 + 32768
               /\ t.fmt = "FAT32" => Before(t) < 32 + FatSectors(t.fmt, n0) + 32768
               /\ t.n_clst = Quotient(q.sz_vol - Before(t), t.pau)
<1> DEFINE pau == IF q.au = 0 THEN DefaultUnit(q.fmt, q.sz_vol) ELSE q.au
           n0 == q.sz_vol \div pau
           fmt == IF q.fmt = "FAT16" /\ n0 <= MAX_FAT12 THEN "FAT12" ELSE q.fmt
           wide == fmt = "FAT32"
           fat == FatSectors(fmt, n0)
           rsv == IF wide THEN 32 ELSE 1
           dir == IF wide THEN 0 ELSE 32
           used == rsv + fat + dir
           pad == CeilDiv(q.b_vol + used, EraseBlock) * EraseBlock
                      - (q.b_vol + used)
           sz_rsv == IF wide THEN rsv + pad ELSE rsv
           sz_fat == IF wide THEN fat ELSE fat + pad
           n_clst == Quotient(q.sz_vol - used - pad, pau)
<1>1. Tried(q) = [q EXCEPT !.fmt = fmt, !.pau = pau, !.used = used,
                           !.rsv = sz_rsv, !.fat = sz_fat, !.n_clst = n_clst]
  BY DEF Tried
<1> DEFINE t == Tried(q)
<1>2. /\ t.fmt = fmt /\ t.pau = pau /\ t.rsv = sz_rsv /\ t.fat = sz_fat /\ t.n_clst = n_clst
      /\ t.sz_vol = q.sz_vol /\ t.b_vol = q.b_vol /\ t.opt = q.opt
  <2> HIDE DEF pau, n0, fmt, used, sz_rsv, sz_fat, n_clst
  <2> QED BY <1>1 DEF Plans
<1> HIDE DEF t
<1>3. q.sz_vol \in Nat /\ q.b_vol \in Nat
  BY DEF Plans, FirstTrack
<1>4. pau \in PowersOfTwo /\ pau \in Nat \ {0}
  BY DefaultIsUnit, UnitsAround DEF Trying
<1> HIDE DEF pau
<1>5. n0 \in Nat
  BY <1>3, <1>4, QuotientBelow
<1>6. fmt \in {"FAT12", "FAT16", "FAT32"} /\ (fmt = "FAT12" => n0 <= MAX_FAT12)
  BY DEF Trying
<1> HIDE DEF n0, fmt
<1>7. fat \in Nat
  BY <1>5, <1>6, FatSectorsNatural
<1> HIDE DEF fat
<1>8. rsv \in {1, 32} /\ dir \in {0, 32} /\ (wide <=> fmt = "FAT32")
  OBVIOUS
<1>9. used \in Nat /\ q.b_vol + used \in Nat
  BY <1>3, <1>7, <1>8, SMT
<1>10. pad \in Nat /\ pad < 32768
  <2>1. EraseBlock \in Nat \ {0} /\ EraseBlock <= 32768
    BY SMT DEF EraseBlock, Blocks, PowersOfTwo
  <2> DEFINE a == q.b_vol + used
             b == EraseBlock
             c == CeilDiv(a, b)
  <2>2. c \in Nat /\ c * b >= a
    BY <1>9, <2>1, CeilCovers
  <2>3. c * b < a + b
    <3>1. a + b - 1 \in Nat
      BY <1>9, <2>1, SMT
    <3>2. b * ((a + b - 1) \div b) <= a + b - 1
      BY <2>1, <3>1, QuotientBelow
    <3>3. c = (a + b - 1) \div b
      BY DEF CeilDiv
    <3> HIDE DEF a, b, c
    <3>4. b * c = c * b /\ b \in Nat /\ a \in Nat /\ b * c <= a + b - 1 /\ b * c \in Nat
      BY <1>9, <2>1, <2>2, <3>2, <3>3, SMT DEF a, b
    <3> QED BY <3>4
  <2>4. pad = c * b - a
    OBVIOUS
  <2> HIDE DEF a, b, c
  <2>5. a \in Nat /\ b \in Nat /\ b <= 32768 /\ c * b \in Nat
    BY <1>9, <2>1, <2>2, SMT DEF a, b
  <2> QED BY <2>2, <2>3, <2>4, <2>5
<1> HIDE DEF pad
<1>11. Before(t) = used + pad /\ sz_rsv \in Nat \ {0} /\ sz_fat \in Nat /\ sz_fat >= fat
  BY <1>2, <1>7, <1>8, <1>10, SMT DEF Before, Dir
<1>12. q.sz_vol - used - pad = q.sz_vol - Before(t)
  BY <1>3, <1>9, <1>10, <1>11, SMT
<1>13. n0 = q.sz_vol \div t.pau /\ FatSectors(t.fmt, n0) = fat
  BY <1>2 DEF n0, fat
<1>14. t.n_clst = Quotient(q.sz_vol - Before(t), t.pau)
  BY <1>2, <1>12
<1>15. Before(t) < t.rsv + fat + 32 + 32768 /\ (t.fmt = "FAT32" => Before(t) < 32 + fat + 32768)
  BY <1>2, <1>7, <1>8, <1>10, <1>11, SMT
<1> QED
  BY <1>2, <1>4, <1>5, <1>6, <1>9, <1>10, <1>11, <1>13, <1>14, <1>15, SMT DEF t

\* A layout that a pass accepts fits, and with the record's own numbers.
LEMMA AcceptedFits ==
    ASSUME NEW q \in Plans, Trying(q),
           ~ Hopeless(q, Tried(q)),
           Tried(q).fmt = "FAT32" => Tried(q).n_clst > MAX_FAT16,
           Tried(q).fmt = "FAT16" => /\ Tried(q).n_clst <= MAX_FAT16
                                     /\ Tried(q).n_clst > MAX_FAT12,
           Tried(q).fmt = "FAT12" => Tried(q).n_clst <= MAX_FAT12
    PROVE  Fits(Tried(q))
<1> DEFINE t == Tried(q)
           n0 == q.sz_vol \div t.pau
           a == q.sz_vol - Before(t)
<1> USE DEF MAX_FAT12, MAX_FAT16, MAX_FAT32
<1>1. /\ t.pau \in PowersOfTwo /\ n0 \in Nat
      /\ t.sz_vol = q.sz_vol
      /\ t.fmt \in {"FAT12", "FAT16", "FAT32"} /\ t.rsv \in Nat \ {0}
      /\ t.fat \in Nat /\ t.fat >= FatSectors(t.fmt, n0)
      /\ Before(t) \in Nat
      /\ t.fmt = "FAT32" => Before(t) < 32 + FatSectors(t.fmt, n0) + 32768
      /\ t.n_clst = Quotient(a, t.pau)
  BY TriedLayout
<1>2. q.sz_vol \in Nat /\ t.n_clst \in Nat
  BY TriedTyped DEF Plans
<1>3. t.fmt = "FAT32" => n0 > MAX_FAT16 /\ n0 <= MAX_FAT32
  <2>1. t.fmt = "FAT32" => ~ (n0 <= MAX_FAT16) /\ ~ (n0 > MAX_FAT32)
    <3> HIDE DEF t
    <3>1. ~ Hopeless(q, t)
      BY DEF t
    <3> QED BY <3>1 DEF Hopeless
  <2> HIDE DEF n0
  <2> QED BY <1>1, <2>1
<1>4. /\ t.fmt = "FAT32" => t.n_clst > MAX_FAT16
      /\ t.fmt = "FAT16" => t.n_clst <= MAX_FAT16 /\ t.n_clst > MAX_FAT12
      /\ t.fmt = "FAT12" => t.n_clst <= MAX_FAT12
  OBVIOUS
<1> HIDE DEF t
<1>5. t.pau \in Nat \ {0}
  BY <1>1, UnitsAround
<1>6. n0 <= q.sz_vol
  <2>1. PICK u, s : u = t.pau /\ s = q.sz_vol
    OBVIOUS
  <2>2. u \in {1, 2, 4, 8, 16, 32, 64, 128} /\ s \in Nat
    BY <1>1, <1>2, <2>1 DEF PowersOfTwo
  <2>3. s \div u <= s
    BY <2>2, SMT
  <2> QED BY <2>1, <2>3
<1>7. a \in Int
  BY <1>1, <1>2
<1>8. a >= 0
  <2>1. CASE t.fmt = "FAT32"
    <3>1. FatSectors("FAT32", n0) = (n0 * 4 + 8 + 512 - 1) \div 512
      BY <2>1 DEF FatSectors, CeilDiv, SS
    <3>2. FatSectors("FAT32", n0) \in Nat
      BY <1>1, FatSectorsNatural
    <3> HIDE DEF n0
    <3>3. 512 * FatSectors("FAT32", n0) <= n0 * 4 + 519
      BY <1>1, <3>1, SMT
    <3>4. n0 \in Nat /\ n0 > 65525 /\ n0 <= q.sz_vol
      BY <1>1, <1>3, <1>6, <2>1
    <3>5. Before(t) < 32 + FatSectors("FAT32", n0) + 32768
      BY <1>1, <2>1
    <3> QED BY <1>1, <1>2, <3>2, <3>3, <3>4, <3>5, SMT
  <2>2. CASE t.fmt # "FAT32"
    <3>1. t.n_clst <= MAX_FAT16
      BY <1>1, <1>2, <1>4, <2>2
    <3>2. a < 0 => t.n_clst = MAX_FAT32 + 1
      BY <1>1 DEF Quotient
    <3> HIDE DEF a
    <3> QED BY <1>7, <3>1, <3>2
  <2> QED BY <2>1, <2>2
<1>9. t.n_clst = a \div t.pau
  BY <1>1, <1>7, <1>8 DEF Quotient
<1>10. t.n_clst \in Nat /\ t.n_clst <= n0
  <2> DEFINE u == t.pau
  <2>1. u \in {1, 2, 4, 8, 16, 32, 64, 128}
    BY <1>1 DEF PowersOfTwo
  <2>2. a \in Nat /\ a <= q.sz_vol
    BY <1>1, <1>2, <1>7, <1>8
  <2> HIDE DEF u, a
  <2>3. a \div u \in Nat /\ a \div u <= q.sz_vol \div u
    BY <1>2, <2>1, <2>2, SMT
  <2> QED BY <1>9, <2>3 DEF u, n0
<1> HIDE DEF n0
<1>11. Before(t) <= t.sz_vol
  BY <1>1, <1>2, <1>8
<1>12. FatType(t.n_clst) = t.fmt
  BY <1>1, <1>4, <1>10 DEF FatType
<1>13. t.n_clst <= MAX_FAT32
  BY <1>1, <1>3, <1>4, <1>10
<1>14. CeilDiv(EntryBytes(t.fmt, t.n_clst + 2), SS) <= t.fat
  <2>1. CeilDiv(EntryBytes(t.fmt, t.n_clst + 2), SS) <= FatSectors(t.fmt, n0)
    BY <1>1, <1>10, EstimateHolds
  <2>2. EntryBytes(t.fmt, t.n_clst + 2) \in Nat
    BY <1>1, <1>10, EstimateHolds
  <2>3. CeilDiv(EntryBytes(t.fmt, t.n_clst + 2), SS) \in Nat
    BY <2>2, CeilCovers DEF SS
  <2>4. FatSectors(t.fmt, n0) \in Nat
    BY <1>1, FatSectorsNatural
  <2> QED BY <1>1, <2>1, <2>3, <2>4
<1>15. t.n_clst = (t.sz_vol - Before(t)) \div t.pau
  BY <1>1, <1>9
<1> QED BY <1>1, <1>11, <1>12, <1>13, <1>14, <1>15 DEF Fits, t

\* A pass leaves a plan that can be tried again, or has one that fits, for the same volume.
LEMMA PassFits ==
    ASSUME NEW q \in Plans, Trying(q), q.go = "again"
    PROVE  /\ Pass(q) \in Plans
           /\ Pass(q).sz_vol = q.sz_vol /\ Pass(q).b_vol = q.b_vol
           /\ Pass(q).go = "again" => Trying(Pass(q))
           /\ Pass(q).go = "ok" => Fits(Pass(q))
<1> DEFINE t == Tried(q)
           r == Pass(q)
<1>1. r \in Plans
  BY PassTyped
<1>2. t \in Plans /\ t.pau \in PowersOfTwo /\ t.sz_vol = q.sz_vol /\ t.b_vol = q.b_vol
  BY TriedTyped, TriedLayout
<1>3. r = Verdict(q, t)
  BY DEF Pass
<1> HIDE DEF t, r
<1>4. t.fmt \in {"FAT12", "FAT16", "FAT32"} /\ t.n_clst \in Nat
  BY <1>2 DEF Plans
<1>5. ASSUME NEW f \in {"FAT16", "FAT32"}, NEW u \in {0} \cup PowersOfTwo,
             r = Retry(q, f, u)
      PROVE  r.sz_vol = q.sz_vol /\ r.b_vol = q.b_vol /\ r.go = "again" /\ Trying(r)
  <2>1. /\ r.sz_vol = q.sz_vol /\ r.b_vol = q.b_vol /\ r.go = "again"
        /\ r.fmt = f /\ r.au = u
    BY <1>5 DEF Retry, Plans
  <2> QED BY <2>1 DEF Trying
<1>6. ASSUME r = GiveUp(q)
      PROVE  r.sz_vol = q.sz_vol /\ r.b_vol = q.b_vol /\ r.go = "aborted"
  BY <1>6 DEF GiveUp, Plans
<1>7. ASSUME r = Accept(t), Fits(t)
      PROVE  r.sz_vol = q.sz_vol /\ r.b_vol = q.b_vol /\ r.go = "ok" /\ Fits(r)
  <2>1. /\ r.sz_vol = t.sz_vol /\ r.b_vol = t.b_vol /\ r.go = "ok" /\ r.fmt = t.fmt
        /\ r.pau = t.pau /\ r.rsv = t.rsv /\ r.fat = t.fat /\ r.n_clst = t.n_clst
    BY <1>2, <1>7 DEF Accept, Plans
  <2> QED BY <1>2, <1>7, <2>1 DEF Fits, Before, Dir
<1>8. /\ t.pau > 1 => t.pau \div 2 \in PowersOfTwo
      /\ t.pau * 2 <= 128 => t.pau * 2 \in PowersOfTwo
      /\ t.pau * 2 <= 64 => t.pau * 2 \in PowersOfTwo
  BY <1>2, SMT DEF PowersOfTwo
<1>9. CASE Hopeless(q, t)
  BY <1>1, <1>3, <1>6, <1>9 DEF Verdict, r
<1>10. CASE ~ Hopeless(q, t) /\ t.fmt = "FAT32" /\ t.n_clst <= MAX_FAT16
  <2>1. r = GiveUp(q) \/ (t.pau > 1 /\ r = Retry(q, t.fmt, t.pau \div 2))
    BY <1>3, <1>10, Zenon DEF Verdict
  <2> QED BY <1>1, <1>5, <1>6, <1>8, <1>10, <2>1 DEF r
<1>11. CASE ~ Hopeless(q, t) /\ t.fmt = "FAT16" /\ t.n_clst > MAX_FAT16
  <2>1. \/ r = GiveUp(q) \/ r = Retry(q, "FAT32", q.au)
        \/ t.pau * 2 <= 64 /\ r = Retry(q, t.fmt, t.pau * 2)
        \/ t.pau * 2 <= 128 /\ r = Retry(q, t.fmt, t.pau * 2)
    BY <1>3, <1>11 DEF Verdict
  <2>2. q.au \in {0} \cup PowersOfTwo
    BY DEF Trying
  <2> QED BY <1>1, <1>5, <1>6, <1>8, <1>11, <2>1, <2>2 DEF r
<1>12. CASE ~ Hopeless(q, t) /\ t.fmt = "FAT16" /\ t.n_clst <= MAX_FAT12
  <2>1. \/ r = GiveUp(q)
        \/ t.pau * 2 <= 128 /\ r = Retry(q, t.fmt, t.pau * 2)
    BY <1>3, <1>4, <1>12 DEF Verdict, MAX_FAT12, MAX_FAT16
  <2> QED BY <1>1, <1>5, <1>6, <1>8, <1>12, <2>1 DEF r
<1>13. CASE ~ Hopeless(q, t) /\ t.fmt = "FAT12" /\ t.n_clst > MAX_FAT12
  <2>1. r = GiveUp(q)
    BY <1>3, <1>13 DEF Verdict
  <2> QED BY <1>1, <1>6, <2>1 DEF r
<1>14. CASE /\ ~ Hopeless(q, t)
            /\ t.fmt = "FAT32" => t.n_clst > MAX_FAT16
            /\ t.fmt = "FAT16" => t.n_clst <= MAX_FAT16 /\ t.n_clst > MAX_FAT12
            /\ t.fmt = "FAT12" => t.n_clst <= MAX_FAT12
  <2>1. r = Accept(t)
    BY <1>3, <1>4, <1>14 DEF Verdict, MAX_FAT12, MAX_FAT16
  <2>2. Fits(t)
    BY <1>14, AcceptedFits DEF t
  <2> QED BY <1>1, <1>7, <2>1, <2>2 DEF r
<1> QED
  BY <1>4, <1>9, <1>10, <1>11, <1>12, <1>13, <1>14, SMT DEF MAX_FAT12, MAX_FAT16

\* What f_mkfs decides fits the device.
LEMMA PlanFits ==
    ASSUME NEW n \in Nat, NEW opt \in SUBSET {"FAT", "FAT32", "SFD"},
           NEW au \in {0} \cup Blocks, Plan(n, opt, au).go = "ok"
    PROVE  LET p == Plan(n, opt, au)
           IN  p \in Plans /\ Fits(p) /\ p.b_vol + p.sz_vol = n
<1> DEFINE b == IF "SFD" \in opt THEN 0 ELSE FirstTrack
           q == [go |-> "again", fmt |-> FirstFormat(opt), au |-> au, opt |-> opt,
                 b_vol |-> b, sz_vol |-> VolumeSectors(n, b), pau |-> 0,
                 used |-> 0, rsv |-> 0, fat |-> 0, n_clst |-> 0]
           Step(r) == IF r.go = "again" THEN Pass(r) ELSE r
           Good(r) == /\ r \in Plans /\ r.b_vol = q.b_vol /\ r.sz_vol = q.sz_vol
                      /\ r.go = "again" => Trying(r)
                      /\ r.go = "ok" => Fits(r)
<1>1. /\ ~(VolumeSectors(n, b) < 128) /\ FirstFormat(opt) # unset /\ ~(au > 128)
      /\ Plan(n, opt, au) = Passes(q)
  <2>1. Plan(n, opt, au) = IF \/ VolumeSectors(n, b) < 128
                              \/ au > 128
                              \/ FirstFormat(opt) = unset
                           THEN [q EXCEPT !.go = "aborted"]
                           ELSE Passes(q)
    BY DEF Plan
  <2>2. [q EXCEPT !.go = "aborted"].go = "aborted"
    OBVIOUS
  <2> HIDE DEF q
  <2> QED
    BY <2>1, <2>2
<1>2. b \in {0, FirstTrack} /\ b \in Nat
  BY DEF FirstTrack
<1>3. VolumeSectors(n, b) \in Nat /\ b + VolumeSectors(n, b) = n
  BY <1>1, <1>2, SMT DEF VolumeSectors
<1>4. FirstFormat(opt) \in {"FAT16", "FAT32"}
  BY <1>1 DEF FirstFormat
<1>5. au \in {0} \cup PowersOfTwo /\ au \in Nat
  BY <1>1, SMT DEF Blocks, PowersOfTwo
<1>6. /\ q \in Plans /\ q.b_vol + q.sz_vol = n /\ q.go = "again" /\ q.fmt = FirstFormat(opt)
      /\ q.au = au
  BY <1>2, <1>3, <1>4, <1>5 DEF Plans
<1> HIDE DEF q
<1>7. Good(q)
  BY <1>4, <1>5, <1>6 DEF Trying
<1>8. \A r : Good(r) => Good(Step(r))
  BY PassFits
<1>9. Passes(q) = Step(Step(Step(Step(q))))
  BY DEF Passes
<1> HIDE DEF Step, Good
<1>10. Good(Passes(q))
  BY <1>7, <1>8, <1>9
<1> QED
  BY <1>1, <1>6, <1>10 DEF Good

\* The record of a layout that fits is accepted, and is the one find_volume finds.
LEMMA MadeIsFound ==
    ASSUME NEW p \in Plans, Fits(p), p.n_clst > 0,
           NEW records, records[p.b_vol] = BootRecord(p),
           p.b_vol # 0 => records[0] = PartitionTable
    PROVE  LET v == FindVolume(records)
           IN  /\ v # unset /\ v.fs_type = p.fmt /\ v.n_fatent = p.n_clst + 2
               /\ v.volend = p.b_vol + p.sz_vol
<1> DEFINE r == BootRecord(p)
           root == IF p.fmt = "FAT32" THEN 0 ELSE 512
<1>1. /\ p.fmt \in {"FAT12", "FAT16", "FAT32"} /\ p.b_vol \in {0, FirstTrack}
      /\ p.sz_vol \in Nat /\ p.rsv \in Nat /\ p.fat \in Nat /\ p.n_clst \in Nat
      /\ p.pau \in Nat
  BY DEF Plans
<1>2. /\ r.fat = TRUE /\ r.bytsPerSec = SS /\ r.fatSz = p.fat /\ r.numFats = 1
      /\ r.secPerClus = p.pau /\ r.rootEnt = root /\ r.totSec = p.sz_vol /\ r.rsvd = p.rsv
      /\ r.rootClus = 2 /\ r.freeCount = p.n_clst - 1
  BY DEF BootRecord
<1>3. r # unset
  <2>1. r \in MadeRecords
    BY <1>1 DEF MadeRecords, BootRecord
  <2> QED BY <2>1, VolumeAssumption
<1>4. PartitionTable # unset
  BY VolumeAssumption DEF MadeRecords
<1>5. VolumeStart(records) = p.b_vol
  <2>1. CASE p.b_vol = 0
    BY <1>2, <1>3, <2>1 DEF VolumeStart, CheckFs
  <2>2. CASE p.b_vol # 0
    <3>1. p.b_vol = 63 /\ records[0] = PartitionTable /\ records[63] = r
      BY <1>1, <2>2 DEF FirstTrack
    <3>2. CheckFs(records[0]) = 2 /\ CheckFs(records[63]) = 0
      BY <1>2, <1>3, <1>4, <3>1 DEF CheckFs, PartitionTable
    <3>3. records[0].partitions = <<63, 0, 0, 0>>
      BY <3>1 DEF PartitionTable, FirstTrack
    <3> DEFINE G == FatPartitions(records)
    <3>4. 1 \in G /\ G \subseteq {1}
      <4>1. \A i \in 1 .. 4 : records[0].partitions[i] = IF i = 1 THEN 63 ELSE 0
        BY <3>3
      <4> QED BY <3>2, <4>1 DEF FatPartitions
    <3>5. G = {1}
      BY <3>4
    <3>6. FirstPartition(records) = 1
      BY <3>5 DEF FirstPartition
    <3>7. records[0].partitions[1] = 63
      BY <3>3
    <3> QED BY <3>1, <3>2, <3>5, <3>6, <3>7 DEF VolumeStart
  <2> QED BY <2>1, <2>2
<1>6. p.b_vol # unset /\ p.b_vol \in Nat
  BY <1>1, VolumeAssumption DEF FirstTrack
<1> HIDE DEF r
<1>7. SystemSectors(r) = Before(p)
  BY <1>1, <1>2 DEF SystemSectors, Before, Dir, EntriesPerSector
<1>8. ClusterTotal(r) = p.n_clst
  BY <1>2, <1>7 DEF ClusterTotal, Fits
<1>9. Acceptable(r)
  <2>1. FatHolds(r)
    <3>1. CeilDiv(EntryBytes(p.fmt, p.n_clst + 2), SS) <= p.fat
      BY DEF Fits
    <3>2. EntryBytes(p.fmt, p.n_clst + 2) \in Nat
      BY <1>1, EstimateHolds
    <3>3. CeilDiv(EntryBytes(p.fmt, p.n_clst + 2), SS) \in Nat
      BY <3>2, CeilCovers DEF SS
    <3>4. FatType(p.n_clst) = p.fmt
      BY DEF Fits
    <3>5. p.fat >= CeilDiv(EntryBytes(p.fmt, p.n_clst + 2), SS)
      BY <1>1, <3>1, <3>3
    <3> QED BY <1>2, <1>8, <3>4, <3>5 DEF FatHolds
  <2>2. /\ r.secPerClus \in PowersOfTwo /\ r.rsvd # 0 /\ ClusterTotal(r) # 0
        /\ ClusterTotal(r) <= MAX_FAT32
    BY <1>1, <1>2, <1>8 DEF Fits
  <2>3. r.rootEnt % EntriesPerSector = 0
    BY <1>2 DEF EntriesPerSector
  <2>4. r.totSec >= SystemSectors(r)
    <3>1. Before(p) <= p.sz_vol /\ Before(p) \in Nat
      BY <1>1 DEF Fits, Before, Dir
    <3> QED BY <1>1, <1>2, <1>7, <3>1
  <2>5. (r.rootEnt = 0) <=> (FatType(ClusterTotal(r)) = "FAT32")
    BY <1>2, <1>8 DEF Fits
  <2> QED BY <1>2, <2>1, <2>2, <2>3, <2>4, <2>5 DEF Acceptable
<1>10. FindVolume(records) = Layout(r, p.b_vol)
  BY <1>5, <1>6, <1>9 DEF FindVolume, r
<1> DEFINE v == Layout(r, p.b_vol)
<1>11. /\ v.fs_type = p.fmt /\ v.n_fatent = p.n_clst + 2 /\ v.volend = p.b_vol + p.sz_vol
  BY <1>2, <1>8 DEF Layout, Fits
<1>12. v \in Layouts
  <2>1. PICK sys, dir, type, n : /\ sys = SystemSectors(r) /\ type = FatType(ClusterTotal(r))
                           /\ dir = (IF type = "FAT32" THEN r.rootClus
                                     ELSE p.b_vol + r.rsvd + r.fatSz * r.numFats)
                           /\ n = ClusterTotal(r)
    OBVIOUS
  <2>2. /\ type \in {"FAT12", "FAT16", "FAT32"} /\ n \in Nat
        /\ r.totSec \in Nat /\ r.rsvd \in Nat /\ r.fatSz \in Nat /\ r.numFats = 1
        /\ r.rootEnt \in Nat /\ r.rootClus = 2 /\ r.secPerClus \in Nat /\ r.freeCount \in Int
    BY <1>1, <1>2, <1>8, <2>1 DEF Fits
  <2>3. sys \in Nat
    BY <1>1, <1>7, <2>1 DEF Before, Dir
  <2>4. dir \in Nat
    BY <1>6, <2>1, <2>2
  <2>5. v = [fs_type |-> type, volbase |-> p.b_vol, volend |-> p.b_vol + r.totSec,
             fatbase |-> p.b_vol + r.rsvd, fsize |-> r.fatSz, n_fats |-> r.numFats,
             n_rootdir |-> r.rootEnt, dirbase |-> dir, database |-> p.b_vol + sys,
             csize |-> r.secPerClus, n_fatent |-> n + 2,
             free_clst |-> IF type = "FAT32" THEN r.freeCount ELSE unset]
    BY <2>1 DEF Layout
  <2>6. /\ p.b_vol + r.totSec \in Nat /\ p.b_vol + r.rsvd \in Nat /\ p.b_vol + sys \in Nat
        /\ n + 2 \in Nat /\ r.numFats \in Nat
    BY <1>6, <2>2, <2>3
  <2>7. (IF type = "FAT32" THEN r.freeCount ELSE unset) \in Int \cup {unset}
    BY <2>2
  <2> HIDE DEF v
  <2> QED BY <1>6, <2>2, <2>4, <2>5, <2>6, <2>7 DEF Layouts
<1>13. v # unset
  BY <1>12, VolumeAssumption
<1> HIDE DEF v
<1> QED BY <1>10, <1>11, <1>13 DEF v

-----------------------------------------------------------------------------
(* The volumes that were made *)

\* On the disk is what the last f_mkfs that succeeded wrote: its record, which fits the
\* device, and the partition table that leads to it.
MadeAt(d) ==
    LET p == made[d]
    IN  /\ p \in Plans /\ Fits(p) /\ p.b_vol + p.sz_vol = size[d]
        /\ boot[d][p.b_vol] = BootRecord(p)
        /\ p.b_vol # 0 => boot[d][0] = PartitionTable

MadeInv ==
    /\ size \in [Drives -> Nat]
    /\ DOMAIN boot = Drives /\ DOMAIN made = Drives
    /\ \A d \in Drives : made[d] # unset => MadeAt(d)

\* Whatever device f_mkfs formats, with whatever options and allocation unit: when it has
\* answered FR_OK for a volume of at least one cluster, find_volume accepts the boot record
\* it wrote and computes the same type, the same number of clusters and an end inside the
\* device, although the two functions share none of that arithmetic.
THEOREM VolumesMount == VolumeSpec => []MadeVolumesMount
<1>1. VolumeInit => MadeInv
  <2> SUFFICES ASSUME VolumeInit PROVE MadeInv
    OBVIOUS
  <2>1. size \in [Drives -> Nat]
    BY VolumeAssumption DEF VolumeInit
  <2>2. DOMAIN boot = Drives /\ made = [d \in Drives |-> unset]
    BY DEF VolumeInit
  <2> QED BY <2>1, <2>2 DEF MadeInv
<1>2. MadeInv /\ [VolumeNext]_volVars => MadeInv'
  <2> SUFFICES ASSUME MadeInv, [VolumeNext]_volVars PROVE MadeInv'
    OBVIOUS
  <2>1. ASSUME size' = size, boot' = boot, made' = made
        PROVE  MadeInv'
    BY <2>1 DEF MadeInv, MadeAt
  <2>2. ASSUME NEW d \in Drives, MountDrive(d)
        PROVE  MadeInv'
    BY <2>1, <2>2 DEF MountDrive
  <2>3. ASSUME NEW d \in Drives, NEW opt \in MkfsOptions, NEW au \in Units,
               Mkfs(d, opt, au)
        PROVE  MadeInv'
    <3> DEFINE p == Plan(size[d], opt, au)
               new == [s \in {0, FirstTrack} |->
                          IF s = p.b_vol THEN BootRecord(p)
                          ELSE IF s = 0 THEN PartitionTable ELSE boot[d][s]]
    <3>1. /\ size' = size
          /\ made' = IF p.go = "ok" THEN [made EXCEPT ![d] = p] ELSE made
          /\ boot' = IF p.go # "ok" THEN boot ELSE [boot EXCEPT ![d] = new]
      BY <2>3 DEF Mkfs
    <3>2. CASE p.go # "ok"
      BY <2>1, <3>1, <3>2
    <3>3. CASE p.go = "ok"
      <4>1. size[d] \in Nat /\ opt \in SUBSET {"FAT", "FAT32", "SFD"}
            /\ au \in {0} \cup Blocks
        BY VolumeAssumption DEF MadeInv
      <4>2. p \in Plans /\ Fits(p) /\ p.b_vol + p.sz_vol = size[d]
        BY <3>3, <4>1, PlanFits
      <4> HIDE DEF p
      <4>3. p.b_vol \in {0, FirstTrack}
        BY <4>2 DEF Plans
      <4>4. new[p.b_vol] = BootRecord(p) /\ (p.b_vol # 0 => new[0] = PartitionTable)
        BY <4>3
      <4> HIDE DEF new
      <4>5. /\ made' = [made EXCEPT ![d] = p] /\ boot' = [boot EXCEPT ![d] = new]
            /\ DOMAIN made = Drives /\ DOMAIN boot = Drives
        BY <3>1, <3>3 DEF MadeInv
      <4>6. MadeAt(d)'
        BY <3>1, <4>2, <4>4, <4>5 DEF MadeAt
      <4>7. ASSUME NEW e \in Drives, e # d, made'[e] # unset
            PROVE  MadeAt(e)'
        <5>1. made'[e] = made[e] /\ boot'[e] = boot[e]
          BY <4>5, <4>7
        <5>2. MadeAt(e)
          BY <4>7, <5>1 DEF MadeInv
        <5> QED BY <3>1, <5>1, <5>2 DEF MadeAt
      <4> QED BY <3>1, <4>5, <4>6, <4>7 DEF MadeInv
    <3> QED BY <3>2, <3>3
  <2>4. CASE UNCHANGED volVars
    BY <2>1, <2>4 DEF volVars
  <2> QED
    BY <2>2, <2>3, <2>4 DEF VolumeNext
<1>3. MadeInv => MadeVolumesMount
  <2> SUFFICES ASSUME MadeInv, NEW d \in Drives, made[d] # unset, made[d].n_clst > 0
               PROVE  LET v == FindVolume(boot[d])
                      IN  /\ v # unset /\ v.fs_type = made[d].fmt
                          /\ v.n_fatent = made[d].n_clst + 2 /\ v.volend <= size[d]
    BY DEF MadeVolumesMount
  <2> DEFINE p == made[d]
             v == FindVolume(boot[d])
  <2>1. /\ p \in Plans /\ Fits(p) /\ p.b_vol + p.sz_vol = size[d] /\ size[d] \in Nat
        /\ boot[d][p.b_vol] = BootRecord(p)
        /\ p.b_vol # 0 => boot[d][0] = PartitionTable
    BY DEF MadeInv, MadeAt
  <2>2. /\ v # unset /\ v.fs_type = p.fmt /\ v.n_fatent = p.n_clst + 2
        /\ v.volend = p.b_vol + p.sz_vol
    BY <2>1, MadeIsFound
  <2> HIDE DEF p, v
  <2>3. v.volend <= size[d]
    BY <2>1, <2>2
  <2> QED BY <2>2, <2>3 DEF p, v
<1> QED
  BY <1>1, <1>2, <1>3, PTL DEF VolumeSpec

-----------------------------------------------------------------------------
(***************************************************************************)
(* The tree of nodes.                                                      *)
(***************************************************************************)

\* The words that the model has: names, types and file systems.
Words == STRING \cup {"", "dev", "@dev", "initrd", "system", "@system", "meminfo", "totalpages",
                      "usedpages", "threads", "pipes", "shm", "@null", "@long", "root", "bare",
                      "device", "thread", "fat", "fatroot", "DIR", "FILE", "MOUNT", "BLOCK", "CHAR",
                      "."}

Ids == Seq(Words)

\* The names that are not volumes' and not marks of the model.
Plain == Words \ (Marks \cup Range(VolumeNames))

NodeRecords == [name : Plain, parent : Ids, type : SUBSET Words, kids : Seq(Ids),
                mount : Ids, fs : Words]

ThreadIds == {Append(ThreadsDir, p) : p \in Process}
DeviceIds == {Append(DevRoot, d) : d \in DOMAIN DeviceType}

\* The directories that are there from the start and whose file system never changes.
Fixed == {RootNode, <<"dev">>, DevRoot, <<"system">>, SystemRoot, ThreadsDir}
FixedFs(s) == CASE s = DevRoot -> "dev" [] s = SystemRoot -> "system"
                [] s = ThreadsDir -> "threads" [] OTHER -> "root"

\* What a node may have as a parent or mounted.
Above(ns) == (DOMAIN ns \ ThreadIds) \cup {Null}

Typed(ns) ==
    /\ DOMAIN ns \subseteq Ids
    /\ ns = [n \in DOMAIN ns |-> ns[n]]
    /\ \A n \in DOMAIN ns : ns[n] \in NodeRecords

\* The fields of node n lead to nodes.
LinksOf(ns, n) ==
    /\ ns[n].parent \in Above(ns) /\ ns[n].mount \in Above(ns)
    /\ \A i \in DOMAIN ns[n].kids :
          ns[n].kids[i] \in DOMAIN ns /\ (ns[n].kids[i] \in ThreadIds <=> n = ThreadsDir)

\* n lies under a node of a FAT volume.
UnderFat(ns, n) ==
    \E m \in DOMAIN ns, x \in Plain : n = Append(m, x) /\ ns[m].fs \in {"fat", "fatroot"}
MadeByMount(n) == \E m \in Ids, x \in Range(VolumeNames) : n = Append(m, x)

\* The file system of node n fits its place; dv are the devices.
PlaceOf(ns, dv, n) ==
    /\ ns[n].fs = "threads" => n = ThreadsDir
    /\ ns[n].fs = "thread" <=> n \in ThreadIds
    /\ ns[n].fs = "device" <=> n \in dv
    /\ n \in DeviceIds => n \in dv
    /\ ns[n].fs = "fat" => UnderFat(ns, n)
    /\ ns[n].fs = "fatroot" => MadeByMount(n)

Tree(ns, dv) ==
    /\ Typed(ns)
    /\ \A s \in Fixed : s \in DOMAIN ns /\ ns[s].fs = FixedFs(s)
    /\ \A n \in DOMAIN ns : LinksOf(ns, n)
    /\ \A n \in DOMAIN ns : PlaceOf(ns, dv, n)
    /\ dv \subseteq DOMAIN ns /\ dv \subseteq DeviceIds
    /\ \A d \in dv : d = Append(DevRoot, ns[d].name)

\* What a change of the tree leaves: regular files and directories of FAT stay what they
\* are, and only the nodes of threads go.
Keeps(old, ns) ==
    /\ DOMAIN old \ ThreadIds \subseteq DOMAIN ns
    /\ \A n \in DOMAIN old : old[n].fs = "fat" => n \in DOMAIN ns /\ ns[n].fs = "fat"

-----------------------------------------------------------------------------

\* What VfsAssumption says of the words the constants are made of.
LEMMA Constants ==
    /\ Process \subseteq Words /\ DOMAIN DeviceType \subseteq Words
    /\ MaxFiles \in Nat \ {0} /\ PathLimit \in Nat \ {0} /\ FileLimit \in Nat
    /\ \A d \in DOMAIN DeviceType : DeviceType[d] \in Words
    /\ VolumeNames \in Seq(Words)
    /\ Range(VolumeNames) \subseteq Words
    /\ Range(VolumeNames) \cap ({"@dev", "@system"} \cup BootNames \cup Process
                                \cup DOMAIN DeviceType) = {}
    /\ (Process \cup DOMAIN DeviceType) \subseteq Plain /\ BootNames \subseteq Plain
<1>1. \A d \in DOMAIN DeviceType : DeviceType[d] \in Words
  BY VfsAssumption DEF Words
<1>2. STRING \subseteq Words
  BY DEF Words
<1>3. VolumeNames \in Seq(Words)
  BY <1>2, VfsAssumption, SeqMonotonic
<1>4. Range(VolumeNames) \subseteq Words
  BY <1>3, RangeOfSeq
<1>5. BootNames \subseteq Words /\ BootNames \cap Marks = {}
  BY DEF BootNames, Words, Marks
<1>6. BootNames \subseteq Plain /\ (Process \cup DOMAIN DeviceType) \subseteq Plain
  BY <1>2, <1>5, VfsAssumption DEF Plain
<1> QED BY <1>1, <1>2, <1>3, <1>4, <1>6, VfsAssumption DEF Marks

\* The directories that are there from the start, as sequences of words.
LEMMA FixedIds ==
    /\ RootNode = <<>> /\ DevRoot = <<"dev", "@dev">> /\ SystemRoot = <<"system", "@system">>
    /\ ThreadsDir = Append(SystemRoot, "threads")
    /\ RootNode \in Ids /\ <<"dev">> \in Ids /\ DevRoot \in Ids /\ <<"system">> \in Ids
    /\ SystemRoot \in Ids /\ ThreadsDir \in Ids /\ Null \in Ids
<1>1. RootNode = <<>> /\ DevRoot = <<"dev", "@dev">> /\ SystemRoot = <<"system", "@system">>
  BY DEF RootNode, DevRoot, SystemRoot
<1>2. <<>> \in Seq(Words) /\ <<"dev">> \in Seq(Words) /\ <<"system">> \in Seq(Words)
  BY DEF Words
<1>3. <<"dev", "@dev">> \in Seq(Words) /\ <<"system", "@system">> \in Seq(Words)
  BY DEF Words
<1>4. "threads" \in Words /\ Null \in Seq(Words)
  BY DEF Null, Words
<1>5. ThreadsDir = Append(SystemRoot, "threads")
  <2> DEFINE s == SystemRoot
  <2>1. s \in Seq(Words)
    BY <1>1, <1>3
  <2> HIDE DEF s
  <2>2. s \o <<"threads">> = Append(s, "threads")
    BY <2>1, <1>4, AppendIsConcat
  <2> QED BY <2>2 DEF ThreadsDir, s
<1>6. ThreadsDir \in Seq(Words)
  BY <1>1, <1>3, <1>4, <1>5, AppendProperties
<1> QED BY <1>1, <1>2, <1>3, <1>4, <1>5, <1>6 DEF Ids

\* The last name of an id, and the rest.
LEMMA OneAppend ==
    ASSUME NEW m \in Ids, NEW x \in Words
    PROVE  /\ Append(m, x) \in Ids /\ Append(m, x) # <<>>
           /\ \A n \in Ids, y \in Words : Append(m, x) = Append(n, y) <=> m = n /\ x = y
<1>1. Append(m, x) \in Ids /\ Append(m, x) # <<>>
  BY AppendProperties DEF Ids
<1>2. ASSUME NEW n \in Ids, NEW y \in Words, Append(m, x) = Append(n, y)
      PROVE  m = n /\ x = y
  <2>1. m \in Seq(Words) /\ n \in Seq(Words)
    BY DEF Ids
  <2>2. Len(m) = Len(n) /\ x = Append(m, x)[Len(m) + 1] /\ y = Append(n, y)[Len(n) + 1]
    BY <1>2, <2>1, AppendProperties
  <2>3. \A i \in 1 .. Len(m) : m[i] = n[i]
    BY <1>2, <2>1, <2>2, AppendProperties
  <2> QED BY <1>2, <2>1, <2>2, <2>3, SeqEqual
<1> QED BY <1>1, <1>2

\* Paths that are equal go through the same node, by the same name.
LEMMA SamePath ==
    ASSUME NEW a \in Ids, NEW b \in Ids, NEW y \in Words, NEW z \in Words,
           Append(a, y) = Append(b, z)
    PROVE  a = b /\ y = z
  BY OneAppend, SMTT(30)

\* Which ids nodes of threads and devices have.
LEMMA AppendedIds ==
    ASSUME NEW m \in Ids, NEW x \in Words
    PROVE  /\ Append(m, x) \in ThreadIds <=> m = ThreadsDir /\ x \in Process
           /\ Append(m, x) \in DeviceIds <=> m = DevRoot /\ x \in DOMAIN DeviceType
<1>1. ThreadsDir \in Ids /\ DevRoot \in Ids
  BY FixedIds
<1>2. \A p \in Process : p \in Words
  BY Constants
<1>3. \A d \in DOMAIN DeviceType : d \in Words
  BY Constants
<1>4. Append(m, x) \in ThreadIds <=> m = ThreadsDir /\ x \in Process
  <2> DEFINE t == ThreadsDir
  <2>1. t \in Ids
    BY <1>1
  <2> HIDE DEF t
  <2>2. \A p \in Process : Append(m, x) = Append(t, p) <=> m = t /\ x = p
    <3> SUFFICES ASSUME NEW p \in Process, Append(m, x) = Append(t, p) PROVE m = t /\ x = p
      OBVIOUS
    <3>1. m \in Ids /\ t \in Ids /\ x \in Words /\ p \in Words /\ Append(m, x) = Append(t, p)
      BY <1>2, <2>1
    <3> QED BY ONLY <3>1, SamePath
  <2> QED BY <2>2 DEF ThreadIds, t
<1>5. Append(m, x) \in DeviceIds <=> m = DevRoot /\ x \in DOMAIN DeviceType
  <2> DEFINE t == DevRoot
  <2>1. t \in Ids
    BY <1>1
  <2> HIDE DEF t
  <2>2. \A d \in DOMAIN DeviceType : Append(m, x) = Append(t, d) <=> m = t /\ x = d
    <3> SUFFICES ASSUME NEW d \in DOMAIN DeviceType, Append(m, x) = Append(t, d) PROVE m = t /\ x = d
      OBVIOUS
    <3>1. m \in Ids /\ t \in Ids /\ x \in Words /\ d \in Words /\ Append(m, x) = Append(t, d)
      BY <1>3, <2>1
    <3> QED BY ONLY <3>1, SamePath
  <2> QED BY <2>2 DEF DeviceIds, t
<1> QED BY <1>4, <1>5

\* The fixed directories under others.
LEMMA FixedAppends ==
    ASSUME NEW m \in Ids, NEW x \in Words, Append(m, x) \in Fixed
    PROVE  \/ m = RootNode /\ x = "dev" /\ Append(m, x) = <<"dev">>
           \/ m = RootNode /\ x = "system" /\ Append(m, x) = <<"system">>
           \/ m = <<"dev">> /\ x = "@dev" /\ Append(m, x) = DevRoot
           \/ m = <<"system">> /\ x = "@system" /\ Append(m, x) = SystemRoot
           \/ m = SystemRoot /\ x = "threads" /\ Append(m, x) = ThreadsDir
<1> DEFINE Is(n, y) == m = n /\ x = y
<1>1. \A n \in Ids, y \in Words : Append(m, x) = Append(n, y) => Is(n, y)
  BY OneAppend
<1>2. {"dev", "@dev", "system", "@system", "threads"} \subseteq Words
  BY DEF Words
<1> HIDE DEF Is
<1>3. ASSUME NEW n \in Ids, NEW y \in {"dev", "@dev", "system", "@system", "threads"},
             NEW s, s = Append(n, y), Append(m, x) = s
      PROVE  Is(n, y)
  BY <1>1, <1>2, <1>3
<1>4. /\ <<"dev">> = Append(RootNode, "dev") /\ <<"system">> = Append(RootNode, "system")
      /\ DevRoot = Append(<<"dev">>, "@dev") /\ SystemRoot = Append(<<"system">>, "@system")
      /\ ThreadsDir = Append(SystemRoot, "threads")
  BY FixedIds
<1>5. Append(m, x) # RootNode
  BY FixedIds, OneAppend
<1>6. RootNode \in Ids /\ <<"dev">> \in Ids /\ <<"system">> \in Ids /\ SystemRoot \in Ids
  BY FixedIds
<1>7. PICK a, b, c, d, e, r : a = <<"dev">> /\ b = <<"system">> /\ c = DevRoot /\ d = SystemRoot
                              /\ e = ThreadsDir /\ r = RootNode
  OBVIOUS
<1>8. /\ a = Append(r, "dev") /\ b = Append(r, "system") /\ c = Append(a, "@dev")
      /\ d = Append(b, "@system") /\ e = Append(d, "threads")
      /\ r \in Ids /\ a \in Ids /\ b \in Ids /\ d \in Ids
  BY <1>4, <1>6, <1>7
<1>9. Append(m, x) \in {a, b, c, d, e}
  BY <1>5, <1>7 DEF Fixed
<1>10. \/ Is(r, "dev") /\ Append(m, x) = a
       \/ Is(r, "system") /\ Append(m, x) = b
       \/ Is(a, "@dev") /\ Append(m, x) = c
       \/ Is(b, "@system") /\ Append(m, x) = d
       \/ Is(d, "threads") /\ Append(m, x) = e
  BY <1>3, <1>8, <1>9
<1> QED BY <1>7, <1>10 DEF Is

\* The fixed directories differ from each other where their file systems do.
LEMMA FixedFsIs ==
    /\ FixedFs(RootNode) = "root" /\ FixedFs(<<"dev">>) = "root" /\ FixedFs(<<"system">>) = "root"
    /\ FixedFs(DevRoot) = "dev" /\ FixedFs(SystemRoot) = "system"
    /\ FixedFs(ThreadsDir) = "threads"
    /\ \A s \in Fixed : s \notin ThreadIds /\ s \notin DeviceIds
<1>1. /\ \A s \in {RootNode, <<"dev">>, <<"system">>} : s # DevRoot /\ s # SystemRoot /\ s # ThreadsDir
      /\ DevRoot # SystemRoot /\ DevRoot # ThreadsDir /\ SystemRoot # ThreadsDir
  BY FixedIds
<1>2. ASSUME NEW s \in Fixed, s \in ThreadIds PROVE FALSE
  <2>1. PICK p \in Process : s = Append(ThreadsDir, p)
    BY <1>2 DEF ThreadIds
  <2>2. p \in Words
    BY Constants
  <2> QED BY <1>1, <1>2, <2>1, <2>2, FixedAppends, FixedIds
<1>3. ASSUME NEW s \in Fixed, s \in DeviceIds PROVE FALSE
  <2>1. PICK d \in DOMAIN DeviceType : s = Append(DevRoot, d)
    BY <1>3 DEF DeviceIds
  <2>2. d \in Words
    BY Constants
  <2> QED BY <1>1, <1>3, <2>1, <2>2, FixedAppends, FixedIds
<1> QED BY <1>1, <1>2, <1>3 DEF FixedFs

-----------------------------------------------------------------------------
(***************************************************************************)
(* Changes of the tree.                                                    *)
(***************************************************************************)

\* A change of types and of what is mounted.
LEMMA SameKinds ==
    ASSUME NEW dv, NEW ns, NEW ns2, Tree(ns, dv), Typed(ns2), DOMAIN ns2 = DOMAIN ns,
           \A n \in DOMAIN ns : /\ ns2[n].parent = ns[n].parent /\ ns2[n].kids = ns[n].kids
                                /\ ns2[n].name = ns[n].name /\ ns2[n].fs = ns[n].fs
                                /\ ns2[n].mount \in Above(ns)
    PROVE  Tree(ns2, dv) /\ Keeps(ns, ns2)
<1>1. Above(ns2) = Above(ns)
  BY DEF Above
<1>2. \A n \in DOMAIN ns : LinksOf(ns2, n)
  BY <1>1 DEF Tree, LinksOf
<1>3. ASSUME NEW n \in DOMAIN ns, UnderFat(ns, n) PROVE UnderFat(ns2, n)
  BY <1>3 DEF UnderFat
<1>4. \A n \in DOMAIN ns : PlaceOf(ns2, dv, n)
  BY <1>3 DEF Tree, PlaceOf
<1>5. \A s \in Fixed : s \in DOMAIN ns2 /\ ns2[s].fs = FixedFs(s)
  BY DEF Tree
<1>6. /\ dv \subseteq DOMAIN ns2 /\ dv \subseteq DeviceIds
      /\ \A d \in dv : d = Append(DevRoot, ns2[d].name)
  BY DEF Tree
<1>7. Keeps(ns, ns2)
  BY DEF Keeps
<1> QED BY <1>2, <1>4, <1>5, <1>6, <1>7 DEF Tree

\* The file system that a new node may have, made under m with name x.
FitsUnder(ns, m, x, fs) ==
    \/ fs = "fat" /\ ns[m].fs \in {"fat", "fatroot"} /\ x \in Plain
    \/ fs = "root" /\ ns[m].fs = "root" /\ x \in Plain
    \/ fs = "fatroot" /\ x \in Range(VolumeNames)

\* A node with this id is no thread's and no device's, and takes the place of no fixed
\* directory and no node of FAT unless it is one itself.
IsNewPlace(ns, id, fs) ==
    /\ id \in Ids /\ id \notin ThreadIds /\ id \notin DeviceIds
    /\ id \in Fixed => FixedFs(id) = fs
    /\ id \in DOMAIN ns => /\ ns[id].fs = "fat" => fs = "fat"
                           /\ ns[id].fs = "fatroot" => fs = "fatroot"

\* mkdir, mount and FAT look-ups make nodes in places of their own.
LEMMA NewPlace ==
    ASSUME NEW dv, NEW ns, Tree(ns, dv), NEW m \in DOMAIN ns, NEW x \in Words, NEW fs,
           FitsUnder(ns, m, x, fs), NEW id, id = Append(m, x)
    PROVE  IsNewPlace(ns, id, fs)
<1>1. m \in Ids /\ id \in Ids
  BY OneAppend DEF Tree, Typed
<1>2. \A s \in Fixed : s \in DOMAIN ns /\ ns[s].fs = FixedFs(s)
  BY DEF Tree
<1>3. \A s \in {"@dev", "@system", "dev", "system", "threads"} \cup Process \cup DOMAIN DeviceType :
          s \notin Range(VolumeNames)
  BY Constants DEF BootNames
<1>4. DevRoot \in Fixed /\ ThreadsDir \in Fixed /\ RootNode \in Fixed /\ SystemRoot \in Fixed
      /\ <<"dev">> \in Fixed /\ <<"system">> \in Fixed
  BY DEF Fixed
<1>5. id \notin ThreadIds
  <2> SUFFICES ASSUME m = ThreadsDir, x \in Process PROVE FALSE
    BY <1>1, AppendedIds
  <2>1. ns[m].fs = "threads"
    BY <1>2, <1>4, FixedFsIs
  <2> QED BY <1>3, <2>1 DEF FitsUnder
<1>6. id \notin DeviceIds
  <2> SUFFICES ASSUME m = DevRoot, x \in DOMAIN DeviceType PROVE FALSE
    BY <1>1, AppendedIds
  <2>1. ns[m].fs = "dev"
    BY <1>2, <1>4, FixedFsIs
  <2> QED BY <1>3, <2>1 DEF FitsUnder
<1>7. ASSUME id \in Fixed PROVE FixedFs(id) = fs
  <2>1. x \in {"dev", "system", "@dev", "@system", "threads"} /\ m \in Fixed /\ m # DevRoot
        /\ (x \in {"dev", "system"} => FixedFs(id) = "root") /\ (x = "threads" => m = SystemRoot)
    <3>1. FixedFs(<<"dev">>) = "root" /\ FixedFs(<<"system">>) = "root" /\ DevRoot # RootNode
          /\ DevRoot # <<"dev">> /\ DevRoot # <<"system">> /\ DevRoot # SystemRoot
      BY FixedFsIs, FixedIds
    <3> QED BY <1>1, <1>4, <1>7, <3>1, FixedAppends
  <2>2. ns[m].fs \in {"root", "system"} /\ (x = "threads" => ns[m].fs = "system")
    BY <1>2, <1>7, <2>1, <1>1, <1>4, FixedAppends, FixedFsIs
  <2>3. "@dev" \notin Plain /\ "@system" \notin Plain
    BY DEF Plain, Marks
  <2> QED BY <1>3, <2>1, <2>2, <2>3 DEF FitsUnder
<1>8. ASSUME id \in DOMAIN ns, ns[id].fs = "fat" PROVE fs = "fat"
  <2>1. PICK k \in DOMAIN ns, y \in Plain : id = Append(k, y) /\ ns[k].fs \in {"fat", "fatroot"}
    BY <1>8 DEF Tree, PlaceOf, UnderFat
  <2>2. k \in Ids /\ y \in Words
    BY DEF Tree, Typed, Plain
  <2>3. k \in Ids /\ m \in Ids /\ y \in Words /\ x \in Words /\ Append(k, y) = Append(m, x)
    BY <1>1, <2>1, <2>2
  <2>4. k = m /\ y = x
    BY ONLY <2>3, SamePath
  <2> QED BY <2>1, <2>4 DEF FitsUnder, Plain
<1>9. ASSUME id \in DOMAIN ns, ns[id].fs = "fatroot" PROVE fs = "fatroot"
  <2>1. PICK k \in Ids, y \in Range(VolumeNames) : id = Append(k, y)
    BY <1>9 DEF Tree, PlaceOf, MadeByMount
  <2>2. y \in Words
    BY Constants
  <2>3. k \in Ids /\ m \in Ids /\ y \in Words /\ x \in Words /\ Append(k, y) = Append(m, x)
    BY <1>1, <2>1, <2>2
  <2>4. y = x
    BY ONLY <2>3, SamePath
  <2> QED BY <2>4 DEF FitsUnder, Plain
<1> QED BY <1>1, <1>5, <1>6, <1>7, <1>8, <1>9 DEF IsNewPlace

\* ns2 is ns with this node.
IsAdded(dv, ns, id, node, ns2) ==
    /\ Tree(ns2, dv) /\ Keeps(ns, ns2)
    /\ DOMAIN ns2 = DOMAIN ns \cup {id} /\ ns2[id] = node
    /\ \A n \in DOMAIN ns : n # id => ns2[n] = ns[n]
    /\ id \in Ids /\ id \notin ThreadIds

\* A new node, or another in its place.
LEMMA NodeAdded ==
    ASSUME NEW dv, NEW ns, Tree(ns, dv), NEW m \in DOMAIN ns, NEW x \in Words, NEW id,
           id = Append(m, x), NEW node \in NodeRecords, FitsUnder(ns, m, x, node.fs),
           node.kids = <<>>, node.mount = Null, node.parent \in Above(ns)
    PROVE  IsAdded(dv, ns, id, node, Put(ns, id, node))
<1> DEFINE ns2 == Put(ns, id, node)
<1>1. /\ id \in Ids /\ id \notin ThreadIds /\ id \notin DeviceIds
      /\ id \in Fixed => FixedFs(id) = node.fs
      /\ id \in DOMAIN ns => /\ ns[id].fs = "fat" => node.fs = "fat"
                             /\ ns[id].fs = "fatroot" => node.fs = "fatroot"
  <2>1. IsNewPlace(ns, id, node.fs)
    BY NewPlace
  <2> QED BY <2>1 DEF IsNewPlace
<1>2. /\ ns2 = [n \in DOMAIN ns \cup {id} |-> IF n = id THEN node ELSE ns[n]]
      /\ DOMAIN ns2 = DOMAIN ns \cup {id} /\ ns2[id] = node
      /\ \A n \in DOMAIN ns : n # id => ns2[n] = ns[n]
  BY DEF Put
<1>3. Typed(ns2)
  BY <1>1, <1>2 DEF Tree, Typed
<1> HIDE DEF ns2
<1>4. \A s \in Fixed : s \in DOMAIN ns2 /\ ns2[s].fs = FixedFs(s)
  BY <1>1, <1>2 DEF Tree
<1>5. Above(ns) \subseteq Above(ns2)
  BY <1>2 DEF Above
<1>6. Null \in Above(ns)
  BY DEF Above
<1>7. ASSUME NEW n \in DOMAIN ns2 PROVE LinksOf(ns2, n)
  <2>1. CASE n = id
    <3>1. DOMAIN ns2[id].kids = {}
      BY <1>2
    <3> QED BY <1>2, <1>5, <1>6, <2>1, <3>1 DEF LinksOf
  <2>2. CASE n # id
    <3>1. n \in DOMAIN ns /\ LinksOf(ns, n) /\ ns2[n] = ns[n]
      BY <1>2, <1>7, <2>2 DEF Tree
    <3> QED BY <1>2, <1>5, <3>1 DEF LinksOf
  <2> QED BY <2>1, <2>2
<1>8. ASSUME NEW n \in DOMAIN ns, UnderFat(ns, n) PROVE UnderFat(ns2, n)
  <2>1. PICK k \in DOMAIN ns, y \in Plain : n = Append(k, y) /\ ns[k].fs \in {"fat", "fatroot"}
    BY <1>8 DEF UnderFat
  <2>2. k \in DOMAIN ns2 /\ ns2[k].fs \in {"fat", "fatroot"}
    BY <1>1, <1>2, <2>1
  <2> QED BY <2>1, <2>2 DEF UnderFat
<1>9. ASSUME NEW n \in DOMAIN ns2 PROVE PlaceOf(ns2, dv, n)
  <2>1. CASE n = id
    <3>1. id \notin dv
      BY <1>1 DEF Tree
    <3>2. node.fs = "fat" => UnderFat(ns2, id)
      <4> SUFFICES ASSUME node.fs = "fat" PROVE UnderFat(ns2, id)
        OBVIOUS
      <4>1. x \in Plain /\ ns[m].fs \in {"fat", "fatroot"}
        BY DEF FitsUnder
      <4>2. m \in DOMAIN ns2 /\ ns2[m].fs \in {"fat", "fatroot"}
        BY <1>2, <4>1
      <4> QED BY <4>1, <4>2 DEF UnderFat
    <3>3. node.fs = "fatroot" => MadeByMount(id)
      BY DEF FitsUnder, MadeByMount, Tree, Typed
    <3>4. node.fs \in {"fat", "root", "fatroot"}
      BY DEF FitsUnder
    <3> QED BY <1>1, <1>2, <2>1, <3>1, <3>2, <3>3, <3>4 DEF PlaceOf
  <2>2. CASE n # id
    <3>1. n \in DOMAIN ns /\ PlaceOf(ns, dv, n) /\ ns2[n] = ns[n]
      BY <1>2, <1>9, <2>2 DEF Tree
    <3> QED BY <1>8, <3>1 DEF PlaceOf
  <2> QED BY <2>1, <2>2
<1>10. /\ dv \subseteq DOMAIN ns2 /\ dv \subseteq DeviceIds
       /\ \A d \in dv : d = Append(DevRoot, ns2[d].name)
  BY <1>1, <1>2 DEF Tree
<1>11. Keeps(ns, ns2)
  BY <1>1, <1>2 DEF Keeps
<1>12. Tree(ns2, dv)
  BY <1>3, <1>4, <1>7, <1>9, <1>10 DEF Tree
<1> QED BY <1>1, <1>2, <1>11, <1>12 DEF ns2, IsAdded

\* A node at the end of a list of children.
LEMMA KidAdded ==
    ASSUME NEW dv, NEW ns, Tree(ns, dv), NEW n \in DOMAIN ns, n # ThreadsDir,
           NEW id \in DOMAIN ns \ ThreadIds
    PROVE  LET ns2 == [ns EXCEPT ![n].kids = Append(@, id)]
           IN  Tree(ns2, dv) /\ Keeps(ns, ns2) /\ DOMAIN ns2 = DOMAIN ns
<1> DEFINE ns2 == [ns EXCEPT ![n].kids = Append(@, id)]
<1>1. ns[n] \in NodeRecords /\ id \in Ids
  BY DEF Tree, Typed
<1>2. ns[n].kids \in Seq(Ids)
  BY <1>1 DEF NodeRecords
<1>3. /\ Append(ns[n].kids, id) \in Seq(Ids)
      /\ \A i \in DOMAIN Append(ns[n].kids, id) :
            Append(ns[n].kids, id)[i] = id
               \/ (i \in DOMAIN ns[n].kids /\ Append(ns[n].kids, id)[i] = ns[n].kids[i])
  <2>1. PICK k : k = ns[n].kids
    OBVIOUS
  <2>2. PICK t : t = Append(k, id)
    OBVIOUS
  <2>3. /\ k \in Seq(Ids) /\ t \in Seq(Ids) /\ Len(t) = Len(k) + 1 /\ t[Len(k) + 1] = id
        /\ \A i \in 1 .. Len(k) : t[i] = k[i]
    BY <1>1, <1>2, <2>1, <2>2, AppendProperties
  <2>4. PICK c \in Nat : c = Len(k)
    BY <2>3, LenProperties
  <2>5. DOMAIN k = 1 .. c /\ DOMAIN t = 1 .. c + 1 /\ t[c + 1] = id
        /\ \A i \in 1 .. c : t[i] = k[i]
    BY <2>3, <2>4, LenProperties
  <2>6. \A i \in 1 .. c + 1 : i \in 1 .. c \/ i = c + 1
    BY <2>4
  <2>7. \A i \in DOMAIN t : t[i] = id \/ (i \in DOMAIN k /\ t[i] = k[i])
    BY <2>5, <2>6
  <2> QED BY <2>1, <2>2, <2>3, <2>7
<1>4. /\ DOMAIN ns2 = DOMAIN ns /\ ns2 = [k \in DOMAIN ns2 |-> ns2[k]]
      /\ ns2[n] = [ns[n] EXCEPT !.kids = Append(ns[n].kids, id)]
      /\ \A k \in DOMAIN ns : k # n => ns2[k] = ns[k]
  BY DEF Tree, Typed
<1>5. ns2[n] \in NodeRecords
  BY <1>1, <1>3, <1>4 DEF NodeRecords
<1> HIDE DEF ns2
<1>6. Typed(ns2)
  BY <1>4, <1>5 DEF Tree, Typed
<1>7. \A k \in DOMAIN ns : /\ ns2[k].parent = ns[k].parent /\ ns2[k].mount = ns[k].mount
                           /\ ns2[k].name = ns[k].name /\ ns2[k].fs = ns[k].fs
                           /\ k # n => ns2[k].kids = ns[k].kids
  BY <1>1, <1>4 DEF NodeRecords
<1>8. ns2[n].kids = Append(ns[n].kids, id)
  BY <1>1, <1>4 DEF NodeRecords
<1>9. Above(ns2) = Above(ns)
  BY <1>4 DEF Above
<1>10. ASSUME NEW k \in DOMAIN ns PROVE LinksOf(ns2, k)
  <2>1. CASE k = n
    <3>1. LinksOf(ns, n)
      BY DEF Tree
    <3>2. \A i \in DOMAIN ns2[n].kids : ns2[n].kids[i] \in DOMAIN ns2 /\ ns2[n].kids[i] \notin ThreadIds
      BY <1>3, <1>4, <1>8, <3>1 DEF LinksOf
    <3> QED BY <1>7, <1>9, <2>1, <3>1, <3>2 DEF LinksOf
  <2>2. CASE k # n
    BY <1>4, <1>7, <1>9, <2>2 DEF LinksOf, Tree
  <2> QED BY <2>1, <2>2
<1>11. ASSUME NEW k \in DOMAIN ns, UnderFat(ns, k) PROVE UnderFat(ns2, k)
  BY <1>4, <1>7, <1>11 DEF UnderFat
<1>12. \A k \in DOMAIN ns : PlaceOf(ns2, dv, k)
  BY <1>7, <1>11 DEF Tree, PlaceOf
<1>13. /\ \A s \in Fixed : s \in DOMAIN ns2 /\ ns2[s].fs = FixedFs(s)
       /\ dv \subseteq DOMAIN ns2 /\ dv \subseteq DeviceIds
       /\ \A d \in dv : d = Append(DevRoot, ns2[d].name)
  BY <1>4, <1>7 DEF Tree
<1>14. Keeps(ns, ns2)
  BY <1>4, <1>7 DEF Keeps
<1>15. Tree(ns2, dv)
  BY <1>4, <1>6, <1>10, <1>12, <1>13 DEF Tree
<1> QED BY <1>4, <1>14, <1>15 DEF ns2

-----------------------------------------------------------------------------
(***************************************************************************)
(* Paths.                                                                  *)
(***************************************************************************)

\* The names that look-ups pass over, and those that they follow.
DotNames == Dotted \cup DoubleDotted
Shown == Plain \ DotNames

\* A token of a path takes a name away, adds one, or changes nothing.
LEMMA ResolveNameType ==
    ASSUME NEW before \in Seq(Shown), NEW name \in Plain
    PROVE  ResolveName(before, name) \in Seq(Shown)
<1>1. name \in Shown => Append(before, name) \in Seq(Shown)
  BY AppendProperties
<1>2. PICK n \in Nat : n = Len(before)
  BY LenProperties
<1>3. \A i \in 1 .. n - 1 : before[i] \in Shown
  <2>1. \A i \in 1 .. Len(before) : before[i] \in Shown
    BY ElementOfSeq
  <2> QED BY <1>2, <2>1
<1>4. SubSeq(before, 1, n - 1) \in Seq(Shown)
  BY <1>2, <1>3, SubSeqProperties
<1>5. name \notin DoubleDotted /\ name \notin Dotted => name \in Shown
  BY DEF Shown, DotNames
<1> QED BY <1>1, <1>2, <1>4, <1>5 DEF ResolveName

\* u has the steps in which a path is resolved.
IsResolving(names, u) ==
    /\ u[0] = <<>> /\ Resolve(names) = u[Len(names)]
    /\ \A i \in 1 .. Len(names) : u[i] = ResolveName(u[i - 1], names[i])
    /\ \A i \in 0 .. Len(names) : u[i] \in Seq(Shown)

\* The clauses of Resolve are well defined: it goes through the names one by one.
LEMMA ResolveRun ==
    ASSUME NEW names \in Seq(Plain)
    PROVE  \E u : IsResolving(names, u)
<1> DEFINE S == Seq(Shown)
           Clauses(f) == f = [i \in 0 .. Len(names) |->
                                 IF i = 0 THEN <<>> ELSE ResolveName(f[i - 1], names[i])]
           Done == CHOOSE f : Clauses(f)
<1>1. PICK n \in Nat : n = Len(names)
  BY LenProperties
<1>2. PICK first : first \in S /\ first = <<>>
  BY EmptySeq
<1>3. \A i \in 1 .. n : names[i] \in Plain
  BY <1>1, ElementOfSeq
<1>4. PICK step : step = [x \in S \X (1 .. n) |-> ResolveName(x[1], names[x[2]])]
  OBVIOUS
<1> HIDE DEF S
<1>5. \A x \in S, i \in 1 .. n : ResolveName(x, names[i]) \in S
  BY <1>3, ResolveNameType DEF S
<1>6. step \in [S \X (1 .. n) -> S]
  BY <1>4, <1>5
<1>7. \E f \in [0 .. n -> S] : IsRun(f, n, first, step)
  BY <1>2, <1>6, StepsExist
<1>8. PICK f \in [0 .. n -> S] :
        f[0] = first /\ \A i \in 1 .. n : f[i] = step[<<f[i - 1], i>>]
  BY <1>7 DEF IsRun
<1>9. Clauses(f)
  <2>1. ASSUME NEW i \in 0 .. n, i # 0 PROVE f[i] = ResolveName(f[i - 1], names[i])
    <3>1. i \in 1 .. n /\ i - 1 \in 0 .. n
      BY <1>1, <2>1
    <3>2. f[i - 1] \in S
      BY <1>8, <3>1
    <3> QED BY <1>4, <1>8, <3>1, <3>2
  <2>2. f[0] = <<>>
    BY <1>2, <1>8
  <2> QED BY <1>1, <1>8, <2>1, <2>2
<1>10. Clauses(Done)
  <2> HIDE DEF Clauses
  <2> QED BY <1>9, Zenon
<1>11. PICK g : g = Done /\ Clauses(g)
  BY <1>10
<1>12. Resolve(names) = Done[Len(names)]
  BY Zenon DEF Resolve, Done, Clauses
<1> HIDE DEF Done
<1>13. g[0] \in S /\ g[0] = <<>>
  <2>1. 0 \in 0 .. Len(names)
    BY <1>1
  <2> QED BY <1>2, <1>11, <2>1
<1>14. \A i \in 1 .. n : g[i] = ResolveName(g[i - 1], names[i])
  <2> SUFFICES ASSUME NEW i \in 1 .. n PROVE g[i] = ResolveName(g[i - 1], names[i])
    OBVIOUS
  <2>1. i \in 0 .. Len(names) /\ i # 0
    BY <1>1
  <2> QED BY <1>11, <2>1
<1> HIDE DEF Clauses
<1>15. \A i \in 1 .. n : g[i - 1] \in S => g[i] \in S
  BY <1>5, <1>14
<1>16. \A i \in 0 .. n : g[i] \in S
  BY <1>1, <1>13, <1>15, RunsStay
<1>17. Resolve(names) = g[n]
  BY <1>1, <1>11, <1>12
<1>18. IsResolving(names, g)
  BY <1>1, <1>13, <1>14, <1>16, <1>17 DEF S, IsResolving
<1> QED BY <1>18

\* What is left of a path when it is resolved is plain, and not dotted.
LEMMA ResolveType ==
    ASSUME NEW names \in Seq(Plain)
    PROVE  Resolve(names) \in Seq(Plain) /\ Resolve(names) \in Seq(Shown)
<1>1. PICK u : IsResolving(names, u)
  BY ResolveRun
<1>2. Len(names) \in 0 .. Len(names)
  BY LenProperties
<1>3. Resolve(names) \in Seq(Shown)
  BY <1>1, <1>2 DEF IsResolving
<1> QED BY <1>3, SeqMonotonic DEF Shown

\* g has the steps of a climb from node.
IsClimb(ns, Top, D, W, node, g) ==
    /\ g[0] = [at |-> node, names |-> <<>>] /\ Climbed(ns, Top, node) = g[Len(node)]
    /\ \A i \in 1 .. Len(node) : g[i] = Climb(ns, Top, g[i - 1])
    /\ \A i \in 0 .. Len(node) : g[i] \in [at : D, names : Seq(W)]

\* The clauses of Climbed are well defined, if parents lead on until Top: it goes from node
\* to node in D and puts names of W together.
LEMMA ClimbRun ==
    ASSUME NEW ns, NEW Top, NEW W, NEW D \in SUBSET Ids,
           \A m \in D : ns[m].name \in W /\ (m \in Top \/ ns[m].parent \in D),
           NEW node \in D
    PROVE  \E g : IsClimb(ns, Top, D, W, node, g)
<1> DEFINE S == [at : D, names : Seq(W)]
           start == [at |-> node, names |-> <<>>]
           Clauses(f) == f = [i \in 0 .. Len(node) |->
                                 IF i = 0 THEN start ELSE Climb(ns, Top, f[i - 1])]
           Done == CHOOSE f : Clauses(f)
<1>1. PICK n \in Nat : n = Len(node)
  BY LenProperties DEF Ids
<1>2. PICK first : first \in S /\ first = start
  BY EmptySeq
<1>3. PICK step : step = [x \in S \X (1 .. n) |-> Climb(ns, Top, x[1])]
  OBVIOUS
<1>4. \A x \in S : Climb(ns, Top, x) \in S
  <2> SUFFICES ASSUME NEW x \in S PROVE Climb(ns, Top, x) \in S
    OBVIOUS
  <2>1. PICK m, names : m = x.at /\ names = x.names
    OBVIOUS
  <2>2. m \in D /\ names \in Seq(W) /\ ns[m].name \in W
    BY <2>1
  <2>3. <<ns[m].name>> \o names \in Seq(W)
    <3>1. <<ns[m].name>> \in Seq(W)
      BY <2>2
    <3> QED BY <2>2, <3>1, ConcatProperties
  <2> QED BY <2>1, <2>2, <2>3 DEF Climb
<1> HIDE DEF S, start
<1>5. step \in [S \X (1 .. n) -> S]
  BY <1>3, <1>4
<1>6. \E f \in [0 .. n -> S] : IsRun(f, n, first, step)
  BY <1>2, <1>5, StepsExist
<1>7. PICK f \in [0 .. n -> S] :
        f[0] = first /\ \A i \in 1 .. n : f[i] = step[<<f[i - 1], i>>]
  BY <1>6 DEF IsRun
<1>8. Clauses(f)
  <2>1. ASSUME NEW i \in 0 .. n, i # 0 PROVE f[i] = Climb(ns, Top, f[i - 1])
    <3>1. i \in 1 .. n /\ i - 1 \in 0 .. n
      BY <1>1, <2>1
    <3>2. f[i - 1] \in S
      BY <1>7, <3>1
    <3> QED BY <1>3, <1>7, <3>1, <3>2
  <2>2. f[0] = start
    BY <1>2, <1>7
  <2> QED BY <1>1, <1>7, <2>1, <2>2
<1>9. Clauses(Done)
  <2> HIDE DEF Clauses
  <2> QED BY <1>8, Zenon
<1>10. PICK g : g = Done /\ Clauses(g)
  BY <1>9
<1>11. Climbed(ns, Top, node) = Done[Len(node)]
  BY Zenon DEF Climbed, Done, Clauses, start
<1> HIDE DEF Done
<1>12. g[0] \in S /\ g[0] = start
  <2>1. 0 \in 0 .. Len(node)
    BY <1>1
  <2> QED BY <1>2, <1>10, <2>1
<1>13. \A i \in 1 .. n : g[i] = Climb(ns, Top, g[i - 1])
  <2> SUFFICES ASSUME NEW i \in 1 .. n PROVE g[i] = Climb(ns, Top, g[i - 1])
    OBVIOUS
  <2>1. i \in 0 .. Len(node) /\ i # 0
    BY <1>1
  <2> QED BY <1>10, <2>1
<1> HIDE DEF Clauses
<1>14. \A i \in 1 .. n : g[i - 1] \in S => g[i] \in S
  BY <1>4, <1>13
<1>15. \A i \in 0 .. n : g[i] \in S
  BY <1>1, <1>12, <1>14, RunsStay
<1>16. Climbed(ns, Top, node) = g[n]
  BY <1>1, <1>10, <1>11
<1>17. IsClimb(ns, Top, D, W, node, g)
  BY <1>1, <1>12, <1>13, <1>15, <1>16 DEF S, start, IsClimb
<1> QED BY <1>17

\* The names above a node are plain.
LEMMA NamesDownType ==
    ASSUME NEW dv, NEW ns, Tree(ns, dv), NEW node \in DOMAIN ns
    PROVE  NamesDown(ns, node) \in Seq(Plain)
<1>1. PICK D, Top : D = DOMAIN ns /\ Top = {m \in DOMAIN ns : ns[m].parent = Null}
  OBVIOUS
<1>2. \A m \in D : ns[m].name \in Plain /\ (m \in Top \/ ns[m].parent \in D)
  <2> SUFFICES ASSUME NEW m \in D PROVE ns[m].name \in Plain /\ (m \in Top \/ ns[m].parent \in D)
    OBVIOUS
  <2>1. ns[m] \in NodeRecords /\ LinksOf(ns, m)
    BY <1>1 DEF Tree, Typed
  <2>2. ns[m].name \in Plain
    BY <2>1 DEF NodeRecords
  <2>3. ns[m].parent \in D \/ ns[m].parent = Null
    BY <1>1, <2>1 DEF LinksOf, Above
  <2> QED BY <1>1, <2>2, <2>3
<1>3. D \in SUBSET Ids /\ node \in D
  BY <1>1 DEF Tree, Typed
<1>4. PICK g : IsClimb(ns, Top, D, Plain, node, g)
  BY <1>2, <1>3, ClimbRun
<1>5. Len(node) \in 0 .. Len(node)
  BY <1>3, LenProperties DEF Ids
<1>6. g[Len(node)].names \in Seq(Plain) /\ Climbed(ns, Top, node) = g[Len(node)]
  BY <1>4, <1>5 DEF IsClimb
<1> QED BY <1>1, <1>6 DEF NamesDown

-----------------------------------------------------------------------------
(***************************************************************************)
(* Looking up.                                                             *)
(***************************************************************************)

\* What a search that began in old has found, with the nodes it made on the way.
Found(old, dv, s) ==
    /\ Tree(s.nodes, dv) /\ Keeps(old, s.nodes)
    /\ s.node \in DOMAIN s.nodes \cup {Null}

\* What two changes of the tree leave, and what none leaves.
LEMMA KeepsTransitive ==
    ASSUME NEW a, NEW b, NEW c, Keeps(a, b), Keeps(b, c)
    PROVE  Keeps(a, c)
BY DEF Keeps

\* Nothing changed.
LEMMA KeepsSelf == \A ns : Keeps(ns, ns)
BY DEF Keeps

\* The first of some nodes with a name.
LEMMA NamedFacts ==
    ASSUME NEW ns, NEW list \in Seq(Ids), NEW name
    PROVE  \/ \E i \in DOMAIN list : Named(ns, list, name) = list[i]
           \/ Named(ns, list, name) = Null /\ \A i \in DOMAIN list : ns[list[i]].name # name
<1> DEFINE hits == {i \in DOMAIN list : ns[list[i]].name = name}
<1>1. hits \in SUBSET Nat
  BY LenProperties
<1>2. CASE hits = {}
  BY <1>2 DEF Named
<1>3. CASE hits # {}
  <2>1. \E i \in hits : \A j \in hits : i <= j
    <3> HIDE DEF hits
    <3> QED BY <1>1, <1>3, LeastNumber
  <2>2. (CHOOSE i \in hits : \A j \in hits : i <= j) \in hits
    BY <2>1
  <2> QED BY <1>3, <2>2 DEF Named
<1> QED BY <1>2, <1>3

\* A child made in a directory of the root file system or of a FAT volume.
LEMMA ChildAdded ==
    ASSUME NEW dv, NEW ns, Tree(ns, dv), NEW n \in DOMAIN ns, NEW name \in Plain,
           NEW type \in SUBSET Words, NEW fs \in {"fat", "root"}, FitsUnder(ns, n, name, fs)
    PROVE  LET ns2 == AddChild(ns, n, Append(n, name), NodeOf(name, n, type, fs))
           IN  Tree(ns2, dv) /\ Keeps(ns, ns2) /\ Append(n, name) \in DOMAIN ns2
<1>1. n \in Ids /\ name \in Words /\ n # ThreadsDir /\ n \notin ThreadIds
  <2>1. PlaceOf(ns, dv, n) /\ n \in Ids /\ ThreadsDir \in Fixed
    BY DEF Tree, Typed, Fixed
  <2>2. ns[ThreadsDir].fs = "threads"
    BY <2>1, FixedFsIs DEF Tree
  <2>3. ns[n].fs \in {"fat", "fatroot", "root"}
    BY DEF FitsUnder
  <2> QED BY <2>1, <2>2, <2>3 DEF Plain, PlaceOf
<1>2. PICK id : id = Append(n, name)
  OBVIOUS
<1>3. PICK node : node = NodeOf(name, n, type, fs)
  OBVIOUS
<1>4. node \in NodeRecords /\ node.fs = fs /\ node.kids = <<>> /\ node.mount = Null /\ node.parent = n
  <2>1. fs \in Words
    BY DEF Words
  <2>2. <<>> \in Seq(Ids) /\ Null \in Ids
    BY EmptySeq, FixedIds
  <2> QED BY <1>1, <1>3, <2>1, <2>2 DEF NodeOf, NodeRecords
<1>5. FitsUnder(ns, n, name, node.fs) /\ node.parent \in Above(ns)
  BY <1>1, <1>4 DEF Above
<1>6. PICK ns1 : ns1 = Put(ns, id, node)
  OBVIOUS
<1>7. IsAdded(dv, ns, id, node, ns1)
  BY <1>1, <1>2, <1>4, <1>5, <1>6, NodeAdded
<1>8. PICK ns2 : ns2 = [ns1 EXCEPT ![n].kids = Append(@, id)]
  OBVIOUS
<1>9. Tree(ns2, dv) /\ Keeps(ns1, ns2) /\ DOMAIN ns2 = DOMAIN ns1 /\ id \in DOMAIN ns1
  BY <1>1, <1>7, <1>8, KidAdded DEF IsAdded
<1>10. Keeps(ns, ns2)
  BY <1>7, <1>9, KeepsTransitive DEF IsAdded
<1>11. ns2 = AddChild(ns, n, id, node)
  BY <1>6, <1>8 DEF AddChild
<1> QED BY <1>2, <1>3, <1>9, <1>10, <1>11

\* finddir of a FAT volume makes nodes of FAT.
LEMMA FatFinddirFinds ==
    ASSUME NEW dv, NEW ns, Tree(ns, dv), NEW n \in DOMAIN ns, ns[n].fs \in {"fat", "fatroot"},
           NEW name \in Plain, NEW cached \in DOMAIN ns \cup {Null}
    PROVE  Found(ns, dv, FatFinddir(ns, n, name, cached))
<1> DEFINE Made(type) == [nodes |-> AddChild(ns, n, Append(n, name), NodeOf(name, n, type, "fat")),
                          node |-> Append(n, name)]
<1>1. \/ FatFinddir(ns, n, name, cached) = [nodes |-> ns, node |-> cached]
      \/ FatFinddir(ns, n, name, cached) = [nodes |-> ns, node |-> Null]
      \/ FatFinddir(ns, n, name, cached) = Made({"DIR"})
      \/ FatFinddir(ns, n, name, cached) = Made({"FILE"})
  BY DEF FatFinddir
<1>2. Found(ns, dv, [nodes |-> ns, node |-> cached])
      /\ Found(ns, dv, [nodes |-> ns, node |-> Null])
  BY KeepsSelf DEF Found
<1>3. FitsUnder(ns, n, name, "fat")
  BY DEF FitsUnder
<1>4. ASSUME NEW type \in {{"DIR"}, {"FILE"}} PROVE Found(ns, dv, Made(type))
  <2>1. type \in SUBSET Words
    BY DEF Words
  <2>2. PICK ns2 : ns2 = AddChild(ns, n, Append(n, name), NodeOf(name, n, type, "fat"))
    OBVIOUS
  <2>3. Tree(ns2, dv) /\ Keeps(ns, ns2) /\ Append(n, name) \in DOMAIN ns2
    BY <1>3, <2>1, <2>2, ChildAdded
  <2> QED BY <2>2, <2>3 DEF Found
<1> QED BY <1>1, <1>2, <1>4

\* The devices of the list are nodes.
ListOf(list, dv) == list \in Seq(Ids) /\ {list[i] : i \in DOMAIN list} = dv

\* The root mounted on a node is a node.
LEMMA CrossedType ==
    ASSUME NEW dv, NEW ns, Tree(ns, dv), NEW n \in DOMAIN ns
    PROVE  Crossed(ns, n) \in DOMAIN ns /\ (Crossed(ns, n) # n => Crossed(ns, n) \notin ThreadIds)
<1>1. LinksOf(ns, n)
  BY DEF Tree
<1> QED BY <1>1 DEF Crossed, LinksOf, Above

\* A name of a list of nodes is the name of a node.
LEMMA NamedIn ==
    ASSUME NEW ns, NEW list \in Seq(Ids), NEW name, \A i \in DOMAIN list : list[i] \in DOMAIN ns
    PROVE  Named(ns, list, name) \in DOMAIN ns \cup {Null}
BY NamedFacts

\* fs_finddir finds a node of the tree, or none, and leaves a tree.
LEMMA FinddirFinds ==
    ASSUME NEW dv, NEW ns, Tree(ns, dv), ListOf(devices, dv), NEW n \in DOMAIN ns,
           NEW name \in Plain
    PROVE  Found(ns, dv, FsFinddir(ns, n, name))
<1>1. PICK m : m = Crossed(ns, n)
  OBVIOUS
<1>2. m \in DOMAIN ns
  BY <1>1, CrossedType
<1>3. ns[m].kids \in Seq(Ids) /\ \A i \in DOMAIN ns[m].kids : ns[m].kids[i] \in DOMAIN ns
  <2>1. ns[m] \in NodeRecords /\ LinksOf(ns, m)
    BY <1>2 DEF Tree, Typed
  <2> QED BY <2>1 DEF NodeRecords, LinksOf
<1>4. PICK kid : kid = Named(ns, ns[m].kids, name)
  OBVIOUS
<1>5. kid \in DOMAIN ns \cup {Null}
  BY <1>3, <1>4, NamedIn
<1>6. PICK device : device = Named(ns, devices, name)
  OBVIOUS
<1>7. device \in DOMAIN ns \cup {Null}
  <2>1. devices \in Seq(Ids) /\ \A i \in DOMAIN devices : devices[i] \in DOMAIN ns
    BY DEF ListOf, Tree
  <2> QED BY <1>6, <2>1, NamedIn
<1>8. \A k \in DOMAIN ns \cup {Null} : Found(ns, dv, [nodes |-> ns, node |-> k])
  BY KeepsSelf DEF Found
<1>9. Found(ns, dv, NodeFinddir(ns, m, name))
  <2>1. CASE ns[m].fs \in {"fat", "fatroot"}
    <3>1. Found(ns, dv, FatFinddir(ns, m, name, kid))
      BY <1>2, <1>5, <2>1, FatFinddirFinds
    <3>2. NodeFinddir(ns, m, name) = FatFinddir(ns, m, name, kid)
      BY <1>4, <2>1 DEF NodeFinddir
    <3> QED BY <3>1, <3>2
  <2>2. CASE ns[m].fs \notin {"fat", "fatroot"}
    <3>1. \/ NodeFinddir(ns, m, name) = [nodes |-> ns, node |-> kid]
          \/ NodeFinddir(ns, m, name) = [nodes |-> ns, node |-> device]
          \/ NodeFinddir(ns, m, name) = [nodes |-> ns, node |-> Null]
      BY <1>4, <1>6, <2>2 DEF NodeFinddir
    <3> QED BY <1>5, <1>7, <1>8, <3>1
  <2> QED BY <2>1, <2>2
<1> QED BY <1>1, <1>8, <1>9 DEF FsFinddir

-----------------------------------------------------------------------------

\* A walk from what another search found.
LEMMA WalkOnFinds ==
    ASSUME NEW dv, NEW old, NEW at, Found(old, dv, at), ListOf(devices, dv), NEW name \in Plain
    PROVE  Found(old, dv, WalkOn(at, name))
<1>1. CASE at.node = Null
  BY <1>1 DEF WalkOn
<1>2. CASE at.node # Null
  <2>1. Tree(at.nodes, dv) /\ at.node \in DOMAIN at.nodes /\ Keeps(old, at.nodes)
    BY <1>2 DEF Found
  <2>2. PICK found : found = FsFinddir(at.nodes, at.node, name)
    OBVIOUS
  <2>3. Found(at.nodes, dv, found)
    BY <2>1, <2>2, FinddirFinds
  <2>4. Found(old, dv, found)
    BY <2>1, <2>3, KeepsTransitive DEF Found
  <2> QED BY <1>2, <2>2, <2>4 DEF WalkOn
<1> QED BY <1>1, <1>2

\* What searches can have found.
Trees == UNION {[D -> NodeRecords] : D \in SUBSET Ids}
Searches(old, dv) == {s \in [nodes : Trees, node : Ids] : Found(old, dv, s)}

\* Any record that is found is one of them.
IsSearch(s) == s = [nodes |-> s.nodes, node |-> s.node]

\* Results of searches form a set, over which a walk along a path goes step by step.
LEMMA FoundIsSearch ==
    ASSUME NEW old, NEW dv, NEW s, Found(old, dv, s), IsSearch(s)
    PROVE  s \in Searches(old, dv)
<1>1. PICK ns, n : ns = s.nodes /\ n = s.node
  OBVIOUS
<1>2. Typed(ns) /\ n \in DOMAIN ns \cup {Null}
  BY <1>1 DEF Found, Tree
<1>3. ns \in [DOMAIN ns -> NodeRecords] /\ DOMAIN ns \in SUBSET Ids
  BY <1>2 DEF Typed
<1>4. ns \in Trees
  BY <1>3 DEF Trees
<1>5. n \in Ids
  BY <1>2, FixedIds DEF Typed
<1> QED BY <1>1, <1>4, <1>5 DEF Searches, IsSearch

\* fs_finddir leads from one result of a search to another.
LEMMA FinddirIsSearch ==
    ASSUME NEW at, NEW name, IsSearch(at)
    PROVE  IsSearch(WalkOn(at, name))
BY DEF IsSearch, WalkOn, FsFinddir, NodeFinddir, FatFinddir

\* The results of the searches along a path.
IsWalk(ns, dv, real, g) ==
    /\ g[0] = [nodes |-> ns, node |-> RootNode]
    /\ \A i \in 1 .. Len(real) : g[i] = WalkOn(g[i - 1], real[i])
    /\ \A i \in 0 .. Len(real) : Found(ns, dv, g[i]) /\ IsSearch(g[i])

\* The clauses of the walk are well defined.
LEMMA GetNodeRun ==
    ASSUME NEW dv, NEW ns, Tree(ns, dv), ListOf(devices, dv), NEW names \in Seq(Plain)
    PROVE  \E g : /\ IsWalk(ns, dv, Resolve(names), g)
                  /\ GetNode(ns, names) = g[Len(Resolve(names))]
<1> DEFINE S == Searches(ns, dv)
           real == Resolve(names)
           start == [nodes |-> ns, node |-> RootNode]
           Clauses(f) == f = [i \in 0 .. Len(real) |->
                                 IF i = 0 THEN start ELSE WalkOn(f[i - 1], real[i])]
           Done == CHOOSE f : Clauses(f)
<1>1. real \in Seq(Plain)
  BY ResolveType
<1>2. PICK n \in Nat : n = Len(real)
  BY <1>1, LenProperties
<1>3. PICK first : first \in S /\ first = start
  <2>1. RootNode \in DOMAIN ns
    BY DEF Tree, Fixed
  <2>2. Found(ns, dv, start) /\ IsSearch(start)
    BY <2>1, KeepsSelf DEF Found, IsSearch
  <2>3. start \in Searches(ns, dv)
    BY <2>2, FoundIsSearch
  <2> QED BY <2>3
<1>4. \A i \in 1 .. n : real[i] \in Plain
  BY <1>1, <1>2, ElementOfSeq
<1>5. PICK step : step = [x \in S \X (1 .. n) |-> WalkOn(x[1], real[x[2]])]
  OBVIOUS
<1> HIDE DEF S, start, real
<1>6. \A x \in S, i \in 1 .. n : WalkOn(x, real[i]) \in S
  <2> SUFFICES ASSUME NEW x \in S, NEW i \in 1 .. n PROVE WalkOn(x, real[i]) \in S
    OBVIOUS
  <2>1. Found(ns, dv, x) /\ IsSearch(x)
    BY DEF S, Searches, IsSearch
  <2>2. PICK to : to = WalkOn(x, real[i])
    OBVIOUS
  <2>3. Found(ns, dv, to) /\ IsSearch(to)
    BY <1>4, <2>1, <2>2, WalkOnFinds, FinddirIsSearch
  <2>4. to \in Searches(ns, dv)
    BY <2>3, FoundIsSearch
  <2> QED BY <2>2, <2>4 DEF S
<1>7. step \in [S \X (1 .. n) -> S]
  BY <1>5, <1>6
<1>8. \E f \in [0 .. n -> S] : IsRun(f, n, first, step)
  BY <1>3, <1>7, StepsExist
<1>9. PICK f \in [0 .. n -> S] :
        f[0] = first /\ \A i \in 1 .. n : f[i] = step[<<f[i - 1], i>>]
  BY <1>8 DEF IsRun
<1>10. Clauses(f)
  <2>1. ASSUME NEW i \in 0 .. n, i # 0 PROVE f[i] = WalkOn(f[i - 1], real[i])
    <3>1. i \in 1 .. n /\ i - 1 \in 0 .. n
      BY <1>2, <2>1
    <3>2. f[i - 1] \in S
      BY <1>9, <3>1
    <3> QED BY <1>5, <1>9, <3>1, <3>2
  <2>2. f[0] = start
    BY <1>3, <1>9
  <2> QED BY <1>2, <1>9, <2>1, <2>2
<1>11. Clauses(Done)
  <2> HIDE DEF Clauses
  <2> QED BY <1>10, Zenon
<1>12. PICK g : g = Done /\ Clauses(g)
  BY <1>11
<1>13. GetNode(ns, names) = Done[Len(real)]
  BY Zenon DEF GetNode, Done, Clauses, start, real
<1> HIDE DEF Done
<1>14. g[0] \in S
  <2>1. 0 \in 0 .. Len(real)
    BY <1>2
  <2> QED BY <1>3, <1>12, <2>1
<1>15. ASSUME NEW i \in 1 .. n, g[i - 1] \in S PROVE g[i] \in S
  <2>1. i \in 0 .. n /\ i # 0
    BY <1>2
  <2> QED BY <1>2, <1>6, <1>12, <1>15, <2>1
<1>16. \A i \in 0 .. n : g[i] \in S
  <2> HIDE DEF Clauses
  <2> QED BY <1>2, <1>14, <1>15, RunsStay
<1>17. GetNode(ns, names) = g[Len(real)]
  <2>1. g = Done
    BY <1>12
  <2> HIDE DEF Clauses
  <2> QED BY <1>13, <2>1
<1>18. g[0] = start /\ \A i \in 1 .. Len(real) : g[i] = WalkOn(g[i - 1], real[i])
  BY <1>2, <1>12
<1>19. \A i \in 0 .. Len(real) : Found(ns, dv, g[i]) /\ IsSearch(g[i])
  BY <1>2, <1>16 DEF S, Searches, IsSearch
<1>20. IsWalk(ns, dv, real, g)
  <2> HIDE DEF Clauses
  <2> QED BY <1>18, <1>19 DEF IsWalk, start
<1>21. PICK path : path = Resolve(names)
  OBVIOUS
<1>22. IsWalk(ns, dv, path, g) /\ GetNode(ns, names) = g[Len(path)]
  <2> HIDE DEF Clauses
  <2> QED BY <1>17, <1>20, <1>21 DEF real
<1> HIDE DEF Clauses
<1> QED BY <1>21, <1>22

\* fs_get_node finds a node of the tree, or none.
LEMMA GetNodeFinds ==
    ASSUME NEW dv, NEW ns, Tree(ns, dv), ListOf(devices, dv), NEW names \in Seq(Plain)
    PROVE  Found(ns, dv, GetNode(ns, names))
<1>1. PICK real : real = Resolve(names)
  OBVIOUS
<1>2. PICK g : IsWalk(ns, dv, real, g) /\ GetNode(ns, names) = g[Len(real)]
  BY <1>1, GetNodeRun
<1>3. Len(real) \in 0 .. Len(real)
  BY <1>1, ResolveType, LenProperties
<1> QED BY <1>2, <1>3 DEF IsWalk

\* A search with a relative name begins at the path of a node.
LEMMA GetRelativeFinds ==
    ASSUME NEW dv, NEW ns, Tree(ns, dv), ListOf(devices, dv), NEW n \in DOMAIN ns,
           NEW names \in Seq(Plain)
    PROVE  Found(ns, dv, GetRelative(ns, n, names))
<1>1. Found(ns, dv, [nodes |-> ns, node |-> Null])
  BY KeepsSelf DEF Found
<1>2. PICK down : down = NamesDown(ns, n)
  OBVIOUS
<1>3. down \in Seq(Plain)
  BY <1>2, NamesDownType
<1>4. PICK all : all = down \o names
  OBVIOUS
<1>5. all \in Seq(Plain)
  BY <1>3, <1>4, ConcatProperties
<1>6. Found(ns, dv, GetNode(ns, all))
  BY <1>5, GetNodeFinds
<1> QED BY <1>1, <1>2, <1>4, <1>6 DEF GetRelative, NodePath

\* The names of a path that a program gives are plain.
LEMMA PathPlain ==
    ASSUME NEW path \in PathNames
    PROVE  path.names \in Seq(Plain)
<1>1. GivenNames \subseteq Plain
  BY DEF GivenNames, Plain, Words
<1>2. path.names \in Seq(GivenNames)
  BY DEF PathNames
<1> QED BY <1>1, <1>2, SeqMonotonic

\* fs_get_node_absolute_or_relative finds a node of the tree, or none.
LEMMA LocateFinds ==
    ASSUME NEW dv, Tree(nodes, dv), ListOf(devices, dv), NEW p, NEW path \in PathNames,
           Sound(p, path)
    PROVE  Found(nodes, dv, Locate(p, path))
<1>1. path.names \in Seq(Plain)
  BY PathPlain
<1>2. PICK names : names = path.names
  OBVIOUS
<1>3. Found(nodes, dv, GetNode(nodes, names))
  BY <1>1, <1>2, GetNodeFinds
<1>4. Found(nodes, dv, [nodes |-> nodes, node |-> Null])
  BY KeepsSelf DEF Found
<1>5. CASE path.abs
  BY <1>2, <1>3, <1>5 DEF Locate
<1>6. CASE ~ path.abs
  <2>1. cwd[p] \in DOMAIN nodes
    BY <1>6 DEF Sound
  <2>2. Found(nodes, dv, GetRelative(nodes, cwd[p], names))
    BY <1>1, <1>2, <2>1, GetRelativeFinds
  <2> QED BY <1>2, <1>4, <1>6, <2>2 DEF Locate
<1> QED BY <1>5, <1>6

-----------------------------------------------------------------------------
(***************************************************************************)
(* Calls that change the tree.                                             *)
(***************************************************************************)

\* Node n with another type, and perhaps another root mounted on it.
IsOfKind(ns, n, type, root, ns2) ==
    /\ DOMAIN ns2 = DOMAIN ns /\ ns2 = [k \in DOMAIN ns2 |-> ns2[k]]
    /\ ns2[n] = [ns[n] EXCEPT !.type = type, !.mount = root]
    /\ \A k \in DOMAIN ns : k # n => ns2[k] = ns[k]

\* stat, mount and unmount give a node another type.
LEMMA KindChanged ==
    ASSUME NEW dv, NEW ns, Tree(ns, dv), NEW n \in DOMAIN ns, NEW type \in SUBSET Words,
           NEW root \in Above(ns) \cap Ids, NEW ns2, IsOfKind(ns, n, type, root, ns2)
    PROVE  Tree(ns2, dv) /\ Keeps(ns, ns2)
<1> USE DEF IsOfKind
<1>1. \A k \in DOMAIN ns : ns[k] \in NodeRecords /\ ns[k].mount \in Above(ns)
  BY DEF Tree, Typed, LinksOf
<1>2. /\ ns2[n] \in NodeRecords /\ ns2[n].parent = ns[n].parent /\ ns2[n].kids = ns[n].kids
      /\ ns2[n].name = ns[n].name /\ ns2[n].fs = ns[n].fs /\ ns2[n].mount = root
  BY <1>1 DEF NodeRecords
<1>3. Typed(ns2)
  BY <1>1, <1>2 DEF Tree, Typed
<1>4. \A k \in DOMAIN ns : /\ ns2[k].parent = ns[k].parent /\ ns2[k].kids = ns[k].kids
                           /\ ns2[k].name = ns[k].name /\ ns2[k].fs = ns[k].fs
                           /\ ns2[k].mount \in Above(ns)
  BY <1>1, <1>2
<1> QED BY <1>3, <1>4, SameKinds

\* fs_stat.
LEMMA StatChanges ==
    ASSUME NEW dv, NEW ns, Tree(ns, dv), NEW n \in DOMAIN ns
    PROVE  Tree(FsStat(ns, n).nodes, dv) /\ Keeps(ns, FsStat(ns, n).nodes)
<1>1. PICK ns2 : ns2 = FatStat(ns, n)
  OBVIOUS
<1>2. ns2 = ns \/ \E type \in {{"DIR"}, {"FILE"}} : ns2 = [ns EXCEPT ![n].type = type]
  BY <1>1 DEF FatStat
<1>3. ASSUME NEW type \in {{"DIR"}, {"FILE"}}, ns2 = [ns EXCEPT ![n].type = type]
      PROVE  Tree(ns2, dv) /\ Keeps(ns, ns2)
  <2>1. type \in SUBSET Words
    BY DEF Words
  <2>2. ns[n] \in NodeRecords /\ ns[n].mount \in Above(ns)
    BY DEF Tree, Typed, LinksOf
  <2>3. PICK root : root = ns[n].mount
    OBVIOUS
  <2>4. root \in Above(ns) \cap Ids
    BY <2>2, <2>3 DEF NodeRecords
  <2>5. /\ DOMAIN ns2 = DOMAIN ns /\ ns2 = [k \in DOMAIN ns2 |-> ns2[k]]
        /\ \A k \in DOMAIN ns : k # n => ns2[k] = ns[k]
        /\ ns2[n] = [ns[n] EXCEPT !.type = type]
    BY <1>3
  <2>6. ns2[n] = [ns[n] EXCEPT !.type = type, !.mount = root]
    BY <2>2, <2>3, <2>5 DEF NodeRecords
  <2>7. IsOfKind(ns, n, type, root, ns2)
    BY <2>5, <2>6 DEF IsOfKind
  <2> QED BY <2>1, <2>4, <2>7, KindChanged
<1>4. Tree(ns2, dv) /\ Keeps(ns, ns2)
  BY <1>2, <1>3, KeepsSelf
<1> QED BY <1>1, <1>4 DEF FsStat

\* fs_mkdir.
LEMMA MkdirChanges ==
    ASSUME NEW dv, NEW ns, Tree(ns, dv), NEW n \in DOMAIN ns, NEW name \in Plain
    PROVE  Tree(FsMkdir(ns, n, name), dv) /\ Keeps(ns, FsMkdir(ns, n, name))
<1>1. PICK m : m = Crossed(ns, n)
  OBVIOUS
<1>2. m \in DOMAIN ns
  BY <1>1, CrossedType
<1>3. ASSUME ns[m].fs = "root"
      PROVE  LET ns2 == AddChild(ns, m, Append(m, name), NodeOf(name, m, {"DIR"}, "root"))
             IN  Tree(ns2, dv) /\ Keeps(ns, ns2)
  <2>1. FitsUnder(ns, m, name, "root")
    BY <1>3 DEF FitsUnder
  <2>2. {"DIR"} \in SUBSET Words
    BY DEF Words
  <2> QED BY <1>2, <2>1, <2>2, ChildAdded
<1> QED BY <1>1, <1>3, KeepsSelf DEF FsMkdir, RootfsMkdir

\* Unmounting.
LEMMA UnmountChanges ==
    ASSUME NEW dv, NEW ns, Tree(ns, dv), NEW n \in DOMAIN ns
    PROVE  LET ns2 == [ns EXCEPT ![n].type = {"DIR"}, ![n].mount = Null]
           IN  Tree(ns2, dv) /\ Keeps(ns, ns2)
<1>1. PICK ns2 : ns2 = [ns EXCEPT ![n].type = {"DIR"}, ![n].mount = Null]
  OBVIOUS
<1>2. {"DIR"} \in SUBSET Words /\ Null \in Above(ns) \cap Ids
  BY FixedIds DEF Words, Above
<1>3. /\ DOMAIN ns2 = DOMAIN ns /\ ns2 = [k \in DOMAIN ns2 |-> ns2[k]]
      /\ \A k \in DOMAIN ns : k # n => ns2[k] = ns[k]
      /\ ns2[n] = [ns[n] EXCEPT !.type = {"DIR"}, !.mount = Null]
  BY <1>1 DEF Tree, Typed
<1>4. PICK type, root : type = {"DIR"} /\ root = Null
  OBVIOUS
<1>5. IsOfKind(ns, n, type, root, ns2)
  BY <1>3, <1>4 DEF IsOfKind
<1>6. Tree(ns2, dv) /\ Keeps(ns, ns2)
  BY <1>2, <1>4, <1>5, KindChanged
<1> QED BY <1>1, <1>6

\* Mounting: the root is a new node.
LEMMA FatMountChanges ==
    ASSUME NEW dv, NEW ns, Tree(ns, dv), NEW n \in DOMAIN ns, NEW source, FreeVolumes # {}
    PROVE  Tree(FatMount(source, n, ns).nodes, dv) /\ Keeps(ns, FatMount(source, n, ns).nodes)
<1>1. FirstVolume \in DOMAIN VolumeNames
  <2>1. FreeVolumes \in SUBSET Nat
    BY Constants, LenProperties DEF FreeVolumes
  <2>2. \E v \in FreeVolumes : \A w \in FreeVolumes : v <= w
    BY <2>1, LeastNumber
  <2> QED BY <2>2 DEF FirstVolume, FreeVolumes
<1>2. PICK x : x = VolumeNames[FirstVolume]
  OBVIOUS
<1>3. x \in Range(VolumeNames) /\ x \in Words
  BY <1>1, <1>2, Constants DEF Range
<1>4. PICK root : root = Append(n, x)
  OBVIOUS
<1>5. n \in Ids /\ ns[n] \in NodeRecords /\ LinksOf(ns, n)
  BY DEF Tree, Typed
<1>6. PICK node : node = NodeOf(ns[n].name, ns[n].parent, {"DIR"}, "fatroot")
  OBVIOUS
<1>7. /\ node \in NodeRecords /\ node.fs = "fatroot" /\ node.kids = <<>> /\ node.mount = Null
      /\ node.parent = ns[n].parent
  <2>1. {"DIR"} \in SUBSET Words /\ "fatroot" \in Words
    BY DEF Words
  <2>2. <<>> \in Seq(Ids) /\ Null \in Ids
    BY EmptySeq, FixedIds
  <2> QED BY <1>5, <1>6, <2>1, <2>2 DEF NodeOf, NodeRecords
<1>8. FitsUnder(ns, n, x, node.fs) /\ node.parent \in Above(ns)
  BY <1>3, <1>5, <1>7 DEF FitsUnder, LinksOf
<1>9. PICK ns1 : ns1 = Put(ns, root, node)
  OBVIOUS
<1>10. IsAdded(dv, ns, root, node, ns1)
  BY <1>3, <1>4, <1>7, <1>8, <1>9, NodeAdded
<1>11. PICK type : type = ns1[n].type \cup {"MOUNT"}
  OBVIOUS
<1>12. PICK ns2 : ns2 = [ns1 EXCEPT ![n].type = @ \cup {"MOUNT"}, ![n].mount = root]
  OBVIOUS
<1>13. Tree(ns1, dv) /\ Keeps(ns, ns1) /\ n \in DOMAIN ns1 /\ root \in Above(ns1) \cap Ids
  BY <1>10 DEF IsAdded, Above
<1>14. ns1[n] \in NodeRecords /\ type \in SUBSET Words
  <2>1. ns1[n] \in NodeRecords
    BY <1>13 DEF Tree, Typed
  <2>2. "MOUNT" \in Words
    BY DEF Words
  <2> QED BY <1>11, <2>1, <2>2 DEF NodeRecords
<1>15. /\ DOMAIN ns2 = DOMAIN ns1 /\ ns2 = [k \in DOMAIN ns2 |-> ns2[k]]
       /\ \A k \in DOMAIN ns1 : k # n => ns2[k] = ns1[k]
  BY <1>12
<1>16. ns2[n] = [ns1[n] EXCEPT !.type = type, !.mount = root]
  BY <1>11, <1>12, <1>13, <1>14 DEF NodeRecords
<1>17. Tree(ns2, dv) /\ Keeps(ns1, ns2)
  <2>1. IsOfKind(ns1, n, type, root, ns2)
    BY <1>15, <1>16 DEF IsOfKind
  <2> QED BY <1>13, <1>14, <2>1, KindChanged
<1>18. Keeps(ns, ns2)
  BY <1>13, <1>17, KeepsTransitive
<1>19. FatMount(source, n, ns).nodes \in {ns, ns2}
  BY <1>2, <1>4, <1>6, <1>9, <1>12 DEF FatMount
<1> QED BY <1>17, <1>18, <1>19, KeepsSelf

\* The directory of threads is filled anew.
LEMMA ThreadsFilled ==
    ASSUME NEW dv, NEW ns, Tree(ns, dv), \A i \in DOMAIN live : live[i] \in Process,
           live \in Seq(Process)
    PROVE  Tree(FillThreads(ns), dv) /\ Keeps(ns, FillThreads(ns))
<1> DEFINE id(p) == Append(ThreadsDir, p)
           Old == {ns[ThreadsDir].kids[i] : i \in DOMAIN ns[ThreadsDir].kids}
           New == {id(live[i]) : i \in DOMAIN live}
           Kids == [i \in DOMAIN live |-> id(live[i])]
           Node(n) == CASE n \in New -> NodeOf(n[Len(n)], ThreadsDir, {"FILE"}, "thread")
                        [] n = ThreadsDir -> [ns[n] EXCEPT !.kids = Kids]
                        [] OTHER -> ns[n]
<1>1. PICK ns2 : ns2 = [n \in (DOMAIN ns \ Old) \cup New |-> Node(n)]
  OBVIOUS
<1>2. FillThreads(ns) = ns2
  BY <1>1 DEF FillThreads
<1>3. /\ ThreadsDir \in DOMAIN ns /\ ThreadsDir \in Ids /\ ThreadsDir \notin ThreadIds
      /\ ThreadsDir \notin DeviceIds /\ ThreadsDir \in Fixed
  BY FixedIds, FixedFsIs DEF Tree, Fixed
<1>4. \A p \in Process : p \in Words /\ p \in Plain
  BY Constants DEF Plain
<1>5. New \subseteq ThreadIds
  BY DEF ThreadIds
<1>6. \A t \in ThreadIds : t \in Ids /\ t[Len(t)] \in Plain /\ t \notin DeviceIds
  <2> SUFFICES ASSUME NEW p \in Process, NEW t, t = id(p)
               PROVE  t \in Ids /\ t[Len(t)] \in Plain /\ t \notin DeviceIds
    BY DEF ThreadIds
  <2>1. t \in Ids
    BY <1>3, <1>4, OneAppend
  <2>2. t[Len(t)] = p
    <3>1. ThreadsDir \in Seq(Words) /\ p \in Words
      BY <1>3, <1>4 DEF Ids
    <3> QED BY <3>1, AppendProperties
  <2>3. DevRoot # ThreadsDir
    BY FixedIds
  <2>4. t \notin DeviceIds
    BY <1>3, <1>4, <2>3, AppendedIds
  <2> QED BY <1>4, <2>1, <2>2, <2>4
<1>7. Old \subseteq ThreadIds /\ Old \subseteq DOMAIN ns
  BY <1>3 DEF Tree, LinksOf
<1>8. ThreadsDir \notin Old /\ ThreadsDir \notin New
  BY <1>3, <1>5, <1>7
<1>9. /\ DOMAIN ns2 = (DOMAIN ns \ Old) \cup New
      /\ ThreadsDir \in DOMAIN ns2 /\ ns2[ThreadsDir] = [ns[ThreadsDir] EXCEPT !.kids = Kids]
      /\ \A n \in New : ns2[n] = NodeOf(n[Len(n)], ThreadsDir, {"FILE"}, "thread")
      /\ \A n \in DOMAIN ns2 : n \notin New /\ n # ThreadsDir => n \in DOMAIN ns /\ ns2[n] = ns[n]
  BY <1>1, <1>3, <1>8
<1>10. Kids \in Seq(Ids) /\ (\A i \in DOMAIN Kids : Kids[i] \in New)
  <2>1. PICK n \in Nat : n = Len(live)
    BY LenProperties
  <2>2. DOMAIN live = 1 .. n
    BY <2>1, LenProperties
  <2>3. \A i \in 1 .. n : id(live[i]) \in Ids
    BY <1>5, <1>6, <2>2
  <2>4. Kids \in [1 .. n -> Ids]
    BY <2>2, <2>3
  <2>5. Kids \in Seq(Ids)
    BY <2>4, SeqDef
  <2> QED BY <2>5
<1>11. \A n \in DOMAIN ns : ns[n] \in NodeRecords /\ n \in Ids
  BY DEF Tree, Typed
<1> HIDE DEF New, Old, Kids
<1>12. ASSUME NEW n \in New
       PROVE  /\ ns2[n] \in NodeRecords /\ ns2[n].kids = <<>> /\ ns2[n].parent = ThreadsDir
              /\ ns2[n].mount = Null /\ ns2[n].fs = "thread"
  <2>1. {"FILE"} \in SUBSET Words /\ "thread" \in Words
    BY DEF Words
  <2>2. <<>> \in Seq(Ids) /\ Null \in Ids
    BY EmptySeq, FixedIds
  <2>3. n[Len(n)] \in Plain
    BY <1>5, <1>6
  <2>4. PICK name : name = n[Len(n)]
    OBVIOUS
  <2>5. ns2[n] = NodeOf(name, ThreadsDir, {"FILE"}, "thread") /\ name \in Plain
    BY <1>9, <2>3, <2>4
  <2> QED BY <1>3, <2>1, <2>2, <2>5 DEF NodeOf, NodeRecords
<1>13. /\ ns2[ThreadsDir] \in NodeRecords /\ ns2[ThreadsDir].kids = Kids
       /\ ns2[ThreadsDir].parent = ns[ThreadsDir].parent
       /\ ns2[ThreadsDir].mount = ns[ThreadsDir].mount
       /\ ns2[ThreadsDir].name = ns[ThreadsDir].name
       /\ ns2[ThreadsDir].fs = ns[ThreadsDir].fs
  BY <1>3, <1>9, <1>10, <1>11 DEF NodeRecords
<1>14. Typed(ns2)
  <2>1. DOMAIN ns2 \subseteq Ids
    BY <1>5, <1>6, <1>9, <1>11
  <2>2. ns2 = [n \in DOMAIN ns2 |-> ns2[n]]
    BY <1>1
  <2>3. \A n \in DOMAIN ns2 : ns2[n] \in NodeRecords
    BY <1>9, <1>11, <1>12, <1>13
  <2> QED BY <2>1, <2>2, <2>3 DEF Typed
<1>15. \A n \in DOMAIN ns \ ThreadIds : n \in DOMAIN ns2 /\ n \notin New /\ ns2[n].fs = ns[n].fs
  BY <1>5, <1>7, <1>9, <1>13
<1>16. Above(ns) \subseteq Above(ns2) /\ Null \in Above(ns2) /\ ThreadsDir \in Above(ns2)
  BY <1>3, <1>9, <1>15 DEF Above
<1>17. ASSUME NEW n \in DOMAIN ns2 PROVE LinksOf(ns2, n)
  <2>1. CASE n \in New
    <3>1. DOMAIN ns2[n].kids = {}
      BY <1>12, <2>1
    <3> QED BY <1>12, <1>16, <2>1, <3>1 DEF LinksOf
  <2>2. CASE n = ThreadsDir
    <3>1. LinksOf(ns, n)
      BY <1>3, <2>2 DEF Tree
    <3>2. \A i \in DOMAIN ns2[n].kids : ns2[n].kids[i] \in DOMAIN ns2 /\ ns2[n].kids[i] \in ThreadIds
      BY <1>5, <1>9, <1>10, <1>13, <2>2
    <3> QED BY <1>13, <1>16, <2>2, <3>1, <3>2 DEF LinksOf
  <2>3. CASE n \notin New /\ n # ThreadsDir
    <3>1. n \in DOMAIN ns /\ ns2[n] = ns[n]
      BY <1>9, <2>3
    <3>2. LinksOf(ns, n)
      BY <3>1 DEF Tree
    <3>3. \A i \in DOMAIN ns[n].kids : ns[n].kids[i] \in DOMAIN ns2 /\ ns[n].kids[i] \notin ThreadIds
      BY <1>15, <2>3, <3>2 DEF LinksOf
    <3> QED BY <1>16, <2>3, <3>1, <3>2, <3>3 DEF LinksOf
  <2> QED BY <2>1, <2>2, <2>3
<1>18. ASSUME NEW n \in DOMAIN ns, UnderFat(ns, n) PROVE UnderFat(ns2, n)
  <2>1. PICK k \in DOMAIN ns, y \in Plain : n = Append(k, y) /\ ns[k].fs \in {"fat", "fatroot"}
    BY <1>18 DEF UnderFat
  <2>2. k \notin ThreadIds
    BY <2>1 DEF Tree, PlaceOf
  <2>3. k \in DOMAIN ns2 /\ ns2[k].fs \in {"fat", "fatroot"}
    BY <1>15, <2>1, <2>2
  <2> QED BY <2>1, <2>3 DEF UnderFat
<1>19. ASSUME NEW n \in DOMAIN ns2 PROVE PlaceOf(ns2, dv, n)
  <2>1. CASE n \in New
    <3>1. n \in ThreadIds /\ n \notin DeviceIds /\ n \notin dv
      BY <1>5, <1>6, <2>1 DEF Tree
    <3> QED BY <1>12, <2>1, <3>1 DEF PlaceOf
  <2>2. CASE n \notin New
    <3>1. n \in DOMAIN ns /\ ns2[n].fs = ns[n].fs
      BY <1>3, <1>9, <1>13, <2>2
    <3>2. PlaceOf(ns, dv, n)
      BY <3>1 DEF Tree
    <3> QED BY <1>18, <3>1, <3>2 DEF PlaceOf
  <2> QED BY <2>1, <2>2
<1>20. \A s \in Fixed : s \in DOMAIN ns2 /\ ns2[s].fs = FixedFs(s)
  BY <1>15, FixedFsIs DEF Tree
<1>21. /\ dv \subseteq DOMAIN ns2 /\ dv \subseteq DeviceIds
       /\ \A d \in dv : d = Append(DevRoot, ns2[d].name)
  <2> SUFFICES ASSUME NEW d \in dv
               PROVE  d \in DOMAIN ns2 /\ d \in DeviceIds /\ d = Append(DevRoot, ns2[d].name)
    OBVIOUS
  <2>1. d \in DOMAIN ns /\ d \in DeviceIds /\ d = Append(DevRoot, ns[d].name)
    BY DEF Tree
  <2>2. d \notin ThreadIds /\ d # ThreadsDir
    BY <1>3, <1>6, <2>1
  <2>3. d \in DOMAIN ns2 /\ ns2[d] = ns[d]
    BY <1>9, <1>15, <2>1, <2>2
  <2> QED BY <2>1, <2>3
<1>22. Keeps(ns, ns2)
  <2>1. \A n \in DOMAIN ns : ns[n].fs = "fat" => n \notin ThreadIds
    BY DEF Tree, PlaceOf
  <2> QED BY <1>15, <2>1 DEF Keeps
<1>23. Tree(ns2, dv)
  BY <1>14, <1>17, <1>19, <1>20, <1>21 DEF Tree
<1> QED BY <1>2, <1>22, <1>23

\* A device whose name is not taken has no node yet.
LEMMA DeviceAdded ==
    ASSUME NEW dv, NEW ns, Tree(ns, dv), ListOf(devices, dv), NEW name \in DOMAIN DeviceType,
           Named(ns, devices, name) = Null
    PROVE  LET id == Append(DevRoot, name)
               ns2 == Put(ns, id, DeviceNode(name))
           IN  /\ Tree(ns2, dv \cup {id}) /\ Keeps(ns, ns2)
               /\ id \notin DOMAIN ns /\ id \notin ThreadIds
               /\ ListOf(Append(devices, id), dv \cup {id})
<1>1. PICK id : id = Append(DevRoot, name)
  OBVIOUS
<1>2. PICK node : node = DeviceNode(name)
  OBVIOUS
<1>3. PICK ns2 : ns2 = Put(ns, id, node)
  OBVIOUS
<1>4. name \in Words /\ name \in Plain /\ DeviceType[name] \in Words
  BY Constants DEF Plain
<1>5. DevRoot \in Ids /\ id \in Ids /\ DevRoot \in DOMAIN ns
  BY <1>1, <1>4, FixedIds, OneAppend DEF Tree, Fixed
<1>6. id \in DeviceIds /\ id \notin ThreadIds /\ id \notin Fixed
  <2>1. DevRoot # ThreadsDir
    BY FixedIds
  <2> QED BY <1>1, <1>4, <1>5, <2>1, AppendedIds, FixedFsIs
<1>7. id \notin dv
  <2> SUFFICES ASSUME id \in dv PROVE FALSE
    OBVIOUS
  <2>1. ns[id].name \in Words /\ id = Append(DevRoot, ns[id].name)
    BY DEF Tree, Typed, NodeRecords, Plain
  <2>2. ns[id].name = name
    BY <1>1, <1>4, <1>5, <2>1, OneAppend
  <2>3. PICK i \in DOMAIN devices : devices[i] = id
    BY DEF ListOf
  <2>4. Null \notin DeviceIds
    <3>1. Null = Append(<<>>, "@null") /\ <<>> \in Ids /\ "@null" \in Words /\ DevRoot # <<>>
      BY FixedIds DEF Null, Words
    <3>2. \A d \in DOMAIN DeviceType : d \in Words
      BY Constants
    <3>3. \A d \in DOMAIN DeviceType : Append(<<>>, "@null") # Append(DevRoot, d)
      BY <1>5, <3>1, <3>2, OneAppend
    <3> QED BY <3>1, <3>3 DEF DeviceIds
  <2>5. \A j \in DOMAIN devices : devices[j] \in dv /\ devices[j] \in DeviceIds
    BY DEF ListOf, Tree
  <2>6. devices \in Seq(Ids)
    BY DEF ListOf
  <2>7. (\E j \in DOMAIN devices : Null = devices[j])
        \/ \A j \in DOMAIN devices : ns[devices[j]].name # name
    BY <2>6, NamedFacts
  <2> QED BY <2>2, <2>3, <2>4, <2>5, <2>7
<1>8. id \notin DOMAIN ns
  <2>1. \A n \in DOMAIN ns : n \in DeviceIds => n \in dv
    BY DEF Tree, PlaceOf
  <2> QED BY <1>6, <1>7, <2>1
<1>9. /\ node \in NodeRecords /\ node.name = name /\ node.fs = "device" /\ node.kids = <<>>
      /\ node.mount = Null /\ node.parent = DevRoot
  <2>1. {DeviceType[name]} \in SUBSET Words /\ "device" \in Words
    BY <1>4 DEF Words
  <2>2. <<>> \in Seq(Ids) /\ Null \in Ids
    BY EmptySeq, FixedIds
  <2> QED BY <1>2, <1>4, <1>5, <2>1, <2>2 DEF DeviceNode, NodeOf, NodeRecords
<1>10. /\ ns2 = [n \in DOMAIN ns \cup {id} |-> IF n = id THEN node ELSE ns[n]]
       /\ DOMAIN ns2 = DOMAIN ns \cup {id} /\ ns2[id] = node
       /\ \A n \in DOMAIN ns : n # id /\ ns2[n] = ns[n]
  BY <1>3, <1>8 DEF Put
<1>11. Typed(ns2)
  BY <1>5, <1>9, <1>10 DEF Tree, Typed
<1>12. Above(ns) \subseteq Above(ns2) /\ Null \in Above(ns2) /\ DevRoot \in Above(ns2)
  BY <1>5, <1>10, FixedFsIs DEF Above, Fixed
<1>13. ASSUME NEW n \in DOMAIN ns2 PROVE LinksOf(ns2, n)
  <2>1. CASE n = id
    <3>1. DOMAIN ns2[id].kids = {}
      BY <1>9, <1>10
    <3> QED BY <1>9, <1>10, <1>12, <2>1, <3>1 DEF LinksOf
  <2>2. CASE n # id
    <3>1. n \in DOMAIN ns /\ LinksOf(ns, n) /\ ns2[n] = ns[n]
      BY <1>10, <1>13, <2>2 DEF Tree
    <3> QED BY <1>10, <1>12, <3>1 DEF LinksOf
  <2> QED BY <2>1, <2>2
<1>14. ASSUME NEW n \in DOMAIN ns, UnderFat(ns, n) PROVE UnderFat(ns2, n)
  BY <1>10, <1>14 DEF UnderFat
<1>15. ASSUME NEW n \in DOMAIN ns2 PROVE PlaceOf(ns2, dv \cup {id}, n)
  <2>1. CASE n = id
    BY <1>6, <1>9, <1>10, <2>1 DEF PlaceOf
  <2>2. CASE n # id
    <3>1. n \in DOMAIN ns /\ PlaceOf(ns, dv, n) /\ ns2[n] = ns[n]
      BY <1>10, <1>15, <2>2 DEF Tree
    <3> QED BY <1>14, <2>2, <3>1 DEF PlaceOf
  <2> QED BY <2>1, <2>2
<1>16. \A s \in Fixed : s \in DOMAIN ns2 /\ ns2[s].fs = FixedFs(s)
  BY <1>10 DEF Tree
<1>17. /\ dv \cup {id} \subseteq DOMAIN ns2 /\ dv \cup {id} \subseteq DeviceIds
       /\ \A d \in dv \cup {id} : d = Append(DevRoot, ns2[d].name)
  BY <1>1, <1>6, <1>9, <1>10 DEF Tree
<1>18. Tree(ns2, dv \cup {id})
  BY <1>11, <1>13, <1>15, <1>16, <1>17 DEF Tree
<1>19. Keeps(ns, ns2)
  BY <1>10 DEF Keeps
<1>20. ListOf(Append(devices, id), dv \cup {id})
  <2>1. devices \in Seq(Ids) /\ {devices[i] : i \in DOMAIN devices} = dv
    BY DEF ListOf
  <2>2. PICK k : k = devices
    OBVIOUS
  <2>3. PICK t : t = Append(k, id)
    OBVIOUS
  <2>4. /\ k \in Seq(Ids) /\ t \in Seq(Ids) /\ Len(t) = Len(k) + 1 /\ t[Len(k) + 1] = id
        /\ \A i \in 1 .. Len(k) : t[i] = k[i]
    BY <1>5, <2>1, <2>2, <2>3, AppendProperties
  <2>5. PICK c \in Nat : c = Len(k)
    BY <2>4, LenProperties
  <2>6. DOMAIN k = 1 .. c /\ DOMAIN t = 1 .. c + 1 /\ t[c + 1] = id
        /\ \A i \in 1 .. c : t[i] = k[i]
    BY <2>4, <2>5, LenProperties
  <2>7. \A i \in 1 .. c + 1 : i \in 1 .. c \/ i = c + 1
    BY <2>5
  <2>8. {t[i] : i \in DOMAIN t} = {k[i] : i \in DOMAIN k} \cup {id}
    <3>1. ASSUME NEW i \in DOMAIN t PROVE t[i] \in {k[j] : j \in DOMAIN k} \cup {id}
      BY <2>6, <2>7
    <3>2. ASSUME NEW i \in DOMAIN k PROVE k[i] \in {t[j] : j \in DOMAIN t}
      <4>1. i \in DOMAIN t /\ t[i] = k[i]
        BY <2>5, <2>6
      <4> QED BY <4>1
    <3>3. id \in {t[j] : j \in DOMAIN t}
      <4>1. c + 1 \in DOMAIN t
        BY <2>5, <2>6
      <4> QED BY <2>6, <4>1
    <3> QED BY <3>1, <3>2, <3>3
  <2> QED BY <2>1, <2>2, <2>3, <2>4, <2>8 DEF ListOf
<1> QED BY <1>1, <1>2, <1>3, <1>6, <1>8, <1>18, <1>19, <1>20

-----------------------------------------------------------------------------
(***************************************************************************)
(* The tree at boot.                                                       *)
(***************************************************************************)

\* A new node is one of the records that nodes are.
LEMMA NodeOfType ==
    ASSUME NEW name \in Plain, NEW parent \in Ids, NEW type \in SUBSET Words, NEW fs \in Words,
           NEW kids \in Seq(Ids), NEW mount \in Ids
    PROVE  /\ NodeOf(name, parent, type, fs) \in NodeRecords
           /\ [NodeOf(name, parent, type, fs) EXCEPT !.kids = kids] \in NodeRecords
           /\ [NodeOf(name, parent, type, fs) EXCEPT !.mount = mount] \in NodeRecords
<1>1. <<>> \in Seq(Ids) /\ Null \in Ids
  BY EmptySeq, FixedIds
<1> QED BY <1>1 DEF NodeOf, NodeRecords

\* What a node of the tree at boot satisfies; all are the ids of these nodes.
BootFits(all, dv, id, node) ==
    /\ id \in Ids /\ id \notin ThreadIds /\ node \in NodeRecords
    /\ node.parent \in all \cup {Null} /\ node.mount \in all \cup {Null}
    /\ \A i \in DOMAIN node.kids : node.kids[i] \in all /\ id # ThreadsDir
    /\ node.fs \in {"root", "dev", "system", "threads", "bare", "device"}
    /\ node.fs = "threads" => id = ThreadsDir
    /\ node.fs = "device" <=> id \in dv
    /\ id \in DeviceIds => id \in dv
    /\ id \in Fixed => node.fs = FixedFs(id)

MemInfo == SystemRoot \o <<"meminfo">>

\* The ids of the nodes made at boot.
LEMMA BootIds ==
    ASSUME NEW m \in {RootNode, SystemRoot, MemInfo},
           NEW x \in {"initrd", "meminfo", "totalpages", "usedpages", "pipes", "shm"}
    PROVE  /\ m \in Ids /\ x \in Words /\ m \o <<x>> = Append(m, x) /\ m \o <<x>> \in Ids
           /\ m \o <<x>> \notin ThreadIds /\ m \o <<x>> \notin DeviceIds /\ m \o <<x>> \notin Fixed
<1>1. x \in Words /\ "meminfo" \in Words
  BY DEF Words
<1>2. /\ RootNode \in Ids /\ SystemRoot \in Ids /\ DevRoot \in Ids /\ ThreadsDir \in Ids
      /\ SystemRoot # ThreadsDir /\ SystemRoot # DevRoot
      /\ RootNode # ThreadsDir /\ RootNode # DevRoot
  BY FixedIds
<1>3. MemInfo = Append(SystemRoot, "meminfo")
  <2> DEFINE s == SystemRoot
  <2>1. s \in Seq(Words)
    BY <1>2 DEF Ids
  <2> HIDE DEF s
  <2>2. s \o <<"meminfo">> = Append(s, "meminfo")
    BY <1>1, <2>1, AppendIsConcat
  <2> QED BY <2>2 DEF MemInfo, s
<1>4. MemInfo \in Ids /\ MemInfo \notin Fixed
  <2>1. MemInfo \in Ids
    BY <1>1, <1>2, <1>3, OneAppend
  <2>2. MemInfo \notin Fixed
    <3> SUFFICES ASSUME Append(SystemRoot, "meminfo") \in Fixed PROVE FALSE
      BY <1>3
    <3> QED BY <1>1, <1>2, FixedAppends
  <2> QED BY <2>1, <2>2
<1>5. m \in Ids /\ m # ThreadsDir /\ m # DevRoot
  BY <1>2, <1>4 DEF Fixed
<1>6. m \o <<x>> = Append(m, x)
  <2>1. m \in Seq(Words)
    BY <1>5 DEF Ids
  <2> QED BY <1>1, <2>1, AppendIsConcat
<1>7. Append(m, x) \in Ids /\ Append(m, x) \notin ThreadIds /\ Append(m, x) \notin DeviceIds
  BY <1>1, <1>5, OneAppend, AppendedIds
<1>8. Append(m, x) \notin Fixed
  BY <1>1, <1>5, FixedAppends
<1> QED BY <1>1, <1>5, <1>6, <1>7, <1>8

BootDeviceIds == {Append(DevRoot, BootDevices[i]) : i \in DOMAIN BootDevices}
FixedBoot == {RootNode, <<"dev">>, <<"initrd">>, <<"system">>, DevRoot, SystemRoot, MemInfo,
              MemInfo \o <<"totalpages">>, MemInfo \o <<"usedpages">>, ThreadsDir,
              SystemRoot \o <<"pipes">>, SystemRoot \o <<"shm">>}

\* The directories made at boot fit their places.
LEMMA BootNodesFit ==
    ASSUME NEW q \in RootNodes \cup SystemNodes, NEW all, FixedBoot \subseteq all
    PROVE  BootFits(all, BootDeviceIds, q[1], q[2]) /\ q[1] \notin BootDeviceIds
<1>1. BootNames \subseteq Plain
  <2>1. BootNames \subseteq Words
    BY DEF BootNames, Words
  <2> QED BY <2>1, Constants DEF Plain
<1>2. /\ "" \in Plain /\ "dev" \in Plain /\ "initrd" \in Plain /\ "system" \in Plain
      /\ "meminfo" \in Plain /\ "totalpages" \in Plain /\ "usedpages" \in Plain
      /\ "threads" \in Plain /\ "pipes" \in Plain /\ "shm" \in Plain
  BY <1>1 DEF BootNames
<1>3. /\ "root" \in Words /\ "dev" \in Words /\ "system" \in Words /\ "threads" \in Words
      /\ "bare" \in Words /\ {"DIR"} \in SUBSET Words /\ {"FILE"} \in SUBSET Words
      /\ {"DIR", "MOUNT"} \in SUBSET Words
  BY DEF Words
<1>4. /\ RootNode \in Fixed /\ <<"dev">> \in Fixed /\ <<"system">> \in Fixed /\ DevRoot \in Fixed
      /\ SystemRoot \in Fixed /\ ThreadsDir \in Fixed
  BY DEF Fixed
<1>5. BootDeviceIds \subseteq DeviceIds
  BY VfsAssumption, ElementOfSeq DEF BootDeviceIds, DeviceIds
<1>6. \A s \in Fixed : s \notin ThreadIds /\ s \notin DeviceIds /\ s \notin BootDeviceIds /\ s \in Ids
  BY <1>5, FixedFsIs, FixedIds DEF Fixed
<1>7. PICK i : i = <<"initrd">>
  OBVIOUS
<1>8. /\ i \in Ids /\ i \notin ThreadIds /\ i \notin DeviceIds /\ i \notin Fixed
      /\ i \in FixedBoot
  <2>1. i = Append(RootNode, "initrd") /\ RootNode \in Ids /\ "initrd" \in Words
    BY <1>7, FixedIds DEF Words
  <2>2. RootNode \o <<"initrd">> = i
    BY <2>1, BootIds
  <2>3. RootNode \o <<"initrd">> \notin ThreadIds /\ RootNode \o <<"initrd">> \notin DeviceIds
        /\ RootNode \o <<"initrd">> \notin Fixed /\ RootNode \o <<"initrd">> \in Ids
    BY BootIds
  <2> QED BY <1>7, <2>2, <2>3 DEF FixedBoot
<1>9. ASSUME NEW m \in {SystemRoot, MemInfo}, NEW x \in {"meminfo", "totalpages", "usedpages", "pipes", "shm"}
      PROVE  m \o <<x>> \in Ids /\ m \o <<x>> \notin ThreadIds /\ m \o <<x>> \notin DeviceIds
             /\ m \o <<x>> \notin Fixed
  BY BootIds
<1>10. PICK r, d, s, dr, sr, td, mi, tp, up, pp, sh :
         /\ r = RootNode /\ d = <<"dev">> /\ s = <<"system">> /\ dr = DevRoot /\ sr = SystemRoot
         /\ td = ThreadsDir /\ mi = MemInfo /\ tp = MemInfo \o <<"totalpages">>
         /\ up = MemInfo \o <<"usedpages">> /\ pp = SystemRoot \o <<"pipes">>
         /\ sh = SystemRoot \o <<"shm">>
  OBVIOUS
<1>11. \A f \in {r, d, s, dr, sr, td} : /\ f \in Fixed /\ f \notin ThreadIds /\ f \notin DeviceIds
                                       /\ f \notin BootDeviceIds /\ f \in Ids
  BY <1>4, <1>6, <1>10
<1>12. \A f \in {i, mi, tp, up, pp, sh} : /\ f \notin Fixed /\ f \notin ThreadIds
                                         /\ f \notin DeviceIds /\ f \notin BootDeviceIds /\ f \in Ids
  <2> DEFINE Other(f) == /\ f \notin Fixed /\ f \notin ThreadIds /\ f \notin DeviceIds
                         /\ f \notin BootDeviceIds /\ f \in Ids
  <2>1. Other(i)
    BY <1>5, <1>8
  <2>2. Other(SystemRoot \o <<"meminfo">>) /\ Other(SystemRoot \o <<"pipes">>)
        /\ Other(SystemRoot \o <<"shm">>)
    BY <1>5, <1>9
  <2>3. Other(MemInfo \o <<"totalpages">>) /\ Other(MemInfo \o <<"usedpages">>)
    BY <1>5, <1>9
  <2>4. Other(mi) /\ Other(tp) /\ Other(up) /\ Other(pp) /\ Other(sh)
    <3> HIDE DEF Other
    <3>1. MemInfo = SystemRoot \o <<"meminfo">>
      BY DEF MemInfo
    <3> QED BY <1>10, <2>2, <2>3, <3>1
  <2> HIDE DEF Other
  <2>5. \A f \in {i, mi, tp, up, pp, sh} : Other(f)
    BY <2>1, <2>4
  <2> QED BY <2>5 DEF Other
<1>13. \A f \in {r, d, s, dr, sr, td, i, mi, tp, up, pp, sh} : f \in all
  BY <1>7, <1>10 DEF FixedBoot
<1>14. /\ FixedFs(r) = "root" /\ FixedFs(d) = "root" /\ FixedFs(s) = "root" /\ FixedFs(dr) = "dev"
       /\ FixedFs(sr) = "system" /\ FixedFs(td) = "threads"
  BY <1>10, FixedFsIs
<1>15. \/ q = <<r, [NodeOf("", Null, {"DIR"}, "root") EXCEPT !.kids = <<d, i, s>>]>>
       \/ q = <<d, [NodeOf("dev", r, {"DIR", "MOUNT"}, "root") EXCEPT !.mount = dr]>>
       \/ q = <<i, NodeOf("initrd", r, {"DIR"}, "root")>>
       \/ q = <<s, [NodeOf("system", r, {"DIR", "MOUNT"}, "root") EXCEPT !.mount = sr]>>
       \/ q = <<dr, NodeOf("dev", r, {"DIR"}, "dev")>>
       \/ q = <<sr, [NodeOf("system", r, {"DIR"}, "system") EXCEPT !.kids = <<mi, td, pp, sh>>]>>
       \/ q = <<mi, [NodeOf("meminfo", sr, {"DIR"}, "system") EXCEPT !.kids = <<tp, up>>]>>
       \/ q = <<tp, NodeOf("totalpages", mi, {"FILE"}, "system")>>
       \/ q = <<up, NodeOf("usedpages", mi, {"FILE"}, "system")>>
       \/ q = <<td, NodeOf("threads", sr, {"DIR"}, "threads")>>
       \/ q = <<pp, NodeOf("pipes", sr, {"DIR"}, "bare")>>
       \/ q = <<sh, NodeOf("shm", sr, {"DIR"}, "bare")>>
  <2>1. q \in RootNodes => \/ q = <<r, [NodeOf("", Null, {"DIR"}, "root") EXCEPT !.kids = <<d, i, s>>]>>
                           \/ q = <<d, [NodeOf("dev", r, {"DIR", "MOUNT"}, "root") EXCEPT !.mount = dr]>>
                           \/ q = <<i, NodeOf("initrd", r, {"DIR"}, "root")>>
                           \/ q = <<s, [NodeOf("system", r, {"DIR", "MOUNT"}, "root") EXCEPT !.mount = sr]>>
                           \/ q = <<dr, NodeOf("dev", r, {"DIR"}, "dev")>>
    BY <1>7, <1>10 DEF RootNodes
  <2>2. q \in SystemNodes =>
       \/ q = <<sr, [NodeOf("system", r, {"DIR"}, "system") EXCEPT !.kids = <<mi, td, pp, sh>>]>>
       \/ q = <<mi, [NodeOf("meminfo", sr, {"DIR"}, "system") EXCEPT !.kids = <<tp, up>>]>>
       \/ q = <<tp, NodeOf("totalpages", mi, {"FILE"}, "system")>>
       \/ q = <<up, NodeOf("usedpages", mi, {"FILE"}, "system")>>
       \/ q = <<td, NodeOf("threads", sr, {"DIR"}, "threads")>>
       \/ q = <<pp, NodeOf("pipes", sr, {"DIR"}, "bare")>>
       \/ q = <<sh, NodeOf("shm", sr, {"DIR"}, "bare")>>
    BY <1>10 DEF SystemNodes, SystemNode, MemInfo
  <2> QED BY <2>1, <2>2
<1>16. <<d, i, s>> \in Seq(Ids) /\ <<mi, td, pp, sh>> \in Seq(Ids) /\ <<tp, up>> \in Seq(Ids)
       /\ Null \in Ids /\ <<>> \in Seq(Ids)
  BY <1>11, <1>12, FixedIds
<1>17. i # td /\ mi # td /\ tp # td /\ up # td /\ pp # td /\ sh # td /\ r # td /\ sr # td
  <2>1. r # td /\ sr # td
    BY <1>10, FixedIds
  <2>2. td \in Fixed
    BY <1>11
  <2> QED BY <1>12, <2>1, <2>2
<1>18. CASE q = <<r, [NodeOf("", Null, {"DIR"}, "root") EXCEPT !.kids = <<d, i, s>>]>>
  <2>1. PICK id, node : id = r /\ node = [NodeOf("", Null, {"DIR"}, "root") EXCEPT !.kids = <<d, i, s>>]
    OBVIOUS
  <2>2. node \in NodeRecords
    BY <1>2, <1>3, <1>11, <1>12, <1>16, <2>1, NodeOfType
  <2>3. node.kids = <<d, i, s>>
    BY <2>1 DEF NodeOf
  <2>4. id = r /\ node.fs = "root" /\ node.parent = Null /\ node.mount = Null
    BY <2>1 DEF NodeOf
  <2>5. \A j \in DOMAIN node.kids : node.kids[j] \in all
    BY <1>13, <2>3
  <2>6. BootFits(all, BootDeviceIds, id, node)
    BY <1>10, <1>11, <1>12, <1>13, <1>14, <1>17, <2>2, <2>5, <2>4 DEF BootFits
  <2> QED BY <1>18, <1>11, <1>12, <2>1, <2>6
<1>19. CASE q = <<d, [NodeOf("dev", r, {"DIR", "MOUNT"}, "root") EXCEPT !.mount = dr]>>
  <2>1. PICK id, node : id = d /\ node = [NodeOf("dev", r, {"DIR", "MOUNT"}, "root") EXCEPT !.mount = dr]
    OBVIOUS
  <2>2. node \in NodeRecords
    BY <1>2, <1>3, <1>11, <1>12, <1>16, <2>1, NodeOfType
  <2>3. BootFits(all, BootDeviceIds, id, node)
    BY <1>11, <1>12, <1>13, <1>14, <1>17, <2>1, <2>2 DEF BootFits, NodeOf
  <2> QED BY <1>19, <1>11, <1>12, <2>1, <2>3
<1>20. CASE q = <<i, NodeOf("initrd", r, {"DIR"}, "root")>>
  <2>1. PICK id, node : id = i /\ node = NodeOf("initrd", r, {"DIR"}, "root")
    OBVIOUS
  <2>2. node \in NodeRecords
    BY <1>2, <1>3, <1>11, <1>12, <1>16, <2>1, NodeOfType
  <2>3. BootFits(all, BootDeviceIds, id, node)
    BY <1>11, <1>12, <1>13, <1>14, <1>17, <2>1, <2>2 DEF BootFits, NodeOf
  <2> QED BY <1>20, <1>11, <1>12, <2>1, <2>3
<1>21. CASE q = <<s, [NodeOf("system", r, {"DIR", "MOUNT"}, "root") EXCEPT !.mount = sr]>>
  <2>1. PICK id, node : id = s /\ node = [NodeOf("system", r, {"DIR", "MOUNT"}, "root") EXCEPT !.mount = sr]
    OBVIOUS
  <2>2. node \in NodeRecords
    BY <1>2, <1>3, <1>11, <1>12, <1>16, <2>1, NodeOfType
  <2>3. BootFits(all, BootDeviceIds, id, node)
    BY <1>11, <1>12, <1>13, <1>14, <1>17, <2>1, <2>2 DEF BootFits, NodeOf
  <2> QED BY <1>21, <1>11, <1>12, <2>1, <2>3
<1>22. CASE q = <<dr, NodeOf("dev", r, {"DIR"}, "dev")>>
  <2>1. PICK id, node : id = dr /\ node = NodeOf("dev", r, {"DIR"}, "dev")
    OBVIOUS
  <2>2. node \in NodeRecords
    BY <1>2, <1>3, <1>11, <1>12, <1>16, <2>1, NodeOfType
  <2>3. BootFits(all, BootDeviceIds, id, node)
    BY <1>11, <1>12, <1>13, <1>14, <1>17, <2>1, <2>2 DEF BootFits, NodeOf
  <2> QED BY <1>22, <1>11, <1>12, <2>1, <2>3
<1>23. CASE q = <<sr, [NodeOf("system", r, {"DIR"}, "system") EXCEPT !.kids = <<mi, td, pp, sh>>]>>
  <2>1. PICK id, node : id = sr /\ node = [NodeOf("system", r, {"DIR"}, "system") EXCEPT !.kids = <<mi, td, pp, sh>>]
    OBVIOUS
  <2>2. node \in NodeRecords
    BY <1>2, <1>3, <1>11, <1>12, <1>16, <2>1, NodeOfType
  <2>3. node.kids = <<mi, td, pp, sh>>
    BY <2>1 DEF NodeOf
  <2>4. id = sr /\ node.fs = "system" /\ node.parent = r /\ node.mount = Null
    BY <2>1 DEF NodeOf
  <2>5. \A j \in DOMAIN node.kids : node.kids[j] \in all
    BY <1>13, <2>3
  <2>6. BootFits(all, BootDeviceIds, id, node)
    BY <1>10, <1>11, <1>12, <1>13, <1>14, <1>17, <2>2, <2>5, <2>4 DEF BootFits
  <2> QED BY <1>23, <1>11, <1>12, <2>1, <2>6
<1>24. CASE q = <<mi, [NodeOf("meminfo", sr, {"DIR"}, "system") EXCEPT !.kids = <<tp, up>>]>>
  <2>1. PICK id, node : id = mi /\ node = [NodeOf("meminfo", sr, {"DIR"}, "system") EXCEPT !.kids = <<tp, up>>]
    OBVIOUS
  <2>2. node \in NodeRecords
    BY <1>2, <1>3, <1>11, <1>12, <1>16, <2>1, NodeOfType
  <2>3. node.kids = <<tp, up>>
    BY <2>1 DEF NodeOf
  <2>4. id = mi /\ node.fs = "system" /\ node.parent = sr /\ node.mount = Null
    BY <2>1 DEF NodeOf
  <2>5. \A j \in DOMAIN node.kids : node.kids[j] \in all
    BY <1>13, <2>3
  <2>6. BootFits(all, BootDeviceIds, id, node)
    BY <1>10, <1>11, <1>12, <1>13, <1>14, <1>17, <2>2, <2>5, <2>4 DEF BootFits
  <2> QED BY <1>24, <1>11, <1>12, <2>1, <2>6
<1>25. CASE q = <<tp, NodeOf("totalpages", mi, {"FILE"}, "system")>>
  <2>1. PICK id, node : id = tp /\ node = NodeOf("totalpages", mi, {"FILE"}, "system")
    OBVIOUS
  <2>2. node \in NodeRecords
    BY <1>2, <1>3, <1>11, <1>12, <1>16, <2>1, NodeOfType
  <2>3. BootFits(all, BootDeviceIds, id, node)
    BY <1>11, <1>12, <1>13, <1>14, <1>17, <2>1, <2>2 DEF BootFits, NodeOf
  <2> QED BY <1>25, <1>11, <1>12, <2>1, <2>3
<1>26. CASE q = <<up, NodeOf("usedpages", mi, {"FILE"}, "system")>>
  <2>1. PICK id, node : id = up /\ node = NodeOf("usedpages", mi, {"FILE"}, "system")
    OBVIOUS
  <2>2. node \in NodeRecords
    BY <1>2, <1>3, <1>11, <1>12, <1>16, <2>1, NodeOfType
  <2>3. BootFits(all, BootDeviceIds, id, node)
    BY <1>11, <1>12, <1>13, <1>14, <1>17, <2>1, <2>2 DEF BootFits, NodeOf
  <2> QED BY <1>26, <1>11, <1>12, <2>1, <2>3
<1>27. CASE q = <<td, NodeOf("threads", sr, {"DIR"}, "threads")>>
  <2>1. PICK id, node : id = td /\ node = NodeOf("threads", sr, {"DIR"}, "threads")
    OBVIOUS
  <2>2. node \in NodeRecords
    BY <1>2, <1>3, <1>11, <1>12, <1>16, <2>1, NodeOfType
  <2>3. /\ node.kids = <<>> /\ node.fs = "threads" /\ node.parent = sr /\ node.mount = Null
    BY <2>1 DEF NodeOf
  <2>4. DOMAIN node.kids = {}
    BY <2>3
  <2>5. BootFits(all, BootDeviceIds, id, node)
    BY <1>10, <1>11, <1>13, <1>14, <2>1, <2>2, <2>3, <2>4 DEF BootFits
  <2> QED BY <1>27, <1>11, <1>12, <2>1, <2>5
<1>28. CASE q = <<pp, NodeOf("pipes", sr, {"DIR"}, "bare")>>
  <2>1. PICK id, node : id = pp /\ node = NodeOf("pipes", sr, {"DIR"}, "bare")
    OBVIOUS
  <2>2. node \in NodeRecords
    BY <1>2, <1>3, <1>11, <1>12, <1>16, <2>1, NodeOfType
  <2>3. BootFits(all, BootDeviceIds, id, node)
    BY <1>11, <1>12, <1>13, <1>14, <1>17, <2>1, <2>2 DEF BootFits, NodeOf
  <2> QED BY <1>28, <1>11, <1>12, <2>1, <2>3
<1>29. CASE q = <<sh, NodeOf("shm", sr, {"DIR"}, "bare")>>
  <2>1. PICK id, node : id = sh /\ node = NodeOf("shm", sr, {"DIR"}, "bare")
    OBVIOUS
  <2>2. node \in NodeRecords
    BY <1>2, <1>3, <1>11, <1>12, <1>16, <2>1, NodeOfType
  <2>3. BootFits(all, BootDeviceIds, id, node)
    BY <1>11, <1>12, <1>13, <1>14, <1>17, <2>1, <2>2 DEF BootFits, NodeOf
  <2> QED BY <1>29, <1>11, <1>12, <2>1, <2>3
<1> QED BY <1>15, <1>18, <1>19, <1>20, <1>21, <1>22, <1>23, <1>24, <1>25, <1>26, <1>27, <1>28, <1>29

BootPairs == {<<Append(DevRoot, d), DeviceNode(d)>> : d \in {BootDevices[i] : i \in DOMAIN BootDevices}}

\* So do the devices that kmain registers.
LEMMA BootDevicesFit ==
    ASSUME NEW q \in BootPairs, NEW all, FixedBoot \subseteq all
    PROVE  /\ BootFits(all, BootDeviceIds, q[1], q[2])
           /\ q[1] \in BootDeviceIds /\ q[1] = Append(DevRoot, q[2].name)
<1>1. PICK i \in DOMAIN BootDevices : q = <<Append(DevRoot, BootDevices[i]), DeviceNode(BootDevices[i])>>
  BY DEF BootPairs
<1>2. PICK d : d = BootDevices[i]
  OBVIOUS
<1>3. d \in DOMAIN DeviceType
  BY <1>2, VfsAssumption, ElementOfSeq
<1>4. d \in Words /\ d \in Plain /\ DeviceType[d] \in Words
  BY <1>3, Constants DEF Plain
<1>5. PICK id, node : id = Append(DevRoot, d) /\ node = DeviceNode(d)
  OBVIOUS
<1>6. /\ node \in NodeRecords /\ node.name = d /\ node.fs = "device" /\ node.kids = <<>>
      /\ node.mount = Null /\ node.parent = DevRoot
  <2>1. {DeviceType[d]} \in SUBSET Words /\ "device" \in Words
    BY <1>4 DEF Words
  <2>2. <<>> \in Seq(Ids) /\ Null \in Ids /\ DevRoot \in Ids
    BY EmptySeq, FixedIds
  <2> QED BY <1>4, <1>5, <2>1, <2>2 DEF DeviceNode, NodeOf, NodeRecords
<1>7. id \in BootDeviceIds
  BY <1>2, <1>5 DEF BootDeviceIds
<1>8. id \in Ids /\ id \notin ThreadIds /\ id \notin Fixed
  <2>1. DevRoot # ThreadsDir /\ DevRoot \in Ids
    BY FixedIds
  <2>2. Append(DevRoot, d) \in DeviceIds /\ Append(DevRoot, d) \notin ThreadIds
        /\ Append(DevRoot, d) \in Ids
    BY <1>3, <1>4, <2>1, AppendedIds, OneAppend
  <2> QED BY <1>5, <2>2, FixedFsIs
<1>9. DevRoot \in all
  BY DEF FixedBoot
<1>10. DOMAIN node.kids = {}
  BY <1>6
<1>11. BootFits(all, BootDeviceIds, id, node)
  BY <1>6, <1>7, <1>8, <1>9, <1>10 DEF BootFits
<1> QED BY <1>1, <1>2, <1>5, <1>6, <1>7, <1>11

\* fs_initialize, devfs_initialize, systemfs_initialize and kmain leave a tree.
LEMMA BootTree == Tree(BootNodes, BootDeviceIds)
<1> DEFINE pairs == RootNodes \cup SystemNodes \cup BootPairs
           all == {q[1] : q \in pairs}
<1>1. PICK ns : ns = [id \in all |-> (CHOOSE q \in pairs : q[1] = id)[2]]
  OBVIOUS
<1>2. BootNodes = ns
  BY <1>1 DEF BootNodes, BootPairs
<1>3. FixedBoot \subseteq all
  <2>1. ASSUME NEW id \in FixedBoot PROVE \E q \in RootNodes \cup SystemNodes : q[1] = id
    BY DEF FixedBoot, RootNodes, SystemNodes, MemInfo
  <2> QED BY <2>1
<1>4. \A q \in pairs : BootFits(all, BootDeviceIds, q[1], q[2])
  <2>1. \A q \in RootNodes \cup SystemNodes : BootFits(all, BootDeviceIds, q[1], q[2])
    <3> HIDE DEF all
    <3> QED BY <1>3, BootNodesFit
  <2>2. \A q \in BootPairs : BootFits(all, BootDeviceIds, q[1], q[2])
    <3> HIDE DEF all
    <3> QED BY <1>3, BootDevicesFit
  <2> QED BY <2>1, <2>2
<1>5. ASSUME NEW id \in all PROVE \E q \in pairs : q[1] = id /\ ns[id] = q[2]
  BY <1>1
<1>6. DOMAIN ns = all /\ ns = [id \in DOMAIN ns |-> ns[id]]
  BY <1>1
<1>7. ASSUME NEW d \in BootDeviceIds
      PROVE  d \in all /\ d = Append(DevRoot, ns[d].name)
  <2>1. PICK i \in DOMAIN BootDevices : d = Append(DevRoot, BootDevices[i])
    BY DEF BootDeviceIds
  <2>2. d \in all
    <3>1. <<d, DeviceNode(BootDevices[i])>> \in BootPairs
      BY <2>1 DEF BootPairs
    <3> QED BY <3>1
  <2>3. PICK q \in pairs : q[1] = d /\ ns[d] = q[2]
    BY <1>5, <2>2
  <2>4. q \in BootPairs
    <3>1. \A u \in RootNodes \cup SystemNodes : u[1] \notin BootDeviceIds
      <4> HIDE DEF all
      <4> QED BY <1>3, BootNodesFit
    <3> QED BY <2>3, <3>1
  <2>5. q[1] = Append(DevRoot, q[2].name)
    <3> HIDE DEF all
    <3> QED BY <1>3, <2>4, BootDevicesFit
  <2> QED BY <2>2, <2>3, <2>5
<1>8. \A id \in all : BootFits(all, BootDeviceIds, id, ns[id])
  <2> SUFFICES ASSUME NEW id \in all PROVE BootFits(all, BootDeviceIds, id, ns[id])
    OBVIOUS
  <2>1. PICK q \in pairs : q[1] = id /\ ns[id] = q[2]
    BY <1>5
  <2>2. BootFits(all, BootDeviceIds, q[1], q[2])
    BY <1>4
  <2> QED BY <2>1, <2>2
<1> HIDE DEF all, pairs
<1>9. Typed(ns)
  BY <1>6, <1>8 DEF Typed, BootFits
<1>10. all \cup {Null} \subseteq Above(ns)
  BY <1>6, <1>8 DEF Above, BootFits
<1>11. ASSUME NEW id \in DOMAIN ns PROVE LinksOf(ns, id)
  <2>1. BootFits(all, BootDeviceIds, id, ns[id])
    BY <1>6, <1>8
  <2>2. \A i \in DOMAIN ns[id].kids :
           ns[id].kids[i] \in DOMAIN ns /\ ns[id].kids[i] \notin ThreadIds /\ id # ThreadsDir
    BY <1>6, <1>8, <2>1 DEF BootFits
  <2> QED BY <1>10, <2>1, <2>2 DEF LinksOf, BootFits
<1>12. ASSUME NEW id \in DOMAIN ns PROVE PlaceOf(ns, BootDeviceIds, id)
  <2>1. BootFits(all, BootDeviceIds, id, ns[id])
    BY <1>6, <1>8
  <2> QED BY <2>1 DEF PlaceOf, BootFits
<1>13. \A s \in Fixed : s \in DOMAIN ns /\ ns[s].fs = FixedFs(s)
  <2>1. Fixed \subseteq FixedBoot
    BY DEF Fixed, FixedBoot
  <2> QED BY <1>3, <1>6, <1>8, <2>1 DEF BootFits
<1>14. /\ BootDeviceIds \subseteq DOMAIN ns /\ BootDeviceIds \subseteq DeviceIds
       /\ \A d \in BootDeviceIds : d = Append(DevRoot, ns[d].name)
  <2>1. BootDeviceIds \subseteq DeviceIds
    BY VfsAssumption, ElementOfSeq DEF BootDeviceIds, DeviceIds
  <2> QED BY <1>6, <1>7, <2>1
<1>15. Tree(ns, BootDeviceIds)
  BY <1>9, <1>11, <1>12, <1>13, <1>14 DEF Tree
<1> QED BY <1>2, <1>15

\* g_device_list holds the devices that kmain registers.
LEMMA BootList ==
    ASSUME VfsInit
    PROVE  ListOf(devices, BootDeviceIds)
<1>1. devices = [i \in DOMAIN BootDevices |-> Append(DevRoot, BootDevices[i])]
  BY DEF VfsInit
<1>2. BootDevices \in Seq(DOMAIN DeviceType)
  BY VfsAssumption
<1>3. PICK n \in Nat : n = Len(BootDevices)
  BY <1>2, LenProperties
<1>4. DOMAIN BootDevices = 1 .. n
  BY <1>2, <1>3, LenProperties
<1>5. \A i \in 1 .. n : Append(DevRoot, BootDevices[i]) \in Ids
  <2> SUFFICES ASSUME NEW i \in 1 .. n PROVE Append(DevRoot, BootDevices[i]) \in Ids
    OBVIOUS
  <2>1. PICK d : d = BootDevices[i]
    OBVIOUS
  <2>2. d \in Words
    BY <1>2, <1>3, <2>1, ElementOfSeq, Constants
  <2>3. DevRoot \in Ids
    BY FixedIds
  <2> QED BY <2>1, <2>2, <2>3, OneAppend
<1>6. devices \in [1 .. n -> Ids]
  BY <1>1, <1>4, <1>5
<1>7. devices \in Seq(Ids)
  BY <1>6, SeqDef
<1> QED BY <1>1, <1>4, <1>7 DEF ListOf, BootDeviceIds

-----------------------------------------------------------------------------
(***************************************************************************)
(* Files, descriptors and drivers.                                         *)
(***************************************************************************)

FileRecords == [node : Ids, process : Process, fd : Descriptors, fil : BOOLEAN]

FilesType(fl) ==
    /\ DOMAIN fl \subseteq 1 .. FileLimit + 1
    /\ fl = [f \in DOMAIN fl |-> fl[f]]
    /\ \A f \in DOMAIN fl : fl[f] \in FileRecords

\* The nodes of files, also of a thread that has ended since; a FIL is FAT's.
FilesLead(ns, fl) ==
    \A f \in DOMAIN fl :
        /\ fl[f].node \in DOMAIN ns \cup ThreadIds
        /\ fl[f].fil => fl[f].node \in DOMAIN ns /\ ns[fl[f].node].fs = "fat"

SlotsMatch(fl, slots, running) ==
    /\ slots \in [Process -> [Descriptors -> Nat]]
    /\ \A p \in Process, i \in Descriptors : slots[p][i] # 0 =>
           slots[p][i] \in DOMAIN fl /\ fl[slots[p][i]].process = p /\ fl[slots[p][i]].fd = i
    /\ \A f \in DOMAIN fl : fl[f].process \in running /\ slots[fl[f].process][fl[f].fd] = f

OpenOn(fl, n) == {f \in DOMAIN fl : fl[f].node = n}

DriversMatch(fl, dr, dv) ==
    /\ dr \in [dv -> Int]
    /\ \A n \in dv : dr[n] = Cardinality(OpenOn(fl, n))

\* All of it, for the tree ns with devices dv while the processes of a set run.
Match(ns, fl, slots, dr, dv, running) ==
    /\ Tree(ns, dv) /\ FilesType(fl) /\ FilesLead(ns, fl)
    /\ SlotsMatch(fl, slots, running) /\ DriversMatch(fl, dr, dv)

\* There are finitely many files.
LEMMA FilesFinite ==
    ASSUME NEW fl, FilesType(fl)
    PROVE  /\ IsFiniteSet(DOMAIN fl) /\ Cardinality(DOMAIN fl) \in Nat
           /\ \A n : IsFiniteSet(OpenOn(fl, n)) /\ Cardinality(OpenOn(fl, n)) \in Nat
<1>1. IsFiniteSet(1 .. FileLimit + 1)
  BY Constants, FS_Interval
<1>2. IsFiniteSet(DOMAIN fl)
  BY <1>1, FS_Subset DEF FilesType
<1>3. \A n : IsFiniteSet(OpenOn(fl, n))
  BY <1>2, FS_Subset DEF OpenOn
<1> QED BY <1>2, <1>3, FS_CardinalityType

\* The tree changes under files that are open.
LEMMA TreeChanged ==
    ASSUME NEW ns, NEW fl, NEW slots, NEW dr, NEW dv, NEW running,
           Match(ns, fl, slots, dr, dv, running), NEW ns2, Tree(ns2, dv), Keeps(ns, ns2)
    PROVE  Match(ns2, fl, slots, dr, dv, running)
<1>1. FilesLead(ns2, fl)
  BY DEF Match, FilesLead, Keeps
<1> QED BY <1>1 DEF Match

\* A file more.
IsFileAdded(fl, f, rec, fl2) ==
    /\ FilesType(fl2) /\ DOMAIN fl2 = DOMAIN fl \cup {f} /\ fl2[f] = rec
    /\ \A g \in DOMAIN fl : g # f /\ fl2[g] = fl[g]
    /\ \A n : n # rec.node => OpenOn(fl2, n) = OpenOn(fl, n)
    /\ Cardinality(OpenOn(fl2, rec.node)) = Cardinality(OpenOn(fl, rec.node)) + 1
    /\ Cardinality(DOMAIN fl2) = Cardinality(DOMAIN fl) + 1

\* A new file counts for its node, and for no other.
LEMMA FileAdded ==
    ASSUME NEW fl, FilesType(fl), NEW f \in 1 .. FileLimit + 1, f \notin DOMAIN fl,
           NEW rec \in FileRecords, NEW fl2, fl2 = Put(fl, f, rec)
    PROVE  IsFileAdded(fl, f, rec, fl2)
<1>1. /\ DOMAIN fl2 = DOMAIN fl \cup {f} /\ fl2[f] = rec /\ fl2 = [g \in DOMAIN fl2 |-> fl2[g]]
      /\ \A g \in DOMAIN fl : g # f /\ fl2[g] = fl[g]
  BY DEF Put
<1>2. FilesType(fl2)
  BY <1>1 DEF FilesType
<1>3. \A n : n # rec.node => OpenOn(fl2, n) = OpenOn(fl, n)
  BY <1>1 DEF OpenOn
<1>4. OpenOn(fl2, rec.node) = OpenOn(fl, rec.node) \cup {f} /\ f \notin OpenOn(fl, rec.node)
  BY <1>1 DEF OpenOn
<1>5. Cardinality(OpenOn(fl2, rec.node)) = Cardinality(OpenOn(fl, rec.node)) + 1
  BY <1>4, FilesFinite, FS_AddElement
<1>6. Cardinality(DOMAIN fl2) = Cardinality(DOMAIN fl) + 1
  BY <1>1, FilesFinite, FS_AddElement
<1> QED BY <1>1, <1>2, <1>3, <1>5, <1>6 DEF IsFileAdded

\* A file less.
LEMMA FileRemoved ==
    ASSUME NEW fl, FilesType(fl), NEW f \in DOMAIN fl, NEW fl2,
           fl2 = [g \in DOMAIN fl \ {f} |-> fl[g]]
    PROVE  /\ FilesType(fl2) /\ DOMAIN fl2 = DOMAIN fl \ {f}
           /\ \A g \in DOMAIN fl2 : g \in DOMAIN fl /\ g # f /\ fl2[g] = fl[g]
           /\ \A n : n # fl[f].node => OpenOn(fl2, n) = OpenOn(fl, n)
           /\ Cardinality(OpenOn(fl2, fl[f].node)) = Cardinality(OpenOn(fl, fl[f].node)) - 1
           /\ Cardinality(DOMAIN fl2) = Cardinality(DOMAIN fl) - 1
<1>1. /\ DOMAIN fl2 = DOMAIN fl \ {f} /\ fl2 = [g \in DOMAIN fl2 |-> fl2[g]]
      /\ \A g \in DOMAIN fl2 : g \in DOMAIN fl /\ g # f /\ fl2[g] = fl[g]
  OBVIOUS
<1>2. FilesType(fl2)
  BY <1>1 DEF FilesType
<1>3. \A n : n # fl[f].node => OpenOn(fl2, n) = OpenOn(fl, n)
  BY <1>1 DEF OpenOn
<1>4. OpenOn(fl2, fl[f].node) = OpenOn(fl, fl[f].node) \ {f} /\ f \in OpenOn(fl, fl[f].node)
  BY <1>1 DEF OpenOn
<1>5. Cardinality(OpenOn(fl2, fl[f].node)) = Cardinality(OpenOn(fl, fl[f].node)) - 1
  <2>1. PICK all, left : all = OpenOn(fl, fl[f].node) /\ left = OpenOn(fl2, fl[f].node)
    OBVIOUS
  <2>2. IsFiniteSet(all) /\ f \in all /\ left = all \ {f}
    BY <1>4, <2>1, FilesFinite
  <2>3. Cardinality(left) = Cardinality(all) - 1
    BY ONLY <2>2, FS_RemoveElement
  <2> QED BY <2>1, <2>3
<1>6. Cardinality(DOMAIN fl2) = Cardinality(DOMAIN fl) - 1
  BY <1>1, FilesFinite, FS_RemoveElement
<1> QED BY <1>1, <1>2, <1>3, <1>5, <1>6

-----------------------------------------------------------------------------

StateOf(ns, fl, slots, dr) == [nodes |-> ns, files |-> fl, fd |-> slots, drivers |-> dr]

\* A device is known by its place.
LEMMA DeviceNodes ==
    ASSUME NEW dv, NEW ns, Tree(ns, dv), NEW n
    PROVE  n \in DOMAIN ns /\ ns[n].fs = "device" <=> n \in dv
BY DEF Tree, PlaceOf

\* FirstDescriptor gives -1 or the first slot that holds the file.
LEMMA FirstFound ==
    ASSUME NEW st, NEW p, NEW f
    PROVE  \/ FirstDescriptor(st, p, f) = -1 /\ \A i \in Descriptors : st.fd[p][i] # f
           \/ FirstDescriptor(st, p, f) \in Descriptors /\ st.fd[p][FirstDescriptor(st, p, f)] = f
<1> DEFINE hits == {i \in Descriptors : st.fd[p][i] = f}
<1>1. CASE hits = {}
  BY <1>1 DEF FirstDescriptor
<1>2. CASE hits # {}
  <2>1. hits \in SUBSET Nat
    BY Constants DEF Descriptors
  <2>2. \E i \in hits : \A j \in hits : i <= j
    <3> HIDE DEF hits
    <3> QED BY <1>2, <2>1, LeastNumber
  <2>3. (CHOOSE i \in hits : \A j \in hits : i <= j) \in hits
    BY <2>2
  <2>4. FirstDescriptor(st, p, f) = CHOOSE i \in hits : \A j \in hits : i <= j
    BY <1>2 DEF FirstDescriptor
  <2> QED BY <2>3, <2>4
<1> QED BY <1>1, <1>2

\* The slots without a file, the drivers after a close.
Emptied(slots, p, i) == [slots EXCEPT ![p] = [slots[p] EXCEPT ![i] = 0]]
Less(dr, dv, n) == IF n \in dv THEN [dr EXCEPT ![n] = dr[n] - 1] ELSE dr
Without(fl, f) == [g \in DOMAIN fl \ {f} |-> fl[g]]

\* fs_close.
LEMMA FsCloseFields ==
    ASSUME NEW ns, NEW fl, NEW slots, NEW dr, NEW dv, NEW running,
           Match(ns, fl, slots, dr, dv, running), NEW f \in DOMAIN fl,
           NEW st, st = StateOf(ns, fl, slots, dr)
    PROVE  FsClose(st, f) = StateOf(ns, Without(fl, f), Emptied(slots, fl[f].process, fl[f].fd),
                                    Less(dr, dv, fl[f].node))
<1>1. PICK n, p, s : n = fl[f].node /\ p = fl[f].process /\ s = fl[f].fd
  OBVIOUS
<1>2. n \in Ids /\ p \in Process /\ s \in Descriptors /\ f # 0 /\ slots[p][s] = f
  BY <1>1 DEF Match, FilesType, FileRecords, SlotsMatch
<1>3. PICK dr2 : dr2 = Less(dr, dv, n)
  OBVIOUS
<1>4. DriverClose(st, n) = StateOf(ns, fl, slots, dr2)
  <2>1. n \in DOMAIN ns /\ ns[n].fs = "device" <=> n \in dv
    BY DeviceNodes DEF Match
  <2> QED BY <1>3, <2>1 DEF DriverClose, Less, StateOf
<1>5. PICK st2 : st2 = StateOf(ns, fl, slots, dr2)
  OBVIOUS
<1>6. FirstDescriptor(st2, p, f) = s
  <2>1. \A i \in Descriptors : slots[p][i] = f => i = s
    BY <1>1, <1>2 DEF Match, SlotsMatch
  <2>2. st2.fd = slots
    BY <1>5 DEF StateOf
  <2> QED BY <1>2, <2>1, <2>2, FirstFound
<1>7. s # -1
  BY <1>2 DEF Descriptors
<1>8. process_remove_file(st2, p, f) = StateOf(ns, fl, Emptied(slots, p, s), dr2)
  BY <1>5, <1>6, <1>7 DEF process_remove_file, StateOf, Emptied
<1>9. st.files[f].node = n /\ st.files[f].process = p
  BY <1>1 DEF StateOf
<1>10. PICK st3 : st3 = StateOf(ns, fl, Emptied(slots, p, s), dr2)
  OBVIOUS
<1>11. [st3 EXCEPT !.files = [g \in DOMAIN @ \ {f} |-> @[g]]]
         = StateOf(ns, Without(fl, f), Emptied(slots, p, s), dr2)
  BY <1>10 DEF StateOf, Without
<1>12. FsClose(st, f) = [st3 EXCEPT !.files = [g \in DOMAIN @ \ {f} |-> @[g]]]
  BY <1>4, <1>5, <1>8, <1>9, <1>10 DEF FsClose
<1> QED BY <1>1, <1>3, <1>11, <1>12

\* fs_close keeps descriptors, files and drivers in agreement.
LEMMA FsCloseMatches ==
    ASSUME NEW ns, NEW fl, NEW slots, NEW dr, NEW dv, NEW running,
           Match(ns, fl, slots, dr, dv, running), NEW f \in DOMAIN fl
    PROVE  Match(ns, Without(fl, f), Emptied(slots, fl[f].process, fl[f].fd),
                 Less(dr, dv, fl[f].node), dv, running)
<1>1. PICK n, p, s : n = fl[f].node /\ p = fl[f].process /\ s = fl[f].fd
  OBVIOUS
<1>2. n \in Ids /\ p \in Process /\ s \in Descriptors /\ f # 0 /\ slots[p][s] = f
  BY <1>1 DEF Match, FilesType, FileRecords, SlotsMatch
<1>3. PICK fl2, slots2, dr2 : fl2 = Without(fl, f) /\ slots2 = Emptied(slots, p, s)
                              /\ dr2 = Less(dr, dv, n)
  OBVIOUS
<1>4. FilesType(fl)
  BY DEF Match
<1>5. /\ FilesType(fl2) /\ DOMAIN fl2 = DOMAIN fl \ {f}
      /\ \A g \in DOMAIN fl2 : g \in DOMAIN fl /\ g # f /\ fl2[g] = fl[g]
      /\ \A m : m # n => OpenOn(fl2, m) = OpenOn(fl, m)
      /\ Cardinality(OpenOn(fl2, n)) = Cardinality(OpenOn(fl, n)) - 1
  BY <1>1, <1>3, <1>4, FileRemoved DEF Without
<1>6. FilesLead(ns, fl2)
  BY <1>5 DEF Match, FilesLead
<1>7. slots \in [Process -> [Descriptors -> Nat]]
  BY DEF Match, SlotsMatch
<1>8. /\ slots2 \in [Process -> [Descriptors -> Nat]] /\ slots2[p][s] = 0
      /\ \A q \in Process, i \in Descriptors : q # p \/ i # s => slots2[q][i] = slots[q][i]
  BY <1>2, <1>3, <1>7 DEF Emptied
<1>9. ASSUME NEW q \in Process, NEW i \in Descriptors, slots2[q][i] # 0
      PROVE  /\ slots2[q][i] \in DOMAIN fl2
             /\ fl2[slots2[q][i]].process = q /\ fl2[slots2[q][i]].fd = i
  <2>1. (q # p \/ i # s) /\ slots2[q][i] = slots[q][i]
    BY <1>8, <1>9
  <2>2. slots[q][i] \in DOMAIN fl /\ fl[slots[q][i]].process = q /\ fl[slots[q][i]].fd = i
    BY <1>9, <2>1 DEF Match, SlotsMatch
  <2>3. slots[q][i] # f
    BY <1>1, <2>1, <2>2
  <2> QED BY <1>5, <2>1, <2>2, <2>3
<1>10. ASSUME NEW g \in DOMAIN fl2
       PROVE  fl2[g].process \in running /\ slots2[fl2[g].process][fl2[g].fd] = g
  <2>1. g \in DOMAIN fl /\ g # f /\ fl2[g] = fl[g]
    BY <1>5
  <2>2. fl[g].process \in running /\ slots[fl[g].process][fl[g].fd] = g
        /\ fl[g].process \in Process /\ fl[g].fd \in Descriptors
    BY <2>1 DEF Match, SlotsMatch, FilesType, FileRecords
  <2> QED BY <1>2, <1>8, <2>1, <2>2
<1>11. SlotsMatch(fl2, slots2, running)
  BY <1>8, <1>9, <1>10 DEF SlotsMatch
<1>12. DriversMatch(fl2, dr2, dv)
  <2>1. dr \in [dv -> Int] /\ \A m \in dv : dr[m] = Cardinality(OpenOn(fl, m))
    BY DEF Match, DriversMatch
  <2>2. dr2 \in [dv -> Int] /\ \A m \in dv : dr2[m] = IF m = n THEN dr[m] - 1 ELSE dr[m]
    BY <1>3, <2>1 DEF Less
  <2>3. ASSUME NEW m \in dv PROVE dr2[m] = Cardinality(OpenOn(fl2, m))
    BY <1>5, <2>1, <2>2
  <2> QED BY <2>2, <2>3 DEF DriversMatch
<1> QED BY <1>1, <1>3, <1>5, <1>6, <1>11, <1>12 DEF Match

-----------------------------------------------------------------------------

\* A file that no call uses.
LEMMA NewFileIsFree ==
    ASSUME NEW st, FilesType(st.files), Cardinality(DOMAIN st.files) <= FileLimit
    PROVE  NewFile(st) \in 1 .. FileLimit + 1 /\ NewFile(st) \notin DOMAIN st.files
<1> DEFINE D == DOMAIN st.files
           free == {g \in 1 .. FileLimit + 1 : g \notin D}
<1>1. FileLimit \in Nat
  BY Constants
<1>2. free # {}
  <2> SUFFICES ASSUME free = {} PROVE FALSE
    OBVIOUS
  <2>1. D = 1 .. FileLimit + 1
    BY DEF FilesType
  <2>2. Cardinality(1 .. FileLimit + 1) = FileLimit + 1
    <3>1. PICK k \in Int : k = FileLimit + 1
      BY <1>1
    <3>2. Cardinality(1 .. k) = IF 1 > k THEN 0 ELSE k - 1 + 1
      BY FS_Interval
    <3> QED BY <1>1, <3>1, <3>2
  <2> QED BY <1>1, <2>1, <2>2
<1>3. PICK g \in free : \A h \in free : g <= h
  <2>1. free \in SUBSET Nat
    BY <1>1
  <2> HIDE DEF free
  <2> QED BY <1>2, <2>1, LeastNumber
<1>4. \A h \in 1 .. g - 1 : h \in D
  <2> SUFFICES ASSUME NEW h \in 1 .. g - 1 PROVE h \in D
    OBVIOUS
  <2>1. h \in 1 .. FileLimit + 1 /\ ~ (g <= h)
    BY <1>1
  <2> QED BY <1>3, <2>1
<1>5. g \in 1 .. FileLimit + 1 /\ g \notin DOMAIN st.files
      /\ \A h \in 1 .. g - 1 : h \in DOMAIN st.files
  BY <1>4
<1> QED BY <1>5 DEF NewFile

More(dr, dv, n) == IF n \in dv THEN [dr EXCEPT ![n] = dr[n] + 1] ELSE dr

\* The nodes after an open of node n: those of threads are made anew, or all stay.
OpenedNodes(ns, n, ns2) == ns2 = ns \/ (ns[n].fs = "threads" /\ ns2 = FillThreads(ns))

\* What the open function of node n gives.
OpensDriver(ns, fl, slots, dr, dv, n, opened) ==
    \E ns2 : /\ opened.st = StateOf(ns2, fl, slots, More(dr, dv, n))
             /\ Tree(ns2, dv) /\ Keeps(ns, ns2) /\ n \in DOMAIN ns2
             /\ opened.fil \in BOOLEAN
             /\ opened.fil => ns2[n].fs = "fat"
             /\ ~ opened.ok => n \notin dv
             /\ OpenedNodes(ns, n, ns2)

\* The open function of a node adds to its driver, fills /system/threads or sets a FIL.
LEMMA DriverOpens ==
    ASSUME NEW ns, NEW fl, NEW slots, NEW dr, NEW dv, NEW running,
           Match(ns, fl, slots, dr, dv, running), NEW n \in DOMAIN ns, NEW flags,
           live \in Seq(Process), NEW st, st = StateOf(ns, fl, slots, dr)
    PROVE  OpensDriver(ns, fl, slots, dr, dv, n, DriverOpen(st, n, flags))
<1>1. Tree(ns, dv) /\ Keeps(ns, ns)
  BY KeepsSelf DEF Match
<1>2. ns[n].fs = "device" <=> n \in dv
  BY <1>1, DeviceNodes
<1>3. PICK opened : opened = DriverOpen(st, n, flags)
  OBVIOUS
<1>4. CASE ns[n].fs = "device"
  <2>1. opened = [ok |-> TRUE, fil |-> FALSE, st |-> [st EXCEPT !.drivers[n] = @ + 1]]
    BY <1>3, <1>4 DEF DriverOpen, StateOf
  <2>2. [st EXCEPT !.drivers[n] = @ + 1] = StateOf(ns, fl, slots, More(dr, dv, n))
    BY <1>2, <1>4 DEF StateOf, More
  <2>3. opened.st = StateOf(ns, fl, slots, More(dr, dv, n)) /\ opened.fil = FALSE /\ opened.ok = TRUE
    BY <2>1, <2>2
  <2> QED BY <1>1, <1>3, <2>3 DEF OpensDriver, OpenedNodes
<1>5. CASE ns[n].fs = "threads"
  <2>1. opened = [ok |-> TRUE, fil |-> FALSE, st |-> [st EXCEPT !.nodes = FillThreads(@)]]
    BY <1>3, <1>5 DEF DriverOpen, StateOf
  <2>2. PICK ns2 : ns2 = FillThreads(ns)
    OBVIOUS
  <2>3. [st EXCEPT !.nodes = FillThreads(@)] = StateOf(ns2, fl, slots, More(dr, dv, n))
    BY <1>2, <1>5, <2>2 DEF StateOf, More
  <2>4. Tree(ns2, dv) /\ Keeps(ns, ns2)
    <3>1. \A i \in DOMAIN live : live[i] \in Process
      BY ElementOfSeq
    <3> QED BY <1>1, <2>2, <3>1, ThreadsFilled
  <2>5. n \in DOMAIN ns2
    <3>1. n = ThreadsDir
      BY <1>1, <1>5 DEF Tree, PlaceOf
    <3> QED BY <2>4, <3>1 DEF Tree, Fixed
  <2>6. opened.st = StateOf(ns2, fl, slots, More(dr, dv, n)) /\ opened.fil = FALSE /\ opened.ok = TRUE
    BY <2>1, <2>3
  <2>7. OpenedNodes(ns, n, ns2)
    BY <1>5, <2>2 DEF OpenedNodes
  <2> QED BY <1>3, <2>4, <2>5, <2>6, <2>7 DEF OpensDriver
<1>6. CASE ns[n].fs \notin {"device", "threads"}
  <2>1. opened.st = st /\ opened.fil \in BOOLEAN /\ (opened.fil => ns[n].fs = "fat")
    BY <1>3, <1>6 DEF DriverOpen, StateOf
  <2>2. st = StateOf(ns, fl, slots, More(dr, dv, n)) /\ n \notin dv
    BY <1>2, <1>6 DEF More
  <2> QED BY <1>1, <1>3, <2>1, <2>2 DEF OpensDriver, OpenedNodes
<1> QED BY <1>4, <1>5, <1>6

\* A file added with its descriptor.
LEMMA OpenedMatches ==
    ASSUME NEW ns, NEW fl, NEW slots, NEW dr, NEW dv, NEW running,
           Match(ns, fl, slots, dr, dv, running), NEW ns2, Tree(ns2, dv), Keeps(ns, ns2),
           NEW n \in DOMAIN ns2, NEW p \in running \cap Process, NEW i \in Descriptors,
           slots[p][i] = 0, NEW fil \in BOOLEAN, fil => ns2[n].fs = "fat",
           NEW f \in 1 .. FileLimit + 1, f \notin DOMAIN fl,
           NEW fl2, fl2 = Put(fl, f, [node |-> n, process |-> p, fd |-> i, fil |-> fil]),
           NEW slots2, slots2 = [slots EXCEPT ![p] = [slots[p] EXCEPT ![i] = f]]
    PROVE  Match(ns2, fl2, slots2, More(dr, dv, n), dv, running)
<1>1. PICK rec : rec = [node |-> n, process |-> p, fd |-> i, fil |-> fil]
  OBVIOUS
<1>2. /\ rec \in FileRecords /\ rec.node = n /\ rec.process = p /\ rec.fd = i /\ rec.fil = fil
  <2>1. n \in Ids
    BY DEF Tree, Typed
  <2> QED BY <1>1, <2>1 DEF FileRecords
<1>3. FilesType(fl)
  BY DEF Match
<1>4. /\ FilesType(fl2) /\ DOMAIN fl2 = DOMAIN fl \cup {f} /\ fl2[f] = rec
      /\ \A g \in DOMAIN fl : g # f /\ fl2[g] = fl[g]
      /\ \A m : m # n => OpenOn(fl2, m) = OpenOn(fl, m)
      /\ Cardinality(OpenOn(fl2, n)) = Cardinality(OpenOn(fl, n)) + 1
  <2>1. fl2 = Put(fl, f, rec)
    BY <1>1
  <2>2. IsFileAdded(fl, f, rec, fl2)
    BY <1>2, <1>3, <2>1, FileAdded
  <2> QED BY <1>2, <2>2 DEF IsFileAdded
<1>5. FilesLead(ns2, fl2)
  <2>1. Match(ns2, fl, slots, dr, dv, running)
    BY TreeChanged
  <2> QED BY <1>2, <1>4, <2>1 DEF Match, FilesLead
<1>6. slots \in [Process -> [Descriptors -> Nat]] /\ f \in Nat /\ f # 0
  BY Constants DEF Match, SlotsMatch
<1>7. /\ slots2 \in [Process -> [Descriptors -> Nat]] /\ slots2[p][i] = f
      /\ \A q \in Process, j \in Descriptors : q # p \/ j # i => slots2[q][j] = slots[q][j]
  BY <1>6
<1>8. ASSUME NEW q \in Process, NEW j \in Descriptors, slots2[q][j] # 0
      PROVE  /\ slots2[q][j] \in DOMAIN fl2
             /\ fl2[slots2[q][j]].process = q /\ fl2[slots2[q][j]].fd = j
  <2>1. CASE q = p /\ j = i
    BY <1>2, <1>4, <1>7, <2>1
  <2>2. CASE q # p \/ j # i
    <3>1. slots2[q][j] = slots[q][j]
      BY <1>7, <2>2
    <3>2. slots[q][j] \in DOMAIN fl /\ fl[slots[q][j]].process = q /\ fl[slots[q][j]].fd = j
      BY <1>8, <3>1 DEF Match, SlotsMatch
    <3> QED BY <1>4, <3>1, <3>2
  <2> QED BY <2>1, <2>2
<1>9. ASSUME NEW g \in DOMAIN fl2
      PROVE  fl2[g].process \in running /\ slots2[fl2[g].process][fl2[g].fd] = g
  <2>1. CASE g = f
    BY <1>2, <1>4, <1>7, <2>1
  <2>2. CASE g # f
    <3>1. g \in DOMAIN fl /\ fl2[g] = fl[g]
      BY <1>4, <2>2
    <3>2. fl[g].process \in running /\ slots[fl[g].process][fl[g].fd] = g
          /\ fl[g].process \in Process /\ fl[g].fd \in Descriptors
      BY <3>1 DEF Match, SlotsMatch, FilesType, FileRecords
    <3>3. g # 0
      BY <1>4, <1>3, <3>1 DEF FilesType
    <3> QED BY <1>7, <3>1, <3>2, <3>3
  <2> QED BY <2>1, <2>2
<1>10. SlotsMatch(fl2, slots2, running)
  BY <1>7, <1>8, <1>9 DEF SlotsMatch
<1>11. PICK dr2 : dr2 = More(dr, dv, n)
  OBVIOUS
<1>12. DriversMatch(fl2, dr2, dv)
  <2>1. dr \in [dv -> Int] /\ \A m \in dv : dr[m] = Cardinality(OpenOn(fl, m))
    BY DEF Match, DriversMatch
  <2>2. dr2 \in [dv -> Int] /\ \A m \in dv : dr2[m] = IF m = n THEN dr[m] + 1 ELSE dr[m]
    BY <1>11, <2>1 DEF More
  <2>3. ASSUME NEW m \in dv PROVE dr2[m] = Cardinality(OpenOn(fl2, m))
    BY <1>4, <2>1, <2>2
  <2> QED BY <2>2, <2>3 DEF DriversMatch
<1> QED BY <1>4, <1>5, <1>10, <1>11, <1>12 DEF Match

\* What fs_open leaves: everything agrees, and a file more has taken a free slot.
OpenLeaves(ns, fl, slots, dv, running, p, n, st2) ==
    \E ns2, fl2, slots2, dr2 :
        /\ st2 = StateOf(ns2, fl2, slots2, dr2)
        /\ Match(ns2, fl2, slots2, dr2, dv, running) /\ Keeps(ns, ns2)
        /\ OpenedNodes(ns, n, ns2)
        /\ \/ fl2 = fl /\ slots2 = slots
           \/ \E i \in Descriptors :
                 /\ slots[p][i] = 0 /\ slots2[p][i] # 0
                 /\ \A j \in Descriptors : j # i => slots2[p][j] = slots[p][j]
                 /\ Cardinality(DOMAIN fl2) = Cardinality(DOMAIN fl) + 1

\* fs_open_for_process keeps descriptors, files and drivers in agreement: it adds a file
\* with its descriptor, or, when the driver refuses or no descriptor is free, none.
LEMMA FsOpenMatches ==
    ASSUME NEW ns, NEW fl, NEW slots, NEW dr, NEW dv, NEW running,
           Match(ns, fl, slots, dr, dv, running), Cardinality(DOMAIN fl) <= FileLimit,
           NEW n0 \in DOMAIN ns, NEW flags, NEW p \in running \cap Process,
           live \in Seq(Process), NEW st, st = StateOf(ns, fl, slots, dr)
    PROVE  OpenLeaves(ns, fl, slots, dv, running, p, Crossed(ns, n0), FsOpen(st, p, n0, flags))
<1>1. PICK n : n = Crossed(ns, n0)
  OBVIOUS
<1>2. n \in DOMAIN ns
  BY <1>1, CrossedType DEF Match
<1>3. PICK opened : opened = DriverOpen(st, n, flags)
  OBVIOUS
<1>4. OpensDriver(ns, fl, slots, dr, dv, n, opened)
  BY <1>2, <1>3, DriverOpens
<1>5. PICK ns2 : /\ opened.st = StateOf(ns2, fl, slots, More(dr, dv, n))
                 /\ Tree(ns2, dv) /\ Keeps(ns, ns2) /\ n \in DOMAIN ns2
                 /\ opened.fil \in BOOLEAN
                 /\ opened.fil => ns2[n].fs = "fat"
                 /\ ~ opened.ok => n \notin dv
                 /\ OpenedNodes(ns, n, ns2)
  BY <1>4 DEF OpensDriver
<1>6. PICK f : f = NewFile(st)
  OBVIOUS
<1>7. f \in 1 .. FileLimit + 1 /\ f \notin DOMAIN fl
  <2>1. st.files = fl
    BY DEF StateOf
  <2>2. FilesType(fl)
    BY DEF Match
  <2> QED BY <1>6, <2>1, <2>2, NewFileIsFree
<1>8. f # 0 /\ f \in Nat
  BY <1>7, Constants
<1>9. PICK dr2, fil : dr2 = More(dr, dv, n) /\ fil = opened.fil
  OBVIOUS
<1>10. PICK rec : rec = [node |-> n, process |-> p, fd |-> 0, fil |-> fil]
  OBVIOUS
<1>11. PICK fl1 : fl1 = Put(fl, f, rec)
  OBVIOUS
<1>12. PICK placed : placed = StateOf(ns2, fl1, slots, dr2)
  OBVIOUS
<1>13. PICK slot : slot = FirstDescriptor(st, p, 0)
  OBVIOUS
<1>14. slot = FirstDescriptor(placed, p, 0)
  BY <1>12, <1>13 DEF FirstDescriptor, StateOf
<1>15. /\ DOMAIN fl1 = DOMAIN fl \cup {f} /\ fl1[f] = rec
       /\ \A g \in DOMAIN fl : g # f /\ fl1[g] = fl[g]
  BY <1>7, <1>11 DEF Put
<1>16. \/ FsOpen(st, p, n0, flags) = st
       \/ ~ opened.ok /\ FsOpen(st, p, n0, flags) = opened.st
       \/ slot = -1 /\ FsOpen(st, p, n0, flags) = FsClose(process_add_file(placed, p, f), f)
       \/ slot # -1 /\ FsOpen(st, p, n0, flags) = process_add_file(placed, p, f)
  <2>1. [opened.st EXCEPT !.files = Put(@, f, [node |-> n, process |-> p, fd |-> 0, fil |-> opened.fil])]
          = placed
    BY <1>5, <1>9, <1>10, <1>11, <1>12 DEF StateOf
  <2>2. n = Crossed(st.nodes, n0)
    BY <1>1 DEF StateOf
  <2> QED BY <1>3, <1>6, <1>13, <2>1, <2>2 DEF FsOpen
<1>17. Match(ns, fl, slots, dr, dv, running) /\ Keeps(ns, ns) /\ OpenedNodes(ns, n, ns)
  BY KeepsSelf DEF OpenedNodes
<1>18. Match(ns2, fl, slots, dr, dv, running)
  BY <1>5, TreeChanged
<1>19. CASE FsOpen(st, p, n0, flags) = st
  BY <1>1, <1>17, <1>19 DEF OpenLeaves
<1>20. CASE ~ opened.ok /\ FsOpen(st, p, n0, flags) = opened.st
  <2>1. opened.st = StateOf(ns2, fl, slots, dr)
    BY <1>5, <1>20 DEF More
  <2> QED BY <1>1, <1>5, <1>18, <1>20, <2>1 DEF OpenLeaves
<1>21. slots \in [Process -> [Descriptors -> Nat]] /\ p \in Process /\ p \in running
  BY DEF Match, SlotsMatch
<1>22. CASE slot = -1 /\ FsOpen(st, p, n0, flags) = FsClose(process_add_file(placed, p, f), f)
  <2>1. process_add_file(placed, p, f) = placed
    BY <1>14, <1>22 DEF process_add_file
  <2>2. placed.files = fl1 /\ placed.nodes = ns2 /\ placed.fd = slots /\ placed.drivers = dr2
    BY <1>12 DEF StateOf
  <2>3. placed.files[f].node = n /\ placed.files[f].process = p
    BY <1>10, <1>15, <2>2
  <2>4. DriverClose(placed, n) = StateOf(ns2, fl1, slots, dr)
    <3>1. n \in DOMAIN ns2 /\ ns2[n].fs = "device" <=> n \in dv
      BY <1>5, DeviceNodes
    <3>2. dr \in [dv -> Int]
      BY DEF Match, DriversMatch
    <3>3. CASE n \in dv
      <4>1. dr2 = [dr EXCEPT ![n] = dr[n] + 1] /\ dr2[n] = dr[n] + 1
        BY <1>9, <3>2, <3>3 DEF More
      <4>2. [dr2 EXCEPT ![n] = dr2[n] - 1] = dr
        <5>1. PICK d1, d2, d3 : d1 = dr /\ d2 = dr2 /\ d3 = [d2 EXCEPT ![n] = d2[n] - 1]
          OBVIOUS
        <5>2. d1 \in [dv -> Int] /\ d2 = [d1 EXCEPT ![n] = d1[n] + 1] /\ d2[n] = d1[n] + 1
          BY <3>2, <4>1, <5>1
        <5>3. d2 \in [dv -> Int] /\ d1[n] \in Int
          BY <3>3, <5>2
        <5>4. d3 \in [dv -> Int] /\ \A m \in dv : d3[m] = d1[m]
          BY <5>1, <5>2, <5>3
        <5>5. d1 \in [dv -> Int] /\ d3 \in [dv -> Int] /\ \A m \in dv : d3[m] = d1[m]
          BY <5>2, <5>4
        <5>6. d3 = d1
          BY <5>5
        <5> QED BY <5>1, <5>6
      <4>3. DriverClose(placed, n) = [placed EXCEPT !.drivers[n] = @ - 1]
        BY <2>2, <3>1, <3>3 DEF DriverClose
      <4>4. [placed EXCEPT !.drivers[n] = @ - 1] = StateOf(ns2, fl1, slots, [dr2 EXCEPT ![n] = dr2[n] - 1])
        BY <1>12 DEF StateOf
      <4> QED BY <4>2, <4>3, <4>4
    <3>4. CASE n \notin dv
      <4>1. dr2 = dr
        BY <1>9, <3>4 DEF More
      <4>2. DriverClose(placed, n) = placed
        BY <2>2, <3>1, <3>4 DEF DriverClose
      <4> QED BY <1>12, <4>1, <4>2
    <3> QED BY <3>3, <3>4
  <2>5. PICK st2 : st2 = StateOf(ns2, fl1, slots, dr)
    OBVIOUS
  <2>6. FirstDescriptor(st2, p, f) = -1
    <3>1. \A i \in Descriptors : slots[p][i] # f
      <4> SUFFICES ASSUME NEW i \in Descriptors, slots[p][i] = f PROVE FALSE
        OBVIOUS
      <4>1. slots[p][i] # 0
        BY <1>8
      <4>2. slots[p][i] \in DOMAIN fl
        BY <1>21, <4>1 DEF Match, SlotsMatch
      <4> QED BY <1>7, <4>2
    <3>2. st2.fd = slots
      BY <2>5 DEF StateOf
    <3> QED BY <3>1, <3>2, FirstFound
  <2>7. process_remove_file(st2, p, f) = st2
    BY <2>6 DEF process_remove_file
  <2>8. FsClose(placed, f) = [st2 EXCEPT !.files = [g \in DOMAIN @ \ {f} |-> @[g]]]
    BY <2>3, <2>4, <2>5, <2>7 DEF FsClose
  <2>9. [g \in DOMAIN fl1 \ {f} |-> fl1[g]] = fl
    BY <1>7, <1>15 DEF Match, FilesType
  <2>10. [st2 EXCEPT !.files = [g \in DOMAIN @ \ {f} |-> @[g]]] = StateOf(ns2, fl, slots, dr)
    BY <2>5, <2>9 DEF StateOf
  <2> QED BY <1>1, <1>5, <1>18, <1>22, <2>1, <2>8, <2>10 DEF OpenLeaves
<1>23. CASE slot # -1 /\ FsOpen(st, p, n0, flags) = process_add_file(placed, p, f)
  <2>1. slot \in Descriptors /\ slots[p][slot] = 0
    <3>1. st.fd = slots
      BY DEF StateOf
    <3> QED BY <1>13, <1>23, <3>1, FirstFound
  <2>2. PICK fl2 : fl2 = Put(fl, f, [node |-> n, process |-> p, fd |-> slot, fil |-> fil])
    OBVIOUS
  <2>3. PICK slots2 : slots2 = [slots EXCEPT ![p] = [slots[p] EXCEPT ![slot] = f]]
    OBVIOUS
  <2>4. [fl1 EXCEPT ![f] = [rec EXCEPT !.fd = slot]] = fl2
    <3>1. PICK rec2, fl3 : rec2 = [rec EXCEPT !.fd = slot] /\ fl3 = [fl1 EXCEPT ![f] = rec2]
      OBVIOUS
    <3>2. rec2 = [node |-> n, process |-> p, fd |-> slot, fil |-> fil]
      BY <1>10, <3>1
    <3>3. fl2 = [x \in DOMAIN fl \cup {f} |-> IF x = f THEN rec2 ELSE fl[x]]
      BY <2>2, <3>2 DEF Put
    <3>4. fl1 = [x \in DOMAIN fl \cup {f} |-> IF x = f THEN rec ELSE fl[x]]
      BY <1>11 DEF Put
    <3>5. fl3 = fl2
      BY <3>1, <3>3, <3>4
    <3> QED BY <3>1, <3>5
  <2>5. process_add_file(placed, p, f) = [placed EXCEPT !.files[f].fd = slot, !.fd[p][slot] = f]
    BY <1>14, <1>23 DEF process_add_file
  <2>6. [placed EXCEPT !.files[f].fd = slot, !.fd[p][slot] = f]
          = StateOf(ns2, [fl1 EXCEPT ![f] = [rec EXCEPT !.fd = slot]], slots2, dr2)
    <3>1. [placed EXCEPT !.files[f].fd = slot, !.fd[p][slot] = f]
            = StateOf(ns2, [fl1 EXCEPT ![f].fd = slot], [slots EXCEPT ![p][slot] = f], dr2)
      <4>1. PICK m1 : m1 = [placed EXCEPT !.files[f].fd = slot]
        OBVIOUS
      <4>2. m1 = StateOf(ns2, [fl1 EXCEPT ![f].fd = slot], slots, dr2)
        BY <1>12, <4>1 DEF StateOf
      <4>3. [m1 EXCEPT !.fd[p][slot] = f]
              = StateOf(ns2, [fl1 EXCEPT ![f].fd = slot], [slots EXCEPT ![p][slot] = f], dr2)
        BY <4>2 DEF StateOf
      <4>4. [placed EXCEPT !.files[f].fd = slot, !.fd[p][slot] = f] = [m1 EXCEPT !.fd[p][slot] = f]
        BY <1>12, <4>1 DEF StateOf
      <4> QED BY <4>3, <4>4
    <3>2. [fl1 EXCEPT ![f].fd = slot] = [fl1 EXCEPT ![f] = [rec EXCEPT !.fd = slot]]
      BY <1>15
    <3>3. [slots EXCEPT ![p][slot] = f] = slots2
      BY <2>3
    <3> QED BY <3>1, <3>2, <3>3
  <2>7. Match(ns2, fl2, slots2, dr2, dv, running)
    <3>1. fil \in BOOLEAN /\ (fil => ns2[n].fs = "fat")
      BY <1>5, <1>9
    <3> QED BY <1>5, <1>7, <1>9, <1>21, <2>1, <2>2, <2>3, <3>1, OpenedMatches
  <2>8. Cardinality(DOMAIN fl2) = Cardinality(DOMAIN fl) + 1
    <3>1. DOMAIN fl2 = DOMAIN fl \cup {f}
      BY <2>2 DEF Put
    <3>2. FilesType(fl)
      BY DEF Match
    <3> QED BY <1>7, <3>1, <3>2, FilesFinite, FS_AddElement
  <2>9. /\ slots2[p][slot] # 0
        /\ \A j \in Descriptors : j # slot => slots2[p][j] = slots[p][j]
    BY <1>7, <1>21, <2>1, <2>3
  <2>10. FsOpen(st, p, n0, flags) = StateOf(ns2, fl2, slots2, dr2)
    BY <1>23, <2>4, <2>5, <2>6
  <2>11. \E i \in Descriptors :
            /\ slots[p][i] = 0 /\ slots2[p][i] # 0
            /\ \A j \in Descriptors : j # i => slots2[p][j] = slots[p][j]
            /\ Cardinality(DOMAIN fl2) = Cardinality(DOMAIN fl) + 1
    BY <2>1, <2>8, <2>9
  <2> QED BY <1>1, <1>5, <2>7, <2>10, <2>11 DEF OpenLeaves
<1> QED BY <1>16, <1>19, <1>20, <1>22, <1>23

-----------------------------------------------------------------------------
(***************************************************************************)
(* The inductive invariant, and the calls that change nodes only.          *)
(***************************************************************************)

\* The devices in g_device_list and the processes in the list of threads.
DeviceSet == {devices[i] : i \in DOMAIN devices}
Running == {live[i] : i \in DOMAIN live}

\* DescriptorsMatch and what it rests on: the fields of nodes lead to nodes, what lies
\* under the roots of mounted volumes is FAT's, the devices are those of g_device_list,
\* descriptors of processes that do not run are empty, and no process is listed twice.
VfsIInv ==
    /\ devices \in Seq(Ids)
    /\ live \in Seq(Process) /\ \A i, j \in DOMAIN live : live[i] = live[j] => i = j
    /\ Match(nodes, files, fd, drivers, DeviceSet, Running)
    /\ Cardinality(DOMAIN files) <= FileLimit

\* The parts of the invariant that look-ups need.
LEMMA IInvFacts ==
    ASSUME VfsIInv
    PROVE  /\ ListOf(devices, DeviceSet) /\ Tree(nodes, DeviceSet) /\ Running \subseteq Process
           /\ \A p : Runs(p) <=> p \in Running
<1>1. \A i \in DOMAIN live : live[i] \in Process
  BY ElementOfSeq DEF VfsIInv
<1> QED BY <1>1 DEF VfsIInv, ListOf, DeviceSet, Running, Match, Runs

\* A step that changes the nodes and none of the rest.
LEMMA NodesStep ==
    ASSUME VfsIInv, Tree(nodes', DeviceSet), Keeps(nodes, nodes'),
           UNCHANGED <<devices, live, files, fd, drivers>>
    PROVE  VfsIInv'
<1>1. Match(nodes', files, fd, drivers, DeviceSet, Running)
  BY TreeChanged DEF VfsIInv
<1>2. DeviceSet' = DeviceSet /\ Running' = Running
  BY DEF DeviceSet, Running
<1>3. Match(nodes', files', fd', drivers', DeviceSet', Running')
  BY <1>1, <1>2
<1>4. Match(nodes, files, fd, drivers, DeviceSet, Running)'
  BY <1>3
<1> QED BY <1>4 DEF VfsIInv

\* What a search found, perhaps with the stat of its node.
LEMMA FoundStep ==
    ASSUME VfsIInv, NEW at, Found(nodes, DeviceSet, at),
           \/ nodes' = at.nodes
           \/ at.node # Null /\ nodes' = FsStat(at.nodes, at.node).nodes
           \/ at.node # Null
                /\ nodes' = [at.nodes EXCEPT ![at.node].type = {"DIR"}, ![at.node].mount = Null],
           UNCHANGED <<devices, live, files, fd, drivers>>
    PROVE  VfsIInv'
<1>1. Tree(at.nodes, DeviceSet) /\ Keeps(nodes, at.nodes)
  BY DEF Found
<1>2. CASE nodes' = at.nodes
  BY <1>1, <1>2, NodesStep
<1>3. ASSUME at.node # Null, NEW ns2, nodes' = ns2, Tree(ns2, DeviceSet), Keeps(at.nodes, ns2)
      PROVE  VfsIInv'
  <2>1. Keeps(nodes, ns2)
    BY <1>1, <1>3, KeepsTransitive
  <2>2. Tree(nodes', DeviceSet) /\ Keeps(nodes, nodes')
    BY <1>3, <2>1
  <2> QED BY <2>2, NodesStep
<1>4. CASE at.node # Null /\ nodes' = FsStat(at.nodes, at.node).nodes
  <2>1. at.node \in DOMAIN at.nodes
    BY <1>4 DEF Found
  <2>2. PICK ns2 : ns2 = FsStat(at.nodes, at.node).nodes
    OBVIOUS
  <2>3. Tree(ns2, DeviceSet) /\ Keeps(at.nodes, ns2)
    BY <1>1, <2>1, <2>2, StatChanges
  <2> QED BY <1>3, <1>4, <2>2, <2>3
<1>5. CASE /\ at.node # Null
           /\ nodes' = [at.nodes EXCEPT ![at.node].type = {"DIR"}, ![at.node].mount = Null]
  <2>1. at.node \in DOMAIN at.nodes
    BY <1>5 DEF Found
  <2>2. PICK ns2 : ns2 = [at.nodes EXCEPT ![at.node].type = {"DIR"}, ![at.node].mount = Null]
    OBVIOUS
  <2>3. Tree(ns2, DeviceSet) /\ Keeps(at.nodes, ns2)
    BY <1>1, <2>1, <2>2, UnmountChanges
  <2> QED BY <1>3, <1>5, <2>2, <2>3
<1> QED BY <1>2, <1>4, <1>5

\* syscall_chdir keeps the invariant.
LEMMA ChdirStep ==
    ASSUME VfsIInv, NEW p \in Process, NEW path \in PathNames, Chdir(p, path)
    PROVE  VfsIInv'
<1>1. PICK at : at = Locate(p, path)
  OBVIOUS
<1>2. Found(nodes, DeviceSet, at)
  BY <1>1, IInvFacts, LocateFinds DEF Chdir
<1>3. nodes' = at.nodes /\ UNCHANGED <<devices, live, files, fd, drivers>>
  BY <1>1 DEF Chdir
<1> QED BY <1>2, <1>3, FoundStep

\* syscall_stat keeps the invariant.
LEMMA StatStep ==
    ASSUME VfsIInv, NEW p \in Process, NEW path \in PathNames, Stat(p, path)
    PROVE  VfsIInv'
<1>1. PICK at : at = Locate(p, path)
  OBVIOUS
<1>2. Found(nodes, DeviceSet, at)
  BY <1>1, IInvFacts, LocateFinds DEF Stat
<1>3. /\ nodes' = IF at.node = Null THEN at.nodes ELSE FsStat(at.nodes, at.node).nodes
      /\ UNCHANGED <<devices, live, files, fd, drivers>>
  BY <1>1 DEF Stat
<1> QED BY <1>2, <1>3, FoundStep

\* syscall_fstat keeps the invariant.
LEMMA FstatStep ==
    ASSUME VfsIInv, NEW p \in Process, NEW i \in Descriptors, Fstat(p, i)
    PROVE  VfsIInv'
<1>1. PICK n : n = files[fd[p][i]].node
  OBVIOUS
<1>2. n \in DOMAIN nodes /\ nodes' = FsStat(nodes, n).nodes
      /\ UNCHANGED <<devices, live, files, fd, drivers>>
  BY <1>1 DEF Fstat
<1>3. Tree(FsStat(nodes, n).nodes, DeviceSet) /\ Keeps(nodes, FsStat(nodes, n).nodes)
  BY <1>2, IInvFacts, StatChanges
<1>4. Tree(nodes', DeviceSet) /\ Keeps(nodes, nodes')
  BY <1>2, <1>3
<1> QED BY <1>2, <1>4, NodesStep

\* syscall_statx keeps the invariant.
LEMMA StatAtStep ==
    ASSUME VfsIInv, NEW p \in Process, NEW i \in Descriptors, NEW path \in PathNames,
           StatAt(p, i, path)
    PROVE  VfsIInv'
<1>1. PICK n, names : n = files[fd[p][i]].node /\ names = path.names
  OBVIOUS
<1>2. names \in Seq(Plain) /\ n \in DOMAIN nodes
  BY <1>1, PathPlain DEF StatAt
<1>3. PICK at : at = GetRelative(nodes, n, names)
  OBVIOUS
<1>4. Found(nodes, DeviceSet, at)
  BY <1>2, <1>3, IInvFacts, GetRelativeFinds
<1>5. /\ nodes' = IF at.node = Null THEN at.nodes ELSE FsStat(at.nodes, at.node).nodes
      /\ UNCHANGED <<devices, live, files, fd, drivers>>
  BY <1>1, <1>3 DEF StatAt
<1> QED BY <1>4, <1>5, FoundStep

\* syscall_unmount keeps the invariant.
LEMMA UnmountStep ==
    ASSUME VfsIInv, NEW p \in Process, NEW path \in PathNames, Unmount(p, path)
    PROVE  VfsIInv'
<1>1. PICK names : names = path.names
  OBVIOUS
<1>2. names \in Seq(Plain)
  BY <1>1, PathPlain
<1>3. PICK at : at = GetNode(nodes, names)
  OBVIOUS
<1>4. Found(nodes, DeviceSet, at)
  BY <1>2, <1>3, IInvFacts, GetNodeFinds
<1>5. UNCHANGED <<devices, live, files, fd, drivers>>
  BY DEF Unmount
<1>6. \/ nodes' = at.nodes
      \/ /\ at.node # Null
         /\ nodes' = [at.nodes EXCEPT ![at.node].type = {"DIR"}, ![at.node].mount = Null]
  BY <1>1, <1>3 DEF Unmount
<1> QED BY <1>4, <1>5, <1>6, FoundStep

\* syscall_mkdir keeps the invariant.
LEMMA MkdirStep ==
    ASSUME VfsIInv, NEW p \in Process, NEW path \in PathNames, Mkdir(p, path)
    PROVE  VfsIInv'
<1>1. PICK all : all = path.names
  OBVIOUS
<1>2. all \in Seq(GivenNames) /\ all # <<>>
  BY <1>1 DEF Mkdir, PathNames
<1>3. PICK k \in Nat : k = Len(all)
  BY <1>2, LenProperties
<1>4. k >= 1
  <2>1. k # 0
    BY <1>2, <1>3, EmptySeq
  <2> QED BY <2>1
<1>5. \A i \in 1 .. k : all[i] \in GivenNames
  BY <1>2, <1>3, ElementOfSeq
<1>6. \A x \in GivenNames : x \in Plain
  BY DEF GivenNames, Plain, Words, Marks
<1>7. PICK name : name = all[k]
  OBVIOUS
<1>8. name \in Plain
  BY <1>4, <1>5, <1>6, <1>7
<1>9. PICK up : up = SubSeq(all, 1, k - 1)
  OBVIOUS
<1>10. up \in Seq(Plain)
  <2>1. \A i \in 1 .. k - 1 : all[i] \in Plain
    BY <1>5, <1>6
  <2> QED BY <1>9, <2>1, SubSeqProperties
<1>11. PICK at : at = GetNode(nodes, up)
  OBVIOUS
<1>12. Found(nodes, DeviceSet, at)
  BY <1>10, <1>11, IInvFacts, GetNodeFinds
<1>13. /\ nodes' = IF at.node # Null THEN FsMkdir(at.nodes, at.node, name) ELSE at.nodes
       /\ UNCHANGED <<devices, live, files, fd, drivers>>
  BY <1>1, <1>3, <1>7, <1>9, <1>11 DEF Mkdir
<1>14. CASE at.node = Null
  BY <1>12, <1>13, <1>14, FoundStep
<1>15. CASE at.node # Null
  <2>1. Tree(at.nodes, DeviceSet) /\ Keeps(nodes, at.nodes) /\ at.node \in DOMAIN at.nodes
    BY <1>12, <1>15 DEF Found
  <2>2. PICK ns2 : ns2 = FsMkdir(at.nodes, at.node, name)
    OBVIOUS
  <2>3. Tree(ns2, DeviceSet) /\ Keeps(at.nodes, ns2)
    BY <1>8, <2>1, <2>2, MkdirChanges
  <2>4. Keeps(nodes, ns2)
    BY <2>1, <2>3, KeepsTransitive
  <2>5. Tree(nodes', DeviceSet) /\ Keeps(nodes, nodes')
    BY <1>13, <1>15, <2>2, <2>3, <2>4
  <2> QED BY <1>13, <2>5, NodesStep
<1> QED BY <1>14, <1>15

\* syscall_mount keeps the invariant, whichever of its tests fails.
LEMMA MountStep ==
    ASSUME VfsIInv, NEW p \in Process, NEW type, NEW from \in PathNames, NEW to \in PathNames,
           Mount(p, type, from, to)
    PROVE  VfsIInv'
<1>1. PICK a, b : a = from.names /\ b = to.names
  OBVIOUS
<1>2. a \in Seq(Plain) /\ b \in Seq(Plain)
  BY <1>1, PathPlain
<1>3. PICK source : source = GetNode(nodes, a)
  OBVIOUS
<1>4. Found(nodes, DeviceSet, source)
  BY <1>2, <1>3, IInvFacts, GetNodeFinds
<1>5. PICK target : target = GetNode(source.nodes, b)
  OBVIOUS
<1>6. Tree(source.nodes, DeviceSet) /\ Keeps(nodes, source.nodes)
  BY <1>4 DEF Found
<1>7. Found(source.nodes, DeviceSet, target)
  BY <1>2, <1>5, <1>6, IInvFacts, GetNodeFinds
<1>8. Tree(target.nodes, DeviceSet) /\ Keeps(nodes, target.nodes)
  BY <1>6, <1>7, KeepsTransitive DEF Found
<1>9. PICK ns2 : ns2 = FatMount(source.node, target.node, target.nodes).nodes
  OBVIOUS
<1>10. /\ \/ nodes' = nodes \/ nodes' = source.nodes \/ nodes' = target.nodes
          \/ nodes' = ns2 /\ FreeVolumes # {} /\ target.node # Null
       /\ UNCHANGED <<devices, live, files, fd, drivers>>
  BY <1>1, <1>3, <1>5, <1>9 DEF Mount, FsMount, CheckMount
<1>11. ASSUME nodes' = ns2, FreeVolumes # {}, target.node # Null
       PROVE  Tree(ns2, DeviceSet) /\ Keeps(nodes, ns2)
  <2>1. target.node \in DOMAIN target.nodes
    BY <1>7, <1>11 DEF Found
  <2>2. Tree(ns2, DeviceSet) /\ Keeps(target.nodes, ns2)
    BY <1>8, <1>9, <1>11, <2>1, FatMountChanges
  <2> QED BY <1>8, <2>2, KeepsTransitive
<1>12. Tree(nodes', DeviceSet) /\ Keeps(nodes, nodes')
  BY <1>6, <1>8, <1>10, <1>11, IInvFacts, KeepsSelf
<1> QED BY <1>10, <1>12, NodesStep

-----------------------------------------------------------------------------
(***************************************************************************)
(* Devices, descriptors, processes.                                        *)
(***************************************************************************)

\* devfs_register_device keeps the invariant.
LEMMA RegisterDeviceStep ==
    ASSUME VfsIInv, NEW name \in DOMAIN DeviceType, RegisterDevice(name)
    PROVE  VfsIInv'
<1>1. PICK id : id = Append(DevRoot, name)
  OBVIOUS
<1>2. PICK dv, ns2, dv2, list : /\ dv = DeviceSet /\ ns2 = Put(nodes, id, DeviceNode(name))
                                /\ dv2 = dv \cup {id} /\ list = Append(devices, id)
  OBVIOUS
<1>3. /\ Named(nodes, devices, name) = Null
      /\ nodes' = ns2 /\ devices' = list /\ drivers' = Put(drivers, id, 0)
      /\ UNCHANGED <<live, files, fd>>
  BY <1>1, <1>2 DEF RegisterDevice
<1>4. Tree(nodes, dv) /\ ListOf(devices, dv)
  BY <1>2, IInvFacts
<1>5. /\ Tree(ns2, dv2) /\ Keeps(nodes, ns2) /\ id \notin DOMAIN nodes /\ id \notin ThreadIds
      /\ ListOf(list, dv2)
  BY <1>1, <1>2, <1>3, <1>4, DeviceAdded
<1>6. DeviceSet' = dv2 /\ devices' \in Seq(Ids) /\ Running' = Running
  BY <1>3, <1>5 DEF DeviceSet, ListOf, Running
<1>7. /\ FilesType(files) /\ FilesLead(nodes, files) /\ SlotsMatch(files, fd, Running)
      /\ DriversMatch(files, drivers, dv)
  BY <1>2 DEF VfsIInv, Match
<1>8. FilesLead(ns2, files)
  BY <1>5, <1>7 DEF FilesLead, Keeps
<1>9. PICK dr2 : dr2 = Put(drivers, id, 0)
  OBVIOUS
<1>10. DriversMatch(files, dr2, dv2)
  <2>1. OpenOn(files, id) = {}
    BY <1>5, <1>7 DEF FilesLead, OpenOn
  <2>2. Cardinality(OpenOn(files, id)) = 0
    BY <2>1, FS_EmptySet
  <2>3. id \notin dv
    BY <1>4, <1>5 DEF Tree
  <2>4. dr2 = [n \in dv2 |-> IF n = id THEN 0 ELSE drivers[n]]
    BY <1>2, <1>7, <1>9 DEF Put, DriversMatch
  <2>5. drivers \in [dv -> Int] /\ \A n \in dv : drivers[n] = Cardinality(OpenOn(files, n))
    BY <1>7 DEF DriversMatch
  <2>6. dr2 \in [dv2 -> Int]
    BY <1>2, <2>4, <2>5
  <2>7. \A n \in dv2 : dr2[n] = Cardinality(OpenOn(files, n))
    BY <1>2, <2>2, <2>3, <2>4, <2>5
  <2> QED BY <2>6, <2>7 DEF DriversMatch
<1>11. Match(ns2, files, fd, dr2, dv2, Running)
  BY <1>5, <1>7, <1>8, <1>10 DEF Match
<1>12. Match(nodes', files', fd', drivers', DeviceSet', Running')
  BY <1>3, <1>6, <1>9, <1>11
<1>13. Match(nodes, files, fd, drivers, DeviceSet, Running)'
  BY <1>12
<1> QED BY <1>3, <1>6, <1>13 DEF VfsIInv

\* A call that leaves files and descriptors as a state says.
LEMMA FilesStep ==
    ASSUME VfsIInv, NEW ns, NEW fl, NEW slots, NEW dr, Becomes(StateOf(ns, fl, slots, dr)),
           Match(ns, fl, slots, dr, DeviceSet, Running), Cardinality(DOMAIN fl) <= FileLimit,
           UNCHANGED <<devices, live>>
    PROVE  VfsIInv'
<1>1. nodes' = ns /\ files' = fl /\ fd' = slots /\ drivers' = dr
  BY DEF Becomes, StateOf
<1>2. DeviceSet' = DeviceSet /\ Running' = Running
  BY DEF DeviceSet, Running
<1>3. Match(nodes', files', fd', drivers', DeviceSet', Running')
  BY <1>1, <1>2
<1>4. Match(nodes, files, fd, drivers, DeviceSet, Running)'
  BY <1>3
<1> QED BY <1>1, <1>4 DEF VfsIInv

\* syscall_close keeps the invariant.
LEMMA CloseFdStep ==
    ASSUME VfsIInv, NEW p \in Process, NEW i \in Descriptors, CloseFd(p, i)
    PROVE  VfsIInv'
<1>1. PICK f : f = fd[p][i]
  OBVIOUS
<1>2. Match(nodes, files, fd, drivers, DeviceSet, Running)
  BY DEF VfsIInv
<1>3. f \in DOMAIN files
  BY <1>1, <1>2 DEF CloseFd, Match, SlotsMatch
<1>4. St = StateOf(nodes, files, fd, drivers)
  BY DEF St, StateOf
<1>5. PICK fl2, slots2, dr2 : /\ fl2 = Without(files, f)
                              /\ slots2 = Emptied(fd, files[f].process, files[f].fd)
                              /\ dr2 = Less(drivers, DeviceSet, files[f].node)
  OBVIOUS
<1>6. FsClose(St, f) = StateOf(nodes, fl2, slots2, dr2)
  BY <1>2, <1>3, <1>4, <1>5, FsCloseFields
<1>7. Match(nodes, fl2, slots2, dr2, DeviceSet, Running)
  BY <1>2, <1>3, <1>5, FsCloseMatches
<1>8. Cardinality(DOMAIN fl2) <= FileLimit
  <2>1. FilesType(files) /\ DOMAIN fl2 \subseteq DOMAIN files
    BY <1>2, <1>5 DEF Match, Without
  <2>2. Cardinality(DOMAIN fl2) <= Cardinality(DOMAIN files) /\ IsFiniteSet(DOMAIN fl2)
    BY <2>1, FilesFinite, FS_Subset
  <2>3. Cardinality(DOMAIN fl2) \in Nat /\ Cardinality(DOMAIN files) \in Nat
    BY <2>1, <2>2, FilesFinite, FS_CardinalityType
  <2> QED BY <2>2, <2>3, Constants DEF VfsIInv
<1>9. Becomes(StateOf(nodes, fl2, slots2, dr2)) /\ UNCHANGED <<devices, live>>
  BY <1>1, <1>6 DEF CloseFd
<1> QED BY <1>7, <1>8, <1>9, FilesStep

\* syscall_open keeps the invariant.
LEMMA OpenStep ==
    ASSUME VfsIInv, NEW p \in Process, NEW path \in PathNames, NEW flags, Open(p, path, flags)
    PROVE  VfsIInv'
<1>1. PICK at : at = Locate(p, path)
  OBVIOUS
<1>2. Found(nodes, DeviceSet, at) /\ p \in Running
  BY <1>1, IInvFacts, LocateFinds DEF Open
<1>3. Match(nodes, files, fd, drivers, DeviceSet, Running)
  BY DEF VfsIInv
<1>4. Match(at.nodes, files, fd, drivers, DeviceSet, Running)
  BY <1>2, <1>3, TreeChanged DEF Found
<1>5. PICK st : st = StateOf(at.nodes, files, fd, drivers)
  OBVIOUS
<1>6. /\ Cardinality(DOMAIN files) < FileLimit \/ \A i \in Descriptors : fd[p][i] # 0
      /\ Becomes(IF at.node = Null THEN st ELSE FsOpen(st, p, at.node, flags))
      /\ UNCHANGED <<devices, live>>
  <2>1. [St EXCEPT !.nodes = at.nodes] = st
    BY <1>5 DEF St, StateOf
  <2> QED BY <1>1, <2>1 DEF Open
<1>7. CASE at.node = Null
  <2>1. Becomes(StateOf(at.nodes, files, fd, drivers))
    BY <1>5, <1>6, <1>7
  <2>2. Cardinality(DOMAIN files) <= FileLimit
    BY DEF VfsIInv
  <2> QED BY <1>4, <1>6, <2>1, <2>2, FilesStep
<1>8. CASE at.node # Null
  <2>1. at.node \in DOMAIN at.nodes
    BY <1>2, <1>8 DEF Found
  <2>2. PICK st2 : st2 = FsOpen(st, p, at.node, flags)
    OBVIOUS
  <2>3. OpenLeaves(at.nodes, files, fd, DeviceSet, Running, p, Crossed(at.nodes, at.node), st2)
    <3>1. Cardinality(DOMAIN files) <= FileLimit /\ live \in Seq(Process) /\ p \in Running \cap Process
      BY <1>2 DEF VfsIInv
    <3> QED BY <1>4, <1>5, <2>1, <2>2, <3>1, FsOpenMatches
  <2>4. PICK ns2, fl2, slots2, dr2 :
        /\ st2 = StateOf(ns2, fl2, slots2, dr2)
        /\ Match(ns2, fl2, slots2, dr2, DeviceSet, Running) /\ Keeps(at.nodes, ns2)
        /\ \/ fl2 = files /\ slots2 = fd
           \/ \E i \in Descriptors :
                 /\ fd[p][i] = 0 /\ slots2[p][i] # 0
                 /\ \A j \in Descriptors : j # i => slots2[p][j] = fd[p][j]
                 /\ Cardinality(DOMAIN fl2) = Cardinality(DOMAIN files) + 1
    BY <2>3 DEF OpenLeaves
  <2>5. Becomes(StateOf(ns2, fl2, slots2, dr2))
    BY <1>6, <1>8, <2>2, <2>4
  <2>6. Cardinality(DOMAIN fl2) <= FileLimit
    <3>1. CASE fl2 = files
      BY <3>1 DEF VfsIInv
    <3>2. ASSUME NEW i \in Descriptors, fd[p][i] = 0,
                 Cardinality(DOMAIN fl2) = Cardinality(DOMAIN files) + 1
          PROVE  Cardinality(DOMAIN fl2) <= FileLimit
      <4>1. Cardinality(DOMAIN files) < FileLimit
        BY <1>6, <3>2
      <4>2. Cardinality(DOMAIN files) \in Nat
        BY <1>3, FilesFinite DEF Match
      <4> QED BY <3>2, <4>1, <4>2, Constants
    <3> QED BY <2>4, <3>1, <3>2
  <2> QED BY <1>6, <2>4, <2>5, <2>6, FilesStep
<1> QED BY <1>7, <1>8

-----------------------------------------------------------------------------

Used(slots, p) == {i \in Descriptors : slots[p][i] # 0}

\* While the descriptors of a new process are opened: the nodes are ns all along.
SpawnGood(ns, dv, running, q, base, st) ==
    \E fl, slots, dr :
        /\ st = StateOf(ns, fl, slots, dr) /\ Match(ns, fl, slots, dr, dv, running)
        /\ Cardinality(DOMAIN fl) <= base + Cardinality(Used(slots, q))

\* A process uses no more descriptors than there are.
LEMMA UsedFinite ==
    ASSUME NEW slots, NEW p
    PROVE  /\ IsFiniteSet(Used(slots, p)) /\ Cardinality(Used(slots, p)) \in Nat
           /\ Cardinality(Used(slots, p)) <= MaxFiles
<1>1. IsFiniteSet(Descriptors) /\ Cardinality(Descriptors) = MaxFiles
  <2>1. PICK k \in Int : k = MaxFiles - 1
    BY Constants
  <2>2. IsFiniteSet(0 .. k) /\ Cardinality(0 .. k) = IF 0 > k THEN 0 ELSE k - 0 + 1
    BY FS_Interval
  <2> QED BY <2>1, <2>2, Constants DEF Descriptors
<1>2. Used(slots, p) \subseteq Descriptors
  BY DEF Used
<1>3. IsFiniteSet(Used(slots, p)) /\ Cardinality(Used(slots, p)) <= MaxFiles
  BY <1>1, <1>2, FS_Subset
<1> QED BY <1>3, FS_CardinalityType

\* Each of the three opens of process_create_ex fits in the files that are left.
LEMMA SpawnOpens ==
    ASSUME NEW ns, NEW dv, NEW running, NEW q \in running \cap Process, NEW base \in Nat,
           base + MaxFiles <= FileLimit, NEW st, SpawnGood(ns, dv, running, q, base, st),
           NEW tty \in dv, ns[tty].type = {"CHAR"}, live \in Seq(Process), NEW flags
    PROVE  SpawnGood(ns, dv, running, q, base, FsOpen(st, q, tty, flags))
<1>1. PICK fl, slots, dr :
        /\ st = StateOf(ns, fl, slots, dr) /\ Match(ns, fl, slots, dr, dv, running)
        /\ Cardinality(DOMAIN fl) <= base + Cardinality(Used(slots, q))
  BY DEF SpawnGood
<1>2. PICK c, u : c = Cardinality(DOMAIN fl) /\ u = Cardinality(Used(slots, q))
  OBVIOUS
<1>3. c \in Nat /\ u \in Nat /\ u <= MaxFiles
  BY <1>1, <1>2, UsedFinite, FilesFinite DEF Match
<1>4. c <= FileLimit
  BY <1>1, <1>2, <1>3, Constants
<1>5. tty \in DOMAIN ns
  BY <1>1 DEF Match, Tree
<1>6. PICK st2 : st2 = FsOpen(st, q, tty, flags)
  OBVIOUS
<1>7. OpenLeaves(ns, fl, slots, dv, running, q, tty, st2)
  <2>1. OpenLeaves(ns, fl, slots, dv, running, q, Crossed(ns, tty), FsOpen(st, q, tty, flags))
    BY <1>1, <1>2, <1>4, <1>5, FsOpenMatches
  <2>2. Crossed(ns, tty) = tty
    BY DEF Crossed
  <2> QED BY <1>6, <2>1, <2>2
<1>8. ns[tty].fs = "device"
  BY <1>1, <1>5, DeviceNodes DEF Match
<1>9. PICK fl2, slots2, dr2 :
        /\ st2 = StateOf(ns, fl2, slots2, dr2)
        /\ Match(ns, fl2, slots2, dr2, dv, running)
        /\ \/ fl2 = fl /\ slots2 = slots
           \/ \E i \in Descriptors :
                 /\ slots[q][i] = 0 /\ slots2[q][i] # 0
                 /\ \A j \in Descriptors : j # i => slots2[q][j] = slots[q][j]
                 /\ Cardinality(DOMAIN fl2) = Cardinality(DOMAIN fl) + 1
  BY <1>7, <1>8 DEF OpenLeaves, OpenedNodes
<1>10. Cardinality(DOMAIN fl2) <= base + Cardinality(Used(slots2, q))
  <2>1. ASSUME NEW i \in Descriptors, slots[q][i] = 0, slots2[q][i] # 0,
               \A j \in Descriptors : j # i => slots2[q][j] = slots[q][j],
               Cardinality(DOMAIN fl2) = Cardinality(DOMAIN fl) + 1
        PROVE  Cardinality(DOMAIN fl2) <= base + Cardinality(Used(slots2, q))
    <3>1. Used(slots2, q) = Used(slots, q) \cup {i} /\ i \notin Used(slots, q)
      BY <2>1 DEF Used
    <3>2. Cardinality(Used(slots2, q)) = u + 1
      BY <1>2, <3>1, UsedFinite, FS_AddElement
    <3> QED BY <1>1, <1>2, <1>3, <2>1, <3>2
  <2> QED BY <1>1, <1>9, <2>1
<1> QED BY <1>6, <1>9, <1>10 DEF SpawnGood

\* process_create_ex keeps the invariant, and the nodes.
LEMMA SpawnStep ==
    ASSUME VfsIInv, NEW p \in Process, NEW q \in Process, NEW k \in DOMAIN devices,
           nodes[devices[k]].type = {"CHAR"}, Spawn(p, q, devices[k])
    PROVE  VfsIInv' /\ nodes' = nodes
<1>1. PICK tty : tty = devices[k]
  OBVIOUS
<1>2. PICK dv, base, running : /\ dv = DeviceSet /\ base = Cardinality(DOMAIN files)
                               /\ running = Running \cup {q}
  OBVIOUS
<1>3. tty \in dv /\ q \in running \cap Process /\ q \notin Running /\ nodes[tty].type = {"CHAR"}
  BY <1>1, <1>2, IInvFacts DEF DeviceSet, Spawn
<1>4. Match(nodes, files, fd, drivers, dv, Running) /\ live \in Seq(Process)
  BY <1>2 DEF VfsIInv
<1>5. Match(nodes, files, fd, drivers, dv, running)
  <2>1. SlotsMatch(files, fd, Running) /\ Running \subseteq running
    BY <1>2, <1>4 DEF Match
  <2>2. SlotsMatch(files, fd, running)
    BY <2>1 DEF SlotsMatch
  <2> QED BY <1>4, <2>2 DEF Match
<1>6. base \in Nat /\ base + MaxFiles <= FileLimit
  BY <1>2, <1>4, FilesFinite DEF Match, Spawn
<1>7. PICK st : st = St
  OBVIOUS
<1>8. SpawnGood(nodes, dv, running, q, base, st)
  <2>1. \A i \in Descriptors : fd[q][i] = 0
    <3>1. SlotsMatch(files, fd, Running)
      BY <1>4 DEF Match
    <3> QED BY <1>3, <3>1 DEF SlotsMatch
  <2>2. Used(fd, q) = {}
    BY <2>1 DEF Used
  <2>3. Cardinality(Used(fd, q)) = 0
    BY <2>2, FS_EmptySet
  <2>4. Cardinality(DOMAIN files) <= base + Cardinality(Used(fd, q))
    BY <1>2, <1>6, <2>3
  <2>5. st = StateOf(nodes, files, fd, drivers)
    BY <1>7 DEF St, StateOf
  <2> QED BY <1>5, <2>4, <2>5 DEF SpawnGood
<1>9. PICK o1, o2, o3 : /\ o1 = FsOpen(st, q, tty, "r") /\ o2 = FsOpen(o1, q, tty, "r")
                        /\ o3 = FsOpen(o2, q, tty, "r")
  OBVIOUS
<1>10. SpawnGood(nodes, dv, running, q, base, o1)
  BY <1>3, <1>4, <1>6, <1>8, <1>9, SpawnOpens
<1>11. SpawnGood(nodes, dv, running, q, base, o2)
  BY <1>3, <1>4, <1>6, <1>9, <1>10, SpawnOpens
<1>12. SpawnGood(nodes, dv, running, q, base, o3)
  BY <1>3, <1>4, <1>6, <1>9, <1>11, SpawnOpens
<1> DEFINE Clauses(f) == f = [i \in 0 .. 3 |-> IF i = 0 THEN St ELSE FsOpen(f[i - 1], q, devices[k], "r")]
           Opened == CHOOSE f : Clauses(f)
<1>13. \E f : Clauses(f)
  <2>1. PICK f : f = [i \in 0 .. 3 |-> IF i = 0 THEN st ELSE IF i = 1 THEN o1 ELSE IF i = 2 THEN o2 ELSE o3]
    OBVIOUS
  <2>2. f[0] = st /\ f[1] = o1 /\ f[2] = o2 /\ f[3] = o3
    BY <2>1
  <2>3. \A i \in 0 .. 3 : f[i] = IF i = 0 THEN st ELSE FsOpen(f[i - 1], q, tty, "r")
    <3> SUFFICES ASSUME NEW i \in 0 .. 3
                 PROVE  f[i] = IF i = 0 THEN st ELSE FsOpen(f[i - 1], q, tty, "r")
      OBVIOUS
    <3>1. i = 0 \/ (i = 1 /\ i - 1 = 0) \/ (i = 2 /\ i - 1 = 1) \/ (i = 3 /\ i - 1 = 2)
      OBVIOUS
    <3> QED BY <1>9, <2>2, <3>1
  <2>4. f = [i \in 0 .. 3 |-> f[i]]
    BY <2>1
  <2>5. Clauses(f)
    BY <1>1, <1>7, <2>3, <2>4
  <2> QED BY <2>5
<1>14. Clauses(Opened)
  <2> HIDE DEF Clauses
  <2> QED BY <1>13, Zenon
<1>15. PICK g : g = Opened /\ Clauses(g)
  BY <1>14
<1>16. Becomes(Opened[3]) /\ live' = Append(live, q) /\ UNCHANGED devices
  BY Zenon DEF Spawn, Opened, Clauses
<1> HIDE DEF Opened
<1>17. g[3] = o3
  <2>1. g[0] = st
    BY <1>7, <1>15
  <2>2. g[1] = FsOpen(g[0], q, tty, "r")
    BY <1>1, <1>15
  <2>3. g[2] = FsOpen(g[1], q, tty, "r")
    BY <1>1, <1>15
  <2>4. g[3] = FsOpen(g[2], q, tty, "r")
    BY <1>1, <1>15
  <2> QED BY <1>9, <2>1, <2>2, <2>3, <2>4
<1>18. Becomes(o3)
  BY <1>15, <1>16, <1>17
<1>19. PICK fl, slots, dr :
        /\ o3 = StateOf(nodes, fl, slots, dr) /\ Match(nodes, fl, slots, dr, dv, running)
        /\ Cardinality(DOMAIN fl) <= base + Cardinality(Used(slots, q))
  BY <1>12 DEF SpawnGood
<1>20. Cardinality(DOMAIN fl) <= FileLimit
  <2>1. Cardinality(Used(slots, q)) \in Nat /\ Cardinality(Used(slots, q)) <= MaxFiles
    BY UsedFinite
  <2>2. Cardinality(DOMAIN fl) \in Nat
    BY <1>19, FilesFinite DEF Match
  <2> QED BY <1>6, <1>19, <2>1, <2>2, Constants
<1>21. nodes' = nodes /\ files' = fl /\ fd' = slots /\ drivers' = dr
  BY <1>18, <1>19 DEF Becomes, StateOf
<1>22. PICK list : list = Append(live, q)
  OBVIOUS
<1>23. /\ list \in Seq(Process) /\ \A i, j \in DOMAIN list : list[i] = list[j] => i = j
       /\ {list[i] : i \in DOMAIN list} = running
  <2>1. PICK t : t = live
    OBVIOUS
  <2>2. /\ t \in Seq(Process) /\ list \in Seq(Process) /\ Len(list) = Len(t) + 1
        /\ list[Len(t) + 1] = q /\ \A i \in 1 .. Len(t) : list[i] = t[i]
    BY <1>4, <1>22, <2>1, AppendProperties
  <2>3. PICK c \in Nat : c = Len(t)
    BY <2>2, LenProperties
  <2>4. DOMAIN t = 1 .. c /\ DOMAIN list = 1 .. c + 1 /\ list[c + 1] = q
        /\ \A i \in 1 .. c : list[i] = t[i]
    BY <2>2, <2>3, LenProperties
  <2>5. \A i \in 1 .. c : t[i] \in Running
    BY <2>1, <2>4 DEF Running
  <2>6. \A i \in 1 .. c + 1 : i \in 1 .. c \/ i = c + 1
    BY <2>3
  <2>7. \A i, j \in 1 .. c : t[i] = t[j] => i = j
    BY <2>1, <2>4 DEF VfsIInv
  <2>8. ASSUME NEW i \in DOMAIN list, NEW j \in DOMAIN list, list[i] = list[j] PROVE i = j
    BY <1>3, <2>4, <2>5, <2>6, <2>7, <2>8
  <2>9. {list[i] : i \in DOMAIN list} = running
    <3>1. ASSUME NEW i \in DOMAIN list PROVE list[i] \in running
      BY <1>2, <2>4, <2>5, <2>6
    <3>2. ASSUME NEW x \in running PROVE \E i \in DOMAIN list : list[i] = x
      <4>1. CASE x = q
        <5>1. c + 1 \in DOMAIN list
          BY <2>3, <2>4
        <5> QED BY <2>4, <4>1, <5>1
      <4>2. CASE x \in Running
        <5>1. PICK i \in DOMAIN live : live[i] = x
          BY <4>2 DEF Running
        <5>2. i \in 1 .. c /\ i \in DOMAIN list
          BY <2>1, <2>3, <2>4, <5>1
        <5> QED BY <2>1, <2>4, <5>1, <5>2
      <4> QED BY <1>2, <4>1, <4>2
    <3> QED BY <3>1, <3>2
  <2> QED BY <2>2, <2>8, <2>9
<1>24. live' = list /\ devices' = devices
  BY <1>16, <1>22
<1>25. DeviceSet' = dv /\ Running' = running
  BY <1>2, <1>23, <1>24 DEF DeviceSet, Running
<1>26. Match(nodes', files', fd', drivers', DeviceSet', Running')
  BY <1>19, <1>21, <1>25
<1>27. Match(nodes, files, fd, drivers, DeviceSet, Running)'
  BY <1>26
<1>28. devices' \in Seq(Ids)
  BY <1>24 DEF VfsIInv
<1>29. live' \in Seq(Process) /\ \A i, j \in DOMAIN live' : live'[i] = live'[j] => i = j
  BY <1>23, <1>24
<1>30. Cardinality(DOMAIN files') <= FileLimit
  BY <1>20, <1>21
<1> QED BY <1>21, <1>27, <1>28, <1>29, <1>30 DEF VfsIInv

-----------------------------------------------------------------------------

\* t holds what list holds except p, and nothing twice.
LacksOnly(t, list, p) ==
    /\ t \in Seq(Process) /\ \A i, j \in DOMAIN t : t[i] = t[j] => i = j
    /\ {t[i] : i \in DOMAIN t} = {list[i] : i \in DOMAIN list} \ {p}

\* The thread list loses a process and nothing else.
LEMMA UnlinkKeeps ==
    ASSUME NEW list \in Seq(Process), \A i, j \in DOMAIN list : list[i] = list[j] => i = j,
           NEW p, \E i \in DOMAIN list : list[i] = p
    PROVE  LacksOnly(Unlink(list, p), list, p)
<1>1. PICK n \in Nat : n = Len(list)
  BY LenProperties
<1>2. DOMAIN list = 1 .. n /\ \A i \in 1 .. n : list[i] \in Process
  BY <1>1, LenProperties, ElementOfSeq
<1>3. PICK k : k = CHOOSE i \in DOMAIN list : list[i] = p
  OBVIOUS
<1>4. k \in 1 .. n /\ list[k] = p /\ n >= 1
  BY <1>2, <1>3
<1>5. PICK a, b : a = SubSeq(list, 1, k - 1) /\ b = SubSeq(list, k + 1, n)
  OBVIOUS
<1>6. a \in Seq(Process) /\ Len(a) = k - 1 /\ \A i \in 1 .. k - 1 : a[i] = list[i]
  <2>1. PICK m \in Int : m = k - 1
    BY <1>4
  <2>2. \A i \in 1 .. m : list[i] \in Process
    BY <1>2, <1>4, <2>1
  <2>3. /\ SubSeq(list, 1, m) \in Seq(Process)
        /\ Len(SubSeq(list, 1, m)) = IF 1 <= m THEN m - 1 + 1 ELSE 0
        /\ \A i \in 1 .. m - 1 + 1 : SubSeq(list, 1, m)[i] = list[1 + i - 1]
    BY <2>2, SubSeqProperties
  <2>4. a = SubSeq(list, 1, m) /\ m - 1 + 1 = m /\ (IF 1 <= m THEN m - 1 + 1 ELSE 0) = m
        /\ \A i \in 1 .. m : 1 + i - 1 = i
    BY <1>4, <1>5, <2>1
  <2> QED BY <2>1, <2>3, <2>4
<1>7. b \in Seq(Process) /\ Len(b) = n - k /\ \A i \in 1 .. n - k : b[i] = list[k + i]
  <2>1. PICK m \in Int : m = k + 1
    BY <1>4
  <2>2. \A i \in m .. n : list[i] \in Process
    BY <1>2, <1>4, <2>1
  <2>3. /\ SubSeq(list, m, n) \in Seq(Process)
        /\ Len(SubSeq(list, m, n)) = IF m <= n THEN n - m + 1 ELSE 0
        /\ \A i \in 1 .. n - m + 1 : SubSeq(list, m, n)[i] = list[m + i - 1]
    BY <2>2, SubSeqProperties
  <2>4. b = SubSeq(list, m, n) /\ n - m + 1 = n - k /\ (IF m <= n THEN n - m + 1 ELSE 0) = n - k
        /\ \A i \in 1 .. n - k : m + i - 1 = k + i
    BY <1>4, <1>5, <2>1
  <2> QED BY <2>1, <2>3, <2>4
<1>8. PICK t : t = a \o b
  OBVIOUS
<1>9. /\ t \in Seq(Process) /\ Len(t) = n - 1
      /\ \A i \in 1 .. n - 1 : t[i] = IF i <= k - 1 THEN list[i] ELSE list[i + 1]
  <2>1. /\ t \in Seq(Process) /\ Len(t) = Len(a) + Len(b)
        /\ \A i \in 1 .. Len(a) + Len(b) : t[i] = IF i <= Len(a) THEN a[i] ELSE b[i - Len(a)]
    BY <1>6, <1>7, <1>8, ConcatProperties
  <2>2. Len(a) + Len(b) = n - 1
    BY <1>1, <1>4, <1>6, <1>7
  <2>3. ASSUME NEW i \in 1 .. n - 1 PROVE t[i] = IF i <= k - 1 THEN list[i] ELSE list[i + 1]
    <3>1. CASE i <= k - 1
      <4>1. i \in 1 .. k - 1 /\ i <= Len(a)
        BY <1>1, <1>4, <1>6, <3>1
      <4>2. t[i] = a[i]
        BY <2>1, <2>2, <4>1
      <4> QED BY <1>6, <3>1, <4>1, <4>2
    <3>2. CASE ~ (i <= k - 1)
      <4>1. i - (k - 1) \in 1 .. n - k /\ k + (i - (k - 1)) = i + 1
        BY <1>1, <1>4, <3>2
      <4>2. t[i] = b[i - (k - 1)]
        BY <1>6, <2>1, <2>2, <3>2
      <4>3. b[i - (k - 1)] = list[i + 1]
        BY <1>7, <4>1
      <4> QED BY <3>2, <4>2, <4>3
    <3> QED BY <3>1, <3>2
  <2> QED BY <2>1, <2>2, <2>3
<1>10. DOMAIN t = 1 .. n - 1
  BY <1>9, LenProperties
<1>11. Unlink(list, p) = t
  BY <1>1, <1>3, <1>5, <1>8 DEF Unlink
<1>12. \A i, j \in 1 .. n : list[i] = list[j] => i = j
  BY <1>2
<1> HIDE DEF Unlink
<1>13. ASSUME NEW i \in 1 .. n - 1, NEW j \in 1 .. n - 1, t[i] = t[j] PROVE i = j
  <2>1. /\ i \in 1 .. n /\ j \in 1 .. n /\ i + 1 \in 1 .. n /\ j + 1 \in 1 .. n
        /\ i \in Int /\ j \in Int /\ k \in Int
    BY <1>1, <1>4
  <2>2. CASE i <= k - 1 /\ j <= k - 1
    BY <1>9, <1>12, <1>13, <2>1, <2>2
  <2>3. CASE i <= k - 1 /\ ~ (j <= k - 1)
    <3>1. i = j + 1
      BY <1>9, <1>12, <1>13, <2>1, <2>3
    <3> QED BY <2>1, <2>3, <3>1
  <2>4. CASE ~ (i <= k - 1) /\ j <= k - 1
    <3>1. i + 1 = j
      BY <1>9, <1>12, <1>13, <2>1, <2>4
    <3> QED BY <2>1, <2>4, <3>1
  <2>5. CASE ~ (i <= k - 1) /\ ~ (j <= k - 1)
    <3>1. i + 1 = j + 1
      BY <1>9, <1>12, <1>13, <2>1, <2>5
    <3> QED BY <2>1, <3>1
  <2> QED BY <2>2, <2>3, <2>4, <2>5
<1>14. ASSUME NEW i \in 1 .. n - 1
       PROVE  \E j \in 1 .. n : t[i] = list[j] /\ list[j] # p
  <2>1. i \in 1 .. n /\ i + 1 \in 1 .. n /\ k \in Int /\ i \in Int
    BY <1>1, <1>4
  <2>2. CASE i <= k - 1
    <3>1. i # k
      BY <2>1, <2>2
    <3> QED BY <1>4, <1>9, <1>12, <2>1, <2>2, <3>1
  <2>3. CASE ~ (i <= k - 1)
    <3>1. i + 1 # k
      BY <2>1, <2>3
    <3> QED BY <1>4, <1>9, <1>12, <2>1, <2>3, <3>1
  <2> QED BY <2>2, <2>3
<1>15. ASSUME NEW j \in 1 .. n, list[j] # p PROVE \E i \in 1 .. n - 1 : t[i] = list[j]
  <2>1. j # k /\ j \in Int /\ k \in Int
    BY <1>4, <1>15
  <2>2. CASE j < k
    <3>1. j \in 1 .. n - 1 /\ j <= k - 1
      BY <1>4, <2>1, <2>2
    <3> QED BY <1>9, <3>1
  <2>3. CASE j > k
    <3>1. j - 1 \in 1 .. n - 1 /\ ~ (j - 1 <= k - 1) /\ j - 1 + 1 = j
      BY <1>4, <2>1, <2>3
    <3>2. t[j - 1] = list[j - 1 + 1]
      BY <1>9, <3>1
    <3> QED BY <3>1, <3>2
  <2> QED BY <2>1, <2>2, <2>3
<1>16. {t[i] : i \in DOMAIN t} = {list[i] : i \in DOMAIN list} \ {p}
  <2>1. ASSUME NEW i \in DOMAIN t PROVE t[i] \in {list[j] : j \in DOMAIN list} \ {p}
    BY <1>2, <1>10, <1>14
  <2>2. ASSUME NEW x \in {list[j] : j \in DOMAIN list} \ {p} PROVE \E i \in DOMAIN t : t[i] = x
    <3>1. PICK j \in 1 .. n : list[j] = x /\ list[j] # p
      BY <1>2
    <3>2. PICK i \in 1 .. n - 1 : t[i] = list[j]
      BY <1>15, <3>1
    <3>3. i \in DOMAIN t /\ t[i] = x
      BY <1>10, <3>1, <3>2
    <3> QED BY <3>3
  <2>3. {t[i] : i \in DOMAIN t} \subseteq {list[j] : j \in DOMAIN list} \ {p}
    BY <2>1
  <2>4. {list[j] : j \in DOMAIN list} \ {p} \subseteq {t[i] : i \in DOMAIN t}
    BY <2>2
  <2> QED BY <2>3, <2>4
<1>17. \A i, j \in DOMAIN t : t[i] = t[j] => i = j
  BY <1>10, <1>13
<1>18. LacksOnly(t, list, p)
  BY <1>9, <1>16, <1>17 DEF LacksOnly
<1> QED BY <1>11, <1>18

-----------------------------------------------------------------------------

\* The states while a process is destroyed: files go, and nothing else.
FileSets == UNION {[D -> FileRecords] : D \in SUBSET (1 .. FileLimit + 1)}
ClosingStates(ns, dv, running) ==
    {st \in [nodes : {ns}, files : FileSets, fd : [Process -> [Descriptors -> Nat]],
             drivers : [dv -> Int]] :
        /\ Match(st.nodes, st.files, st.fd, st.drivers, dv, running)
        /\ Cardinality(DOMAIN st.files) <= FileLimit}

\* What is left while process_destroy closes files.
LEMMA ClosingState ==
    ASSUME NEW ns, NEW fl, NEW slots, NEW dr, NEW dv, NEW running,
           Match(ns, fl, slots, dr, dv, running), Cardinality(DOMAIN fl) <= FileLimit
    PROVE  StateOf(ns, fl, slots, dr) \in ClosingStates(ns, dv, running)
<1>1. fl \in [DOMAIN fl -> FileRecords] /\ DOMAIN fl \in SUBSET (1 .. FileLimit + 1)
  BY DEF Match, FilesType
<1>2. fl \in FileSets
  BY <1>1 DEF FileSets
<1>3. slots \in [Process -> [Descriptors -> Nat]] /\ dr \in [dv -> Int]
  BY DEF Match, SlotsMatch, DriversMatch
<1> QED BY <1>2, <1>3 DEF ClosingStates, StateOf

\* process_destroy empties the slots of its process one by one.
LEMMA CloseSlotCloses ==
    ASSUME NEW ns, NEW dv, NEW running, NEW st \in ClosingStates(ns, dv, running),
           NEW p \in Process, NEW i \in Descriptors
    PROVE  /\ CloseSlot(st, p, i) \in ClosingStates(ns, dv, running)
           /\ CloseSlot(st, p, i).fd[p][i] = 0
           /\ \A j \in Descriptors : j # i => CloseSlot(st, p, i).fd[p][j] = st.fd[p][j]
<1>1. PICK fl, slots, dr : fl = st.files /\ slots = st.fd /\ dr = st.drivers
  OBVIOUS
<1>2. /\ st = StateOf(ns, fl, slots, dr) /\ Match(ns, fl, slots, dr, dv, running)
      /\ Cardinality(DOMAIN fl) <= FileLimit
  BY <1>1 DEF ClosingStates, StateOf
<1>3. CASE slots[p][i] = 0
  BY <1>1, <1>3 DEF CloseSlot
<1>4. CASE slots[p][i] # 0
  <2>1. PICK f : f = slots[p][i]
    OBVIOUS
  <2>2. f \in DOMAIN fl /\ fl[f].process = p /\ fl[f].fd = i
    BY <1>2, <1>4, <2>1 DEF Match, SlotsMatch
  <2>3. PICK fl2, slots2, dr2 : /\ fl2 = Without(fl, f) /\ slots2 = Emptied(slots, p, i)
                                /\ dr2 = Less(dr, dv, fl[f].node)
    OBVIOUS
  <2>4. FsClose(st, f) = StateOf(ns, fl2, slots2, dr2)
    BY <1>2, <2>2, <2>3, FsCloseFields
  <2>5. Match(ns, fl2, slots2, dr2, dv, running)
    BY <1>2, <2>2, <2>3, FsCloseMatches
  <2>6. Cardinality(DOMAIN fl2) <= FileLimit
    <3>1. FilesType(fl) /\ DOMAIN fl2 \subseteq DOMAIN fl
      BY <1>2, <2>3 DEF Match, Without
    <3>2. Cardinality(DOMAIN fl2) <= Cardinality(DOMAIN fl) /\ IsFiniteSet(DOMAIN fl2)
      BY <3>1, FilesFinite, FS_Subset
    <3>3. Cardinality(DOMAIN fl2) \in Nat /\ Cardinality(DOMAIN fl) \in Nat
      BY <3>1, <3>2, FilesFinite, FS_CardinalityType
    <3> QED BY <1>2, <3>2, <3>3, Constants
  <2>7. StateOf(ns, fl2, slots2, dr2) \in ClosingStates(ns, dv, running)
    BY <2>5, <2>6, ClosingState
  <2>8. slots \in [Process -> [Descriptors -> Nat]]
    BY <1>2 DEF Match, SlotsMatch
  <2>9. slots2[p][i] = 0 /\ \A j \in Descriptors : j # i => slots2[p][j] = slots[p][j]
    BY <2>3, <2>8 DEF Emptied
  <2>10. PICK st2 : st2 = StateOf(ns, fl2, slots2, dr2)
    OBVIOUS
  <2>11. st2.fd = slots2
    BY <2>10 DEF StateOf
  <2>12. CloseSlot(st, p, i) = st2
    BY <1>1, <1>4, <2>1, <2>4, <2>10 DEF CloseSlot
  <2> QED BY <1>1, <2>7, <2>9, <2>10, <2>11, <2>12
<1> QED BY <1>3, <1>4

\* The slots of p below k are empty.
Emptying(ns, dv, running, p) ==
    [k \in 0 .. MaxFiles |-> {st \in ClosingStates(ns, dv, running) :
                                  \A j \in Descriptors : j < k => st.fd[p][j] = 0}]

\* process_destroy leaves no file of its process open.
LEMMA AllClosed ==
    ASSUME NEW ns, NEW dv, NEW running, NEW first \in ClosingStates(ns, dv, running),
           NEW p \in Process, NEW g, g[0] = first,
           \A k \in 1 .. MaxFiles : g[k] = CloseSlot(g[k - 1], p, k - 1)
    PROVE  /\ g[MaxFiles] \in ClosingStates(ns, dv, running)
           /\ \A j \in Descriptors : g[MaxFiles].fd[p][j] = 0
<1>1. PICK n \in Nat \ {0} : n = MaxFiles
  BY Constants
<1>2. Descriptors = 0 .. n - 1
  BY <1>1 DEF Descriptors
<1>3. PICK good : good = Emptying(ns, dv, running, p)
  OBVIOUS
<1>4. \A k \in 0 .. n : good[k] = {st \in ClosingStates(ns, dv, running) :
                                      \A j \in Descriptors : j < k => st.fd[p][j] = 0}
  BY <1>1, <1>3 DEF Emptying
<1>5. g[0] \in good[0]
  <2>1. \A j \in Descriptors : ~ (j < 0)
    BY <1>2
  <2>2. 0 \in 0 .. n
    OBVIOUS
  <2> QED BY <1>4, <2>1, <2>2
<1>6. ASSUME NEW k \in 1 .. n, g[k - 1] \in good[k - 1] PROVE g[k] \in good[k]
  <2>1. k - 1 \in 0 .. n /\ k \in 0 .. n /\ k - 1 \in Descriptors
        /\ \A j \in Descriptors : j < k => j = k - 1 \/ j < k - 1
    BY <1>1, <1>2
  <2>2. PICK st, i : st = g[k - 1] /\ i = k - 1
    OBVIOUS
  <2>3. /\ st \in ClosingStates(ns, dv, running) /\ i \in Descriptors
        /\ \A j \in Descriptors : j < i => st.fd[p][j] = 0
    BY <1>4, <1>6, <2>1, <2>2
  <2>4. PICK st2 : st2 = CloseSlot(st, p, i)
    OBVIOUS
  <2>5. /\ st2 \in ClosingStates(ns, dv, running) /\ st2.fd[p][i] = 0
        /\ \A j \in Descriptors : j # i => st2.fd[p][j] = st.fd[p][j]
    BY <2>3, <2>4, CloseSlotCloses
  <2>6. g[k] = st2
    BY <1>1, <2>2, <2>4
  <2>7. \A j \in Descriptors : j < k => st2.fd[p][j] = 0
    BY <2>1, <2>2, <2>3, <2>5
  <2> QED BY <1>4, <2>1, <2>5, <2>6, <2>7
<1>7. g[n] \in good[n]
  BY <1>5, <1>6, RunsFollow
<1>8. n \in 0 .. n /\ \A j \in Descriptors : j < n
  BY <1>2
<1> QED BY <1>1, <1>4, <1>7, <1>8

\* A process without files goes.
LEMMA ProcessGoes ==
    ASSUME NEW ns, NEW fl, NEW slots, NEW dr, NEW dv, NEW running, NEW p \in Process,
           Match(ns, fl, slots, dr, dv, running), \A j \in Descriptors : slots[p][j] = 0
    PROVE  Match(ns, fl, slots, dr, dv, running \ {p})
<1>1. ASSUME NEW f \in DOMAIN fl PROVE fl[f].process # p
  <2>1. f \in 1 .. FileLimit + 1 /\ fl[f].fd \in Descriptors
    BY DEF Match, FilesType, FileRecords
  <2>2. slots[fl[f].process][fl[f].fd] = f /\ f # 0
    BY <2>1, Constants DEF Match, SlotsMatch
  <2> QED BY <2>1, <2>2
<1>2. SlotsMatch(fl, slots, running \ {p})
  BY <1>1 DEF Match, SlotsMatch
<1> QED BY <1>2 DEF Match

\* process_destroy closes the files of its process slot by slot, keeps the nodes, and takes
\* the process from the list.
LEMMA DestroyStep ==
    ASSUME VfsIInv, NEW p \in Process, Destroy(p)
    PROVE  VfsIInv' /\ nodes' = nodes
<1>1. PICK dv, running : dv = DeviceSet /\ running = Running
  OBVIOUS
<1>2. PICK S : S = ClosingStates(nodes, dv, running)
  OBVIOUS
<1>3. PICK first : first = St
  OBVIOUS
<1>4. first \in S
  <2>1. Match(nodes, files, fd, drivers, dv, running) /\ Cardinality(DOMAIN files) <= FileLimit
    BY <1>1 DEF VfsIInv
  <2>2. first = StateOf(nodes, files, fd, drivers)
    BY <1>3 DEF St, StateOf
  <2> QED BY <1>2, <2>1, <2>2, ClosingState
<1>5. PICK n \in Nat \ {0} : n = MaxFiles
  BY Constants
<1> DEFINE Clauses(f) == f = [k \in 0 .. MaxFiles |->
                                 IF k = 0 THEN St ELSE CloseSlot(f[k - 1], p, k - 1)]
           Closed == CHOOSE f : Clauses(f)
<1>6. PICK step : step = [x \in S \X (1 .. n) |-> CloseSlot(x[1], p, x[2] - 1)]
  OBVIOUS
<1>7. \A x \in S, k \in 1 .. n : CloseSlot(x, p, k - 1) \in S
  <2> SUFFICES ASSUME NEW x \in S, NEW k \in 1 .. n PROVE CloseSlot(x, p, k - 1) \in S
    OBVIOUS
  <2>1. PICK i \in Descriptors : i = k - 1
    BY <1>5 DEF Descriptors
  <2> QED BY <1>2, <2>1, CloseSlotCloses
<1>8. step \in [S \X (1 .. n) -> S]
  BY <1>6, <1>7
<1>9. \E f \in [0 .. n -> S] : IsRun(f, n, first, step)
  BY <1>4, <1>8, StepsExist
<1>10. PICK f \in [0 .. n -> S] :
        f[0] = first /\ \A i \in 1 .. n : f[i] = step[<<f[i - 1], i>>]
  BY <1>9 DEF IsRun
<1>11. Clauses(f)
  <2>1. ASSUME NEW i \in 0 .. n, i # 0 PROVE f[i] = CloseSlot(f[i - 1], p, i - 1)
    <3>1. i \in 1 .. n /\ i - 1 \in 0 .. n
      BY <1>5, <2>1
    <3>2. f[i - 1] \in S
      BY <1>10, <3>1
    <3> QED BY <1>6, <1>10, <3>1, <3>2
  <2>2. f[0] = St
    BY <1>3, <1>10
  <2> QED BY <1>5, <1>10, <2>1, <2>2
<1>12. Clauses(Closed)
  <2> HIDE DEF Clauses
  <2> QED BY <1>11, Zenon
<1>13. PICK g : g = Closed /\ Clauses(g)
  BY <1>12
<1>14. Becomes(Closed[MaxFiles]) /\ live' = Unlink(live, p) /\ UNCHANGED devices /\ Runs(p)
  BY Zenon DEF Destroy, Closed, Clauses
<1> HIDE DEF Closed
<1>15. /\ g[0] = first
       /\ \A k \in 1 .. MaxFiles : g[k] = CloseSlot(g[k - 1], p, k - 1)
  <2>1. g[0] = first
    BY <1>3, <1>5, <1>13
  <2>2. ASSUME NEW k \in 1 .. MaxFiles PROVE g[k] = CloseSlot(g[k - 1], p, k - 1)
    <3>1. k \in 0 .. MaxFiles /\ k # 0
      BY <1>5
    <3> QED BY <1>13, <3>1
  <2> QED BY <2>1, <2>2
<1>16. PICK last : last = g[MaxFiles]
  OBVIOUS
<1>17. last \in S /\ \A j \in Descriptors : last.fd[p][j] = 0
  <2> HIDE DEF Clauses
  <2> QED BY <1>2, <1>4, <1>15, <1>16, AllClosed
<1>18. Becomes(last)
  BY <1>13, <1>14, <1>16
<1>19. PICK ns, fl, slots, dr :
        ns = last.nodes /\ fl = last.files /\ slots = last.fd /\ dr = last.drivers
  OBVIOUS
<1>20. /\ Match(ns, fl, slots, dr, dv, running) /\ Cardinality(DOMAIN fl) <= FileLimit /\ ns = nodes
       /\ \A j \in Descriptors : slots[p][j] = 0
  BY <1>2, <1>17, <1>19 DEF ClosingStates
<1>21. nodes' = ns /\ files' = fl /\ fd' = slots /\ drivers' = dr
  BY <1>18, <1>19 DEF Becomes
<1>22. Match(ns, fl, slots, dr, dv, running \ {p})
  BY <1>20, ProcessGoes
<1>23. PICK list : list = Unlink(live, p)
  OBVIOUS
<1>24. LacksOnly(list, live, p)
  <2>1. live \in Seq(Process) /\ \A i, j \in DOMAIN live : live[i] = live[j] => i = j
    BY DEF VfsIInv
  <2>2. \E i \in DOMAIN live : live[i] = p
    BY <1>14 DEF Runs
  <2> QED BY <1>23, <2>1, <2>2, UnlinkKeeps
<1>25. live' = list /\ devices' = devices
  BY <1>14, <1>23
<1>26. DeviceSet' = dv /\ Running' = running \ {p}
  BY <1>1, <1>24, <1>25 DEF DeviceSet, Running, LacksOnly
<1>27. Match(nodes', files', fd', drivers', DeviceSet', Running')
  BY <1>21, <1>22, <1>26
<1>28. Match(nodes, files, fd, drivers, DeviceSet, Running)'
  BY <1>27
<1>29. devices' \in Seq(Ids)
  BY <1>25 DEF VfsIInv
<1>30. live' \in Seq(Process) /\ \A i, j \in DOMAIN live' : live'[i] = live'[j] => i = j
  BY <1>24, <1>25 DEF LacksOnly
<1>31. Cardinality(DOMAIN files') <= FileLimit
  BY <1>20, <1>21
<1> QED BY <1>20, <1>21, <1>28, <1>29, <1>30, <1>31 DEF VfsIInv

\* kmain leaves a tree with its devices, no file, and the first process.
LEMMA InitStep ==
    ASSUME VfsInit
    PROVE  VfsIInv
<1>1. PICK dv : dv = BootDeviceIds
  OBVIOUS
<1>2. devices \in Seq(Ids) /\ DeviceSet = dv
  BY <1>1, BootList DEF ListOf, DeviceSet
<1>3. live = <<FirstProcess>> /\ FirstProcess \in Process
  BY VfsAssumption DEF VfsInit
<1>4. /\ live \in Seq(Process) /\ \A i, j \in DOMAIN live : live[i] = live[j] => i = j
      /\ Running = {FirstProcess}
  BY <1>3 DEF Running
<1>5. Tree(nodes, dv)
  BY <1>1, BootTree DEF VfsInit
<1>6. DOMAIN files = {} /\ files = [f \in DOMAIN files |-> files[f]]
  BY DEF VfsInit
<1>7. FilesType(files) /\ FilesLead(nodes, files)
  BY <1>6 DEF FilesType, FilesLead
<1>8. fd \in [Process -> [Descriptors -> Nat]] /\ \A p \in Process, i \in Descriptors : fd[p][i] = 0
  BY DEF VfsInit
<1>9. SlotsMatch(files, fd, Running)
  BY <1>6, <1>8 DEF SlotsMatch
<1>10. DriversMatch(files, drivers, dv)
  <2>1. drivers = [n \in dv |-> 0]
    BY <1>2 DEF VfsInit, DeviceSet
  <2>2. \A n \in dv : OpenOn(files, n) = {}
    BY <1>6 DEF OpenOn
  <2>3. \A n \in dv : Cardinality(OpenOn(files, n)) = 0
    BY <2>2, FS_EmptySet
  <2> QED BY <2>1, <2>3 DEF DriversMatch
<1>11. Cardinality(DOMAIN files) <= FileLimit
  BY <1>6, FS_EmptySet, Constants
<1> QED BY <1>2, <1>4, <1>5, <1>7, <1>9, <1>10, <1>11 DEF VfsIInv, Match

\* The paths of the calls.
PathsGiven ==
    /\ \A p \in Process : /\ CallPaths[p].open \subseteq PathNames
                          /\ CallPaths[p].chdir \subseteq PathNames
                          /\ CallPaths[p].stat \subseteq PathNames
    /\ MkdirPaths \subseteq PathNames
    /\ \A pair \in MountPairs : pair[1] \in PathNames /\ pair[2] \in PathNames

\* The paths that a program may use are paths.
LEMMA GivenPaths == PathsGiven
<1>1. PICK all : all = PathNames
  OBVIOUS
<1>2. /\ CallPaths \in [Process -> [{"open", "chdir", "stat"} -> SUBSET all]]
      /\ MkdirPaths \subseteq all /\ MountPairs \subseteq all \X all
  BY <1>1, VfsAssumption
<1>3. \A p \in Process : /\ CallPaths[p].open \subseteq all
                         /\ CallPaths[p].chdir \subseteq all
                         /\ CallPaths[p].stat \subseteq all
  BY <1>2
<1>4. \A pair \in MountPairs : pair[1] \in all /\ pair[2] \in all
  BY <1>2
<1> QED BY <1>1, <1>2, <1>3, <1>4 DEF PathsGiven

\* Every call keeps the invariant.
LEMMA NextStep ==
    ASSUME VfsIInv, VfsNext
    PROVE  VfsIInv'
<1>1. PathsGiven
  BY GivenPaths
<1>2. ASSUME NEW p \in Process, NEW path \in CallPaths[p].open, NEW flags \in {"r", "w"},
             Open(p, path, flags)
      PROVE  VfsIInv'
  BY <1>1, <1>2, OpenStep DEF PathsGiven
<1>3. ASSUME NEW p \in Process, NEW path \in CallPaths[p].chdir, Chdir(p, path)
      PROVE  VfsIInv'
  BY <1>1, <1>3, ChdirStep DEF PathsGiven
<1>4. ASSUME NEW p \in Process, NEW path \in CallPaths[p].stat, Stat(p, path)
      PROVE  VfsIInv'
  BY <1>1, <1>4, StatStep DEF PathsGiven
<1>5. ASSUME NEW p \in Process, NEW i \in Descriptors, NEW path \in CallPaths[p].stat,
             StatAt(p, i, path)
      PROVE  VfsIInv'
  BY <1>1, <1>5, StatAtStep DEF PathsGiven
<1>6. ASSUME NEW p \in Process, NEW path \in MkdirPaths, Mkdir(p, path)
      PROVE  VfsIInv'
  BY <1>1, <1>6, MkdirStep DEF PathsGiven
<1>7. ASSUME NEW p \in Process, NEW pair \in MountPairs, NEW type \in Registered \cup {"ext2"},
             Mount(p, type, pair[1], pair[2])
      PROVE  VfsIInv'
  BY <1>1, <1>7, MountStep DEF PathsGiven
<1>8. ASSUME NEW p \in Process, NEW pair \in MountPairs, Unmount(p, pair[2])
      PROVE  VfsIInv'
  BY <1>1, <1>8, UnmountStep DEF PathsGiven
<1>9. ASSUME NEW p \in Process, NEW i \in Descriptors, CloseFd(p, i)
      PROVE  VfsIInv'
  BY <1>9, CloseFdStep
<1>10. ASSUME NEW p \in Process, NEW i \in Descriptors, Fstat(p, i)
      PROVE  VfsIInv'
  BY <1>10, FstatStep
<1>11. ASSUME NEW name \in DOMAIN DeviceType, RegisterDevice(name)
      PROVE  VfsIInv'
  BY <1>11, RegisterDeviceStep
<1>12. ASSUME NEW p \in Process, NEW q \in Process, NEW i \in DOMAIN devices,
              nodes[devices[i]].type = {"CHAR"}, Spawn(p, q, devices[i])
      PROVE  VfsIInv'
  BY <1>12, SpawnStep
<1>13. ASSUME NEW p \in Process, Destroy(p)
      PROVE  VfsIInv'
  BY <1>13, DestroyStep
<1> QED BY <1>2, <1>3, <1>4, <1>5, <1>6, <1>7, <1>8, <1>9, <1>10, <1>11, <1>12, <1>13 DEF VfsNext

\* Nothing changes.
LEMMA StutterStep ==
    ASSUME VfsIInv, UNCHANGED vfsVars
    PROVE  VfsIInv'
<1>1. /\ nodes' = nodes /\ devices' = devices /\ live' = live /\ files' = files /\ fd' = fd
      /\ drivers' = drivers
  BY DEF vfsVars
<1>2. DeviceSet' = DeviceSet /\ Running' = Running
  BY <1>1 DEF DeviceSet, Running
<1>3. Match(nodes, files, fd, drivers, DeviceSet, Running)
  BY DEF VfsIInv
<1>4. Match(nodes', files', fd', drivers', DeviceSet', Running')
  BY <1>1, <1>2, <1>3
<1>5. Match(nodes, files, fd, drivers, DeviceSet, Running)'
  BY <1>4
<1> QED BY <1>1, <1>5 DEF VfsIInv

\* The descriptors that processes hold, the files that are open and what the drivers count
\* agree, whatever paths are opened, however many descriptors and volumes there are, and
\* through failed opens, full tables, processes that end with files open, mounts and
\* lookups that make nodes: fs_open_for_process, fs_close and process_destroy.
THEOREM DescriptorsAgree == VfsSpec => []DescriptorsMatch
<1>1. VfsInit => VfsIInv
  BY InitStep
<1>2. VfsIInv /\ [VfsNext]_vfsVars => VfsIInv'
  BY NextStep, StutterStep
<1>3. VfsIInv => DescriptorsMatch
  <2> SUFFICES ASSUME VfsIInv PROVE DescriptorsMatch
    OBVIOUS
  <2>1. Match(nodes, files, fd, drivers, DeviceSet, Running)
    BY DEF VfsIInv
  <2>2. \A p : Runs(p) <=> p \in Running
    BY IInvFacts
  <2>3. \A p \in Process, i \in Descriptors : fd[p][i] # 0 =>
           /\ fd[p][i] \in DOMAIN files
           /\ files[fd[p][i]].process = p /\ files[fd[p][i]].fd = i
    BY <2>1 DEF Match, SlotsMatch
  <2>4. \A f \in DOMAIN files :
           /\ Runs(files[f].process) /\ fd[files[f].process][files[f].fd] = f
    BY <2>1, <2>2 DEF Match, SlotsMatch
  <2>5. \A n \in DOMAIN drivers :
           drivers[n] = Cardinality({f \in DOMAIN files : files[f].node = n})
    BY <2>1 DEF Match, DriversMatch, OpenOn
  <2>6. \A f \in DOMAIN files : files[f].fil =>
           files[f].node \in DOMAIN nodes /\ nodes[files[f].node].fs = "fat"
    BY <2>1 DEF Match, FilesLead
  <2> QED BY <2>3, <2>4, <2>5, <2>6 DEF DescriptorsMatch
<1> QED BY <1>1, <1>2, <1>3, PTL DEF VfsSpec
=============================================================================
