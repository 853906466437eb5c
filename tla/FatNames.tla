------------------------------ MODULE FatNames ------------------------------
(***************************************************************************)
(* The names in one directory of a FAT volume (fatfs_ff.c, with            *)
(* FF_USE_LFN = 2, FF_LFN_UNICODE = 0, FF_CODE_PAGE = 437 and no relative  *)
(* paths).  An object has a short name of 8 + 3 characters in its own      *)
(* entry and, when that is not the whole truth, a long name in entries     *)
(* before it, last part first, tied to the short name by its checksum.     *)
(* Names are sequences of OEM codes, long names in the directory are       *)
(* sequences of Unicode characters.  The clusters behind the entries, and  *)
(* directories that grow, are in Fat; this directory is a table of a fixed *)
(* size, as the root directory of FAT12 and FAT16 is.                      *)
(*                                                                         *)
(* held is a history variable: which name the callers of the interface     *)
(* gave to which entry.                                                    *)
(***************************************************************************)
EXTENDS Integers, Sequences, FiniteSets, SequencesExt, Bitwise

CONSTANTS
    FoundDirs,      \* the directories a volume may come with, of one length
    Names,      \* the names callers use
    NamePairs   \* the pairs of names f_rename is called with

VARIABLES
    slots,      \* the entries of the directory
    held        \* history: the entries, and the name each was given

nameVars == <<slots, held>>

FF_MAX_LFN == 255
PartSize == 13
DDEM == 229
RDDEM == 5
Space == 32
Dot == 46
Underscore == 95
None == 0

\* Kinds of entries: blank ends the directory, deleted is free, label stands
\* for volume labels, dot for the entries "." and "..".
Blank == [kind |-> "blank"]
Deleted == [kind |-> "deleted"]
Label == [kind |-> "label"]
DotEntry == [kind |-> "dot"]
ShortEntry(fn, ntres) == [kind |-> "sfn", fn |-> fn, ntres |-> ntres]

(***************************************************************************)
(* Characters.  Of the tables, the part for the letters that the names of  *)
(* this model have: e and E with an acute accent, and the Greek sigma,     *)
(* whose code is that of the mark for deleted entries.                     *)
(***************************************************************************)
uc437 == [c \in {130, 144, 229} |->
            CASE c = 130 -> 233 [] c = 144 -> 201 [] c = 229 -> 963]

ff_oem2uni(c) == IF c < 128 THEN c ELSE uc437[c]

ff_uni2oem(u) ==
    IF u < 128 THEN u ELSE CHOOSE c \in DOMAIN uc437 : uc437[c] = u

ff_wtoupper(u) ==
    IF u \in 97 .. 122 \cup 224 .. 246 THEN u - 32
    ELSE IF u \in {962, 963} THEN 931
    ELSE u

\* ExCvt, the capital of an extended character among the OEM codes.
ExCvt(c) == IF c = 130 THEN 69 ELSE c

UpperCase == 65 .. 90
LowerCase == 97 .. 122
IllegalInLong == {34, 42, 58, 60, 62, 63, 124, 127}   \* "*:<>?| and DEL
IllegalInShort == {43, 44, 59, 61, 91, 93}            \* +,;=[]

(***************************************************************************)
(* create_name: the long and the short form of a name.                     *)
(***************************************************************************)
Snipped(name) ==
    LET kept == {i \in 1 .. Len(name) : name[i] \notin {Space, Dot}}
    IN  SubSeq(name, 1, IF kept = {} THEN 0 ELSE CHOOSE i \in kept : \A j \in kept : j <= i)

ValidName(name) ==
    /\ Len(name) <= FF_MAX_LFN
    /\ \A i \in 1 .. Len(name) : name[i] \notin IllegalInLong
    /\ Snipped(name) # <<>>

\* Where the last dot of a name is, 0 if it has none.
LastDot(name) ==
    LET dots == {i \in 1 .. Len(name) : name[i] = Dot}
    IN  IF dots = {} THEN 0 ELSE CHOOSE i \in dots : \A j \in dots : j <= i

Solid(part) == SelectSeq(part, LAMBDA c : c \notin {Space, Dot})
Body(name) ==
    Solid(SubSeq(name, 1, IF LastDot(name) = 0 THEN Len(name) ELSE LastDot(name) - 1))
Extension(name) ==
    IF LastDot(name) = 0 THEN <<>>
    ELSE Solid(SubSeq(name, LastDot(name) + 1, Len(name)))

\* One character of a short name.
ShortChar(c) ==
    LET oem == IF c >= 128 THEN ExCvt(c) ELSE c
    IN  IF oem \in IllegalInShort THEN Underscore
        ELSE IF oem \in LowerCase THEN oem - 32 ELSE oem

Field(part, size) ==
    [i \in 1 .. size |-> IF i <= Len(part) THEN ShortChar(part[i]) ELSE Space]

\* If the first character is that of the mark for deleted entries, another
\* stands for it.
ShortName(name) ==
    LET fn == Field(Body(name), 8) \o Field(Extension(name), 3)
    IN  [fn EXCEPT ![1] = IF @ = DDEM THEN RDDEM ELSE @]

\* NS_LOSS: the short name is not the name.
Lossy(name) ==
    \/ name[1] \in {Space, Dot}
    \/ \E i \in 1 .. Len(name) : \/ name[i] \in {Space} \cup IllegalInShort
                                 \/ name[i] = Dot /\ i # LastDot(name)
    \/ Len(Body(name)) > 8
    \/ Len(Extension(name)) > 3

HasLower(part) == \E i \in 1 .. Len(part) : part[i] \in LowerCase
HasUpper(part) == \E i \in 1 .. Len(part) : part[i] \in UpperCase
Mixed(part) == HasLower(part) /\ HasUpper(part)

\* NS_LFN: the name needs entries for its long form.
NeedsLong(name) ==
    \/ Lossy(name)
    \/ \E i \in 1 .. Len(name) : name[i] >= 128
    \/ Mixed(Body(name)) \/ Mixed(Extension(name))

CaseFlags(name) ==
    IF NeedsLong(name) THEN {}
    ELSE (IF HasLower(Body(name)) THEN {"BODY"} ELSE {})
           \cup (IF HasLower(Extension(name)) THEN {"EXT"} ELSE {})

create_name(name) ==
    LET n == Snipped(name)
    IN  [lfn |-> [i \in 1 .. Len(n) |-> ff_oem2uni(n[i])], fn |-> ShortName(n),
         loss |-> Lossy(n), long |-> NeedsLong(n), flags |-> CaseFlags(n), nolfn |-> FALSE]

(***************************************************************************)
(* Entries.                                                                *)
(***************************************************************************)
\* sum_sfn: the checksum of a short name, eight bits that rotate.
sum_sfn(fn) ==
    FoldLeft(LAMBDA sum, c : (sum \div 2 + (sum % 2) * 128 + c) % 256, 0, fn)

\* put_lfn: the part of a long name in the entry with this number.
put_lfn(lfn, ord, sum) ==
    [kind |-> "lfn", ord |-> ord, last |-> Len(lfn) <= ord * PartSize, sum |-> sum,
     part |-> [s \in 1 .. PartSize |->
                 LET i == (ord - 1) * PartSize + s
                 IN  IF i <= Len(lfn) THEN lfn[i]
                     ELSE IF i = Len(lfn) + 1 THEN 0 ELSE 65535]]

Before(part, s) == \A t \in 1 .. s - 1 : part[t] # 0

\* What the name buffer holds at an index: behind the terminator whatever was
\* there before, which may or may not match.
BufferIs(lfn, i, u, chance) ==
    IF i <= Len(lfn) THEN ff_wtoupper(lfn[i]) = ff_wtoupper(u)
    ELSE IF i = Len(lfn) + 1 THEN u = 0
    ELSE chance

\* cmp_lfn: does an entry hold its part of the name?
cmp_lfn(lfn, e, chance) ==
    LET first == (e.ord - 1) * PartSize
    IN  /\ \A s \in 1 .. PartSize :
             IF Before(e.part, s)
             THEN first + s <= FF_MAX_LFN /\ BufferIs(lfn, first + s, e.part[s], chance)
             ELSE e.part[s] = 65535
        /\ e.last /\ Before(e.part, PartSize + 1) =>
             BufferIs(lfn, first + PartSize + 1, 0, chance)

\* pick_lfn: can the part be taken over into the name buffer?
pick_lfn(e) ==
    LET first == (e.ord - 1) * PartSize
        used == {s \in 1 .. PartSize : Before(e.part, s)}
    IN  /\ \A s \in used : first + s <= FF_MAX_LFN
        /\ \A s \in 1 .. PartSize : s \notin used => e.part[s] = 65535
        /\ e.last => first + Cardinality(used) < FF_MAX_LFN

(***************************************************************************)
(* The walk of dir_find and dir_read over the entries.  It remembers which *)
(* part of a long name has to come next (0: all are there, 255: there is   *)
(* no long name), the checksum and where the long name began.              *)
(***************************************************************************)
NoLfn == [ord |-> 255, sum |-> 255, blk |-> None]

AfterLfn(st, e, i, accepts) ==
    LET s == IF e.last THEN [ord |-> e.ord, sum |-> e.sum, blk |-> i] ELSE st
    IN  [s EXCEPT !.ord = IF e.ord = s.ord /\ e.sum = s.sum /\ accepts
                          THEN s.ord - 1 ELSE 255]

\* Where the directory has parts of long names.
LongParts(d) == {i \in 1 .. Len(d) : d[i].kind = "lfn"}

\* The state before each entry, when the parts at good are the acceptable ones.
Walk(d, good) ==
    LET st[i \in 1 .. Len(d) + 1] ==
          IF i = 1 THEN NoLfn
          ELSE IF d[i - 1].kind = "lfn"
               THEN AfterLfn(st[i - 1], d[i - 1], i - 1, i - 1 \in good)
               ELSE NoLfn
    IN  st

\* The first entry that nothing comes behind.
End(d) ==
    LET blanks == {i \in 1 .. Len(d) : d[i].kind = "blank"}
    IN  IF blanks = {} THEN Len(d) + 1 ELSE CHOOSE i \in blanks : \A j \in blanks : i <= j

\* The entry that ends the search, and where its long name begins.
FirstHit(st, hits) ==
    IF hits = {} THEN [at |-> None, blk |-> None]
    ELSE LET i == CHOOSE i \in hits : \A j \in hits : i <= j
         IN  [at |-> i, blk |-> st[i].blk]

Hits(d, dp, st) ==
    {i \in 1 .. End(d) - 1 :
       /\ d[i].kind = "sfn"
       /\ \/ st[i].ord = 0 /\ st[i].sum = sum_sfn(d[i].fn)
          \/ ~dp.loss /\ d[i].fn = dp.fn}

\* dir_find: the entry of a name.
dir_find(d, dp, chance) ==
    LET good == {i \in LongParts(d) : ~dp.nolfn /\ cmp_lfn(dp.lfn, d[i], chance)}
        st == Walk(d, good)
    IN  FirstHit(st, Hits(d, dp, st))

\* The long name that dir_read has put together when it reaches an entry.
Captured(d, blk, at) ==
    LET chars == FlattenSeq([k \in 1 .. at - blk |-> d[at - k].part])
    IN  SelectSeq(chars, LAMBDA u : u \notin {0, 65535})

\* The short name with its dot.
AltName(fn) ==
    LET restored == [fn EXCEPT ![1] = IF @ = RDDEM THEN DDEM ELSE @]
        ext == SelectSeq(SubSeq(restored, 9, 11), LAMBDA c : c # Space)
    IN  SelectSeq(SubSeq(restored, 1, 8), LAMBDA c : c # Space)
          \o (IF ext = <<>> THEN <<>> ELSE <<Dot>> \o ext)

\* get_fileinfo: the name an entry is shown with.  The position that decides
\* between the two case flags is one in the shortened name.
ShownName(d, st, i) ==
    LET alt == AltName(d[i].fn)
        small == [k \in 1 .. Len(alt) |->
                    IF /\ alt[k] \in UpperCase
                       /\ (IF k >= 10 THEN "EXT" ELSE "BODY") \in d[i].ntres
                    THEN alt[k] + 32 ELSE alt[k]]
        long == Captured(d, st.blk, i)
    IN  IF st.ord = 0 /\ st.sum = sum_sfn(d[i].fn)
        THEN [k \in 1 .. Len(long) |-> ff_uni2oem(long[k])]
        ELSE small

\* What f_readdir shows, call by call: dir_read skips labels and dot entries.
Shown(d, st) ==
    {[at |-> i, name |-> ShownName(d, st[i], i)] :
       i \in {j \in 1 .. End(d) - 1 : d[j].kind = "sfn"}}

Listing(d) == Shown(d, Walk(d, {i \in LongParts(d) : pick_lfn(d[i])}))

(***************************************************************************)
(* Making and removing entries.                                            *)
(***************************************************************************)
HexDigit(n) == IF n < 10 THEN 48 + n ELSE 55 + n

Hex(n) ==
    LET digits[k \in Nat] ==
          IF k < 16 THEN <<HexDigit(k)>> ELSE digits[k \div 16] \o <<HexDigit(k % 16)>>
    IN  digits[n]

\* The hash of a long name that replaces the number after many collisions.
HashStep(sr, bit) ==
    LET s == sr * 2 + bit IN IF (s \div 65536) % 2 = 1 THEN s ^^ 69665 ELSE s

Crc(seq, lfn) ==
    FoldLeft(LAMBDA sr, u :
               FoldLeft(LAMBDA r, k : HashStep(r, (u \div 2^(k - 1)) % 2),
                        sr, [k \in 1 .. 16 |-> k]),
             seq, lfn)

\* gen_numname: the short name with "~" and a number.
gen_numname(fn, lfn, seq) ==
    LET tail == <<126>> \o Hex(IF seq > 5 THEN Crc(seq, lfn) ELSE seq)
        solid == {i \in 1 .. 8 : \A j \in 1 .. i : fn[j] # Space}
        keep == IF Cardinality(solid) < 8 - Len(tail) THEN Cardinality(solid)
                ELSE 8 - Len(tail)
    IN  [i \in 1 .. 11 |->
           IF i <= keep \/ i > 8 THEN fn[i]
           ELSE IF i <= keep + Len(tail) THEN tail[i - keep] ELSE Space]

\* Is the short name with this number free?
NumberFree(d, dp, n) ==
    dir_find(d, [dp EXCEPT !.fn = gen_numname(dp.fn, dp.lfn, n), !.loss = FALSE,
                           !.nolfn = TRUE], FALSE).at = None

\* The first number whose short name is free, 100 if there is none.
FirstNumber(d, dp) ==
    LET first[n \in 1 .. 100] ==
          IF n = 100 \/ NumberFree(d, dp, n) THEN n ELSE first[n + 1]
    IN  first[1]

\* dir_alloc: the last entry of the first run of n free ones.
dir_alloc(d, n) ==
    LET ends == {i \in n .. Len(d) :
                   \A j \in i - n + 1 .. i : d[j].kind \in {"blank", "deleted"}}
    IN  IF ends = {} THEN None ELSE CHOOSE i \in ends : \A j \in ends : i <= j

LongEntries(dp) == IF dp.long THEN (Len(dp.lfn) + PartSize - 1) \div PartSize ELSE 0

\* The entries of an object, with its short name fn in the one at `at' and its
\* long name in the n before it.
EntriesOf(d, dp, fn, n, at) ==
    [i \in 1 .. Len(d) |->
       IF i = at THEN ShortEntry(fn, dp.flags)
       ELSE IF i \in at - n .. at - 1 THEN put_lfn(dp.lfn, at - i, sum_sfn(fn))
       ELSE d[i]]

MakeEntries(d, dp, number, at) ==
    IF (dp.loss /\ number = 100) \/ at = None THEN [at |-> None, dir |-> d]
    ELSE [at |-> at,
          dir |-> EntriesOf(d, dp,
                          IF dp.loss THEN gen_numname(dp.fn, dp.lfn, number) ELSE dp.fn,
                          LongEntries(dp), at)]

\* dir_register: the directory with the new entries, and where the object is
\* in it; None if there are too many collisions or no free entries.
dir_register(d, dp) ==
    MakeEntries(d, dp, FirstNumber(d, dp), dir_alloc(d, LongEntries(dp) + 1))

\* Faulty variant: only the entry with the short name is removed.
DirRemoveShort(d, found) == [d EXCEPT ![found.at] = Deleted]

dir_remove(d, found) ==
    LET first == IF found.blk = None THEN found.at ELSE found.blk
    IN  [i \in 1 .. Len(d) |-> IF i \in first .. found.at THEN Deleted ELSE d[i]]

(***************************************************************************)
(* The calls.                                                              *)
(***************************************************************************)
NamesInit ==
    /\ slots \in FoundDirs
    /\ held = Listing(slots)

\* f_open with FA_CREATE_NEW, f_mkdir: an object with a name that is not there.
CreateObject(name) ==
    /\ ValidName(name)
    /\ \E dp \in {create_name(name)} : \E new \in {dir_register(slots, dp)} :
          /\ \E chance \in BOOLEAN : dir_find(slots, dp, chance).at = None
          /\ new.at # None
          /\ slots' = new.dir
          /\ held' = held \cup {[at |-> new.at, name |-> Snipped(name)]}

\* f_unlink: the object that a name finds goes.
RemoveObject(name) ==
    /\ ValidName(name)
    /\ \E chance \in BOOLEAN :
       \E found \in {dir_find(slots, create_name(name), chance)} :
          /\ found.at # None
          /\ slots' = dir_remove(slots, found)
          /\ held' = {h \in held : h.at # found.at}

\* f_rename within the directory.  The new name may find the object itself;
\* its entries are made before the old ones go.
RenameObject(old, new) ==
    /\ ValidName(old) /\ ValidName(new)
    /\ \E chance \in BOOLEAN, dp \in {create_name(new)} :
       \E found \in {dir_find(slots, create_name(old), chance)},
          made \in {dir_register(slots, dp)} :
          /\ found.at # None
          /\ dir_find(slots, dp, chance).at \in {None, found.at}
          /\ made.at # None
          /\ slots' = dir_remove(made.dir, found)
          /\ held' = {h \in held : h.at # found.at}
                       \cup {[at |-> made.at, name |-> Snipped(new)]}

NamesNext ==
    \/ \E name \in Names : CreateObject(name) \/ RemoveObject(name)
    \/ \E pair \in NamePairs : RenameObject(pair[1], pair[2])

(***************************************************************************)
(* Properties.                                                             *)
(***************************************************************************)
SameName(a, b) ==
    /\ Len(a) = Len(b)
    /\ \A i \in 1 .. Len(a) : ff_wtoupper(ff_oem2uni(a[i])) = ff_wtoupper(ff_oem2uni(b[i]))

Finds(name, at) ==
    \A chance \in BOOLEAN : dir_find(slots, create_name(name), chance).at = at

\* The entries before an object that belong to its long name.
LongPart(i) ==
    IF slots[i].kind # "sfn" THEN {}
    ELSE {j \in 1 .. i - 1 : \A k \in j .. i - 1 :
            slots[k].kind = "lfn" /\ slots[k].sum = sum_sfn(slots[i].fn)
              /\ slots[k].ord = i - k}

\* The directory is a map from names to objects.  What f_readdir lists is what
\* was created or renamed and not removed, under the name it was given (but for
\* case); every listed name, and every name given, leads dir_find to its object,
\* whatever the name buffer held before; short names are unique; nothing lies
\* behind the end mark; and no entry of a long name survives its object.
DirectoryIsMap ==
    LET listed == Listing(slots)
    IN  /\ {l.at : l \in listed} = {h.at : h \in held}
        /\ \A l \in listed, h \in held : l.at = h.at => SameName(l.name, h.name)
        /\ \A l \in listed : Finds(l.name, l.at)
        /\ \A h \in held : Finds(h.name, h.at)
        /\ \A i, j \in {h.at : h \in held} : slots[i].fn = slots[j].fn => i = j
        /\ \A i \in End(slots) .. Len(slots) : slots[i].kind = "blank"
        /\ \A i \in 1 .. Len(slots) :
             slots[i].kind = "lfn" =>
               \/ \E h \in held : i \in LongPart(h.at)
               \/ \E d \in FoundDirs : d[i] = slots[i]
=============================================================================
