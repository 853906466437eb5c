----------------------------- MODULE NameProofs -----------------------------
(***************************************************************************)
(* In the tree of the virtual file system every name leads where it        *)
(* should: a look-up finds the node whose own path is the one that was     *)
(* asked for, through mounts and through the nodes that FAT makes as it    *)
(* goes, getcwd spells the path of the working directory, and the roots of *)
(* volumes hang where their disks are mounted.  Proved for any devices,    *)
(* volumes, contents of disks, processes and paths, from an order of the   *)
(* tree that each call keeps.                                              *)
(***************************************************************************)
EXTENDS FileProofs

-----------------------------------------------------------------------------
(***************************************************************************)
(* From a node up to the top of the tree, or to the root of a volume.      *)
(***************************************************************************)

\* From every node of D the parents lead up to Top, by names of W.
Rises(ns, Top, D, W) ==
    /\ D \in SUBSET Ids
    /\ \A m \in D : ns[m].name \in W
    /\ \A m \in D : m \in Top \/ (ns[m].parent \in D /\ Len(ns[m].parent) < Len(m))

\* Such a climb ends.
LEMMA ClimbEnds ==
    ASSUME NEW ns, NEW Top, NEW W, NEW D, Rises(ns, Top, D, W), NEW node \in D
    PROVE  /\ Climbed(ns, Top, node).at \in D \cap Top
           /\ Climbed(ns, Top, node).names \in Seq(W)
<1>1. PICK n \in Nat : n = Len(node)
  BY LenProperties DEF Rises, Ids
<1>2. PICK g : IsClimb(ns, Top, D, W, node, g)
  BY ClimbRun DEF Rises
<1>3. PICK S : S = [at : D, names : Seq(W)]
  OBVIOUS
<1>4. /\ g[0].at = node /\ Climbed(ns, Top, node) = g[n]
      /\ \A i \in 1 .. n : g[i] = Climb(ns, Top, g[i - 1])
      /\ \A i \in 0 .. n : g[i] \in S
  BY <1>1, <1>2, <1>3 DEF IsClimb
<1>5. PICK Good : Good = [i \in 0 .. n |-> {x \in S : x.at \in Top \/ Len(x.at) + i <= n}]
  OBVIOUS
<1>6. g[0] \in Good[0]
  BY <1>1, <1>4, <1>5
<1>7. ASSUME NEW i \in 1 .. n, g[i - 1] \in Good[i - 1] PROVE g[i] \in Good[i]
  <2>1. i - 1 \in 0 .. n /\ i \in 0 .. n
    OBVIOUS
  <2>2. PICK m : m = g[i - 1].at
    OBVIOUS
  <2>3. m \in D /\ (m \in Top \/ Len(m) + (i - 1) <= n)
    BY <1>3, <1>4, <1>5, <1>7, <2>1, <2>2
  <2>4. CASE m \in Top
    <3>1. g[i] = g[i - 1]
      BY <1>4, <2>2, <2>4 DEF Climb
    <3> QED BY <1>4, <1>5, <2>1, <2>2, <2>4, <3>1
  <2>5. CASE m \notin Top
    <3>1. ns[m].parent \in D /\ Len(ns[m].parent) < Len(m)
      BY <2>3, <2>5 DEF Rises
    <3>2. PICK a \in Nat, b \in Nat : a = Len(ns[m].parent) /\ b = Len(m)
      BY <2>3, <3>1, LenProperties DEF Rises, Ids
    <3>3. a + i <= n
      BY <2>3, <2>5, <3>1, <3>2
    <3>4. PICK y : y = g[i]
      OBVIOUS
    <3>5. y = Climb(ns, Top, g[i - 1])
      BY <1>4, <3>4
    <3>6. y.at = ns[m].parent
      BY <2>2, <2>5, <3>5 DEF Climb
    <3>7. y \in S /\ Len(y.at) + i <= n
      BY <1>4, <2>1, <3>2, <3>3, <3>4, <3>6
    <3> QED BY <1>5, <2>1, <3>4, <3>7
  <2> QED BY <2>4, <2>5
<1>8. g[n] \in Good[n]
  BY <1>6, <1>7, RunsFollow
<1>9. n \in 0 .. n
  OBVIOUS
<1>10. PICK m : m = g[n].at
  OBVIOUS
<1>11. g[n] \in S /\ m \in D /\ (m \in Top \/ Len(m) + n <= n)
  BY <1>3, <1>4, <1>5, <1>8, <1>9, <1>10
<1>12. m \in Top
  <2> SUFFICES ASSUME m \notin Top PROVE FALSE
    OBVIOUS
  <2>1. ns[m].parent \in D /\ Len(ns[m].parent) < Len(m)
    BY <1>11 DEF Rises
  <2>2. Len(ns[m].parent) \in Nat /\ Len(m) \in Nat
    BY <1>11, <2>1, LenProperties DEF Rises, Ids
  <2> QED BY <1>11, <2>1, <2>2
<1> QED BY <1>3, <1>4, <1>10, <1>11, <1>12

\* From a node of Top there is no climb.
LEMMA ClimbTop ==
    ASSUME NEW ns, NEW Top, NEW W, NEW D, Rises(ns, Top, D, W), NEW node \in D \cap Top
    PROVE  Climbed(ns, Top, node).at = node /\ Climbed(ns, Top, node).names = <<>>
<1>1. PICK n \in Nat : n = Len(node)
  BY LenProperties DEF Rises, Ids
<1>2. PICK g : IsClimb(ns, Top, D, W, node, g)
  BY ClimbRun DEF Rises
<1>3. PICK start : start = [at |-> node, names |-> <<>>]
  OBVIOUS
<1>4. /\ g[0] = [at |-> node, names |-> <<>>] /\ Climbed(ns, Top, node) = g[n]
      /\ \A i \in 1 .. n : g[i] = Climb(ns, Top, g[i - 1])
  BY <1>1, <1>2 DEF IsClimb
<1>5. ASSUME NEW i \in 1 .. n, g[i - 1] \in {start} PROVE g[i] \in {start}
  <2>1. start.at = node
    BY <1>3
  <2>2. Climb(ns, Top, start) = start
    BY <2>1 DEF Climb
  <2>3. g[i] = Climb(ns, Top, g[i - 1]) /\ g[i - 1] = start
    BY <1>4, <1>5
  <2> QED BY <2>2, <2>3
<1>6. PICK One : One = {start}
  OBVIOUS
<1>7. \A i \in 0 .. n : g[i] \in One
  <2>1. g[0] \in One
    BY <1>3, <1>4, <1>6
  <2>2. \A i \in 1 .. n : g[i - 1] \in One => g[i] \in One
    BY <1>5, <1>6
  <2> QED BY <2>1, <2>2, RunsStay
<1>8. Climbed(ns, Top, node) = start
  <2>1. n \in 0 .. n
    OBVIOUS
  <2> QED BY <1>4, <1>6, <1>7, <2>1
<1> QED BY <1>3, <1>8

\* A name at the end of what a climb puts together.
WithName(x, name) == [at |-> x.at, names |-> x.names \o <<name>>]

\* A step up from below a name is a step up with the name at the end.
LEMMA ClimbWithName ==
    ASSUME NEW ns, NEW Top, NEW W, NEW D, Rises(ns, Top, D, W), NEW name \in W,
           NEW x \in [at : D, names : Seq(W)]
    PROVE  Climb(ns, Top, WithName(x, name)) = WithName(Climb(ns, Top, x), name)
<1>1. PICK m, t : m = x.at /\ t = x.names
  OBVIOUS
<1>2. m \in D /\ t \in Seq(W) /\ ns[m].name \in W
  BY <1>1 DEF Rises
<1>3. <<ns[m].name>> \in Seq(W) /\ <<name>> \in Seq(W)
  BY <1>2
<1>4. <<ns[m].name>> \o (t \o <<name>>) = (<<ns[m].name>> \o t) \o <<name>>
  BY <1>2, <1>3, ConcatAssociative
<1>5. x = [at |-> m, names |-> t]
  BY <1>1
<1>6. CASE m \in Top
  BY <1>5, <1>6 DEF Climb, WithName
<1>7. CASE m \notin Top
  BY <1>4, <1>5, <1>7 DEF Climb, WithName
<1> QED BY <1>6, <1>7

\* A climb from a node is one from its parent, and the name of the node comes last.
LEMMA ClimbParent ==
    ASSUME NEW ns, NEW Top, NEW W, NEW D, Rises(ns, Top, D, W), NEW node \in D \ Top
    PROVE  /\ ns[node].parent \in D
           /\ Climbed(ns, Top, node).at = Climbed(ns, Top, ns[node].parent).at
           /\ Climbed(ns, Top, node).names
                = Append(Climbed(ns, Top, ns[node].parent).names, ns[node].name)
<1>1. PICK p, name : p = ns[node].parent /\ name = ns[node].name
  OBVIOUS
<1>2. p \in D /\ name \in W /\ Len(p) < Len(node)
  BY <1>1 DEF Rises
<1>3. PICK n \in Nat, q \in Nat : n = Len(node) /\ q = Len(p)
  BY <1>2, LenProperties DEF Rises, Ids
<1>4. q + 1 <= n
  BY <1>2, <1>3
<1>5. PICK g : IsClimb(ns, Top, D, W, node, g)
  BY ClimbRun DEF Rises
<1>6. PICK h : IsClimb(ns, Top, D, W, p, h)
  BY <1>2, ClimbRun DEF Rises
<1>7. /\ g[0] = [at |-> node, names |-> <<>>] /\ Climbed(ns, Top, node) = g[n]
      /\ \A i \in 1 .. n : g[i] = Climb(ns, Top, g[i - 1])
  BY <1>3, <1>5 DEF IsClimb
<1>8. /\ h[0] = [at |-> p, names |-> <<>>] /\ Climbed(ns, Top, p) = h[q]
      /\ \A i \in 1 .. q : h[i] = Climb(ns, Top, h[i - 1])
      /\ \A i \in 0 .. q : h[i] \in [at : D, names : Seq(W)]
  BY <1>3, <1>6 DEF IsClimb
<1>9. PICK k : k = [i \in 0 .. q |-> g[i + 1]]
  OBVIOUS
<1>10. PICK Good : Good = [i \in 0 .. q |-> {WithName(h[i], name)}]
  OBVIOUS
<1>11. k[0] \in Good[0]
  <2>1. <<name>> \o <<>> = <<name>> /\ <<>> \o <<name>> = <<name>>
    BY <1>2, ConcatEmptySeq
  <2>2. 1 \in 1 .. n /\ 0 \in 0 .. q
    BY <1>3, <1>4
  <2>3. g[1] = Climb(ns, Top, g[1 - 1])
    BY <1>7, <2>2
  <2>4. g[1] = [at |-> p, names |-> <<name>>]
    BY <1>1, <1>7, <2>1, <2>3 DEF Climb
  <2>5. WithName(h[0], name) = [at |-> p, names |-> <<name>>]
    BY <1>8, <2>1 DEF WithName
  <2>6. k[0] = g[1] /\ Good[0] = {WithName(h[0], name)}
    BY <1>9, <1>10, <2>2
  <2> QED BY <2>4, <2>5, <2>6
<1>12. ASSUME NEW i \in 1 .. q, k[i - 1] \in Good[i - 1] PROVE k[i] \in Good[i]
  <2>1. i - 1 \in 0 .. q /\ i \in 0 .. q /\ i + 1 \in 1 .. n /\ (i + 1) - 1 = i /\ (i - 1) + 1 = i
    BY <1>4
  <2>2. k[i] = g[i + 1] /\ k[i - 1] = g[i]
    BY <1>9, <2>1
  <2>3. g[i] = WithName(h[i - 1], name)
    BY <1>10, <1>12, <2>1, <2>2
  <2>4. g[i + 1] = Climb(ns, Top, g[i])
    BY <1>7, <2>1
  <2>5. Climb(ns, Top, WithName(h[i - 1], name)) = WithName(Climb(ns, Top, h[i - 1]), name)
    BY <1>2, <1>8, <2>1, ClimbWithName
  <2>6. g[i + 1] = WithName(h[i], name)
    BY <1>8, <2>3, <2>4, <2>5
  <2> QED BY <1>10, <2>1, <2>2, <2>6
<1>13. k[q] \in Good[q]
  BY <1>11, <1>12, RunsFollow
<1>14. g[q + 1] = WithName(h[q], name)
  <2>1. q \in 0 .. q
    OBVIOUS
  <2> QED BY <1>9, <1>10, <1>13, <2>1
<1>15. h[q].at \in Top /\ h[q].names \in Seq(W)
  BY <1>2, <1>8, ClimbEnds
<1>16. PICK r \in Nat : r = n - (q + 1)
  BY <1>4
<1>17. PICK l : l = [j \in 0 .. r |-> g[q + 1 + j]]
  OBVIOUS
<1>18. PICK One : One = {g[q + 1]}
  OBVIOUS
<1>19. l[0] \in One
  BY <1>16, <1>17, <1>18
<1>20. ASSUME NEW j \in 1 .. r, l[j - 1] \in One PROVE l[j] \in One
  <2>1. /\ j \in 0 .. r /\ j - 1 \in 0 .. r /\ q + 1 + j \in 1 .. n
        /\ (q + 1 + j) - 1 = q + 1 + (j - 1)
    BY <1>16
  <2>2. l[j] = g[q + 1 + j] /\ l[j - 1] = g[q + 1 + (j - 1)]
    BY <1>17, <2>1
  <2>3. g[q + 1 + j] = Climb(ns, Top, g[q + 1])
    BY <1>7, <1>20, <1>18, <2>1, <2>2
  <2>4. PICK y : y = g[q + 1]
    OBVIOUS
  <2>5. y.at = h[q].at
    BY <1>14, <2>4 DEF WithName
  <2>6. Climb(ns, Top, y) = y
    BY <1>15, <2>5 DEF Climb
  <2> QED BY <1>18, <2>2, <2>3, <2>4, <2>6
<1>21. \A j \in 0 .. r : l[j] \in One
  BY <1>19, <1>20, RunsStay
<1>22. g[n] = g[q + 1]
  <2>1. r \in 0 .. r /\ q + 1 + r = n
    BY <1>16
  <2>2. l[r] = g[n]
    BY <1>17, <2>1
  <2> QED BY <1>21, <1>18, <2>1, <2>2
<1>23. Climbed(ns, Top, node) = WithName(Climbed(ns, Top, p), name)
  BY <1>7, <1>8, <1>14, <1>22
<1>24. Climbed(ns, Top, p).names \o <<name>> = Append(Climbed(ns, Top, p).names, name)
  BY <1>2, <1>8, <1>15, AppendIsConcat
<1> QED BY <1>1, <1>2, <1>23, <1>24 DEF WithName

\* Where the parents and the names are the same, so is the climb.
LEMMA ClimbSame ==
    ASSUME NEW ns, NEW Top, NEW W, NEW D, Rises(ns, Top, D, W), NEW node \in D,
           NEW ns2, NEW Top2, Top2 \cap D = Top \cap D,
           \A m \in D : ns2[m].parent = ns[m].parent /\ ns2[m].name = ns[m].name
    PROVE  Climbed(ns2, Top2, node) = Climbed(ns, Top, node)
<1>1. PICK n \in Nat : n = Len(node)
  BY LenProperties DEF Rises, Ids
<1>2. PICK g : IsClimb(ns, Top, D, W, node, g)
  BY ClimbRun DEF Rises
<1>3. \A m \in D : ns2[m].name \in W /\ (m \in Top2 \/ ns2[m].parent \in D)
  BY DEF Rises
<1>4. PICK h : IsClimb(ns2, Top2, D, W, node, h)
  BY <1>3, ClimbRun DEF Rises
<1>5. PICK Good : Good = [i \in 0 .. n |-> {g[i]}]
  OBVIOUS
<1>6. /\ g[0] = h[0] /\ Climbed(ns, Top, node) = g[n] /\ Climbed(ns2, Top2, node) = h[n]
      /\ \A i \in 1 .. n : g[i] = Climb(ns, Top, g[i - 1]) /\ h[i] = Climb(ns2, Top2, h[i - 1])
      /\ \A i \in 0 .. n : g[i].at \in D
  BY <1>1, <1>2, <1>4 DEF IsClimb
<1>7. h[0] \in Good[0]
  BY <1>5, <1>6
<1>8. ASSUME NEW i \in 1 .. n, h[i - 1] \in Good[i - 1] PROVE h[i] \in Good[i]
  <2>1. i - 1 \in 0 .. n /\ i \in 0 .. n
    OBVIOUS
  <2>2. h[i - 1] = g[i - 1] /\ g[i - 1].at \in D
    BY <1>5, <1>6, <1>8, <2>1
  <2>3. PICK x : x = g[i - 1]
    OBVIOUS
  <2>4. x.at \in D /\ (x.at \in Top <=> x.at \in Top2)
    BY <2>2, <2>3
  <2>5. Climb(ns2, Top2, x) = Climb(ns, Top, x)
    BY <2>4 DEF Climb
  <2> QED BY <1>5, <1>6, <2>1, <2>2, <2>3, <2>5
<1>9. h[n] \in Good[n]
  BY <1>7, <1>8, RunsFollow
<1> QED BY <1>5, <1>6, <1>9

-----------------------------------------------------------------------------
(***************************************************************************)
(* Order in the tree.                                                      *)
(***************************************************************************)

\* Nodes that stand for another node: the roots of file systems mounted at boot or later.
IsRoot(ns, n) == n \in {DevRoot, SystemRoot} \/ ns[n].fs = "fatroot"
IsChild(ns, n) == n # RootNode /\ ~ IsRoot(ns, n)

\* Every node is named for its place: the root of the tree, a child by its own name, or the
\* root of a file system, which has the name and the parent of the node below which it was
\* made.  Only nodes that look-ups reach become parents.
RootOf(ns, n) ==
    \E m \in DOMAIN ns \ ThreadIds, x \in Words :
        n = Append(m, x) /\ ns[n].name = ns[m].name /\ ns[n].parent = ns[m].parent
Placed(ns, n) ==
    /\ n # Null
    /\ n = RootNode => ns[n].parent = Null /\ ns[n].name = ""
    /\ ns[n].parent # Null =>
          Len(ns[n].parent) < Len(n) /\ ns[ns[n].parent].name \notin DotNames
    /\ IsChild(ns, n) => ns[n].parent # Null /\ n = Append(ns[n].parent, ns[n].name)
    /\ IsRoot(ns, n) => RootOf(ns, n)
    /\ ns[n].fs = "dev" => n = DevRoot

\* The children of a node are listed; devices and threads have lists of their own.
Kid(ns, n, k) == /\ IsChild(ns, k) /\ ns[k].parent = n
                 /\ ns[n].fs \in {"fat", "fatroot"} => ns[k].fs = "fat"
KidsOf(ns, n) == \A i \in DOMAIN ns[n].kids : Kid(ns, n, ns[n].kids[i])
InList(list, n) == \E i \in DOMAIN list : list[i] = n
Listed(ns, n) ==
    IsChild(ns, n) /\ ns[n].fs \notin {"device", "thread"} => InList(ns[ns[n].parent].kids, n)

\* What is mounted on a node stands for it, and the mark of a mount is on directories only.
\* Threads are files, and only devices are block devices.
MountOf(ns, n) ==
    /\ ns[n].mount # Null => /\ IsRoot(ns, ns[n].mount)
                             /\ \E x \in Words : ns[n].mount = Append(n, x)
    /\ ns[n].mount # Null /\ ns[n].fs # "fat" => "MOUNT" \in ns[n].type
    /\ "MOUNT" \in ns[n].type => "DIR" \in ns[n].type
    /\ ns[n].fs = "thread" => ns[n].type = {"FILE"}
    /\ "BLOCK" \in ns[n].type => ns[n].fs = "device"

\* What f_stat finds at these names below a root.
KindAt(ns, vols, root, names) ==
    LET tree == Images[ns[vols[VolumeOf(root)]].name].tree
    IN  IF Len(names) <= PathLimit /\ names \in DOMAIN tree THEN tree[names] ELSE "none"

\* A node of FAT is of the kind that its volume has at its place.
FatKind(ns, vols, n) == KindAt(ns, vols, FatPlace(ns, n).at, FatPlace(ns, n).names)
TypeOfKind(kind) == IF kind = "dir" THEN {"DIR"} ELSE {"FILE"}
FatOf(ns, vols, n) ==
    ns[n].fs = "fat" =>
        /\ ns[n].parent # Null /\ ns[ns[n].parent].fs \in {"fat", "fatroot"}
        /\ FatKind(ns, vols, n) # "none"
        /\ ns[n].type \ {"MOUNT"} = TypeOfKind(FatKind(ns, vols, n))

DeviceOf(ns, n) == ns[n].type = {DeviceType[ns[n].name]} /\ ns[n].parent = DevRoot

\* r is the root that was made for volume v.
RootFor(ns, v, r) == ns[r].fs = "fatroot" /\ r[Len(r)] = VolumeNames[v]

\* A volume that is free has no root; one that is taken has one, which is mounted on the
\* node below which it was made, unless this is a node of FAT.
OnlyRoot(ns, v, r) == r \in DOMAIN ns /\ RootFor(ns, v, r)
                      /\ \A k \in DOMAIN ns : RootFor(ns, v, k) => k = r
VolumeSane(ns, dv, vols, v) ==
    \/ vols[v] = Null /\ \A r \in DOMAIN ns : ~ RootFor(ns, v, r)
    \/ /\ vols[v] \in dv /\ ns[vols[v]].type = {"BLOCK"}
       /\ \E n \in DOMAIN ns \ ThreadIds :
              /\ OnlyRoot(ns, v, Append(n, VolumeNames[v]))
              /\ ns[n].fs = "fat" \/ ns[n].mount = Append(n, VolumeNames[v])

Orderly(ns, dv, vols) ==
    /\ \A n \in DOMAIN ns : Placed(ns, n)
    /\ \A n \in DOMAIN ns : KidsOf(ns, n)
    /\ \A n \in DOMAIN ns : Listed(ns, n)
    /\ \A n \in DOMAIN ns : MountOf(ns, n)
    /\ \A n \in DOMAIN ns : FatOf(ns, vols, n)
    /\ \A n \in dv : DeviceOf(ns, n)
    /\ DOMAIN vols = DOMAIN VolumeNames
    /\ \A v \in DOMAIN VolumeNames : VolumeSane(ns, dv, vols, v)

\* The working directories are at nodes that look-ups can find.
WorkingDir(ns, n) ==
    n \in DOMAIN ns \cup ThreadIds /\ (n \in DOMAIN ns => ns[n].name \notin DotNames)
CwdSane == DOMAIN cwd = Process /\ \A p \in Process : WorkingDir(nodes, cwd[p])

\* A tree in order.
Ordered(ns, dv, vols) == Tree(ns, dv) /\ Orderly(ns, dv, vols)

\* The nodes above which there is none, and the nodes of FAT.
Tops(ns) == {m \in DOMAIN ns : ns[m].parent = Null}
FatNodes(ns) == {m \in DOMAIN ns : ns[m].fs \in {"fat", "fatroot"}}
FatRoots(ns) == {m \in DOMAIN ns : ns[m].fs = "fatroot"}

\* What of a node never changes, and its children, of which only threads go: ns2 came out of ns.
SameNode(ns, ns2, n) ==
    /\ n \in DOMAIN ns2
    /\ ns2[n].name = ns[n].name /\ ns2[n].parent = ns[n].parent /\ ns2[n].fs = ns[n].fs
Grows(ns, ns2) ==
    /\ \A n \in DOMAIN ns \ ThreadIds : SameNode(ns, ns2, n)
    /\ \A n \in DOMAIN ns \cap DOMAIN ns2 : SameNode(ns, ns2, n)
    /\ \A n \in DOMAIN ns \ {ThreadsDir} : \A k :
          n \in DOMAIN ns2 /\ InList(ns[n].kids, k) => InList(ns2[n].kids, k)

\* The fields of a node in a tree in order.
LEMMA NodeFacts ==
    ASSUME NEW dv, NEW vols, NEW ns, Ordered(ns, dv, vols), NEW n \in DOMAIN ns
    PROVE  /\ n \in Ids /\ ns[n].name \in Plain /\ ns[n].type \in SUBSET Words
           /\ ns[n].kids \in Seq(Ids) /\ ns[n].mount \in Ids /\ ns[n].parent \in Ids
           /\ ns[n].parent = Null \/ (ns[n].parent \in DOMAIN ns /\ ns[n].parent \notin ThreadIds)
           /\ ns[n].mount = Null \/ (ns[n].mount \in DOMAIN ns /\ ns[n].mount \notin ThreadIds)
           /\ \A i \in DOMAIN ns[n].kids : ns[n].kids[i] \in DOMAIN ns
           /\ ns[n].fs = "thread" <=> n \in ThreadIds
           /\ Placed(ns, n) /\ KidsOf(ns, n) /\ Listed(ns, n) /\ MountOf(ns, n)
           /\ FatOf(ns, vols, n)
<1>1. n \in Ids /\ ns[n] \in NodeRecords /\ LinksOf(ns, n) /\ PlaceOf(ns, dv, n)
  BY DEF Ordered, Tree, Typed
<1>2. /\ Placed(ns, n) /\ KidsOf(ns, n) /\ Listed(ns, n) /\ MountOf(ns, n)
      /\ FatOf(ns, vols, n)
  BY DEF Ordered, Orderly
<1>3. /\ ns[n].name \in Plain /\ ns[n].type \in SUBSET Words
      /\ ns[n].kids \in Seq(Ids) /\ ns[n].mount \in Ids /\ ns[n].parent \in Ids
  BY <1>1 DEF NodeRecords
<1>4. /\ ns[n].parent = Null \/ (ns[n].parent \in DOMAIN ns /\ ns[n].parent \notin ThreadIds)
      /\ ns[n].mount = Null \/ (ns[n].mount \in DOMAIN ns /\ ns[n].mount \notin ThreadIds)
      /\ \A i \in DOMAIN ns[n].kids : ns[n].kids[i] \in DOMAIN ns
  BY <1>1 DEF LinksOf, Above
<1>5. ns[n].fs = "thread" <=> n \in ThreadIds
  BY <1>1 DEF PlaceOf
<1> QED BY <1>1, <1>2, <1>3, <1>4, <1>5

\* Parents lead up to the top of the tree, by names that are shown, but for the lowest.
LEMMA TreeRises ==
    ASSUME NEW dv, NEW vols, NEW ns, Ordered(ns, dv, vols)
    PROVE  /\ Rises(ns, Tops(ns), DOMAIN ns, Plain)
           /\ \A n \in DOMAIN ns :
                 Rises(ns, Tops(ns), (DOMAIN ns \ ThreadIds) \cup {n}, Plain)
           /\ Rises(ns, Tops(ns), {m \in DOMAIN ns : ns[m].name \notin DotNames}, Shown)
<1>1. DOMAIN ns \in SUBSET Ids
  BY DEF Ordered, Tree, Typed
<1>2. ASSUME NEW m \in DOMAIN ns
      PROVE  /\ ns[m].name \in Plain
             /\ m \in Tops(ns) \/ /\ ns[m].parent \in DOMAIN ns \ ThreadIds
                                  /\ Len(ns[m].parent) < Len(m)
                                  /\ ns[ns[m].parent].name \notin DotNames
  BY NodeFacts DEF Placed, Tops
<1>3. Rises(ns, Tops(ns), DOMAIN ns, Plain)
  BY <1>1, <1>2 DEF Rises
<1>4. \A n \in DOMAIN ns : Rises(ns, Tops(ns), (DOMAIN ns \ ThreadIds) \cup {n}, Plain)
  BY <1>1, <1>2 DEF Rises
<1>5. Rises(ns, Tops(ns), {m \in DOMAIN ns : ns[m].name \notin DotNames}, Shown)
  BY <1>1, <1>2 DEF Rises, Shown
<1> QED BY <1>3, <1>4, <1>5

\* The names down to a node, from those down to its parent.
LEMMA NamesDownOf ==
    ASSUME NEW dv, NEW vols, NEW ns, Ordered(ns, dv, vols), NEW n \in DOMAIN ns
    PROVE  /\ ns[n].parent = Null => NamesDown(ns, n) = <<>>
           /\ ns[n].parent # Null =>
                 NamesDown(ns, n) = Append(NamesDown(ns, ns[n].parent), ns[n].name)
           /\ NamesDown(ns, n) \in Seq(Plain)
           /\ ns[n].name \notin DotNames => NamesDown(ns, n) \in Seq(Shown)
<1>1. Rises(ns, Tops(ns), DOMAIN ns, Plain)
  BY TreeRises
<1>2. \A m : NamesDown(ns, m) = Climbed(ns, Tops(ns), m).names
  BY DEF NamesDown, Tops
<1>3. ns[n].parent = Null => NamesDown(ns, n) = <<>>
  BY <1>1, <1>2, ClimbTop DEF Tops
<1>4. ns[n].parent # Null =>
          NamesDown(ns, n) = Append(NamesDown(ns, ns[n].parent), ns[n].name)
  BY <1>1, <1>2, ClimbParent DEF Tops
<1>5. NamesDown(ns, n) \in Seq(Plain)
  BY <1>1, <1>2, ClimbEnds
<1>6. ASSUME ns[n].name \notin DotNames PROVE NamesDown(ns, n) \in Seq(Shown)
  <2>1. PICK D : D = {m \in DOMAIN ns : ns[m].name \notin DotNames}
    OBVIOUS
  <2>2. Rises(ns, Tops(ns), D, Shown) /\ n \in D
    BY <1>6, <2>1, TreeRises
  <2> QED BY <1>2, <2>2, ClimbEnds
<1> QED BY <1>3, <1>4, <1>5, <1>6

\* A root has the path of the node that it stands for.
LEMMA NamesDownSame ==
    ASSUME NEW dv, NEW vols, NEW ns, Ordered(ns, dv, vols), NEW n \in DOMAIN ns,
           NEW m \in DOMAIN ns, ns[m].name = ns[n].name, ns[m].parent = ns[n].parent
    PROVE  NamesDown(ns, m) = NamesDown(ns, n)
<1>1. CASE ns[n].parent = Null
  BY <1>1, NamesDownOf
<1>2. CASE ns[n].parent # Null
  <2>1. /\ NamesDown(ns, n) = Append(NamesDown(ns, ns[n].parent), ns[n].name)
        /\ NamesDown(ns, m) = Append(NamesDown(ns, ns[m].parent), ns[m].name)
    BY <1>2, NamesDownOf
  <2> QED BY <2>1
<1> QED BY <1>1, <1>2

\* The paths of nodes stay.
LEMMA NamesDownKept ==
    ASSUME NEW dv, NEW vols, NEW ns, Ordered(ns, dv, vols), NEW ns2, Grows(ns, ns2),
           NEW n \in DOMAIN ns, n \in DOMAIN ns2
    PROVE  NamesDown(ns2, n) = NamesDown(ns, n)
<1>1. PICK D : D = (DOMAIN ns \ ThreadIds) \cup {n}
  OBVIOUS
<1>2. Rises(ns, Tops(ns), D, Plain)
  BY <1>1, TreeRises
<1>3. \A m \in D : /\ m \in DOMAIN ns /\ m \in DOMAIN ns2
                   /\ ns2[m].parent = ns[m].parent /\ ns2[m].name = ns[m].name
  BY <1>1 DEF Grows, SameNode
<1>4. Tops(ns2) \cap D = Tops(ns) \cap D
  BY <1>3 DEF Tops
<1>5. Climbed(ns2, Tops(ns2), n) = Climbed(ns, Tops(ns), n)
  BY <1>1, <1>2, <1>3, <1>4, ClimbSame
<1> QED BY <1>5 DEF NamesDown, Tops

\* Parents lead up from a node of FAT to a root, and where they lead stays.
LEMMA FatRises ==
    ASSUME NEW dv, NEW vols, NEW ns, Ordered(ns, dv, vols)
    PROVE  Rises(ns, FatRoots(ns), FatNodes(ns), Plain)
<1>1. FatNodes(ns) \in SUBSET Ids
  BY DEF Ordered, Tree, Typed, FatNodes
<1>2. ASSUME NEW m \in FatNodes(ns)
      PROVE  /\ ns[m].name \in Plain
             /\ m \in FatRoots(ns) \/ (ns[m].parent \in FatNodes(ns) /\ Len(ns[m].parent) < Len(m))
  <2>1. m \in DOMAIN ns /\ ns[m].fs \in {"fat", "fatroot"}
    BY DEF FatNodes
  <2>2. FatOf(ns, vols, m) /\ Placed(ns, m) /\ ns[m].name \in Plain
        /\ (ns[m].parent = Null \/ ns[m].parent \in DOMAIN ns)
    BY <2>1, NodeFacts
  <2> QED BY <2>1, <2>2 DEF FatOf, Placed, FatNodes, FatRoots
<1> QED BY <1>1, <1>2 DEF Rises

\* The root and the names that FAT looks for are those of the parent, and one name more.
LEMMA FatPlaceOf ==
    ASSUME NEW dv, NEW vols, NEW ns, Ordered(ns, dv, vols), NEW n \in FatNodes(ns)
    PROVE  /\ FatPlace(ns, n).at \in FatRoots(ns) /\ FatPlace(ns, n).names \in Seq(Plain)
           /\ ns[n].fs = "fatroot" => FatPlace(ns, n).at = n /\ FatPlace(ns, n).names = <<>>
           /\ ns[n].fs = "fat" =>
                 /\ ns[n].parent \in FatNodes(ns)
                 /\ FatPlace(ns, n).at = FatPlace(ns, ns[n].parent).at
                 /\ FatPlace(ns, n).names
                      = Append(FatPlace(ns, ns[n].parent).names, ns[n].name)
<1>1. Rises(ns, FatRoots(ns), FatNodes(ns), Plain)
  BY FatRises
<1>2. \A m : FatPlace(ns, m) = Climbed(ns, FatRoots(ns), m)
  BY DEF FatPlace, FatRoots
<1>3. FatPlace(ns, n).at \in FatRoots(ns) /\ FatPlace(ns, n).names \in Seq(Plain)
  BY <1>1, <1>2, ClimbEnds
<1>4. n \in FatRoots(ns) <=> ns[n].fs = "fatroot"
  BY DEF FatRoots, FatNodes
<1>5. ns[n].fs = "fatroot" => FatPlace(ns, n).at = n /\ FatPlace(ns, n).names = <<>>
  BY <1>1, <1>2, <1>4, ClimbTop
<1>6. ns[n].fs = "fat" =>
          /\ ns[n].parent \in FatNodes(ns)
          /\ FatPlace(ns, n).at = FatPlace(ns, ns[n].parent).at
          /\ FatPlace(ns, n).names = Append(FatPlace(ns, ns[n].parent).names, ns[n].name)
  BY <1>1, <1>2, <1>4, ClimbParent
<1> QED BY <1>3, <1>5, <1>6

\* A node of FAT keeps its root and its names.
LEMMA FatPlaceKept ==
    ASSUME NEW dv, NEW vols, NEW ns, Ordered(ns, dv, vols), NEW ns2, Grows(ns, ns2),
           NEW n \in FatNodes(ns)
    PROVE  n \in FatNodes(ns2) /\ FatPlace(ns2, n) = FatPlace(ns, n)
<1>1. Rises(ns, FatRoots(ns), FatNodes(ns), Plain)
  BY FatRises
<1>2. \A m \in FatNodes(ns) : m \in DOMAIN ns \ ThreadIds
  <2> SUFFICES ASSUME NEW m \in FatNodes(ns) PROVE m \in DOMAIN ns \ ThreadIds
    OBVIOUS
  <2>1. m \in DOMAIN ns /\ ns[m].fs # "thread"
    BY DEF FatNodes
  <2> QED BY <2>1, NodeFacts
<1>3. \A m \in FatNodes(ns) : SameNode(ns, ns2, m)
  BY <1>2 DEF Grows
<1>4. FatRoots(ns2) \cap FatNodes(ns) = FatRoots(ns) \cap FatNodes(ns)
  BY <1>2, <1>3 DEF SameNode, FatRoots
<1>5. Climbed(ns2, FatRoots(ns2), n) = Climbed(ns, FatRoots(ns), n)
  BY <1>1, <1>3, <1>4, ClimbSame DEF SameNode
<1>6. n \in FatNodes(ns2)
  BY <1>3 DEF SameNode, FatNodes
<1> QED BY <1>5, <1>6 DEF FatPlace, FatRoots

-----------------------------------------------------------------------------
(***************************************************************************)
(* What changes of the tree leave in order.                                *)
(***************************************************************************)

\* A node keeps all but its children; volumes that are taken stay so.
Stays(ns, ns2, n) ==
    SameNode(ns, ns2, n) /\ ns2[n].type = ns[n].type /\ ns2[n].mount = ns[n].mount
StillTaken(vols, vols2) == \A v \in DOMAIN VolumeNames : vols[v] # Null => vols2[v] = vols[v]

\* Changes of the tree follow each other.
LEMMA GrowsTransitive ==
    ASSUME NEW dv, NEW vols, NEW a, NEW b, NEW c, Ordered(a, dv, vols),
           Grows(a, b), Grows(b, c), DOMAIN a \cap DOMAIN c \subseteq DOMAIN b
    PROVE  Grows(a, c)
<1>1. ASSUME NEW n \in DOMAIN a, SameNode(a, b, n), SameNode(b, c, n) PROVE SameNode(a, c, n)
  BY <1>1 DEF SameNode
<1>2. \A n \in DOMAIN a \ ThreadIds : SameNode(a, b, n) /\ SameNode(b, c, n)
  BY DEF Grows, SameNode
<1>3. \A n \in DOMAIN a \cap DOMAIN c : SameNode(a, b, n) /\ SameNode(b, c, n)
  BY DEF Grows
<1>4. ASSUME NEW n \in DOMAIN a \ {ThreadsDir}, NEW k, n \in DOMAIN c, InList(a[n].kids, k)
      PROVE  InList(c[n].kids, k)
  <2>1. n \in DOMAIN b
    BY <1>4
  <2>2. InList(b[n].kids, k)
    BY <1>4, <2>1 DEF Grows
  <2> QED BY <1>4, <2>1, <2>2 DEF Grows
<1> QED BY <1>1, <1>2, <1>3, <1>4 DEF Grows

\* A root is one of a volume that is taken, by a device of a disk.
LEMMA VolumeTaken ==
    ASSUME NEW dv, NEW vols, NEW ns, Ordered(ns, dv, vols), NEW r \in FatRoots(ns)
    PROVE  LET v == VolumeOf(r)
           IN  /\ v \in DOMAIN VolumeNames /\ RootFor(ns, v, r)
               /\ vols[v] \in dv /\ vols[v] \in DOMAIN ns /\ vols[v] \notin ThreadIds
               /\ vols[v] # Null /\ ns[vols[v]].name \in DOMAIN Images
<1>1. r \in DOMAIN ns /\ ns[r].fs = "fatroot" /\ PlaceOf(ns, dv, r)
  BY DEF FatRoots, Ordered, Tree
<1>2. PICK m \in Ids, x \in Range(VolumeNames) : r = Append(m, x)
  BY <1>1 DEF PlaceOf, MadeByMount
<1>3. r[Len(r)] = x
  <2>1. m \in Seq(Words) /\ x \in Words
    BY <1>2, Constants DEF Ids
  <2> QED BY <1>2, <2>1, AppendProperties
<1>4. PICK w \in DOMAIN VolumeNames : VolumeNames[w] = r[Len(r)]
  BY <1>2, <1>3 DEF Range
<1>5. PICK v : v = VolumeOf(r)
  OBVIOUS
<1>6. v \in DOMAIN VolumeNames /\ VolumeNames[v] = r[Len(r)]
  BY <1>4, <1>5 DEF VolumeOf
<1>7. RootFor(ns, v, r)
  BY <1>1, <1>6 DEF RootFor
<1>8. VolumeSane(ns, dv, vols, v)
  BY <1>6 DEF Ordered, Orderly
<1>9. vols[v] \in dv /\ ns[vols[v]].type = {"BLOCK"}
  BY <1>1, <1>7, <1>8 DEF VolumeSane
<1>10. PICK d : d = vols[v]
  OBVIOUS
<1>11. d \in DOMAIN ns /\ d \in DeviceIds /\ d = Append(DevRoot, ns[d].name) /\ DeviceOf(ns, d)
       /\ PlaceOf(ns, dv, d)
  BY <1>9, <1>10 DEF Ordered, Orderly, Tree
<1>12. d # Null /\ ns[d].name \in Plain
  <2>1. Placed(ns, d) /\ ns[d].name \in Plain
    BY <1>11, NodeFacts
  <2> QED BY <2>1 DEF Placed
<1>13. d \notin ThreadIds
  BY <1>9, <1>10, <1>11 DEF PlaceOf
<1>14. ns[d].name \in DOMAIN DeviceType
  <2>1. DevRoot \in Ids /\ ns[d].name \in Words
    BY <1>12, FixedIds DEF Plain
  <2> QED BY <1>11, <2>1, AppendedIds
<1>15. DeviceType[ns[d].name] = "BLOCK"
  BY <1>9, <1>10, <1>11 DEF DeviceOf
<1>16. ns[d].name \in DOMAIN Images
  BY <1>14, <1>15, VfsAssumption
<1> QED BY <1>5, <1>6, <1>7, <1>9, <1>10, <1>11, <1>12, <1>13, <1>16

\* What a volume holds stays.
LEMMA KindKept ==
    ASSUME NEW dv, NEW vols, NEW ns, Ordered(ns, dv, vols), NEW ns2, Grows(ns, ns2), NEW vols2,
           StillTaken(vols, vols2), NEW r \in FatRoots(ns), NEW names
    PROVE  KindAt(ns2, vols2, r, names) = KindAt(ns, vols, r, names)
<1>1. PICK v : v = VolumeOf(r)
  OBVIOUS
<1>2. v \in DOMAIN VolumeNames /\ vols[v] # Null /\ vols[v] \in DOMAIN ns \ ThreadIds
  BY <1>1, VolumeTaken
<1>3. vols2[v] = vols[v] /\ ns2[vols[v]].name = ns[vols[v]].name
  <2>1. PICK d : d = vols[v]
    OBVIOUS
  <2>2. SameNode(ns, ns2, d)
    BY <1>2, <2>1 DEF Grows
  <2> QED BY <1>2, <2>1, <2>2 DEF StillTaken, SameNode
<1>4. ns2[vols2[VolumeOf(r)]].name = ns[vols[VolumeOf(r)]].name
  BY <1>1, <1>3
<1> QED BY <1>4 DEF KindAt

\* What FAT finds for a node stays while its volume does.
LEMMA FatKindKept ==
    ASSUME NEW dv, NEW vols, NEW ns, Ordered(ns, dv, vols), NEW ns2, Grows(ns, ns2), NEW vols2,
           StillTaken(vols, vols2), NEW n \in FatNodes(ns)
    PROVE  FatKind(ns2, vols2, n) = FatKind(ns, vols, n)
<1>1. FatPlace(ns2, n) = FatPlace(ns, n)
  BY FatPlaceKept
<1>2. PICK place : place = FatPlace(ns, n)
  OBVIOUS
<1>3. place.at \in FatRoots(ns)
  BY <1>2, FatPlaceOf
<1>4. KindAt(ns2, vols2, place.at, place.names) = KindAt(ns, vols, place.at, place.names)
  BY <1>3, KindKept
<1> QED BY <1>1, <1>2, <1>4 DEF FatKind

\* Whether a node is a root or a child stays.
LEMMA ChildKept ==
    ASSUME NEW ns, NEW ns2, NEW n, SameNode(ns, ns2, n)
    PROVE  (IsRoot(ns2, n) <=> IsRoot(ns, n)) /\ (IsChild(ns2, n) <=> IsChild(ns, n))
BY DEF SameNode, IsRoot, IsChild

\* Nodes stay in their places,
LEMMA PlacedKept ==
    ASSUME NEW dv, NEW vols, NEW ns, Ordered(ns, dv, vols), NEW ns2, Grows(ns, ns2),
           NEW n \in DOMAIN ns, n \in DOMAIN ns2
    PROVE  Placed(ns2, n)
<1>1. Placed(ns, n) /\ SameNode(ns, ns2, n)
      /\ (ns[n].parent = Null \/ ns[n].parent \in DOMAIN ns \ ThreadIds)
  BY NodeFacts DEF Grows
<1>2. \A m \in DOMAIN ns \ ThreadIds : SameNode(ns, ns2, m)
  BY DEF Grows
<1>3. (IsRoot(ns2, n) <=> IsRoot(ns, n)) /\ (IsChild(ns2, n) <=> IsChild(ns, n))
  BY <1>1, ChildKept
<1>4. ns2[n].parent # Null => ns2[ns2[n].parent].name = ns[ns[n].parent].name
  BY <1>1, <1>2 DEF SameNode
<1>5. RootOf(ns, n) => RootOf(ns2, n)
  <2> SUFFICES ASSUME NEW m \in DOMAIN ns \ ThreadIds, NEW x \in Words, n = Append(m, x),
                      ns[n].name = ns[m].name, ns[n].parent = ns[m].parent
               PROVE  RootOf(ns2, n)
    BY DEF RootOf
  <2>1. /\ m \in DOMAIN ns2 \ ThreadIds
        /\ ns2[n].name = ns2[m].name /\ ns2[n].parent = ns2[m].parent
    BY <1>1, <1>2 DEF SameNode
  <2> QED BY <2>1 DEF RootOf
<1> QED BY <1>1, <1>3, <1>4, <1>5 DEF Placed, SameNode

\* in their lists,
LEMMA ListedKept ==
    ASSUME NEW dv, NEW vols, NEW ns, Ordered(ns, dv, vols), NEW ns2, Grows(ns, ns2),
           NEW n \in DOMAIN ns, n \in DOMAIN ns2
    PROVE  Listed(ns2, n)
<1> SUFFICES ASSUME IsChild(ns2, n), ns2[n].fs \notin {"device", "thread"}
             PROVE  InList(ns2[ns2[n].parent].kids, n)
  BY DEF Listed
<1>1. SameNode(ns, ns2, n)
  BY DEF Grows
<1>2. IsChild(ns, n) /\ ns[n].fs \notin {"device", "thread"}
  BY <1>1, ChildKept DEF SameNode
<1>3. PICK p : p = ns[n].parent
  OBVIOUS
<1>4. p # Null /\ p \in DOMAIN ns \ ThreadIds /\ InList(ns[p].kids, n)
  <2>1. Placed(ns, n) /\ Listed(ns, n) /\ (p = Null \/ p \in DOMAIN ns \ ThreadIds)
    BY <1>3, NodeFacts
  <2>2. p # Null
    BY <1>2, <1>3, <2>1 DEF Placed
  <2>3. InList(ns[p].kids, n)
    BY <1>2, <1>3, <2>1 DEF Listed
  <2> QED BY <2>1, <2>2, <2>3
<1>5. p # ThreadsDir
  <2> SUFFICES ASSUME p = ThreadsDir PROVE FALSE
    OBVIOUS
  <2>1. LinksOf(ns, p)
    BY <1>4 DEF Ordered, Tree
  <2>2. n \in ThreadIds
    BY <1>4, <2>1 DEF LinksOf, InList
  <2> QED BY <1>2, <2>2, NodeFacts
<1>6. p \in DOMAIN ns2
  BY <1>4 DEF Grows, SameNode
<1>7. InList(ns2[p].kids, n)
  BY <1>4, <1>5, <1>6 DEF Grows
<1> QED BY <1>1, <1>3, <1>7 DEF SameNode

\* with their children,
LEMMA KidsKept ==
    ASSUME NEW dv, NEW vols, NEW ns, Ordered(ns, dv, vols), NEW ns2, Grows(ns, ns2),
           NEW n \in DOMAIN ns, SameNode(ns, ns2, n), NEW k \in DOMAIN ns2, InList(ns[n].kids, k)
    PROVE  Kid(ns2, n, k)
<1>1. k \in DOMAIN ns /\ Kid(ns, n, k)
  BY NodeFacts DEF InList, KidsOf
<1>2. SameNode(ns, ns2, k)
  BY <1>1 DEF Grows
<1>3. IsChild(ns2, k)
  BY <1>1, <1>2, ChildKept DEF Kid
<1> QED BY <1>1, <1>2, <1>3 DEF Kid, SameNode

\* with what is mounted on them,
LEMMA MountKept ==
    ASSUME NEW dv, NEW vols, NEW ns, Ordered(ns, dv, vols), NEW ns2, Grows(ns, ns2),
           NEW n \in DOMAIN ns, Stays(ns, ns2, n)
    PROVE  MountOf(ns2, n)
<1>1. MountOf(ns, n) /\ (ns[n].mount = Null \/ ns[n].mount \in DOMAIN ns \ ThreadIds)
  BY NodeFacts
<1>2. ns[n].mount # Null => IsRoot(ns2, ns[n].mount)
  <2>1. PICK r : r = ns[n].mount
    OBVIOUS
  <2>2. r # Null => SameNode(ns, ns2, r) /\ IsRoot(ns, r)
    BY <1>1, <2>1 DEF Grows, MountOf
  <2> QED BY <2>1, <2>2, ChildKept
<1> QED BY <1>1, <1>2 DEF MountOf, Stays, SameNode

\* and of the kind that the volume has.
LEMMA FatKept ==
    ASSUME NEW dv, NEW vols, NEW ns, Ordered(ns, dv, vols), NEW ns2, Grows(ns, ns2), NEW vols2,
           StillTaken(vols, vols2), NEW n \in DOMAIN ns, SameNode(ns, ns2, n),
           ns2[n].type \ {"MOUNT"} = ns[n].type \ {"MOUNT"}
    PROVE  FatOf(ns2, vols2, n)
<1> SUFFICES ASSUME ns2[n].fs = "fat" PROVE FatOf(ns2, vols2, n)
  BY DEF FatOf
<1>1. ns[n].fs = "fat" /\ ns2[n].parent = ns[n].parent /\ n \in FatNodes(ns)
  BY DEF SameNode, FatNodes
<1>2. FatOf(ns, vols, n) /\ (ns[n].parent = Null \/ ns[n].parent \in DOMAIN ns \ ThreadIds)
  BY NodeFacts
<1>3. ns[n].parent # Null /\ ns2[ns[n].parent].fs = ns[ns[n].parent].fs
  BY <1>1, <1>2 DEF FatOf, Grows, SameNode
<1>4. FatKind(ns2, vols2, n) = FatKind(ns, vols, n)
  BY <1>1, FatKindKept
<1> QED BY <1>1, <1>2, <1>3, <1>4 DEF FatOf

\* Devices and volumes stay too.
LEMMA DevicesKept ==
    ASSUME NEW dv, NEW vols, NEW ns, Ordered(ns, dv, vols), NEW ns2, NEW d \in dv,
           Stays(ns, ns2, d)
    PROVE  DeviceOf(ns2, d)
BY DEF Ordered, Orderly, DeviceOf, Stays, SameNode

\* A volume stays sound when no root for it is made, mounted or taken away.
LEMMA VolumeKept ==
    ASSUME NEW dv, NEW vols, NEW ns, Ordered(ns, dv, vols), NEW ns2, Grows(ns, ns2), NEW dv2,
           dv \subseteq dv2, NEW vols2, NEW v \in DOMAIN VolumeNames, vols2[v] = vols[v],
           \A d \in dv : Stays(ns, ns2, d),
           \A r \in DOMAIN ns2 : RootFor(ns2, v, r) => r \in DOMAIN ns,
           \A n \in DOMAIN ns \ ThreadIds :
              \/ ns2[n].mount = ns[n].mount
              \/ ns[n].mount = Null
              \/ ns[n].fs = "fat"
    PROVE  VolumeSane(ns2, dv2, vols2, v)
<1>1. VolumeSane(ns, dv, vols, v)
  BY DEF Ordered, Orderly
<1>2. \A k \in DOMAIN ns2 : RootFor(ns2, v, k) => k \in DOMAIN ns /\ RootFor(ns, v, k)
  BY DEF Grows, SameNode, RootFor
<1>3. CASE vols[v] = Null /\ \A r \in DOMAIN ns : ~ RootFor(ns, v, r)
  BY <1>2, <1>3 DEF VolumeSane
<1>4. ASSUME vols[v] \in dv, ns[vols[v]].type = {"BLOCK"}, NEW n \in DOMAIN ns \ ThreadIds,
             OnlyRoot(ns, v, Append(n, VolumeNames[v])),
             ns[n].fs = "fat" \/ ns[n].mount = Append(n, VolumeNames[v])
      PROVE  VolumeSane(ns2, dv2, vols2, v)
  <2>1. PICK r : r = Append(n, VolumeNames[v])
    OBVIOUS
  <2>2. r \in FatRoots(ns) /\ RootFor(ns, v, r) /\ \A k \in DOMAIN ns : RootFor(ns, v, k) => k = r
    BY <1>4, <2>1 DEF OnlyRoot, FatRoots, RootFor
  <2>3. r \in DOMAIN ns \ ThreadIds /\ r # Null
    BY <2>2, NodeFacts DEF FatRoots, Placed
  <2>4. r \in DOMAIN ns2 /\ RootFor(ns2, v, r)
    BY <2>2, <2>3 DEF Grows, SameNode, RootFor
  <2>5. OnlyRoot(ns2, v, r)
    BY <1>2, <2>2, <2>4 DEF OnlyRoot
  <2>6. n \in DOMAIN ns2 \ ThreadIds /\ ns2[n].fs = ns[n].fs
    BY <1>4 DEF Grows, SameNode
  <2>7. ns[n].fs = "fat" \/ ns2[n].mount = r
    BY <1>4, <2>1, <2>3
  <2>8. vols2[v] \in dv2 /\ ns2[vols2[v]].type = {"BLOCK"}
    BY <1>4 DEF Stays
  <2> QED BY <2>1, <2>5, <2>6, <2>7, <2>8 DEF VolumeSane
<1> QED BY <1>1, <1>3, <1>4 DEF VolumeSane

-----------------------------------------------------------------------------
(***************************************************************************)
(* Looking up in a tree in order.                                          *)
(***************************************************************************)

\* Of nodes below m that are named for their places, the one with a name.
LEMMA NamedKid ==
    ASSUME NEW ns, NEW list \in Seq(Ids), NEW m \in Ids, NEW name \in Words,
           \A k : InList(list, k) => ns[k].name \in Words /\ k = Append(m, ns[k].name)
    PROVE  /\ InList(list, Append(m, name)) => Named(ns, list, name) = Append(m, name)
           /\ ~ InList(list, Append(m, name)) => Named(ns, list, name) = Null
<1> DEFINE hits == {i \in DOMAIN list : ns[list[i]].name = name}
<1>1. \A i \in DOMAIN list : InList(list, list[i])
  BY DEF InList
<1>2. \A i \in DOMAIN list : ns[list[i]].name = name <=> list[i] = Append(m, name)
  <2> SUFFICES ASSUME NEW i \in DOMAIN list
               PROVE  ns[list[i]].name = name <=> list[i] = Append(m, name)
    OBVIOUS
  <2>1. PICK k, y : k = list[i] /\ y = ns[k].name
    OBVIOUS
  <2>2. y \in Words /\ k = Append(m, y)
    BY <1>1, <2>1
  <2>3. Append(m, y) = Append(m, name) => y = name
    <3> HAVE Append(m, y) = Append(m, name)
    <3>1. m \in Ids /\ y \in Words /\ name \in Words /\ Append(m, y) = Append(m, name)
      BY <2>2
    <3> QED BY ONLY <3>1, SamePath
  <2> QED BY <2>1, <2>2, <2>3
<1>3. CASE hits = {}
  <2>1. ~ InList(list, Append(m, name))
    BY <1>2, <1>3 DEF InList
  <2> QED BY <1>3, <2>1 DEF Named
<1>4. CASE hits # {}
  <2>1. hits \in SUBSET Nat
    BY LenProperties
  <2>2. \E i \in hits : \A j \in hits : i <= j
    <3> HIDE DEF hits
    <3> QED BY <1>4, <2>1, LeastNumber
  <2>3. PICK i : i = CHOOSE h \in hits : \A j \in hits : h <= j
    OBVIOUS
  <2>4. i \in hits
    BY <2>2, <2>3
  <2>5. Named(ns, list, name) = list[i]
    BY <1>4, <2>3 DEF Named
  <2>6. list[i] = Append(m, name) /\ InList(list, Append(m, name))
    BY <1>2, <2>4 DEF InList
  <2> QED BY <2>5, <2>6
<1> QED BY <1>3, <1>4

\* The node that stands for n has its name and its path.
LEMMA CrossedFacts ==
    ASSUME NEW dv, NEW vols, NEW ns, Ordered(ns, dv, vols), NEW n \in DOMAIN ns
    PROVE  LET m == Crossed(ns, n)
           IN  /\ m \in DOMAIN ns /\ ns[m].name = ns[n].name /\ ns[m].parent = ns[n].parent
               /\ NamesDown(ns, m) = NamesDown(ns, n)
               /\ m # n => IsRoot(ns, m)
<1>1. PICK m : m = Crossed(ns, n)
  OBVIOUS
<1>2. CASE m = n
  BY <1>1, <1>2
<1>3. CASE m # n
  <2>1. m = ns[n].mount /\ m # Null
    BY <1>1, <1>3 DEF Crossed
  <2>2. MountOf(ns, n) /\ m \in DOMAIN ns /\ n \in Ids
    BY <2>1, NodeFacts
  <2>3. IsRoot(ns, m)
    BY <2>1, <2>2 DEF MountOf
  <2>4. PICK x \in Words : m = Append(n, x)
    BY <2>1, <2>2 DEF MountOf
  <2>5. RootOf(ns, m)
    <3>1. Placed(ns, m)
      BY <2>2, NodeFacts
    <3> QED BY <2>3, <3>1 DEF Placed
  <2>6. PICK k \in DOMAIN ns \ ThreadIds, y \in Words :
            m = Append(k, y) /\ ns[m].name = ns[k].name /\ ns[m].parent = ns[k].parent
    BY <2>5 DEF RootOf
  <2>7. k \in Ids
    BY <2>6, NodeFacts
  <2>8. Append(k, y) = Append(n, x)
    BY <2>4, <2>6
  <2>9. k \in Ids /\ n \in Ids /\ x \in Words /\ y \in Words /\ Append(k, y) = Append(n, x)
    BY <2>2, <2>4, <2>6, <2>7, <2>8
  <2>10. k = n
    BY ONLY <2>9, SamePath
  <2>11. NamesDown(ns, m) = NamesDown(ns, n)
    BY <2>2, <2>6, <2>10, NamesDownSame
  <2> QED BY <1>1, <2>2, <2>3, <2>6, <2>10, <2>11
<1> QED BY <1>2, <1>3

\* The list in which finddir of node m searches, and what it leads to from n.
ChildList(ns, m) == IF ns[m].fs = "dev" THEN devices ELSE ns[m].kids
Searched == {"root", "system", "threads", "dev", "fat", "fatroot"}
Leads(ns, n, x) ==
    LET m == Crossed(ns, n)
    IN  (m # n \/ "DIR" \in ns[m].type) /\ ns[m].fs \in Searched /\ InList(ChildList(ns, m), x)

\* What is in the list of m is a child of it.
IsChildOf(ns, m, x) ==
    /\ x \in DOMAIN ns /\ x # Null /\ ns[x].parent = m /\ x = Append(m, ns[x].name)
    /\ IsChild(ns, x) /\ NamesDown(ns, x) = Append(NamesDown(ns, m), ns[x].name)

\* What the list of a node holds is its child.
LEMMA ChildFacts ==
    ASSUME NEW dv, NEW vols, NEW ns, Ordered(ns, dv, vols), ListOf(devices, dv),
           NEW m \in DOMAIN ns, NEW x, InList(ChildList(ns, m), x)
    PROVE  IsChildOf(ns, m, x)
<1>1. m # Null
  <2>1. Placed(ns, m)
    BY NodeFacts
  <2> QED BY <2>1 DEF Placed
<1>2. x \in DOMAIN ns /\ ns[x].parent = m /\ IsChild(ns, x)
  <2>1. CASE ns[m].fs = "dev"
    <3>1. Placed(ns, m)
      BY NodeFacts
    <3>2. m = DevRoot
      BY <2>1, <3>1 DEF Placed
    <3>3. x \in dv
      BY <2>1 DEF ChildList, InList, ListOf
    <3>4. x \in DOMAIN ns /\ DeviceOf(ns, x) /\ PlaceOf(ns, dv, x) /\ x \in DeviceIds
      BY <3>3 DEF Ordered, Orderly, Tree
    <3>5. ns[x].fs = "device" /\ ns[x].parent = DevRoot
      BY <3>3, <3>4 DEF PlaceOf, DeviceOf
    <3>6. x \notin {RootNode, DevRoot, SystemRoot}
      <4>1. {RootNode, DevRoot, SystemRoot} \subseteq Fixed
        BY DEF Fixed
      <4> QED BY <3>4, <4>1, FixedFsIs
    <3> QED BY <3>2, <3>4, <3>5, <3>6 DEF IsChild, IsRoot
  <2>2. CASE ns[m].fs # "dev"
    <3>1. InList(ns[m].kids, x)
      BY <2>2 DEF ChildList
    <3>2. KidsOf(ns, m) /\ \A i \in DOMAIN ns[m].kids : ns[m].kids[i] \in DOMAIN ns
      BY NodeFacts
    <3> QED BY <3>1, <3>2 DEF Kid, KidsOf, InList
  <2> QED BY <2>1, <2>2
<1>3. x # Null /\ x = Append(m, ns[x].name)
  <2>1. Placed(ns, x)
    BY <1>2, NodeFacts
  <2> QED BY <1>2, <2>1 DEF Placed
<1>4. NamesDown(ns, x) = Append(NamesDown(ns, m), ns[x].name)
  <2>1. ns[x].parent # Null
    BY <1>1, <1>2
  <2>2. NamesDown(ns, x) = Append(NamesDown(ns, ns[x].parent), ns[x].name)
    BY <1>2, <2>1, NamesDownOf
  <2> QED BY <1>2, <2>2
<1> QED BY <1>2, <1>3, <1>4 DEF IsChildOf

\* A list of m has the child with a name, or there is none.
LEMMA NamedChild ==
    ASSUME NEW dv, NEW vols, NEW ns, Ordered(ns, dv, vols), ListOf(devices, dv),
           NEW m \in DOMAIN ns, NEW name \in Words
    PROVE  LET list == ChildList(ns, m)
               id == Append(m, name)
           IN  /\ InList(list, id) => Named(ns, list, name) = id
               /\ ~ InList(list, id) => Named(ns, list, name) = Null
<1>1. PICK list : list = ChildList(ns, m)
  OBVIOUS
<1>2. m \in Ids /\ ns[m].kids \in Seq(Ids)
  BY NodeFacts
<1>3. list \in Seq(Ids)
  BY <1>1, <1>2 DEF ChildList, ListOf
<1>4. ASSUME NEW k, InList(list, k) PROVE ns[k].name \in Words /\ k = Append(m, ns[k].name)
  <2>1. k \in DOMAIN ns /\ k = Append(m, ns[k].name)
    BY <1>1, <1>4, ChildFacts DEF IsChildOf
  <2> QED BY <2>1, NodeFacts DEF Plain
<1>5. /\ InList(list, Append(m, name)) => Named(ns, list, name) = Append(m, name)
      /\ ~ InList(list, Append(m, name)) => Named(ns, list, name) = Null
  BY <1>2, <1>3, <1>4, NamedKid
<1> QED BY <1>1, <1>5

\* ns2 is ns with nodes that look-ups or mkdir made.
Grown(ns, ns2) ==
    /\ Grows(ns, ns2)
    /\ \A n \in DOMAIN ns : /\ Stays(ns, ns2, n)
                            /\ \A k : InList(ns[n].kids, k) => InList(ns2[n].kids, k)

\* Nothing made.
LEMMA GrownSelf == \A ns : Grown(ns, ns)
BY DEF Grown, Grows, Stays, SameNode

\* Look-ups follow each other.
LEMMA GrownTransitive ==
    ASSUME NEW dv, NEW vols, NEW a, NEW b, NEW c, Ordered(a, dv, vols), Grown(a, b), Grown(b, c)
    PROVE  Grown(a, c)
<1>1. DOMAIN a \subseteq DOMAIN b
  BY DEF Grown, Stays, SameNode
<1>2. Grows(a, c)
  BY <1>1, GrowsTransitive DEF Grown
<1>3. \A n \in DOMAIN a : Stays(a, c, n)
  BY <1>1 DEF Grown, Stays, SameNode
<1>4. \A n \in DOMAIN a : \A k : InList(a[n].kids, k) => InList(c[n].kids, k)
  BY <1>1 DEF Grown
<1> QED BY <1>2, <1>3, <1>4 DEF Grown

\* ns2 is ns with node id at the end of the children of m.
IsMade(ns, m, id, node, ns2) ==
    /\ DOMAIN ns2 = DOMAIN ns \cup {id} /\ ns2[id] = node
    /\ \A k \in DOMAIN ns : k # m => ns2[k] = ns[k]
    /\ Stays(ns, ns2, m) /\ InList(ns2[m].kids, id)
    /\ \A k : InList(ns2[m].kids, k) <=> k = id \/ InList(ns[m].kids, k)

\* list append puts an element at the end.
LEMMA InAppended ==
    ASSUME NEW list \in Seq(Ids), NEW id \in Ids
    PROVE  \A k : InList(Append(list, id), k) <=> k = id \/ InList(list, k)
<1>1. PICK t : t = Append(list, id)
  OBVIOUS
<1>2. /\ t \in Seq(Ids) /\ Len(t) = Len(list) + 1 /\ t[Len(list) + 1] = id
      /\ \A i \in 1 .. Len(list) : t[i] = list[i]
  BY <1>1, AppendProperties
<1>3. PICK c \in Nat : c = Len(list)
  BY LenProperties
<1>4. DOMAIN list = 1 .. c /\ DOMAIN t = 1 .. c + 1 /\ t[c + 1] = id
      /\ \A i \in 1 .. c : t[i] = list[i]
  BY <1>2, <1>3, LenProperties
<1>5. c + 1 \in 1 .. c + 1 /\ 1 .. c \subseteq 1 .. c + 1
      /\ \A i \in 1 .. c + 1 : i \in 1 .. c \/ i = c + 1
  OBVIOUS
<1>6. \A k : InList(t, k) <=> k = id \/ InList(list, k)
  BY <1>4, <1>5 DEF InList
<1> QED BY <1>1, <1>6

\* fs_node_add_child puts the new node at the end.
LEMMA AddChildMakes ==
    ASSUME NEW dv, NEW vols, NEW ns, Ordered(ns, dv, vols), NEW m \in DOMAIN ns, NEW node,
           NEW id \in Ids, id \notin DOMAIN ns
    PROVE  IsMade(ns, m, id, node, AddChild(ns, m, id, node))
<1>1. ns[m] \in NodeRecords /\ ns[m].kids \in Seq(Ids)
  BY NodeFacts DEF Ordered, Tree, Typed
<1>2. PICK ns1 : ns1 = Put(ns, id, node)
  OBVIOUS
<1>3. /\ DOMAIN ns1 = DOMAIN ns \cup {id} /\ ns1[id] = node
      /\ \A k \in DOMAIN ns : ns1[k] = ns[k]
  BY <1>2 DEF Put
<1>4. PICK ns2 : ns2 = [ns1 EXCEPT ![m].kids = Append(@, id)]
  OBVIOUS
<1>5. /\ DOMAIN ns2 = DOMAIN ns1 /\ ns2[m] = [ns1[m] EXCEPT !.kids = Append(ns1[m].kids, id)]
      /\ \A k \in DOMAIN ns1 : k # m => ns2[k] = ns1[k]
  BY <1>3, <1>4
<1>6. PICK list : list = Append(ns[m].kids, id)
  OBVIOUS
<1>7. ns2[m] = [ns[m] EXCEPT !.kids = list]
  BY <1>3, <1>5, <1>6
<1>8. /\ ns2[m].kids = list /\ ns2[m].name = ns[m].name /\ ns2[m].parent = ns[m].parent
      /\ ns2[m].fs = ns[m].fs /\ ns2[m].type = ns[m].type /\ ns2[m].mount = ns[m].mount
  BY <1>1, <1>7 DEF NodeRecords
<1>9. Stays(ns, ns2, m)
  BY <1>3, <1>5, <1>8 DEF Stays, SameNode
<1>10. \A k : InList(ns2[m].kids, k) <=> k = id \/ InList(ns[m].kids, k)
  BY <1>1, <1>6, <1>8, InAppended
<1>11. IsMade(ns, m, id, node, ns2)
  BY <1>3, <1>5, <1>9, <1>10 DEF IsMade
<1> QED BY <1>2, <1>4, <1>11 DEF AddChild

\* A node can be made at id.
FreeId(ns, dv, id) ==
    /\ id \notin DOMAIN ns /\ id \in Ids /\ id # RootNode /\ id # DevRoot
    /\ id # SystemRoot /\ id # Null /\ id \notin ThreadIds /\ id \notin dv

\* A directory has no node yet for a name that its list does not have.
LEMMA NameIsFree ==
    ASSUME NEW dv, NEW vols, NEW ns, Ordered(ns, dv, vols), NEW m \in DOMAIN ns,
           NEW name \in Plain, NEW fs \in {"fat", "root"}, FitsUnder(ns, m, name, fs),
           NEW id, id = Append(m, name), ~ InList(ns[m].kids, id)
    PROVE  FreeId(ns, dv, id)
<1>1. m \in Ids /\ name \in Words
  BY NodeFacts DEF Plain
<1>2. IsNewPlace(ns, id, fs)
  BY <1>1, NewPlace DEF Ordered
<1>3. id \in Ids /\ id \notin ThreadIds /\ id \notin DeviceIds
  BY <1>2 DEF IsNewPlace
<1>4. id \notin dv
  BY <1>3 DEF Ordered, Tree
<1>5. id # RootNode
  BY <1>1, FixedIds, OneAppend
<1>6. id # DevRoot /\ id # SystemRoot /\ id # Null
  <2>1. PICK a, b, r : a = <<"dev">> /\ b = <<"system">> /\ r = RootNode
    OBVIOUS
  <2>2. a \in Ids /\ b \in Ids /\ r \in Ids
    BY <2>1, FixedIds
  <2>3. DevRoot = Append(a, "@dev") /\ SystemRoot = Append(b, "@system") /\ Null = Append(r, "@null")
    BY <2>1, FixedIds DEF Null
  <2>4. /\ "@dev" \in Words /\ "@system" \in Words /\ "@null" \in Words
        /\ name # "@dev" /\ name # "@system" /\ name # "@null"
    BY DEF Words, Plain, Marks
  <2>5. ASSUME NEW k \in Ids, NEW y \in Words, id = Append(k, y) PROVE y = name
    <3>1. Append(m, name) = Append(k, y)
      BY <2>5
    <3> QED BY <1>1, <3>1, OneAppend
  <2>6. /\ id = Append(a, "@dev") => "@dev" = name
        /\ id = Append(b, "@system") => "@system" = name
        /\ id = Append(r, "@null") => "@null" = name
    BY <2>2, <2>4, <2>5
  <2> QED BY <2>3, <2>4, <2>6
<1>7. ASSUME id \in DOMAIN ns PROVE FALSE
  <2>1. ns[id].fs # "fatroot"
    <3>1. FitsUnder(ns, m, name, fs) => fs # "fatroot"
      OBVIOUS
    <3> QED BY <1>2, <1>7, <3>1 DEF IsNewPlace
  <2>2. IsChild(ns, id)
    BY <1>5, <1>6, <2>1 DEF IsChild, IsRoot
  <2>3. PlaceOf(ns, dv, id) /\ Placed(ns, id) /\ Listed(ns, id) /\ ns[id].name \in Words
    BY <1>7, NodeFacts DEF Ordered, Tree, Plain
  <2>4. ns[id].fs \notin {"device", "thread"}
    BY <1>3, <1>4, <2>3 DEF PlaceOf
  <2>5. PICK p, y : p = ns[id].parent /\ y = ns[id].name
    OBVIOUS
  <2>6. p # Null /\ id = Append(p, y)
    BY <2>2, <2>3, <2>5 DEF Placed
  <2>7. p \in DOMAIN ns
    BY <1>7, <2>5, <2>6, NodeFacts
  <2>8. p \in Ids /\ y \in Words
    BY <2>3, <2>5, <2>7, NodeFacts
  <2>9. p \in Ids /\ y \in Words /\ m \in Ids /\ name \in Words /\ Append(p, y) = Append(m, name)
    BY <1>1, <2>6, <2>8
  <2>10. p = m
    BY ONLY <2>9, SamePath
  <2>11. InList(ns[p].kids, id)
    BY <2>2, <2>3, <2>4, <2>5 DEF Listed
  <2> QED BY <2>10, <2>11
<1> QED BY <1>3, <1>4, <1>5, <1>6, <1>7 DEF FreeId

\* The kind of a node that FAT would make below m is that of what the volume has there.
FatFits(ns, vols, m, name, fs, type) ==
    fs = "fat" =>
        LET place == FatPlace(ns, m)
            kind == KindAt(ns, vols, place.at, Append(place.names, name))
        IN  kind # "none" /\ type = TypeOfKind(kind)

\* ns2 is ns with a child in the list of m.
MadeInOrder(ns, dv, vols, m, id, name, ns2) ==
    /\ Ordered(ns2, dv, vols) /\ Grown(ns, ns2) /\ id # Null
    /\ InList(ns2[m].kids, id) /\ ns2[id].name = name

\* A child is made, by mkdir or by a look-up in a FAT volume.
LEMMA ChildMade ==
    ASSUME NEW dv, NEW vols, NEW ns, Ordered(ns, dv, vols), NEW m \in DOMAIN ns,
           NEW name \in Plain, NEW fs \in {"fat", "root"}, FitsUnder(ns, m, name, fs),
           ns[m].name \notin DotNames, NEW type \in {{"DIR"}, {"FILE"}},
           FatFits(ns, vols, m, name, fs, type), NEW id, id = Append(m, name),
           ~ InList(ns[m].kids, id), NEW ns2, ns2 = AddChild(ns, m, id, NodeOf(name, m, type, fs))
    PROVE  MadeInOrder(ns, dv, vols, m, id, name, ns2)
<1>1. /\ id \notin DOMAIN ns /\ id \in Ids /\ id # RootNode /\ id # DevRoot
      /\ id # SystemRoot /\ id # Null /\ id \notin ThreadIds /\ id \notin dv
  <2>1. FreeId(ns, dv, id)
    BY NameIsFree
  <2> QED BY <2>1 DEF FreeId
<1>2. PICK node : node = NodeOf(name, m, type, fs)
  OBVIOUS
<1>3. /\ node.name = name /\ node.parent = m /\ node.type = type /\ node.fs = fs
      /\ node.kids = <<>> /\ node.mount = Null
  BY <1>2 DEF NodeOf
<1>4. IsMade(ns, m, id, node, ns2)
  BY <1>1, <1>2, AddChildMakes
<1>5. Tree(ns2, dv)
  <2>1. type \in SUBSET Words
    BY DEF Words
  <2> QED BY <2>1, ChildAdded DEF Ordered
<1>6. \A k \in DOMAIN ns : Stays(ns, ns2, k)
  BY <1>4 DEF IsMade, Stays, SameNode
<1>7. Grows(ns, ns2)
  BY <1>4, <1>6 DEF IsMade, Grows, Stays
<1>8. Grown(ns, ns2)
  <2>1. \A n \in DOMAIN ns : \A k : InList(ns[n].kids, k) => InList(ns2[n].kids, k)
    BY <1>4 DEF IsMade
  <2> QED BY <1>6, <1>7, <2>1 DEF Grown
<1>9. /\ ns2[id] = node /\ DOMAIN ns2 = DOMAIN ns \cup {id} /\ InList(ns2[m].kids, id)
      /\ m \in DOMAIN ns2 /\ ns2[m].name = ns[m].name /\ ns2[m].fs = ns[m].fs
  BY <1>4, <1>6 DEF IsMade, Stays, SameNode
<1>10. StillTaken(vols, vols)
  BY DEF StillTaken
<1>11. IsChild(ns2, id) /\ ~ IsRoot(ns2, id)
  BY <1>1, <1>3, <1>9 DEF IsChild, IsRoot
<1>12. m # Null /\ m \in Ids
  <2>1. Placed(ns, m) /\ m \in Ids
    BY NodeFacts
  <2> QED BY <2>1 DEF Placed
<1>13. Placed(ns2, id)
  <2>1. Len(m) < Len(id)
    <3>1. m \in Seq(Words) /\ name \in Words
      BY <1>12 DEF Ids, Plain
    <3>2. Len(id) = Len(m) + 1 /\ Len(m) \in Nat
      BY <3>1, AppendProperties, LenProperties
    <3> QED BY <3>2
  <2> QED BY <1>1, <1>3, <1>9, <1>11, <1>12, <2>1 DEF Placed
<1>14. \A n \in DOMAIN ns2 : Placed(ns2, n)
  BY <1>7, <1>9, <1>13, PlacedKept
<1>15. ASSUME NEW n \in DOMAIN ns2 PROVE KidsOf(ns2, n)
  <2>1. \A i \in DOMAIN ns2[n].kids : InList(ns2[n].kids, ns2[n].kids[i])
    BY DEF InList
  <2>2. ASSUME NEW k, InList(ns2[n].kids, k) PROVE Kid(ns2, n, k)
    <3>1. CASE n = id
      <4>1. \A i \in DOMAIN <<>> : FALSE
        OBVIOUS
      <4> QED BY <1>3, <1>9, <2>2, <3>1, <4>1 DEF InList
    <3>2. CASE n = m /\ k = id
      <4>1. ns2[m].fs \in {"fat", "fatroot"} => fs = "fat"
        BY <1>9 DEF FitsUnder
      <4> QED BY <1>3, <1>9, <1>11, <3>2, <4>1 DEF Kid
    <3>3. CASE n # id /\ ~ (n = m /\ k = id)
      <4>1. n \in DOMAIN ns
        BY <1>9, <3>3
      <4>2. InList(ns[n].kids, k)
        BY <1>4, <2>2, <3>3, <4>1 DEF IsMade
      <4>3. k \in DOMAIN ns
        <5>1. \A i \in DOMAIN ns[n].kids : ns[n].kids[i] \in DOMAIN ns
          BY <4>1, NodeFacts
        <5> QED BY <4>2, <5>1 DEF InList
      <4>4. SameNode(ns, ns2, n)
        BY <1>6, <4>1 DEF Stays
      <4>5. k \in DOMAIN ns2
        BY <1>9, <4>3
      <4> QED BY <1>7, <4>1, <4>2, <4>4, <4>5, KidsKept
    <3> QED BY <3>1, <3>2, <3>3
  <2> QED BY <2>1, <2>2 DEF KidsOf
<1>16. \A n \in DOMAIN ns2 : Listed(ns2, n)
  <2>1. Listed(ns2, id)
    BY <1>3, <1>9 DEF Listed
  <2> QED BY <1>7, <1>9, <2>1, ListedKept
<1>17. \A n \in DOMAIN ns2 : MountOf(ns2, n)
  <2>1. MountOf(ns2, id)
    <3>1. "MOUNT" \notin type /\ "BLOCK" \notin type /\ fs # "thread"
      OBVIOUS
    <3> QED BY <1>3, <1>9, <3>1 DEF MountOf
  <2> QED BY <1>6, <1>7, <1>9, <2>1, MountKept
<1>18. FatOf(ns2, vols, id)
  <2> SUFFICES ASSUME fs = "fat" PROVE FatOf(ns2, vols, id)
    BY <1>3, <1>9 DEF FatOf
  <2>1. ns[m].fs \in {"fat", "fatroot"}
    BY DEF FitsUnder
  <2>2. m \in FatNodes(ns)
    BY <2>1 DEF FatNodes
  <2>3. PICK place : place = FatPlace(ns, m)
    OBVIOUS
  <2>4. FatPlace(ns2, m) = place
    BY <1>7, <2>2, <2>3, FatPlaceKept
  <2>5. PICK kind : kind = KindAt(ns, vols, place.at, Append(place.names, name))
    OBVIOUS
  <2>6. kind # "none" /\ type = TypeOfKind(kind)
    BY <2>3, <2>5 DEF FatFits
  <2>7. FatPlace(ns2, id).at = place.at /\ FatPlace(ns2, id).names = Append(place.names, name)
    <3>1. Rises(ns2, FatRoots(ns2), FatNodes(ns2), Plain)
      <4>1. Rises(ns, FatRoots(ns), FatNodes(ns), Plain)
        BY FatRises
      <4>2. FatNodes(ns2) = FatNodes(ns) \cup {id} /\ FatRoots(ns2) = FatRoots(ns)
        <5>1. \A k \in DOMAIN ns : ns2[k].fs = ns[k].fs
          BY <1>6 DEF Stays, SameNode
        <5>2. ns2[id].fs = "fat"
          BY <1>3, <1>9
        <5>3. DOMAIN ns2 = DOMAIN ns \cup {id} /\ id \notin DOMAIN ns
          BY <1>1, <1>9
        <5> QED BY <5>1, <5>2, <5>3 DEF FatNodes, FatRoots
      <4>3. \A k \in FatNodes(ns) : ns2[k].name = ns[k].name /\ ns2[k].parent = ns[k].parent
        BY <1>6 DEF FatNodes, Stays, SameNode
      <4>4. id \in Ids /\ ns2[id].name \in Plain /\ ns2[id].parent \in FatNodes(ns)
            /\ Len(ns2[id].parent) < Len(id)
        BY <1>1, <1>3, <1>9, <1>12, <1>13, <2>2 DEF Placed
      <4> QED BY <4>1, <4>2, <4>3, <4>4 DEF Rises
    <3>2. id \in FatNodes(ns2) \ FatRoots(ns2)
      BY <1>3, <1>9 DEF FatNodes, FatRoots
    <3>3. \A k : FatPlace(ns2, k) = Climbed(ns2, FatRoots(ns2), k)
      BY DEF FatPlace, FatRoots
    <3>4. /\ FatPlace(ns2, id).at = FatPlace(ns2, ns2[id].parent).at
          /\ FatPlace(ns2, id).names
               = Append(FatPlace(ns2, ns2[id].parent).names, ns2[id].name)
      BY <3>1, <3>2, <3>3, ClimbParent
    <3> QED BY <1>3, <1>9, <2>4, <3>4
  <2>8. place.at \in FatRoots(ns)
    BY <2>2, <2>3, FatPlaceOf
  <2>9. KindAt(ns2, vols, place.at, Append(place.names, name)) = kind
    BY <1>7, <1>10, <2>5, <2>8, KindKept
  <2>10. FatKind(ns2, vols, id) = kind
    BY <2>7, <2>9 DEF FatKind
  <2>11. type \ {"MOUNT"} = type
    OBVIOUS
  <2> QED BY <1>3, <1>9, <1>12, <2>1, <2>6, <2>10, <2>11 DEF FatOf
<1>19. \A n \in DOMAIN ns2 : FatOf(ns2, vols, n)
  BY <1>6, <1>7, <1>9, <1>10, <1>18, FatKept DEF Stays
<1>20. dv \subseteq DOMAIN ns
  BY DEF Ordered, Tree
<1>21. \A n \in dv : DeviceOf(ns2, n)
  BY <1>6, <1>20, DevicesKept
<1>22. ASSUME NEW v \in DOMAIN VolumeNames PROVE VolumeSane(ns2, dv, vols, v)
  <2>1. ~ RootFor(ns2, v, id)
    BY <1>3, <1>9 DEF RootFor
  <2>2. \A r \in DOMAIN ns2 : RootFor(ns2, v, r) => r \in DOMAIN ns
    BY <1>9, <2>1
  <2>3. \A d \in dv : Stays(ns, ns2, d)
    BY <1>6, <1>20
  <2>4. \A n \in DOMAIN ns \ ThreadIds : ns2[n].mount = ns[n].mount
    BY <1>6 DEF Stays
  <2> QED BY <1>7, <2>2, <2>3, <2>4, VolumeKept
<1>23. Orderly(ns2, dv, vols)
  BY <1>14, <1>15, <1>16, <1>17, <1>19, <1>21, <1>22 DEF Orderly, Ordered
<1> QED BY <1>1, <1>3, <1>5, <1>8, <1>9, <1>23 DEF Ordered, MadeInOrder

\* What is known of the result of a look-up of a name in node n, in the tree old.
FoundBelow(old, dv, n, name, s) ==
    /\ Ordered(s.nodes, dv, volumes) /\ Grown(old, s.nodes)
    /\ s.node # Null => Leads(s.nodes, n, s.node) /\ s.nodes[s.node].name = name

\* FAT has nothing with this name, or makes a node for it.
FatMakes(ns, dv, m, id, name, s) ==
    \/ s = [nodes |-> ns, node |-> Null]
    \/ s.node = id /\ MadeInOrder(ns, dv, volumes, m, id, name, s.nodes)

\* fat_finddir makes the node of what it finds, in order.
LEMMA FatFinddirOrder ==
    ASSUME NEW dv, NEW ns, Ordered(ns, dv, volumes), NEW m \in DOMAIN ns,
           ns[m].fs \in {"fat", "fatroot"}, ns[m].name \notin DotNames, NEW name \in Plain,
           NEW id, id = Append(m, name), ~ InList(ns[m].kids, id),
           NEW s, s = FatFinddir(ns, m, name, Null)
    PROVE  FatMakes(ns, dv, m, id, name, s)
<1>1. PICK place : place = FatPlace(ns, m)
  OBVIOUS
<1>2. PICK kind : kind = KindAt(ns, volumes, place.at, Append(place.names, name))
  OBVIOUS
<1>3. kind = FStat(ns, place.at, Append(place.names, name))
  <2>1. KindAt(ns, volumes, place.at, Append(place.names, name))
            = FStat(ns, place.at, Append(place.names, name))
    BY Zenon DEF KindAt, FStat
  <2> QED BY <1>2, <2>1
<1>4. CASE kind = "none"
  <2>1. s = [nodes |-> ns, node |-> Null]
    BY <1>1, <1>3, <1>4 DEF FatFinddir
  <2> QED BY <2>1 DEF FatMakes
<1>5. CASE kind # "none"
  <2>1. PICK type : type = TypeOfKind(kind)
    OBVIOUS
  <2>2. PICK ns2 : ns2 = AddChild(ns, m, id, NodeOf(name, m, type, "fat"))
    OBVIOUS
  <2>3. s = [nodes |-> ns2, node |-> id]
    BY <1>1, <1>3, <1>5, <2>1, <2>2 DEF FatFinddir, TypeOfKind
  <2>4. FitsUnder(ns, m, name, "fat") /\ type \in {{"DIR"}, {"FILE"}}
    BY <2>1 DEF FitsUnder, TypeOfKind
  <2>5. FatFits(ns, volumes, m, name, "fat", type)
    BY <1>1, <1>2, <1>5, <2>1 DEF FatFits
  <2>6. MadeInOrder(ns, dv, volumes, m, id, name, ns2)
    BY <2>2, <2>4, <2>5, ChildMade
  <2> QED BY <2>3, <2>6 DEF FatMakes, MadeInOrder
<1> QED BY <1>4, <1>5 DEF FatMakes

\* fs_finddir keeps the tree in order, and finds the child with the name or makes it.
LEMMA FinddirOrder ==
    ASSUME NEW dv, NEW ns, Ordered(ns, dv, volumes), ListOf(devices, dv), NEW n \in DOMAIN ns,
           ns[n].name \notin DotNames, NEW name \in Plain
    PROVE  FoundBelow(ns, dv, n, name, FsFinddir(ns, n, name))
<1>1. PICK m, s, id, list : /\ m = Crossed(ns, n) /\ s = FsFinddir(ns, n, name)
                            /\ id = Append(m, name) /\ list = ChildList(ns, m)
  OBVIOUS
<1>2. m \in DOMAIN ns /\ ns[m].name \notin DotNames
  BY <1>1, CrossedFacts
<1>3. name \in Words
  BY DEF Plain
<1>4. /\ InList(list, id) => Named(ns, list, name) = id
      /\ ~ InList(list, id) => Named(ns, list, name) = Null
  BY <1>1, <1>2, <1>3, NamedChild
<1>5. m \in Ids
  BY <1>2, NodeFacts
<1>6. ASSUME InList(list, id) PROVE id # Null /\ ns[id].name = name
  <2>1. IsChildOf(ns, m, id)
    BY <1>1, <1>2, <1>6, ChildFacts
  <2>2. id # Null /\ id \in DOMAIN ns /\ id = Append(m, ns[id].name)
    BY <2>1 DEF IsChildOf
  <2>3. PICK y : y = ns[id].name
    OBVIOUS
  <2>4. y \in Words
    BY <2>2, <2>3, NodeFacts DEF Plain
  <2>5. Append(m, y) = Append(m, name)
    BY <1>1, <2>2, <2>3
  <2> QED BY <1>3, <1>5, <2>2, <2>3, <2>4, <2>5, OneAppend
<1>7. Grown(ns, ns)
  BY GrownSelf
<1>8. CASE s = [nodes |-> ns, node |-> Null]
  BY <1>1, <1>7, <1>8 DEF FoundBelow
<1>9. ASSUME m # n \/ "DIR" \in ns[m].type, ns[m].fs \in Searched, InList(list, id),
             s = [nodes |-> ns, node |-> id]
      PROVE  FoundBelow(ns, dv, n, name, s)
  <2>1. Leads(ns, n, id)
    BY <1>1, <1>9 DEF Leads
  <2> QED BY <1>6, <1>7, <1>9, <2>1 DEF FoundBelow
<1>10. CASE ~ (m # n \/ "DIR" \in ns[m].type)
  BY <1>1, <1>8, <1>10 DEF FsFinddir
<1>11. CASE (m # n \/ "DIR" \in ns[m].type) /\ ns[m].fs \notin {"fat", "fatroot"}
  <2>1. s = NodeFinddir(ns, m, name)
    BY <1>1, <1>11 DEF FsFinddir
  <2>2. \/ s = [nodes |-> ns, node |-> Null]
        \/ s = [nodes |-> ns, node |-> Named(ns, list, name)] /\ ns[m].fs \in Searched
    BY <1>1, <1>11, <2>1 DEF NodeFinddir, ChildList, Searched
  <2> QED BY <1>1, <1>4, <1>8, <1>9, <1>11, <2>2
<1>12. CASE (m # n \/ "DIR" \in ns[m].type) /\ ns[m].fs \in {"fat", "fatroot"}
  <2>1. list = ns[m].kids /\ ns[m].fs \in Searched
    BY <1>1, <1>12 DEF ChildList, Searched
  <2>2. s = FatFinddir(ns, m, name, Named(ns, list, name))
    BY <1>1, <1>12, <2>1 DEF FsFinddir, NodeFinddir
  <2>3. CASE InList(list, id)
    <3>1. s = [nodes |-> ns, node |-> id]
      BY <1>4, <1>6, <2>2, <2>3 DEF FatFinddir
    <3> QED BY <1>1, <1>9, <1>12, <2>1, <2>3, <3>1
  <2>4. CASE ~ InList(list, id)
    <3>1. s = FatFinddir(ns, m, name, Null) /\ ~ InList(ns[m].kids, id)
      BY <1>4, <2>1, <2>2, <2>4
    <3>2. FatMakes(ns, dv, m, id, name, s)
      BY <1>1, <1>2, <1>12, <3>1, FatFinddirOrder
    <3>3. ASSUME s.node = id, MadeInOrder(ns, dv, volumes, m, id, name, s.nodes)
          PROVE  FoundBelow(ns, dv, n, name, s)
      <4>1. Stays(ns, s.nodes, n) /\ Stays(ns, s.nodes, m)
        BY <1>2, <3>3 DEF Grown, MadeInOrder
      <4>2. Crossed(s.nodes, n) = m
        BY <1>1, <4>1 DEF Crossed, Stays
      <4>3. s.nodes[m].fs = ns[m].fs /\ s.nodes[m].type = ns[m].type
        BY <4>1 DEF Stays, SameNode
      <4>4. Leads(s.nodes, n, id)
        BY <1>12, <2>1, <3>3, <4>2, <4>3 DEF Leads, ChildList, MadeInOrder
      <4> QED BY <3>3, <4>4 DEF FoundBelow, MadeInOrder
    <3> QED BY <1>1, <1>8, <3>2, <3>3 DEF FatMakes
  <2> QED BY <2>3, <2>4
<1> QED BY <1>10, <1>11, <1>12

\* What a name has led to, it leads to again, and nothing more is made.
LEMMA FinddirAgain ==
    ASSUME NEW dv, NEW vols, NEW ns, Ordered(ns, dv, vols), ListOf(devices, dv),
           NEW n \in DOMAIN ns, NEW x, Leads(ns, n, x), NEW name, name = ns[x].name
    PROVE  FsFinddir(ns, n, name) = [nodes |-> ns, node |-> x]
<1>1. PICK m, list : m = Crossed(ns, n) /\ list = ChildList(ns, m)
  OBVIOUS
<1>2. /\ m # n \/ "DIR" \in ns[m].type
      /\ ns[m].fs \in Searched /\ InList(list, x)
  BY <1>1 DEF Leads
<1>3. m \in DOMAIN ns
  BY <1>1, CrossedFacts
<1>4. x \in DOMAIN ns /\ x # Null /\ x = Append(m, name)
  BY <1>1, <1>2, <1>3, ChildFacts DEF IsChildOf
<1>5. name \in Words
  BY <1>4, NodeFacts DEF Plain
<1>6. Named(ns, list, name) = x
  BY <1>1, <1>2, <1>3, <1>4, <1>5, NamedChild
<1>7. FsFinddir(ns, n, name) = NodeFinddir(ns, m, name)
  BY <1>1, <1>2 DEF FsFinddir
<1>8. CASE ns[m].fs \in {"fat", "fatroot"}
  <2>1. NodeFinddir(ns, m, name) = FatFinddir(ns, m, name, x)
    BY <1>1, <1>6, <1>8 DEF NodeFinddir, ChildList
  <2> QED BY <1>4, <1>7, <2>1 DEF FatFinddir
<1>9. CASE ns[m].fs \notin {"fat", "fatroot"}
  BY <1>1, <1>2, <1>6, <1>7, <1>9 DEF NodeFinddir, ChildList, Searched
<1> QED BY <1>8, <1>9

\* A node leads to the same children later.
LEMMA LeadsKept ==
    ASSUME NEW dv, NEW vols, NEW ns, Ordered(ns, dv, vols), NEW n \in DOMAIN ns, NEW ns2,
           Grown(ns, ns2), NEW x, Leads(ns, n, x)
    PROVE  Leads(ns2, n, x)
<1>1. PICK m : m = Crossed(ns, n)
  OBVIOUS
<1>2. m \in DOMAIN ns
  BY <1>1, CrossedFacts
<1>3. Stays(ns, ns2, n) /\ Stays(ns, ns2, m)
  BY <1>2 DEF Grown
<1>4. Crossed(ns2, n) = m
  BY <1>1, <1>3 DEF Crossed, Stays
<1>5. InList(ChildList(ns2, m), x)
  BY <1>1, <1>2, <1>3 DEF Leads, ChildList, Grown, Stays, SameNode
<1>6. ns2[m].fs = ns[m].fs /\ ns2[m].type = ns[m].type
  BY <1>3 DEF Stays, SameNode
<1> QED BY <1>1, <1>4, <1>5, <1>6 DEF Leads

-----------------------------------------------------------------------------
(***************************************************************************)
(* Walks along a path.                                                     *)
(***************************************************************************)

\* A node of FAT has at most k names below the root of its volume.
Shallow(ns, n, k) == n \in FatNodes(ns) => Len(FatPlace(ns, n).names) <= k

\* The root that stands for a node of FAT is no deeper than that.
LEMMA CrossedShallow ==
    ASSUME NEW dv, NEW vols, NEW ns, Ordered(ns, dv, vols), NEW n \in DOMAIN ns, NEW k \in Nat,
           Shallow(ns, n, k)
    PROVE  Shallow(ns, Crossed(ns, n), k)
<1>1. PICK m : m = Crossed(ns, n)
  OBVIOUS
<1>2. CASE m = n
  BY <1>1, <1>2
<1>3. CASE m # n
  <2>1. IsRoot(ns, m)
    BY <1>1, <1>3, CrossedFacts
  <2>2. ASSUME m \in FatNodes(ns) PROVE Len(FatPlace(ns, m).names) <= k
    <3>1. ns[m].fs = "fatroot"
      <4>1. ns[DevRoot].fs = "dev" /\ ns[SystemRoot].fs = "system"
        BY FixedFsIs DEF Ordered, Tree, Fixed
      <4> QED BY <2>1, <2>2, <4>1 DEF IsRoot, FatNodes
    <3>2. FatPlace(ns, m).names = <<>>
      BY <2>2, <3>1, FatPlaceOf
    <3> QED BY <3>2
  <2> QED BY <1>1, <2>2 DEF Shallow
<1> QED BY <1>2, <1>3

\* What a name leads to is one name deeper.
LEMMA ChildShallow ==
    ASSUME NEW dv, NEW vols, NEW ns, Ordered(ns, dv, vols), NEW m \in DOMAIN ns, NEW k \in Nat,
           Shallow(ns, m, k), NEW x, IsChildOf(ns, m, x)
    PROVE  Shallow(ns, x, k + 1)
<1>1. x \in DOMAIN ns /\ ns[x].parent = m /\ IsChild(ns, x)
  BY DEF IsChildOf
<1>2. ASSUME x \in FatNodes(ns) PROVE Len(FatPlace(ns, x).names) <= k + 1
  <2>1. ns[x].fs = "fat"
    BY <1>1, <1>2 DEF IsChild, IsRoot, FatNodes
  <2>2. PICK up, name : up = FatPlace(ns, m).names /\ name = ns[x].name
    OBVIOUS
  <2>3. m \in FatNodes(ns) /\ FatPlace(ns, x).names = Append(up, name)
    BY <1>1, <1>2, <2>1, <2>2, FatPlaceOf
  <2>4. up \in Seq(Plain) /\ name \in Plain
    BY <1>1, <2>2, <2>3, FatPlaceOf, NodeFacts
  <2>5. Len(Append(up, name)) = Len(up) + 1 /\ Len(up) \in Nat
    BY <2>4, AppendProperties, LenProperties
  <2>6. Len(up) <= k
    BY <2>2, <2>3 DEF Shallow
  <2> QED BY <2>3, <2>5, <2>6
<1> QED BY <1>2 DEF Shallow

\* s is where the walk along the first k of the names real has come.
IsPrefix(t, real, k) == t \in Seq(Shown) /\ Len(t) = k /\ \A j \in 1 .. k : t[j] = real[j]
WalkedTo(ns, dv, real, k, s) ==
    /\ Ordered(s.nodes, dv, volumes) /\ Grown(ns, s.nodes)
    /\ s.node # Null => /\ s.node \in DOMAIN s.nodes /\ s.nodes[s.node].name \notin DotNames
                        /\ IsPrefix(NamesDown(s.nodes, s.node), real, k)
                        /\ Shallow(s.nodes, s.node, k)

\* One name more of a path.
LEMMA PrefixAppended ==
    ASSUME NEW k \in Nat, NEW t, NEW real, IsPrefix(t, real, k), NEW name \in Shown,
           name = real[k + 1]
    PROVE  IsPrefix(Append(t, name), real, k + 1)
<1>1. t \in Seq(Shown) /\ Len(t) = k /\ \A j \in 1 .. k : t[j] = real[j]
  BY DEF IsPrefix
<1>2. PICK u : u = Append(t, name)
  OBVIOUS
<1>3. /\ u \in Seq(Shown) /\ Len(u) = k + 1 /\ u[k + 1] = name
      /\ \A j \in 1 .. k : u[j] = t[j]
  BY <1>1, <1>2, AppendProperties
<1>4. \A j \in 1 .. k + 1 : j \in 1 .. k \/ j = k + 1
  OBVIOUS
<1>5. \A j \in 1 .. k + 1 : u[j] = real[j]
  BY <1>1, <1>3, <1>4
<1> QED BY <1>2, <1>3, <1>5 DEF IsPrefix

\* One step of a walk.
LEMMA WalkOnOrder ==
    ASSUME NEW dv, NEW ns, Ordered(ns, dv, volumes), ListOf(devices, dv), NEW k \in Nat, NEW real,
           NEW at, WalkedTo(ns, dv, real, k, at), NEW name \in Shown, name = real[k + 1]
    PROVE  WalkedTo(ns, dv, real, k + 1, WalkOn(at, name))
<1>1. CASE at.node = Null
  BY <1>1 DEF WalkOn, WalkedTo
<1>2. CASE at.node # Null
  <2>1. PICK n, old, s : n = at.node /\ old = at.nodes /\ s = FsFinddir(old, n, name)
    OBVIOUS
  <2>2. /\ Ordered(old, dv, volumes) /\ Grown(ns, old) /\ n \in DOMAIN old
        /\ old[n].name \notin DotNames /\ IsPrefix(NamesDown(old, n), real, k)
        /\ Shallow(old, n, k)
    BY <1>2, <2>1 DEF WalkedTo
  <2>3. name \in Plain
    BY DEF Shown
  <2>4. FoundBelow(old, dv, n, name, s)
    BY <2>1, <2>2, <2>3, FinddirOrder
  <2>5. Ordered(s.nodes, dv, volumes) /\ Grown(old, s.nodes)
    BY <2>4 DEF FoundBelow
  <2>6. Grown(ns, s.nodes)
    BY <2>2, <2>5, GrownTransitive
  <2>7. ASSUME s.node # Null
        PROVE  /\ s.node \in DOMAIN s.nodes /\ s.nodes[s.node].name \notin DotNames
               /\ IsPrefix(NamesDown(s.nodes, s.node), real, k + 1)
               /\ Shallow(s.nodes, s.node, k + 1)
    <3>1. PICK x, new, m : x = s.node /\ new = s.nodes /\ m = Crossed(new, n)
      OBVIOUS
    <3>2. Leads(new, n, x) /\ new[x].name = name
      BY <2>4, <2>7, <3>1 DEF FoundBelow
    <3>3. Ordered(new, dv, volumes) /\ Grows(old, new) /\ n \in DOMAIN new
      BY <2>2, <2>5, <3>1 DEF Grown, Stays, SameNode
    <3>4. m \in DOMAIN new /\ NamesDown(new, m) = NamesDown(new, n)
      BY <3>1, <3>3, CrossedFacts
    <3>5. IsChildOf(new, m, x)
      <4>1. InList(ChildList(new, m), x)
        BY <3>1, <3>2 DEF Leads
      <4> QED BY <3>3, <3>4, <4>1, ChildFacts
    <3>6. x \in DOMAIN new /\ NamesDown(new, x) = Append(NamesDown(new, m), name)
      BY <3>2, <3>5 DEF IsChildOf
    <3>7. NamesDown(new, n) = NamesDown(old, n)
      BY <2>2, <3>3, NamesDownKept
    <3>8. IsPrefix(NamesDown(new, x), real, k + 1)
      <4>1. PICK t : t = NamesDown(old, n)
        OBVIOUS
      <4>2. IsPrefix(Append(t, name), real, k + 1)
        BY <2>2, <4>1, PrefixAppended
      <4> QED BY <3>4, <3>6, <3>7, <4>1, <4>2
    <3>9. Shallow(new, n, k)
      <4>1. n \in FatNodes(new) => n \in FatNodes(old)
        BY <2>2, <3>3 DEF Grows, SameNode, FatNodes
      <4>2. ASSUME n \in FatNodes(old) PROVE FatPlace(new, n) = FatPlace(old, n)
        BY <2>2, <3>3, <4>2, FatPlaceKept
      <4> QED BY <2>2, <4>1, <4>2 DEF Shallow
    <3>10. Shallow(new, x, k + 1)
      <4>1. Shallow(new, m, k)
        BY <3>1, <3>3, <3>9, CrossedShallow
      <4> QED BY <3>3, <3>4, <3>5, <4>1, ChildShallow
    <3> QED BY <3>1, <3>2, <3>6, <3>8, <3>10 DEF Shown
  <2>8. WalkOn(at, name) = s
    BY <1>2, <2>1 DEF WalkOn
  <2> QED BY <2>5, <2>6, <2>7, <2>8 DEF WalkedTo
<1> QED BY <1>1, <1>2

\* A walk keeps the tree in order and goes down the names of its path.
LEMMA WalkOrder ==
    ASSUME NEW dv, NEW ns, Ordered(ns, dv, volumes), ListOf(devices, dv), NEW real \in Seq(Shown),
           NEW g, IsWalk(ns, dv, real, g)
    PROVE  \A k \in 0 .. Len(real) : WalkedTo(ns, dv, real, k, g[k])
<1>1. PICK n \in Nat : n = Len(real)
  BY LenProperties
<1>2. g[0] = [nodes |-> ns, node |-> RootNode] /\ \A i \in 1 .. n : g[i] = WalkOn(g[i - 1], real[i])
  BY <1>1 DEF IsWalk
<1>3. PICK Good : Good = {i \in 0 .. n : WalkedTo(ns, dv, real, i, g[i])}
  OBVIOUS
<1>4. WalkedTo(ns, dv, real, 0, g[0])
  <2>1. RootNode \in DOMAIN ns /\ ns[RootNode].fs = "root"
    BY FixedFsIs DEF Ordered, Tree, Fixed
  <2>2. ns[RootNode].name = "" /\ ns[RootNode].parent = Null
    <3>1. Placed(ns, RootNode)
      BY <2>1, NodeFacts
    <3> QED BY <3>1 DEF Placed
  <2>3. "" \notin DotNames
    BY VfsAssumption DEF BootNames, DotNames
  <2>4. NamesDown(ns, RootNode) = <<>>
    BY <2>1, <2>2, NamesDownOf
  <2>5. IsPrefix(<<>>, real, 0)
    BY EmptySeq DEF IsPrefix
  <2>6. Shallow(ns, RootNode, 0)
    BY <2>1 DEF Shallow, FatNodes
  <2>7. PICK s, m : s = g[0] /\ m = RootNode
    OBVIOUS
  <2>8. s.nodes = ns /\ s.node = m
    BY <1>2, <2>7
  <2>9. Grown(ns, ns)
    BY GrownSelf
  <2>10. m \in DOMAIN ns /\ ns[m].name \notin DotNames /\ IsPrefix(NamesDown(ns, m), real, 0)
         /\ Shallow(ns, m, 0)
    BY <2>1, <2>2, <2>3, <2>4, <2>5, <2>6, <2>7
  <2>11. WalkedTo(ns, dv, real, 0, s)
    BY <2>8, <2>9, <2>10 DEF WalkedTo
  <2> QED BY <2>7, <2>11
<1>5. ASSUME NEW i \in 1 .. n, WalkedTo(ns, dv, real, i - 1, g[i - 1])
      PROVE  WalkedTo(ns, dv, real, i, g[i])
  <2>1. PICK k \in Nat : k = i - 1
    OBVIOUS
  <2>2. PICK name : name = real[k + 1]
    OBVIOUS
  <2>3. k + 1 = i /\ name \in Shown
    BY <1>1, <2>1, <2>2, ElementOfSeq
  <2>4. PICK at : at = g[k]
    OBVIOUS
  <2>5. WalkedTo(ns, dv, real, k + 1, WalkOn(at, name))
    BY <1>5, <2>1, <2>2, <2>3, <2>4, WalkOnOrder
  <2> QED BY <1>2, <2>1, <2>2, <2>3, <2>4, <2>5
<1>6. PICK f : f = [i \in 0 .. n |-> i]
  OBVIOUS
<1>7. f[0] \in Good /\ \A i \in 1 .. n : f[i - 1] \in Good => f[i] \in Good
  <2>1. 0 \in 0 .. n /\ \A i \in 1 .. n : i \in 0 .. n /\ i - 1 \in 0 .. n
    OBVIOUS
  <2> QED BY <1>3, <1>4, <1>5, <1>6, <2>1
<1>8. \A i \in 0 .. n : f[i] \in Good
  BY <1>7, RunsStay
<1> QED BY <1>1, <1>3, <1>6, <1>8

\* A look-up of the path real, in the tree ns.
LookedUp(ns, dv, real, at) ==
    /\ Ordered(at.nodes, dv, volumes) /\ Grown(ns, at.nodes)
    /\ at.node # Null => /\ at.node \in DOMAIN at.nodes /\ at.nodes[at.node].name \notin DotNames
                         /\ NamesDown(at.nodes, at.node) = real
                         /\ Shallow(at.nodes, at.node, Len(real))

\* fs_get_node reaches the node whose names are the path, or none.
LEMMA WalkReaches ==
    ASSUME NEW dv, NEW ns, Ordered(ns, dv, volumes), ListOf(devices, dv), NEW real \in Seq(Shown),
           NEW g, IsWalk(ns, dv, real, g)
    PROVE  LookedUp(ns, dv, real, g[Len(real)])
<1>1. PICK n \in Nat : n = Len(real)
  BY LenProperties
<1>2. PICK at : at = g[n]
  OBVIOUS
<1>3. WalkedTo(ns, dv, real, n, at)
  <2>1. n \in 0 .. Len(real)
    BY <1>1
  <2> QED BY <1>2, <2>1, WalkOrder
<1>4. ASSUME at.node # Null PROVE NamesDown(at.nodes, at.node) = real
  <2>1. PICK t : t = NamesDown(at.nodes, at.node)
    OBVIOUS
  <2>2. t \in Seq(Shown) /\ Len(t) = n /\ \A j \in 1 .. n : t[j] = real[j]
    BY <1>3, <1>4, <2>1 DEF WalkedTo, IsPrefix
  <2>3. t = real
    BY <1>1, <2>2, SeqEqual
  <2> QED BY <2>1, <2>3
<1>5. LookedUp(ns, dv, real, at)
  BY <1>1, <1>3, <1>4 DEF WalkedTo, LookedUp
<1> QED BY <1>1, <1>2, <1>5

\* fs_get_node finds the node whose path is the resolved one, or none.
LEMMA GetNodeOrder ==
    ASSUME NEW dv, NEW ns, Ordered(ns, dv, volumes), ListOf(devices, dv), NEW names \in Seq(Plain)
    PROVE  LookedUp(ns, dv, Resolve(names), GetNode(ns, names))
<1>1. PICK real : real = Resolve(names)
  OBVIOUS
<1>2. real \in Seq(Shown)
  BY <1>1, ResolveType
<1>3. Tree(ns, dv)
  BY DEF Ordered
<1>4. PICK g : IsWalk(ns, dv, real, g) /\ GetNode(ns, names) = g[Len(real)]
  BY <1>1, <1>3, GetNodeRun
<1>5. LookedUp(ns, dv, real, g[Len(real)])
  BY <1>2, <1>4, WalkReaches
<1> QED BY <1>1, <1>4, <1>5

\* The steps of a walk that reached a node did so too, and its end has all that they made.
LEMMA WalkBack ==
    ASSUME NEW dv, NEW ns, Ordered(ns, dv, volumes), ListOf(devices, dv), NEW real \in Seq(Shown),
           NEW g, IsWalk(ns, dv, real, g), NEW n \in Nat, n = Len(real), g[n].node # Null
    PROVE  /\ \A i \in 0 .. n : g[i].node # Null /\ Grown(g[i].nodes, g[n].nodes)
           /\ \A i \in 1 .. n : FoundBelow(g[i - 1].nodes, dv, g[i - 1].node, real[i], g[i])
<1>1. \A i \in 1 .. n : g[i] = WalkOn(g[i - 1], real[i]) /\ real[i] \in Shown
  BY ElementOfSeq DEF IsWalk
<1>2. \A i \in 0 .. n : WalkedTo(ns, dv, real, i, g[i])
  BY WalkOrder
<1>3. ASSUME NEW i \in 1 .. n, g[i].node # Null
      PROVE  /\ g[i - 1].node # Null
             /\ FoundBelow(g[i - 1].nodes, dv, g[i - 1].node, real[i], g[i])
  <2>1. PICK a, b, x : a = g[i - 1] /\ b = g[i] /\ x = real[i]
    OBVIOUS
  <2>2. b = WalkOn(a, x) /\ b.node # Null /\ x \in Plain
    BY <1>1, <1>3, <2>1 DEF Shown
  <2>3. a.node # Null
    BY <2>2 DEF WalkOn
  <2>4. b = FsFinddir(a.nodes, a.node, x)
    BY <2>2, <2>3 DEF WalkOn
  <2>5. WalkedTo(ns, dv, real, i - 1, a)
    BY <1>2, <2>1
  <2>6. Ordered(a.nodes, dv, volumes) /\ a.node \in DOMAIN a.nodes
        /\ a.nodes[a.node].name \notin DotNames
    BY <2>3, <2>5 DEF WalkedTo
  <2>7. FoundBelow(a.nodes, dv, a.node, x, FsFinddir(a.nodes, a.node, x))
    BY <2>2, <2>6, FinddirOrder
  <2> QED BY <2>1, <2>3, <2>4, <2>7
<1>4. PICK Good : Good = {i \in 0 .. n : g[i].node # Null /\ Grown(g[i].nodes, g[n].nodes)}
  OBVIOUS
<1>5. PICK f : f = [i \in 0 .. n |-> n - i]
  OBVIOUS
<1>6. f[0] = n /\ \A i \in 1 .. n : f[i - 1] = n - i + 1 /\ f[i] = n - i
  BY <1>5
<1>7. f[0] \in Good
  BY <1>4, <1>6, GrownSelf
<1>8. ASSUME NEW i \in 1 .. n, f[i - 1] \in Good PROVE f[i] \in Good
  <2>1. n - i + 1 \in 1 .. n
    OBVIOUS
  <2>2. PICK k \in 1 .. n : k = n - i + 1
    BY <2>1
  <2>3. k - 1 \in 0 .. n /\ f[i - 1] = k /\ f[i] = k - 1
    BY <1>6, <2>2
  <2>4. g[k].node # Null /\ Grown(g[k].nodes, g[n].nodes)
    BY <1>4, <1>8, <2>3
  <2>5. PICK a, b, c : a = g[k - 1] /\ b = g[k] /\ c = g[n]
    OBVIOUS
  <2>6. a.node # Null /\ FoundBelow(a.nodes, dv, a.node, real[k], b)
    BY <1>3, <2>4, <2>5
  <2>7. Ordered(a.nodes, dv, volumes)
    BY <1>2, <2>3, <2>5 DEF WalkedTo
  <2>8. Grown(a.nodes, b.nodes)
    BY <2>6 DEF FoundBelow
  <2>9. Grown(a.nodes, c.nodes)
    BY <2>4, <2>5, <2>7, <2>8, GrownTransitive
  <2> QED BY <1>4, <2>3, <2>5, <2>6, <2>9
<1>9. \A i \in 0 .. n : f[i] \in Good
  BY <1>7, <1>8, RunsStay
<1>10. ASSUME NEW i \in 0 .. n PROVE i \in Good
  <2>1. n - i \in 0 .. n /\ f[n - i] = i
    BY <1>5
  <2> QED BY <1>9, <2>1
<1> QED BY <1>3, <1>4, <1>10

\* h is a walk with one name more, in the tree that the walk g to at left.
Onward(ns, dv, real, g, at, x, h) ==
    /\ IsWalk(ns, dv, real, g) /\ at = g[Len(real)] /\ at.node # Null
    /\ IsWalk(at.nodes, dv, Append(real, x), h)

\* Such a walk goes the same way, and makes nothing before its last name.
LEMMA WalkAgain ==
    ASSUME NEW dv, NEW ns, Ordered(ns, dv, volumes), ListOf(devices, dv), NEW real \in Seq(Shown),
           NEW g, NEW at, NEW x \in Shown, NEW h, Onward(ns, dv, real, g, at, x, h)
    PROVE  h[Len(Append(real, x))] = FsFinddir(at.nodes, at.node, x)
<1> SUFFICES ASSUME IsWalk(ns, dv, real, g), at = g[Len(real)], at.node # Null,
                    NEW more, more = Append(real, x), IsWalk(at.nodes, dv, more, h)
             PROVE  h[Len(more)] = FsFinddir(at.nodes, at.node, x)
  BY DEF Onward
<1>1. PICK n \in Nat : n = Len(real)
  BY LenProperties
<1>2. more \in Seq(Shown) /\ Len(more) = n + 1 /\ more[n + 1] = x
      /\ \A i \in 1 .. n : more[i] = real[i]
  BY <1>1, AppendProperties
<1>3. /\ \A i \in 0 .. n : g[i].node # Null /\ Grown(g[i].nodes, at.nodes)
      /\ \A i \in 1 .. n : FoundBelow(g[i - 1].nodes, dv, g[i - 1].node, real[i], g[i])
  BY <1>1, WalkBack
<1>4. \A i \in 0 .. n : WalkedTo(ns, dv, real, i, g[i])
  BY <1>1, WalkOrder
<1>5. PICK all : all = at.nodes
  OBVIOUS
<1>6. Ordered(all, dv, volumes)
  <2>1. n \in 0 .. n
    OBVIOUS
  <2> QED BY <1>1, <1>4, <1>5, <2>1 DEF WalkedTo
<1>7. h[0] = [nodes |-> all, node |-> RootNode]
      /\ \A i \in 1 .. n + 1 : h[i] = WalkOn(h[i - 1], more[i])
  BY <1>2, <1>5 DEF IsWalk
<1>8. PICK Good : Good = {i \in 0 .. n : h[i] = [nodes |-> all, node |-> g[i].node]}
  OBVIOUS
<1>9. 0 \in Good
  <2>1. g[0] = [nodes |-> ns, node |-> RootNode] /\ 0 \in 0 .. n
    BY DEF IsWalk
  <2> QED BY <1>7, <1>8, <2>1
<1>10. ASSUME NEW i \in 1 .. n, i - 1 \in Good PROVE i \in Good
  <2>1. PICK a, b, m, k : a = g[i - 1] /\ b = g[i] /\ m = a.node /\ k = b.node
    OBVIOUS
  <2>2. PICK name : name = real[i]
    OBVIOUS
  <2>3. i - 1 \in 0 .. n /\ i \in 0 .. n /\ i \in 1 .. n + 1
    OBVIOUS
  <2>4. m # Null /\ k # Null /\ FoundBelow(a.nodes, dv, m, name, b)
    BY <1>3, <2>1, <2>2, <2>3
  <2>5. Ordered(a.nodes, dv, volumes) /\ m \in DOMAIN a.nodes /\ Grown(a.nodes, b.nodes)
        /\ Leads(b.nodes, m, k) /\ b.nodes[k].name = name
    BY <1>4, <2>1, <2>3, <2>4 DEF WalkedTo, FoundBelow
  <2>6. Ordered(b.nodes, dv, volumes) /\ Grown(b.nodes, all) /\ k \in DOMAIN b.nodes
    BY <1>3, <1>4, <1>5, <2>1, <2>3, <2>4 DEF WalkedTo
  <2>7. m \in DOMAIN b.nodes
    BY <2>5 DEF Grown, Stays, SameNode
  <2>8. Leads(all, m, k)
    BY <2>5, <2>6, <2>7, LeadsKept
  <2>9. all[k].name = name /\ m \in DOMAIN all
    BY <2>5, <2>6, <2>7 DEF Grown, Stays, SameNode
  <2>10. FsFinddir(all, m, name) = [nodes |-> all, node |-> k]
    BY <1>6, <2>8, <2>9, FinddirAgain
  <2>11. PICK s : s = [nodes |-> all, node |-> m]
    OBVIOUS
  <2>12. h[i] = WalkOn(s, name)
    BY <1>2, <1>7, <1>8, <1>10, <2>1, <2>2, <2>3, <2>11
  <2>13. WalkOn(s, name) = [nodes |-> all, node |-> k]
    BY <2>4, <2>10, <2>11 DEF WalkOn
  <2> QED BY <1>8, <2>1, <2>3, <2>12, <2>13
<1>11. PICK f : f = [i \in 0 .. n |-> i]
  OBVIOUS
<1>12. f[0] \in Good /\ \A i \in 1 .. n : f[i - 1] \in Good => f[i] \in Good
  <2>1. 0 \in 0 .. n /\ \A i \in 1 .. n : i \in 0 .. n /\ i - 1 \in 0 .. n
    OBVIOUS
  <2> QED BY <1>9, <1>10, <1>11, <2>1
<1>13. \A i \in 0 .. n : f[i] \in Good
  BY <1>12, RunsStay
<1>14. h[n] = [nodes |-> all, node |-> at.node]
  <2>1. n \in 0 .. n
    OBVIOUS
  <2> QED BY <1>1, <1>8, <1>11, <1>13, <2>1
<1>15. PICK s : s = h[n]
  OBVIOUS
<1>16. h[n + 1] = WalkOn(s, x)
  <2>1. n + 1 \in 1 .. n + 1 /\ n + 1 - 1 = n
    OBVIOUS
  <2> QED BY <1>2, <1>7, <1>15, <2>1
<1>17. WalkOn(s, x) = FsFinddir(all, at.node, x)
  BY <1>14, <1>15 DEF WalkOn
<1> QED BY <1>2, <1>5, <1>16, <1>17

\* Of a path, the first names that are shown stay.
LEMMA ResolvePrefix ==
    ASSUME NEW names \in Seq(Plain), NEW u, IsResolving(names, u), NEW k \in Nat, k <= Len(names),
           \A i \in 1 .. k : names[i] \in Shown
    PROVE  IsPrefix(u[k], names, k)
<1>1. Len(names) \in Nat
  BY LenProperties
<1>2. /\ u[0] = <<>> /\ \A i \in 1 .. k : u[i] = ResolveName(u[i - 1], names[i])
  BY <1>1 DEF IsResolving
<1>3. PICK Good : Good = {i \in 0 .. k : IsPrefix(u[i], names, i)}
  OBVIOUS
<1>4. 0 \in Good
  <2>1. IsPrefix(<<>>, names, 0)
    BY EmptySeq DEF IsPrefix
  <2>2. 0 \in 0 .. k /\ u[0] = <<>>
    BY <1>2
  <2> QED BY <1>3, <2>1, <2>2
<1>5. ASSUME NEW i \in 1 .. k, i - 1 \in Good PROVE i \in Good
  <2>1. PICK j \in Nat : j = i - 1
    OBVIOUS
  <2>2. PICK name, t : name = names[j + 1] /\ t = u[j]
    OBVIOUS
  <2>3. j + 1 = i /\ name \in Shown /\ IsPrefix(t, names, j) /\ i \in 0 .. k
    BY <1>3, <1>5, <2>1, <2>2
  <2>4. u[i] = Append(t, name)
    <3>1. u[i] = ResolveName(t, name)
      BY <1>2, <2>1, <2>2, <2>3
    <3>2. name \notin DoubleDotted /\ name \notin Dotted
      BY <2>3 DEF Shown, DotNames
    <3> QED BY <3>1, <3>2 DEF ResolveName
  <2>5. IsPrefix(Append(t, name), names, j + 1)
    BY <2>2, <2>3, PrefixAppended
  <2> QED BY <1>3, <2>3, <2>4, <2>5
<1>6. PICK f : f = [i \in 0 .. k |-> i]
  OBVIOUS
<1>7. f[0] \in Good /\ \A i \in 1 .. k : f[i - 1] \in Good => f[i] \in Good
  <2>1. 0 \in 0 .. k /\ \A i \in 1 .. k : i \in 0 .. k /\ i - 1 \in 0 .. k
    OBVIOUS
  <2> QED BY <1>4, <1>5, <1>6, <2>1
<1>8. \A i \in 0 .. k : f[i] \in Good
  BY <1>7, RunsStay
<1>9. k \in Good
  <2>1. k \in 0 .. k
    OBVIOUS
  <2> QED BY <1>6, <1>8, <2>1
<1> QED BY <1>3, <1>9

\* A path of names that are shown is resolved, and a dot behind it changes nothing.
LEMMA ResolveShown ==
    ASSUME NEW names \in Seq(Shown)
    PROVE  Resolve(names) = names /\ Resolve(names \o <<".">>) = names
<1>1. names \in Seq(Plain) /\ Shown \subseteq Plain
  BY SeqMonotonic DEF Shown
<1>2. PICK k \in Nat : k = Len(names)
  BY LenProperties
<1>3. \A i \in 1 .. k : names[i] \in Shown
  BY <1>2, ElementOfSeq
<1>4. Resolve(names) = names
  <2>1. PICK u : IsResolving(names, u)
    BY <1>1, ResolveRun
  <2>2. IsPrefix(u[k], names, k)
    BY <1>1, <1>2, <1>3, <2>1, ResolvePrefix
  <2>3. u[k] \in Seq(Shown) /\ Len(u[k]) = k /\ \A i \in 1 .. k : u[k][i] = names[i]
    BY <2>2 DEF IsPrefix
  <2>4. u[k] = names
    BY <1>2, <2>3, SeqEqual
  <2> QED BY <1>2, <2>1, <2>4 DEF IsResolving
<1>5. "." \in Plain /\ "." \in Dotted /\ "." \notin DoubleDotted
  <2>1. "." \in Dotted /\ "." \notin DoubleDotted /\ "." \notin Range(VolumeNames)
    BY VfsAssumption
  <2> QED BY <2>1 DEF Plain, Words, Marks
<1>6. PICK more : more = names \o <<".">>
  OBVIOUS
<1>7. /\ more \in Seq(Plain) /\ Len(more) = k + 1 /\ more[k + 1] = "."
      /\ \A i \in 1 .. k : more[i] = names[i]
  BY <1>1, <1>2, <1>5, <1>6
<1>8. Resolve(more) = names
  <2>1. PICK u : IsResolving(more, u)
    BY <1>7, ResolveRun
  <2>2. IsPrefix(u[k], more, k)
    BY <1>3, <1>7, <2>1, ResolvePrefix
  <2>3. u[k] \in Seq(Shown) /\ Len(u[k]) = k /\ \A i \in 1 .. k : u[k][i] = names[i]
    BY <1>7, <2>2 DEF IsPrefix
  <2>4. u[k] = names
    BY <1>2, <2>3, SeqEqual
  <2>5. Resolve(more) = u[k + 1] /\ u[k + 1] = ResolveName(u[k], ".")
    <3>1. k + 1 \in 1 .. k + 1 /\ k + 1 - 1 = k
      OBVIOUS
    <3> QED BY <1>7, <2>1, <3>1 DEF IsResolving
  <2>6. ResolveName(names, ".") = names
    BY <1>5 DEF ResolveName
  <2> QED BY <2>4, <2>5, <2>6
<1> QED BY <1>4, <1>6, <1>8

-----------------------------------------------------------------------------
(***************************************************************************)
(* Whatever a directory lists is found.                                    *)
(***************************************************************************)

\* All that readdir of node n has at some index.
Entries(ns, n) == UNION {Range(FsReaddir(ns, n, j)) : j \in Nat}

\* readdir has an entry or none.
LEMMA ReaddirOne ==
    ASSUME NEW ns, NEW n, NEW j
    PROVE  FsReaddir(ns, n, j) = <<>> \/ \E e : FsReaddir(ns, n, j) = <<e>>
<1>1. PICK m : m = Crossed(ns, n)
  OBVIOUS
<1>2. ChildAt(ns, m, j) = <<>> \/ \E e : ChildAt(ns, m, j) = <<e>>
  BY DEF ChildAt
<1>3. DeviceAt(ns, j) = <<>> \/ \E e : DeviceAt(ns, j) = <<e>>
  BY DEF DeviceAt
<1>4. FatReaddir(ns, m, j) = <<>> \/ \E e : FatReaddir(ns, m, j) = <<e>>
  BY DEF FatReaddir
<1>5. FsReaddir(ns, n, j) \in {<<>>, ChildAt(ns, m, j), DeviceAt(ns, j), FatReaddir(ns, m, j)}
  BY <1>1 DEF FsReaddir
<1> QED BY <1>2, <1>3, <1>4, <1>5

\* getdents lists what readdir has.
LEMMA GetdentsFrom ==
    ASSUME NEW ns, NEW n, NEW room \in Nat
    PROVE  Range(Getdents(ns, n, room)) \subseteq Entries(ns, n)
<1> DEFINE S == Seq(Entries(ns, n))
           Next(x, i) == IF Len(x) < i - 1 THEN x ELSE x \o FsReaddir(ns, n, i - 1)
           Clauses(f) == f = [i \in 0 .. room |->
                                 IF i = 0 THEN <<>>
                                 ELSE IF Len(f[i - 1]) < i - 1 THEN f[i - 1]
                                 ELSE f[i - 1] \o FsReaddir(ns, n, i - 1)]
           Done == CHOOSE f : Clauses(f)
<1>1. PICK first : first \in S /\ first = <<>>
  BY EmptySeq
<1>2. PICK step : step = [x \in S \X (1 .. room) |-> Next(x[1], x[2])]
  OBVIOUS
<1>3. \A x \in S, i \in 1 .. room : Next(x, i) \in S
  <2> SUFFICES ASSUME NEW x \in S, NEW i \in 1 .. room PROVE Next(x, i) \in S
    OBVIOUS
  <2>1. PICK r : r = FsReaddir(ns, n, i - 1)
    OBVIOUS
  <2>2. i - 1 \in Nat
    OBVIOUS
  <2>3. Range(r) \subseteq Entries(ns, n)
    BY <2>1, <2>2 DEF Entries
  <2>4. r = <<>> \/ \E e : r = <<e>>
    BY <2>1, ReaddirOne
  <2>5. r \in S
    <3>1. CASE r = <<>>
      BY <3>1, EmptySeq
    <3>2. ASSUME NEW e, r = <<e>> PROVE r \in S
      <4>1. e \in Range(r)
        BY <3>2 DEF Range
      <4>2. e \in Entries(ns, n)
        BY <2>3, <4>1
      <4> QED BY <3>2, <4>2
    <3> QED BY <2>4, <3>1, <3>2
  <2>6. x \o r \in S
    BY <2>5, ConcatProperties
  <2> QED BY <2>1, <2>6
<1> HIDE DEF S, Next
<1>4. step \in [S \X (1 .. room) -> S]
  BY <1>2, <1>3
<1>5. \E f \in [0 .. room -> S] : IsRun(f, room, first, step)
  BY <1>1, <1>4, StepsExist
<1>6. PICK f \in [0 .. room -> S] :
        f[0] = first /\ \A i \in 1 .. room : f[i] = step[<<f[i - 1], i>>]
  BY <1>5 DEF IsRun
<1>7. Clauses(f)
  <2>1. ASSUME NEW i \in 0 .. room, i # 0
        PROVE  f[i] = IF Len(f[i - 1]) < i - 1 THEN f[i - 1]
                      ELSE f[i - 1] \o FsReaddir(ns, n, i - 1)
    <3>1. i \in 1 .. room /\ i - 1 \in 0 .. room
      BY <2>1
    <3>2. f[i - 1] \in S
      BY <1>6, <3>1
    <3> QED BY <1>2, <1>6, <3>1, <3>2 DEF Next
  <2>2. f[0] = <<>>
    BY <1>1, <1>6
  <2> QED BY <1>6, <2>1, <2>2
<1>8. Clauses(Done)
  <2> HIDE DEF Clauses
  <2> QED BY <1>7, Zenon
<1>9. PICK g : g = Done /\ Clauses(g)
  BY <1>8
<1>10. Getdents(ns, n, room) = Done[room]
  BY Zenon DEF Getdents, Done, Clauses
<1> HIDE DEF Done
<1>11. g[0] \in S
  <2>1. 0 \in 0 .. room
    OBVIOUS
  <2> QED BY <1>1, <1>9, <2>1
<1>12. \A i \in 1 .. room : g[i] = Next(g[i - 1], i)
  <2> SUFFICES ASSUME NEW i \in 1 .. room PROVE g[i] = Next(g[i - 1], i)
    OBVIOUS
  <2>1. i \in 0 .. room /\ i # 0
    OBVIOUS
  <2> QED BY <1>9, <2>1 DEF Next
<1> HIDE DEF Clauses
<1>13. \A i \in 1 .. room : g[i - 1] \in S => g[i] \in S
  BY <1>3, <1>12
<1>14. \A i \in 0 .. room : g[i] \in S
  BY <1>11, <1>13, RunsStay
<1>15. PICK list : list = Getdents(ns, n, room)
  OBVIOUS
<1>16. list \in Seq(Entries(ns, n))
  BY <1>9, <1>10, <1>14, <1>15 DEF S
<1>17. Range(list) \subseteq Entries(ns, n)
  BY <1>16, RangeOfSeq
<1> QED BY <1>15, <1>17

\* e is an entry for what the volume has below node m.
InVolume(ns, m, e) ==
    LET place == FatPlace(ns, m)
        kind == KindAt(ns, volumes, place.at, Append(place.names, e.name))
    IN  kind # "none" /\ e.type = TypeOfKind(kind) /\ e.name \in Plain

\* readdir of fatfilesystem.c has only what the volume has, if its name fits.
LEMMA FatEntry ==
    ASSUME NEW dv, NEW ns, Ordered(ns, dv, volumes), NEW m \in FatNodes(ns), NEW k \in Nat,
           Shallow(ns, m, k), k < PathLimit, NEW j \in Nat, NEW e, e \in Range(FatReaddir(ns, m, j))
    PROVE  InVolume(ns, m, e)
<1> DEFINE Place == FatPlace(ns, m)
           Held == Images[ns[volumes[VolumeOf(Place.at)]].name].tree
           Within == {t \in DOMAIN Held : t # <<>> /\ SubSeq(t, 1, Len(t) - 1) = Place.names}
           Order == CHOOSE o \in [1 .. Cardinality(Within) -> Within] : Range(o) = Within
           At == Order[j + 1]
<1>1. FatReaddir(ns, m, j)
          = IF j >= Cardinality(Within) \/ Len(Place.names) > PathLimit THEN <<>>
            ELSE <<[name |-> At[Len(At)],
                    type |-> IF Held[At] = "dir" THEN {"DIR"} ELSE {"FILE"}]>>
  BY Zenon DEF FatReaddir
<1>2. PICK names, r, d : names = Place.names /\ r = Place.at /\ d = ns[volumes[VolumeOf(r)]].name
  OBVIOUS
<1>3. r \in FatRoots(ns) /\ names \in Seq(Plain) /\ Len(names) <= k
  BY <1>2, FatPlaceOf DEF Shallow
<1>4. d \in DOMAIN Images /\ Held = Images[d].tree
  BY <1>2, <1>3, VolumeTaken
<1>5. PICK tree : tree = Held
  OBVIOUS
<1>6. IsFiniteSet(DOMAIN tree) /\ DOMAIN tree \subseteq Seq(GivenNames)
      /\ Range(tree) \subseteq {"dir", "file", "readonly"}
  <2> HIDE DEF Held
  <2> QED BY <1>4, <1>5, VfsAssumption
<1>7. PICK within :
        within = {t \in DOMAIN tree : t # <<>> /\ SubSeq(t, 1, Len(t) - 1) = names}
  OBVIOUS
<1>8. IsFiniteSet(within)
  BY <1>6, <1>7, FS_Subset
<1>9. PICK c \in Nat : c = Cardinality(within)
  BY <1>8, FS_CardinalityType
<1>10. within = Within
  <2> HIDE DEF Held, Place
  <2> QED BY <1>2, <1>5, <1>7
<1>11. PICK order, at : order = Order /\ at = At
  OBVIOUS
<1>12. order \in [1 .. c -> within]
  <2>1. \E o \in [1 .. c -> within] : Range(o) = within
    <3>1. ExistsBijection(1 .. c, within)
      BY <1>8, <1>9, FS_CardinalityType
    <3>2. PICK o : o \in Bijection(1 .. c, within)
      BY <3>1 DEF ExistsBijection
    <3>3. o \in [1 .. c -> within] /\ \A t \in within : \E i \in 1 .. c : o[i] = t
      BY <3>2 DEF Bijection, Surjection, Injection
    <3> QED BY <3>3 DEF Range
  <2> HIDE DEF Within
  <2>2. order = CHOOSE o \in [1 .. c -> within] : Range(o) = within
    BY <1>9, <1>10, <1>11
  <2> QED BY <2>1, <2>2
<1>13. /\ at = order[j + 1]
       /\ FatReaddir(ns, m, j) = IF j >= c \/ Len(names) > PathLimit THEN <<>>
                                 ELSE <<[name |-> at[Len(at)],
                                       type |-> IF tree[at] = "dir" THEN {"DIR"} ELSE {"FILE"}]>>
  <2>1. at = order[j + 1]
    BY <1>11
  <2> HIDE DEF Place, Held, Within, Order, At
  <2> QED BY <1>1, <1>2, <1>5, <1>9, <1>10, <1>11, <2>1
<1> HIDE DEF Place, Held, Within, Order, At
<1>14. ~ (j >= c) /\ e = [name |-> at[Len(at)],
                          type |-> IF tree[at] = "dir" THEN {"DIR"} ELSE {"FILE"}]
  BY <1>13 DEF Range
<1>15. at \in within
  <2>1. j + 1 \in 1 .. c
    BY <1>14
  <2> QED BY <1>12, <1>13, <2>1
<1>16. at \in DOMAIN tree /\ at \in Seq(GivenNames) /\ at # <<>>
       /\ SubSeq(at, 1, Len(at) - 1) = names
  BY <1>6, <1>7, <1>15
<1>17. PICK n \in Nat : n = Len(at)
  BY <1>16, LenProperties
<1>18. n >= 1
  <2>1. n # 0
    BY <1>16, <1>17, EmptySeq
  <2> QED BY <2>1
<1>19. \A i \in 1 .. n : at[i] \in GivenNames
  BY <1>16, <1>17, ElementOfSeq
<1>20. GivenNames \subseteq Plain
  BY DEF GivenNames, Plain, Words
<1>21. PICK last : last = at[n]
  OBVIOUS
<1>22. last \in Plain /\ e.name = last
  BY <1>14, <1>17, <1>18, <1>19, <1>20, <1>21
<1>23. Len(names) = n - 1 /\ \A i \in 1 .. n - 1 : names[i] = at[i]
  BY <1>16, <1>17, <1>18, <1>19, SubSeqProperties
<1>24. Append(names, last) = at
  <2>1. PICK u : u = Append(names, last)
    OBVIOUS
  <2>2. /\ u \in Seq(Plain) /\ Len(u) = n /\ u[n] = last
        /\ \A i \in 1 .. n - 1 : u[i] = names[i]
    BY <1>3, <1>18, <1>22, <1>23, <2>1, AppendProperties
  <2>3. at \in Seq(Plain)
    BY <1>16, <1>20, SeqMonotonic
  <2>4. \A i \in 1 .. n : i \in 1 .. n - 1 \/ i = n
    OBVIOUS
  <2>5. \A i \in 1 .. n : u[i] = at[i]
    BY <1>21, <1>23, <2>2, <2>4
  <2>6. u = at
    BY <1>17, <2>2, <2>3, <2>5, SeqEqual
  <2> QED BY <2>1, <2>6
<1>25. n <= PathLimit
  BY <1>3, <1>23, Constants
<1>26. KindAt(ns, volumes, r, at) = tree[at]
  BY <1>2, <1>4, <1>5, <1>16, <1>17, <1>25 DEF KindAt
<1>27. tree[at] \in {"dir", "file", "readonly"}
  BY <1>6, <1>16 DEF Range
<1>28. e.type = TypeOfKind(tree[at]) /\ tree[at] # "none"
  BY <1>14, <1>27 DEF TypeOfKind
<1> QED BY <1>2, <1>22, <1>24, <1>26, <1>28 DEF InVolume, Place

\* An entry is that of a node in the list of the directory, or of what the volume has there.
IsListed(ns, n, e) == \E x : Leads(ns, n, x) /\ e = EntryOf(ns, x)
IsInVolume(ns, n, e) ==
    LET m == Crossed(ns, n)
    IN  (m # n \/ "DIR" \in ns[m].type) /\ m \in FatNodes(ns) /\ InVolume(ns, m, e)

\* An entry of fs_readdir is that of a child, or of what FAT has in the directory.
LEMMA EntryIs ==
    ASSUME NEW dv, NEW ns, Ordered(ns, dv, volumes), ListOf(devices, dv), NEW n \in DOMAIN ns,
           NEW k \in Nat, Shallow(ns, n, k), k < PathLimit, NEW e \in Entries(ns, n)
    PROVE  \/ IsListed(ns, n, e) /\ ns[Crossed(ns, n)].fs \notin {"fat", "fatroot"}
           \/ IsInVolume(ns, n, e)
<1>1. PICK m : m = Crossed(ns, n)
  OBVIOUS
<1>2. m \in DOMAIN ns /\ ns[m].kids \in Seq(Ids)
  <2>1. m \in DOMAIN ns
    BY <1>1, CrossedFacts
  <2> QED BY <2>1, NodeFacts
<1>3. PICK j \in Nat : e \in Range(FsReaddir(ns, n, j))
  BY DEF Entries
<1>4. Range(<<>>) = {}
  BY DEF Range
<1>5. ASSUME NEW list \in Seq(Ids), list = ChildList(ns, m), ns[m].fs \in Searched,
             m # n \/ "DIR" \in ns[m].type,
             e \in Range(IF j < Len(list) THEN <<EntryOf(ns, list[j + 1])>> ELSE <<>>)
      PROVE  IsListed(ns, n, e)
  <2>1. j < Len(list) /\ e \in Range(<<EntryOf(ns, list[j + 1])>>)
    BY <1>4, <1>5
  <2>2. e = EntryOf(ns, list[j + 1])
    BY <2>1 DEF Range
  <2>3. j + 1 \in DOMAIN list
    BY <1>5, <2>1, LenProperties
  <2>4. PICK x : x = list[j + 1]
    OBVIOUS
  <2>5. InList(list, x)
    BY <2>3, <2>4 DEF InList
  <2>6. Leads(ns, n, x)
    BY <1>1, <1>5, <2>5 DEF Leads
  <2> QED BY <2>2, <2>4, <2>6 DEF IsListed
<1>6. m # n \/ "DIR" \in ns[m].type
  BY <1>1, <1>3, <1>4 DEF FsReaddir
<1>7. CASE ns[m].fs \in {"root", "system", "threads"}
  <2>1. e \in Range(ChildAt(ns, m, j))
    BY <1>1, <1>3, <1>6, <1>7 DEF FsReaddir
  <2>2. PICK list \in Seq(Ids) : list = ns[m].kids
    BY <1>2
  <2>3. list = ChildList(ns, m) /\ ns[m].fs \in Searched
    BY <1>7, <2>2 DEF ChildList, Searched
  <2>4. e \in Range(IF j < Len(list) THEN <<EntryOf(ns, list[j + 1])>> ELSE <<>>)
    BY <2>1, <2>2 DEF ChildAt
  <2>5. IsListed(ns, n, e)
    BY <1>5, <1>6, <2>3, <2>4
  <2> QED BY <1>1, <1>7, <2>5
<1>8. CASE ns[m].fs = "dev"
  <2>1. e \in Range(DeviceAt(ns, j))
    BY <1>1, <1>3, <1>6, <1>8 DEF FsReaddir
  <2>2. devices \in Seq(Ids) /\ devices = ChildList(ns, m) /\ ns[m].fs \in Searched
    BY <1>8 DEF ListOf, ChildList, Searched
  <2>3. e \in Range(IF j < Len(devices) THEN <<EntryOf(ns, devices[j + 1])>> ELSE <<>>)
    BY <2>1 DEF DeviceAt
  <2>4. IsListed(ns, n, e)
    BY <1>5, <1>6, <2>2, <2>3
  <2> QED BY <1>1, <1>8, <2>4
<1>9. CASE ns[m].fs \in {"fat", "fatroot"}
  <2>1. e \in Range(FatReaddir(ns, m, j))
    BY <1>1, <1>3, <1>6, <1>9 DEF FsReaddir
  <2>2. m \in FatNodes(ns)
    BY <1>2, <1>9 DEF FatNodes
  <2>3. Shallow(ns, m, k)
    BY <1>1, CrossedShallow
  <2>4. InVolume(ns, m, e)
    BY <2>1, <2>2, <2>3, FatEntry
  <2> QED BY <1>1, <1>6, <2>2, <2>4 DEF IsInVolume
<1>10. CASE ns[m].fs \notin {"root", "system", "threads", "dev", "fat", "fatroot"}
  <2>1. FsReaddir(ns, n, j) = <<>>
    BY <1>1, <1>6, <1>10 DEF FsReaddir
  <2> QED BY <1>3, <1>4, <2>1
<1> QED BY <1>7, <1>8, <1>9, <1>10

\* stat of a node of FAT says of which kind its volume has it.
LEMMA FatStatMode ==
    ASSUME NEW dv, NEW ns, Ordered(ns, dv, volumes), NEW x \in DOMAIN ns, ns[x].fs = "fat"
    PROVE  FsStat(ns, x).mode \in ns[x].type \ {"MOUNT"}
<1> DEFINE kinds == <<"DIR", "CHAR", "BLOCK", "FILE">>
<1>1. PICK kind : kind = FatKind(ns, volumes, x)
  OBVIOUS
<1>2. kind # "none" /\ ns[x].type \ {"MOUNT"} = TypeOfKind(kind)
  BY <1>1, NodeFacts DEF FatOf
<1>3. kind = FStat(ns, FatPlace(ns, x).at, FatPlace(ns, x).names)
  <2>1. FatKind(ns, volumes, x) = FStat(ns, FatPlace(ns, x).at, FatPlace(ns, x).names)
    BY Zenon DEF FatKind, KindAt, FStat
  <2> QED BY <1>1, <2>1
<1>4. PICK after : after = FatStat(ns, x)
  OBVIOUS
<1>5. after = [ns EXCEPT ![x].type = TypeOfKind(kind)]
  BY <1>2, <1>3, <1>4 DEF FatStat, TypeOfKind
<1>6. after[x].type = TypeOfKind(kind)
  <2>1. ns[x] \in NodeRecords
    BY DEF Ordered, Tree, Typed
  <2> QED BY <1>5, <2>1 DEF NodeRecords
<1>7. PICK type : type = TypeOfKind(kind)
  OBVIOUS
<1>8. PICK hits : hits = {i \in DOMAIN kinds : kinds[i] \in type}
  OBVIOUS
<1>9. FsStat(ns, x).mode = kinds[CHOOSE i \in hits : \A j \in hits : i <= j]
  BY <1>4, <1>6, <1>7, <1>8 DEF FsStat
<1>10. CASE kind = "dir"
  <2>1. type = {"DIR"} /\ hits = {1}
    BY <1>7, <1>8, <1>10 DEF TypeOfKind
  <2>2. (CHOOSE i \in hits : \A j \in hits : i <= j) = 1
    BY <2>1
  <2> QED BY <1>2, <1>7, <1>9, <2>1, <2>2
<1>11. CASE kind # "dir"
  <2>1. type = {"FILE"} /\ hits = {4}
    BY <1>7, <1>8, <1>11 DEF TypeOfKind
  <2>2. (CHOOSE i \in hits : \A j \in hits : i <= j) = 4
    BY <2>1
  <2> QED BY <1>2, <1>7, <1>9, <2>1, <2>2
<1> QED BY <1>10, <1>11

\* s is a node of the kind that entry e says.
FoundAs(s, e) ==
    /\ s.node # Null /\ e.type \subseteq s.nodes[s.node].type
    /\ FsStat(s.nodes, s.node).mode \in {"none"} \cup e.type

\* The node of an entry from the list of a directory is found again.
LEMMA ListedFound ==
    ASSUME NEW dv, NEW ns, Ordered(ns, dv, volumes), ListOf(devices, dv), NEW n \in DOMAIN ns,
           NEW e, IsListed(ns, n, e), ns[Crossed(ns, n)].fs \notin {"fat", "fatroot"}
    PROVE  e.name \in Plain /\ FoundAs(FsFinddir(ns, n, e.name), e)
<1>1. PICK x : Leads(ns, n, x) /\ e = EntryOf(ns, x)
  BY DEF IsListed
<1>2. e.name = ns[x].name /\ e.type = ns[x].type
  BY <1>1 DEF EntryOf
<1>3. PICK m : m = Crossed(ns, n)
  OBVIOUS
<1>4. m \in DOMAIN ns
  BY <1>3, CrossedFacts
<1>5. IsChildOf(ns, m, x)
  <2>1. InList(ChildList(ns, m), x)
    BY <1>1, <1>3 DEF Leads
  <2> QED BY <1>4, <2>1, ChildFacts
<1>6. x \in DOMAIN ns /\ x # Null /\ ns[x].parent = m
  BY <1>5 DEF IsChildOf
<1>7. PICK s : s = FsFinddir(ns, n, e.name)
  OBVIOUS
<1>8. s = [nodes |-> ns, node |-> x]
  BY <1>1, <1>2, <1>7, FinddirAgain
<1>9. ns[x].fs # "fat"
  BY <1>3, <1>6, NodeFacts DEF FatOf
<1>10. FsStat(ns, x).mode = "none"
  BY <1>9 DEF FsStat
<1>11. e.name \in Plain
  BY <1>2, <1>6, NodeFacts
<1>12. FoundAs(s, e)
  BY <1>2, <1>6, <1>8, <1>10 DEF FoundAs
<1> QED BY <1>7, <1>11, <1>12

\* What a volume has gets its node if it has none yet, of the right kind.
LEMMA InVolumeFound ==
    ASSUME NEW dv, NEW ns, Ordered(ns, dv, volumes), ListOf(devices, dv), NEW n \in DOMAIN ns,
           ns[n].name \notin DotNames, NEW e, IsInVolume(ns, n, e)
    PROVE  e.name \in Plain /\ FoundAs(FsFinddir(ns, n, e.name), e)
<1>1. PICK m, name, s : m = Crossed(ns, n) /\ name = e.name /\ s = FsFinddir(ns, n, name)
  OBVIOUS
<1>2. (m # n \/ "DIR" \in ns[m].type) /\ m \in FatNodes(ns) /\ InVolume(ns, m, e)
  BY <1>1 DEF IsInVolume
<1>3. PICK place : place = FatPlace(ns, m)
  OBVIOUS
<1>4. PICK kind : kind = KindAt(ns, volumes, place.at, Append(place.names, name))
  OBVIOUS
<1>5. kind # "none" /\ e.type = TypeOfKind(kind) /\ name \in Plain
  BY <1>1, <1>2, <1>3, <1>4 DEF InVolume
<1>6. FoundBelow(ns, dv, n, name, s)
  BY <1>1, <1>5, FinddirOrder
<1>7. m \in DOMAIN ns /\ ns[m].fs \in {"fat", "fatroot"} /\ m \in Ids
  <2>1. m \in DOMAIN ns /\ ns[m].fs \in {"fat", "fatroot"}
    BY <1>2 DEF FatNodes
  <2> QED BY <2>1, NodeFacts
<1>8. s.node # Null
  <2>1. PICK cached : cached = Named(ns, ns[m].kids, name)
    OBVIOUS
  <2>2. s = FatFinddir(ns, m, name, cached)
    BY <1>1, <1>2, <1>7, <2>1 DEF FsFinddir, NodeFinddir
  <2>3. CASE cached # Null
    BY <2>2, <2>3 DEF FatFinddir
  <2>4. CASE cached = Null
    <3>1. KindAt(ns, volumes, place.at, Append(place.names, name))
              = FStat(ns, place.at, Append(place.names, name))
      BY Zenon DEF KindAt, FStat
    <3>2. s.node = Append(m, name)
      BY <1>3, <1>4, <1>5, <2>2, <2>4, <3>1 DEF FatFinddir
    <3>3. Null = Append(<<>>, "@null") /\ <<>> \in Ids /\ "@null" \in Words /\ "@null" \notin Plain
      BY FixedIds DEF Null, Words, Plain, Marks
    <3>4. name \in Words /\ name # "@null"
      BY <1>5, <3>3 DEF Plain
    <3>5. PICK none, empty : none = "@null" /\ empty = <<>>
      OBVIOUS
    <3>6. none \in Words /\ empty \in Ids /\ name # none /\ Null = Append(empty, none)
      BY <3>3, <3>4, <3>5
    <3>7. Append(m, name) # Append(empty, none)
      BY <1>7, <3>4, <3>6, OneAppend
    <3> QED BY <3>2, <3>6, <3>7
  <2> QED BY <2>3, <2>4
<1>9. PICK x, new : x = s.node /\ new = s.nodes
  OBVIOUS
<1>10. /\ Ordered(new, dv, volumes) /\ Grown(ns, new) /\ Leads(new, n, x)
       /\ new[x].name = name
  BY <1>6, <1>8, <1>9 DEF FoundBelow
<1>11. Stays(ns, new, n) /\ SameNode(ns, new, m) /\ Grows(ns, new)
  BY <1>7, <1>10 DEF Grown, Stays
<1>12. Crossed(new, n) = m
  BY <1>1, <1>11 DEF Crossed, Stays
<1>13. m \in FatNodes(new) /\ FatPlace(new, m) = place
  BY <1>2, <1>3, <1>11, FatPlaceKept
<1>14. m \in DOMAIN new /\ new[m].fs \in {"fat", "fatroot"} /\ InList(new[m].kids, x)
  <2>1. m \in DOMAIN new /\ new[m].fs \in {"fat", "fatroot"}
    BY <1>13 DEF FatNodes
  <2> QED BY <1>10, <1>12, <2>1 DEF Leads, ChildList
<1>15. x \in DOMAIN new /\ new[x].fs = "fat" /\ new[x].parent = m
  BY <1>10, <1>14, NodeFacts DEF InList, KidsOf, Kid
<1>16. FatPlace(new, x).at = place.at /\ FatPlace(new, x).names = Append(place.names, name)
  <2>1. x \in FatNodes(new)
    BY <1>15 DEF FatNodes
  <2> QED BY <1>10, <1>13, <1>15, <2>1, FatPlaceOf
<1>17. FatKind(new, volumes, x) = kind
  <2>1. place.at \in FatRoots(ns)
    BY <1>2, <1>3, FatPlaceOf
  <2>2. StillTaken(volumes, volumes)
    BY DEF StillTaken
  <2>3. KindAt(new, volumes, place.at, Append(place.names, name)) = kind
    BY <1>4, <1>11, <2>1, <2>2, KindKept
  <2> QED BY <1>16, <2>3 DEF FatKind
<1>18. new[x].type \ {"MOUNT"} = e.type
  BY <1>5, <1>10, <1>15, <1>17, NodeFacts DEF FatOf
<1>19. FsStat(new, x).mode \in e.type
  BY <1>10, <1>15, <1>18, FatStatMode
<1>20. FoundAs(s, e)
  BY <1>8, <1>9, <1>18, <1>19 DEF FoundAs
<1> QED BY <1>1, <1>5, <1>20

\* Looking up paths, as the invariant says, in a tree in order.
LEMMA EntryFound ==
    ASSUME NEW dv, NEW ns, Ordered(ns, dv, volumes), ListOf(devices, dv), NEW n \in DOMAIN ns,
           ns[n].name \notin DotNames, NEW k \in Nat, Shallow(ns, n, k), k < PathLimit,
           NEW e \in Entries(ns, n)
    PROVE  e.name \in Plain /\ FoundAs(FsFinddir(ns, n, e.name), e)
<1>1. CASE IsListed(ns, n, e) /\ ns[Crossed(ns, n)].fs \notin {"fat", "fatroot"}
  BY <1>1, ListedFound
<1>2. CASE IsInVolume(ns, n, e)
  BY <1>2, InVolumeFound
<1> QED BY <1>1, <1>2, EntryIs


-----------------------------------------------------------------------------
(***************************************************************************)
(* Every name leads where it should.                                       *)
(***************************************************************************)

\* "." finds the path of the working directory.
LEMMA DotFindsCwd ==
    ASSUME Ordered(nodes, DeviceSet, volumes), ListOf(devices, DeviceSet), NEW p,
           cwd[p] \in DOMAIN nodes, nodes[cwd[p]].name \notin DotNames,
           NEW at, at = Locate(p, [abs |-> FALSE, names |-> <<".">>]), at.node # Null
    PROVE  NamesDown(at.nodes, at.node) = Getcwd(p)
<1>1. PICK path : path = [abs |-> FALSE, names |-> <<".">>]
  OBVIOUS
<1>2. ~ path.abs /\ path.names = <<".">> /\ path.names # <<>>
  BY <1>1
<1>3. at = GetRelative(nodes, cwd[p], <<".">>)
  BY <1>1, <1>2 DEF Locate
<1>4. PICK real : real = NamesDown(nodes, cwd[p])
  OBVIOUS
<1>5. real \in Seq(Shown)
  BY <1>4, NamesDownOf
<1>6. NodePath(nodes, cwd[p]) # TooLong
  BY <1>3 DEF GetRelative
<1>7. Getcwd(p) = real /\ at = GetNode(nodes, real \o <<".">>)
  BY <1>3, <1>4, <1>6 DEF Getcwd, GetRelative, NodePath
<1>8. PICK names : names = real \o <<".">>
  OBVIOUS
<1>9. names \in Seq(Plain)
  <2>1. "." \in Plain
    BY VfsAssumption DEF Plain, Words, Marks
  <2>2. real \in Seq(Plain) /\ <<".">> \in Seq(Plain)
    BY <1>5, <2>1 DEF Shown
  <2> QED BY <1>8, <2>2
<1>10. Resolve(names) = real
  BY <1>5, <1>8, ResolveShown
<1>11. LookedUp(nodes, DeviceSet, real, at)
  BY <1>7, <1>8, <1>9, <1>10, GetNodeOrder
<1> QED BY <1>7, <1>11 DEF LookedUp

\* What getdents lists in a directory that was found can be looked up there.
LEMMA ListedIsFound ==
    ASSUME NEW dv, NEW ns, Ordered(ns, dv, volumes), ListOf(devices, dv), NEW names \in Seq(Plain),
           NEW at, at = GetNode(ns, names), at.node # Null, NEW real, real = Resolve(names),
           Len(real) < PathLimit, NEW room \in Nat,
           NEW e \in Range(Getdents(at.nodes, at.node, room)),
           e.name \notin DotNames
    PROVE  FoundAs(GetNode(at.nodes, Append(real, e.name)), e)
<1>1. real \in Seq(Shown)
  BY ResolveType
<1>2. PICK g : IsWalk(ns, dv, real, g) /\ at = g[Len(real)]
  <2>1. Tree(ns, dv)
    BY DEF Ordered
  <2> QED BY <2>1, GetNodeRun
<1>3. LookedUp(ns, dv, real, at)
  BY <1>1, <1>2, WalkReaches
<1>4. /\ Ordered(at.nodes, dv, volumes) /\ at.node \in DOMAIN at.nodes
      /\ at.nodes[at.node].name \notin DotNames /\ Shallow(at.nodes, at.node, Len(real))
  BY <1>3 DEF LookedUp
<1>5. e \in Entries(at.nodes, at.node)
  BY GetdentsFrom
<1>6. PICK k \in Nat : k = Len(real)
  BY <1>1, LenProperties
<1>7. PICK ns2, n : ns2 = at.nodes /\ n = at.node
  OBVIOUS
<1>8. e.name \in Plain /\ FoundAs(FsFinddir(ns2, n, e.name), e)
  BY <1>4, <1>5, <1>6, <1>7, EntryFound
<1>9. PICK x : x = e.name
  OBVIOUS
<1>10. x \in Shown
  BY <1>8, <1>9 DEF Shown
<1>11. PICK more : more = Append(real, x)
  OBVIOUS
<1>12. more \in Seq(Shown) /\ more \in Seq(Plain) /\ Resolve(more) = more
  <2>1. more \in Seq(Shown)
    BY <1>1, <1>10, <1>11, AppendProperties
  <2>2. more \in Seq(Plain)
    BY <2>1 DEF Shown
  <2> QED BY <2>1, <2>2, ResolveShown
<1>13. PICK h : IsWalk(ns2, dv, more, h) /\ GetNode(ns2, more) = h[Len(more)]
  <2>1. Tree(ns2, dv)
    BY <1>4, <1>7 DEF Ordered
  <2>2. \E h : IsWalk(ns2, dv, Resolve(more), h) /\ GetNode(ns2, more) = h[Len(Resolve(more))]
    BY <1>12, <2>1, GetNodeRun
  <2> QED BY <1>12, <2>2
<1>14. h[Len(Append(real, x))] = FsFinddir(at.nodes, at.node, x)
  <2>1. Onward(ns, dv, real, g, at, x, h)
    BY <1>2, <1>7, <1>11, <1>13 DEF Onward
  <2> QED BY <1>1, <1>10, <2>1, WalkAgain
<1> QED BY <1>7, <1>8, <1>9, <1>11, <1>13, <1>14

\* Look-ups in a tree in order.
LEMMA LookupsNamed ==
    ASSUME Ordered(nodes, DeviceSet, volumes), ListOf(devices, DeviceSet), CwdSane
    PROVE  LookupReturnsNamed
<1>1. ASSUME NEW p \in Process, cwd[p] \in DOMAIN nodes,
             NEW at, at = Locate(p, [abs |-> FALSE, names |-> <<".">>]), at.node # Null
      PROVE  NamesDown(at.nodes, at.node) = Getcwd(p)
  BY <1>1, DotFindsCwd DEF CwdSane, WorkingDir
<1>2. ASSUME NEW path \in UNION {CallPaths[p].open \cup CallPaths[p].stat : p \in Process},
             NEW at, at = GetNode(nodes, path.names), at.node # Null,
             NEW real, real = Resolve(path.names)
      PROVE  /\ NamesDown(at.nodes, at.node) = real
             /\ \A entry \in Range(Getdents(at.nodes, at.node, ListRoom)) :
                    entry.name \notin DotNames /\ Len(real) < PathLimit =>
                        FoundAs(GetNode(at.nodes, Append(real, entry.name)), entry)
  <2>1. path \in PathNames
    BY VfsAssumption
  <2>2. PICK names : names = path.names
    OBVIOUS
  <2>3. names \in Seq(Plain)
    BY <2>1, <2>2, PathPlain
  <2>4. LookedUp(nodes, DeviceSet, real, at)
    BY <1>2, <2>2, <2>3, GetNodeOrder
  <2>5. NamesDown(at.nodes, at.node) = real
    BY <1>2, <2>4 DEF LookedUp
  <2>6. ASSUME NEW entry \in Range(Getdents(at.nodes, at.node, ListRoom)),
               entry.name \notin DotNames, Len(real) < PathLimit
        PROVE  FoundAs(GetNode(at.nodes, Append(real, entry.name)), entry)
    <3>1. ListRoom \in Nat
      BY VfsAssumption
    <3> QED BY <1>2, <2>2, <2>3, <2>6, <3>1, ListedIsFound
  <2> QED BY <2>5, <2>6
<1> QED BY <1>1, <1>2 DEF LookupReturnsNamed, FoundAs, DotNames

\* The roots of volumes in a tree in order.
LEMMA RootsMounted ==
    ASSUME Ordered(nodes, DeviceSet, volumes)
    PROVE  VolumesMatchMounts
<1>1. ASSUME NEW v \in DOMAIN VolumeNames, NEW m \in MountedOn(v)
      PROVE  /\ m \in DOMAIN nodes /\ nodes[m].mount \in DOMAIN nodes
             /\ RootFor(nodes, v, nodes[m].mount)
  BY DEF MountedOn, RootFor
<1>2. ASSUME NEW v \in DOMAIN VolumeNames, volumes[v] = Null PROVE MountedOn(v) = {}
  <2>1. \A d \in DeviceSet : d # Null
    <3>1. \A d \in DeviceSet : d \in DOMAIN nodes
      BY DEF Ordered, Tree
    <3> QED BY <3>1, NodeFacts DEF Placed
  <2>2. VolumeSane(nodes, DeviceSet, volumes, v)
    BY DEF Ordered, Orderly
  <2> QED BY <1>1, <1>2, <2>1, <2>2 DEF VolumeSane
<1>3. ASSUME NEW v \in DOMAIN VolumeNames, volumes[v] # Null
      PROVE  \E n \in DOMAIN nodes :
                 /\ Append(n, VolumeNames[v]) \in DOMAIN nodes
                 /\ MountedOn(v) = {n} \/ (MountedOn(v) = {} /\ nodes[n].fs = "fat")
  <2>1. VolumeSane(nodes, DeviceSet, volumes, v)
    BY DEF Ordered, Orderly
  <2>2. PICK n \in DOMAIN nodes \ ThreadIds :
            /\ OnlyRoot(nodes, v, Append(n, VolumeNames[v]))
            /\ nodes[n].fs = "fat" \/ nodes[n].mount = Append(n, VolumeNames[v])
    BY <1>3, <2>1 DEF VolumeSane
  <2>3. PICK r : r = Append(n, VolumeNames[v])
    OBVIOUS
  <2>4. r \in DOMAIN nodes /\ RootFor(nodes, v, r)
        /\ \A k \in DOMAIN nodes : RootFor(nodes, v, k) => k = r
    BY <2>2, <2>3 DEF OnlyRoot
  <2>5. ASSUME NEW m \in MountedOn(v) PROVE m = n
    <3>1. nodes[m].mount = r /\ m \in DOMAIN nodes
      BY <1>1, <2>4
    <3>2. r # Null /\ m \in Ids /\ n \in Ids /\ MountOf(nodes, m)
      <4>1. Placed(nodes, r)
        BY <2>4, NodeFacts
      <4>2. m \in Ids /\ n \in Ids /\ MountOf(nodes, m)
        BY <2>2, <3>1, NodeFacts
      <4> QED BY <4>1, <4>2 DEF Placed
    <3>3. PICK x \in Words : r = Append(m, x)
      BY <3>1, <3>2 DEF MountOf
    <3>4. VolumeNames[v] \in Words
      BY Constants DEF Range
    <3>5. Append(n, VolumeNames[v]) = Append(m, x)
      BY <2>3, <3>3
    <3> QED BY <3>2, <3>4, <3>5, OneAppend
  <2>6. nodes[n].mount = r => n \in MountedOn(v)
    BY <2>2, <2>4 DEF MountedOn, RootFor
  <2>7. MountedOn(v) = {n} \/ (MountedOn(v) = {} /\ nodes[n].fs = "fat")
    <3>1. MountedOn(v) \subseteq {n}
      BY <2>5
    <3> QED BY <2>2, <2>3, <2>6, <3>1
  <2> QED BY <2>2, <2>3, <2>4, <2>7
<1> QED BY <1>2, <1>3 DEF VolumesMatchMounts

-----------------------------------------------------------------------------
(***************************************************************************)
(* Calls keep the tree in order.                                           *)
(***************************************************************************)

\* The inductive invariant: the tree is in order, with its devices and volumes, and the
\* working directories are in it, or were threads.
NameInv == VfsIInv /\ Orderly(nodes, DeviceSet, volumes) /\ CwdSane

\* The parts of the invariant.
LEMMA NameFacts ==
    ASSUME NameInv
    PROVE  /\ Ordered(nodes, DeviceSet, volumes) /\ ListOf(devices, DeviceSet)
           /\ VfsIInv /\ CwdSane
BY IInvFacts DEF NameInv, Ordered

\* Only the nodes of threads go, and a thread has no name that begins with a dot.
LEMMA WorkingDirKept ==
    ASSUME NEW dv, NEW vols, NEW ns, Ordered(ns, dv, vols), NEW dv2, NEW vols2, NEW ns2,
           Ordered(ns2, dv2, vols2), Grows(ns, ns2), NEW n, WorkingDir(ns, n)
    PROVE  WorkingDir(ns2, n)
<1>1. CASE n \in ThreadIds
  <2> SUFFICES ASSUME n \in DOMAIN ns2 PROVE ns2[n].name \notin DotNames
    BY <1>1 DEF WorkingDir
  <2>1. Placed(ns2, n) /\ ns2[n].fs = "thread" /\ ns2[n].name \in Plain /\ n \in Ids
        /\ ns2[n].parent \in Ids
    BY <1>1, NodeFacts
  <2>2. n # RootNode /\ n # DevRoot /\ n # SystemRoot
    BY <1>1, FixedFsIs DEF Fixed
  <2>3. IsChild(ns2, n)
    BY <2>1, <2>2 DEF IsChild, IsRoot
  <2>4. PICK m, x : m = ns2[n].parent /\ x = ns2[n].name
    OBVIOUS
  <2>5. n = Append(m, x) /\ m \in Ids /\ x \in Words
    BY <2>1, <2>3, <2>4 DEF Placed, Plain
  <2>6. x \in Process
    BY <1>1, <2>5, AppendedIds
  <2> QED BY <2>4, <2>6, VfsAssumption DEF DotNames
<1>2. CASE n \notin ThreadIds
  BY <1>2 DEF WorkingDir, Grows, SameNode
<1> QED BY <1>1, <1>2

\* A call that leaves the tree in order, and working directories in it.
LEMMA NameStep ==
    ASSUME NameInv, VfsIInv', Orderly(nodes', DeviceSet', volumes'), Grows(nodes, nodes'),
           DOMAIN cwd' = Process,
           \A p \in Process : cwd'[p] = cwd[p] \/ WorkingDir(nodes', cwd'[p])
    PROVE  NameInv'
<1>1. Ordered(nodes', DeviceSet', volumes')
  <2>1. Tree(nodes', DeviceSet')
    BY DEF VfsIInv, Match
  <2> QED BY <2>1 DEF Ordered
<1>2. ASSUME NEW p \in Process PROVE WorkingDir(nodes', cwd'[p])
  <2>1. WorkingDir(nodes, cwd[p])
    BY NameFacts DEF CwdSane
  <2>2. WorkingDir(nodes', cwd[p])
    BY <1>1, <2>1, NameFacts, WorkingDirKept
  <2> QED BY <2>2
<1> QED BY <1>2 DEF NameInv, CwdSane

\* A look-up leaves the tree in order, and finds what can be a working directory.
Located(ns, dv, at) ==
    /\ Ordered(at.nodes, dv, volumes) /\ Grown(ns, at.nodes)
    /\ at.node # Null => at.node \in DOMAIN at.nodes /\ WorkingDir(at.nodes, at.node)

\* fs_get_node
LEMMA GetNodeLocates ==
    ASSUME NEW dv, NEW ns, Ordered(ns, dv, volumes), ListOf(devices, dv), NEW names \in Seq(Plain)
    PROVE  Located(ns, dv, GetNode(ns, names))
<1>1. PICK at : at = GetNode(ns, names)
  OBVIOUS
<1>2. LookedUp(ns, dv, Resolve(names), at)
  BY <1>1, GetNodeOrder
<1> QED BY <1>1, <1>2 DEF LookedUp, Located, WorkingDir

\* fs_get_node_relative_to, through the path of the node.
LEMMA RelativeLocates ==
    ASSUME NEW dv, NEW ns, Ordered(ns, dv, volumes), ListOf(devices, dv), NEW names \in Seq(Plain),
           NEW n \in DOMAIN ns
    PROVE  Located(ns, dv, GetRelative(ns, n, names))
<1>1. PICK down : down = NamesDown(ns, n)
  OBVIOUS
<1>2. down \in Seq(Plain) /\ down \o names \in Seq(Plain)
  BY <1>1, NamesDownOf
<1>3. CASE NodePath(ns, n) = TooLong
  <2>1. PICK at : at = GetRelative(ns, n, names)
    OBVIOUS
  <2>2. at.nodes = ns /\ at.node = Null
    BY <1>3, <2>1 DEF GetRelative
  <2>3. Located(ns, dv, at)
    BY <2>2, GrownSelf DEF Located
  <2> QED BY <2>1, <2>3
<1>4. CASE NodePath(ns, n) # TooLong
  <2>1. GetRelative(ns, n, names) = GetNode(ns, down \o names)
    BY <1>1, <1>4 DEF GetRelative, NodePath
  <2>2. Located(ns, dv, GetNode(ns, down \o names))
    BY <1>2, GetNodeLocates
  <2> QED BY <2>1, <2>2
<1> QED BY <1>3, <1>4

\* What a system call does with a path.
LEMMA LocateLocates ==
    ASSUME NEW dv, Ordered(nodes, dv, volumes), ListOf(devices, dv), NEW p,
           NEW path \in PathNames, Sound(p, path)
    PROVE  Located(nodes, dv, Locate(p, path))
<1>1. PICK names : names = path.names
  OBVIOUS
<1>2. names \in Seq(Plain)
  BY <1>1, PathPlain
<1>3. CASE path.abs
  BY <1>1, <1>2, <1>3, GetNodeLocates DEF Locate
<1>4. CASE ~ path.abs /\ names # <<>>
  <2>1. Located(nodes, dv, GetRelative(nodes, cwd[p], names))
    BY <1>2, <1>4, RelativeLocates DEF Sound
  <2> QED BY <1>1, <1>4, <2>1 DEF Locate
<1>5. CASE ~ path.abs /\ names = <<>>
  <2>1. PICK at : at = Locate(p, path)
    OBVIOUS
  <2>2. at.nodes = nodes /\ at.node = Null
    BY <1>1, <1>5, <2>1 DEF Locate
  <2>3. Located(nodes, dv, at)
    BY <2>2, GrownSelf DEF Located
  <2> QED BY <2>1, <2>3
<1> QED BY <1>3, <1>4, <1>5

\* A node that keeps its name, its parent and its children is still in order.
InOrder(ns, vols, n) ==
    Placed(ns, n) /\ KidsOf(ns, n) /\ Listed(ns, n) /\ FatOf(ns, vols, n)

\* A node that keeps its fields stays in order.
LEMMA OrderKept ==
    ASSUME NEW dv, NEW vols, NEW ns, Ordered(ns, dv, vols), NEW ns2, Grows(ns, ns2), NEW vols2,
           StillTaken(vols, vols2), NEW n \in DOMAIN ns, SameNode(ns, ns2, n),
           ns2[n].kids = ns[n].kids, \A i \in DOMAIN ns[n].kids : ns[n].kids[i] \in DOMAIN ns2,
           ns2[n].type \ {"MOUNT"} = ns[n].type \ {"MOUNT"}
    PROVE  InOrder(ns2, vols2, n)
<1>1. n \in DOMAIN ns2
  BY DEF SameNode
<1>2. Placed(ns2, n)
  BY <1>1, PlacedKept
<1>3. Listed(ns2, n)
  BY <1>1, ListedKept
<1>4. FatOf(ns2, vols2, n)
  BY FatKept
<1>5. ASSUME NEW i \in DOMAIN ns[n].kids PROVE Kid(ns2, n, ns[n].kids[i])
  <2>1. PICK k : k = ns[n].kids[i]
    OBVIOUS
  <2>2. k \in DOMAIN ns2 /\ InList(ns[n].kids, k)
    BY <2>1 DEF InList
  <2>3. Kid(ns2, n, k)
    BY <2>2, KidsKept
  <2> QED BY <2>1, <2>3
<1> QED BY <1>2, <1>3, <1>4, <1>5 DEF InOrder, KidsOf

\* stat keeps the tree in order: it takes nothing away but the mark of a mount.
LEMMA StatOrder ==
    ASSUME NEW dv, NEW ns, Ordered(ns, dv, volumes), NEW x \in DOMAIN ns,
           NEW ns2, ns2 = FsStat(ns, x).nodes
    PROVE  Ordered(ns2, dv, volumes) /\ Grows(ns, ns2)
<1>1. ns2 = FatStat(ns, x) /\ Tree(ns2, dv)
  BY StatChanges DEF FsStat, Ordered
<1>2. CASE ns[x].fs # "fat"
  <2>1. ns2 = ns
    BY <1>1, <1>2 DEF FatStat
  <2> QED BY <2>1, GrownSelf DEF Grown
<1>3. CASE ns[x].fs = "fat"
  <2>1. PICK kind : kind = FatKind(ns, volumes, x)
    OBVIOUS
  <2>2. PICK type : type = TypeOfKind(kind)
    OBVIOUS
  <2>3. kind # "none" /\ ns[x].type \ {"MOUNT"} = type
    BY <1>3, <2>1, <2>2, NodeFacts DEF FatOf
  <2>4. type \in {{"DIR"}, {"FILE"}} /\ type \ {"MOUNT"} = type
        /\ "MOUNT" \notin type /\ "BLOCK" \notin type
    BY <2>2 DEF TypeOfKind
  <2>5. kind = FStat(ns, FatPlace(ns, x).at, FatPlace(ns, x).names)
    <3>1. FatKind(ns, volumes, x) = FStat(ns, FatPlace(ns, x).at, FatPlace(ns, x).names)
      BY Zenon DEF FatKind, KindAt, FStat
    <3> QED BY <2>1, <3>1
  <2>6. ns2 = [ns EXCEPT ![x].type = type]
    BY <1>1, <1>3, <2>2, <2>3, <2>5 DEF FatStat, TypeOfKind
  <2>7. ns[x] \in NodeRecords
    BY DEF Ordered, Tree, Typed
  <2>8. /\ DOMAIN ns2 = DOMAIN ns /\ ns2[x].type = type /\ ns2[x].name = ns[x].name
        /\ ns2[x].parent = ns[x].parent /\ ns2[x].kids = ns[x].kids
        /\ ns2[x].mount = ns[x].mount /\ ns2[x].fs = ns[x].fs
        /\ \A k \in DOMAIN ns : k # x => ns2[k] = ns[k]
    BY <2>6, <2>7 DEF NodeRecords
  <2>9. \A k \in DOMAIN ns : SameNode(ns, ns2, k) /\ ns2[k].kids = ns[k].kids
                             /\ ns2[k].mount = ns[k].mount
    BY <2>8 DEF SameNode
  <2>10. Grows(ns, ns2)
    BY <2>9 DEF Grows
  <2>11. StillTaken(volumes, volumes)
    BY DEF StillTaken
  <2>12. \A k \in DOMAIN ns : ns2[k].type \ {"MOUNT"} = ns[k].type \ {"MOUNT"}
    BY <2>3, <2>4, <2>8
  <2>13. ASSUME NEW k \in DOMAIN ns PROVE InOrder(ns2, volumes, k)
    <3>1. \A i \in DOMAIN ns[k].kids : ns[k].kids[i] \in DOMAIN ns2
      BY <2>8, NodeFacts
    <3> QED BY <2>9, <2>10, <2>11, <2>12, <3>1, OrderKept
  <2>14. ASSUME NEW k \in DOMAIN ns, k # x PROVE Stays(ns, ns2, k)
    BY <2>8, <2>9, <2>14 DEF Stays
  <2>15. ASSUME NEW k \in DOMAIN ns PROVE MountOf(ns2, k)
    <3>1. CASE k # x
      BY <2>10, <2>14, <3>1, MountKept
    <3>2. CASE k = x
      <4>1. PICK r : r = ns[x].mount
        OBVIOUS
      <4>2. MountOf(ns, x) /\ (r = Null \/ r \in DOMAIN ns)
        BY <4>1, NodeFacts
      <4>3. r # Null => IsRoot(ns2, r)
        BY <2>9, <4>1, <4>2, ChildKept DEF MountOf
      <4>4. /\ ns2[x].mount = r /\ ns2[x].fs = "fat" /\ "MOUNT" \notin ns2[x].type
            /\ "BLOCK" \notin ns2[x].type
            /\ r # Null => \E y \in Words : r = Append(x, y)
        BY <1>3, <2>4, <2>8, <4>1, <4>2 DEF MountOf
      <4> QED BY <3>2, <4>3, <4>4 DEF MountOf
    <3> QED BY <3>1, <3>2
  <2>16. ASSUME NEW d \in dv PROVE Stays(ns, ns2, d)
    <3>1. d \in DOMAIN ns /\ ns[d].fs = "device"
      BY DeviceNodes DEF Ordered
    <3> QED BY <1>3, <2>14, <3>1
  <2>17. \A d \in dv : DeviceOf(ns2, d)
    BY <2>16, DevicesKept
  <2>18. \A v \in DOMAIN VolumeNames : VolumeSane(ns2, dv, volumes, v)
    BY <2>8, <2>9, <2>10, <2>16, VolumeKept
  <2>19. Orderly(ns2, dv, volumes)
    BY <2>8, <2>13, <2>15, <2>17, <2>18 DEF Orderly, InOrder, Ordered
  <2> QED BY <1>1, <2>10, <2>19 DEF Ordered
<1> QED BY <1>2, <1>3

\* mkdir keeps the tree in order.
LEMMA MkdirOrder ==
    ASSUME NEW dv, NEW ns, Ordered(ns, dv, volumes), ListOf(devices, dv), NEW n \in DOMAIN ns,
           ns[n].name \notin DotNames, NEW name \in Plain, NEW ns2, ns2 = FsMkdir(ns, n, name)
    PROVE  Ordered(ns2, dv, volumes) /\ Grown(ns, ns2)
<1>1. PICK m, id : m = Crossed(ns, n) /\ id = Append(m, name)
  OBVIOUS
<1>2. m \in DOMAIN ns /\ ns[m].name = ns[n].name
  BY <1>1, CrossedFacts
<1>3. CASE ns2 = ns
  BY <1>3, GrownSelf
<1>4. CASE ns2 # ns
  <2>1. ns[m].fs = "root" /\ ns2 = RootfsMkdir(ns, m, name)
    BY <1>1, <1>4 DEF FsMkdir
  <2>2. Named(ns, ns[m].kids, name) = Null
    BY <1>4, <2>1 DEF RootfsMkdir
  <2>3. ~ InList(ns[m].kids, id)
    <3>1. ChildList(ns, m) = ns[m].kids
      BY <2>1 DEF ChildList
    <3>2. name \in Words
      BY DEF Plain
    <3>3. InList(ns[m].kids, id) => Named(ns, ns[m].kids, name) = id
      BY <1>1, <1>2, <3>1, <3>2, NamedChild
    <3>4. InList(ns[m].kids, id) => id # Null
      <4>1. \A i \in DOMAIN ns[m].kids : ns[m].kids[i] \in DOMAIN ns
        BY <1>2, NodeFacts
      <4>2. InList(ns[m].kids, id) => id \in DOMAIN ns
        BY <4>1 DEF InList
      <4>3. \A k \in DOMAIN ns : Placed(ns, k)
        BY NodeFacts
      <4>4. \A k \in DOMAIN ns : k # Null
        BY <4>3 DEF Placed
      <4> QED BY <4>2, <4>4
    <3> QED BY <2>2, <3>3, <3>4
  <2>4. ns2 = AddChild(ns, m, id, NodeOf(name, m, {"DIR"}, "root"))
    BY <1>1, <2>1, <2>2 DEF RootfsMkdir
  <2>5. FitsUnder(ns, m, name, "root") /\ FatFits(ns, volumes, m, name, "root", {"DIR"})
    BY <2>1 DEF FitsUnder, FatFits
  <2>6. MadeInOrder(ns, dv, volumes, m, id, name, ns2)
    BY <1>1, <1>2, <2>3, <2>4, <2>5, ChildMade
  <2> QED BY <2>6 DEF MadeInOrder
<1> QED BY <1>3, <1>4

\* A volume that is free has left no root.
LEMMA RootIsFree ==
    ASSUME NEW dv, NEW ns, Ordered(ns, dv, volumes), NEW n \in DOMAIN ns,
           NEW v \in DOMAIN VolumeNames, volumes[v] = Null, NEW root, root = Append(n, VolumeNames[v])
    PROVE  /\ \A r \in DOMAIN ns : ~ RootFor(ns, v, r)
           /\ root \notin DOMAIN ns /\ root \in Ids /\ root # Null /\ root # RootNode
<1>1. \A d \in dv : d # Null
  <2>1. \A k \in DOMAIN ns : Placed(ns, k)
    BY NodeFacts
  <2>2. \A d \in dv : d \in DOMAIN ns
    BY DEF Ordered, Tree
  <2> QED BY <2>1, <2>2 DEF Placed
<1>2. \A r \in DOMAIN ns : ~ RootFor(ns, v, r)
  <2>1. VolumeSane(ns, dv, volumes, v)
    BY DEF Ordered, Orderly
  <2> QED BY <1>1, <2>1 DEF VolumeSane
<1>3. PICK x : x = VolumeNames[v]
  OBVIOUS
<1>4. x \in Words /\ x \in Range(VolumeNames) /\ x \notin Plain /\ x \notin Marks
  BY <1>3, Constants, VfsAssumption DEF Range, Plain
<1>5. n \in Ids
  BY NodeFacts
<1>6. root = Append(n, x) /\ root \in Ids /\ root # RootNode
  BY <1>3, <1>4, <1>5, OneAppend, FixedIds
<1>7. root # Null
  <2>1. Null = Append(<<>>, "@null") /\ <<>> \in Ids /\ "@null" \in Words /\ "@null" \in Marks
    BY FixedIds DEF Null, Words, Marks
  <2>2. PICK empty, none : empty = <<>> /\ none = "@null"
    OBVIOUS
  <2>3. empty \in Ids /\ none \in Words /\ none # x /\ Null = Append(empty, none)
    BY <1>4, <2>1, <2>2
  <2>4. Append(n, x) # Append(empty, none)
    <3> SUFFICES ASSUME Append(n, x) = Append(empty, none) PROVE FALSE
      OBVIOUS
    <3>1. n \in Ids /\ x \in Words /\ empty \in Ids /\ none \in Words
          /\ Append(n, x) = Append(empty, none)
      BY <1>4, <1>5, <2>3
    <3>2. x = none
      BY ONLY <3>1, SamePath
    <3> QED BY <2>3, <3>2
  <2> QED BY <1>6, <2>3, <2>4
<1>8. root # DevRoot /\ root # SystemRoot
  <2>1. root \notin Fixed
    <3> SUFFICES ASSUME Append(n, x) \in Fixed PROVE FALSE
      BY <1>6
    <3>1. x \in {"dev", "system", "@dev", "@system", "threads"}
      BY <1>4, <1>5, FixedAppends
    <3> QED BY <1>4, <3>1, VfsAssumption DEF Marks, BootNames
  <2> QED BY <2>1 DEF Fixed
<1>9. root \notin DOMAIN ns
  <2> SUFFICES ASSUME root \in DOMAIN ns PROVE FALSE
    OBVIOUS
  <2>1. Placed(ns, root) /\ ns[root].name \in Plain /\ ns[root].parent \in Ids
    BY NodeFacts
  <2>2. CASE ns[root].fs = "fatroot"
    <3>1. root[Len(root)] = x
      <4>1. n \in Seq(Words)
        BY <1>5 DEF Ids
      <4> QED BY <1>4, <1>6, <4>1, AppendProperties
    <3> QED BY <1>2, <1>3, <2>2, <3>1 DEF RootFor
  <2>3. CASE ns[root].fs # "fatroot"
    <3>1. IsChild(ns, root)
      BY <1>6, <1>8, <2>3 DEF IsChild, IsRoot
    <3>2. PICK m, y : m = ns[root].parent /\ y = ns[root].name
      OBVIOUS
    <3>3. root = Append(m, y) /\ m \in Ids /\ y \in Words /\ y \in Plain
      BY <2>1, <3>1, <3>2 DEF Placed, Plain
    <3>4. n \in Ids /\ x \in Words /\ m \in Ids /\ y \in Words /\ Append(n, x) = Append(m, y)
      BY <1>4, <1>5, <1>6, <3>3
    <3>5. x = y
      BY ONLY <3>4, SamePath
    <3> QED BY <1>4, <3>3, <3>5
  <2> QED BY <2>2, <2>3
<1> QED BY <1>2, <1>6, <1>7, <1>9

\* ns2 is ns with a new root, mounted on n.
IsMounted(ns, n, root, ns2) ==
    /\ DOMAIN ns2 = DOMAIN ns \cup {root}
    /\ ns2[root] = NodeOf(ns[n].name, ns[n].parent, {"DIR"}, "fatroot")
    /\ \A k \in DOMAIN ns : k # n => ns2[k] = ns[k]
    /\ SameNode(ns, ns2, n) /\ ns2[n].kids = ns[n].kids
    /\ ns2[n].type = ns[n].type \cup {"MOUNT"} /\ ns2[n].mount = root

\* mount makes a root and mounts it, or FatFs finds nothing that it knows.
Mounts(ns, source, n, v, s) ==
    \/ s.nodes = ns /\ s.volumes = volumes
    \/ /\ IsMounted(ns, n, Append(n, VolumeNames[v]), s.nodes)
       /\ s.volumes = [volumes EXCEPT ![v] = source]

\* fat_mount takes a free volume for its root.
LEMMA FatMountMakes ==
    ASSUME NEW dv, NEW ns, Ordered(ns, dv, volumes), NEW n \in DOMAIN ns, NEW source,
           FreeVolumes # {}
    PROVE  \E v \in DOMAIN VolumeNames :
              volumes[v] = Null /\ Mounts(ns, source, n, v, FatMount(source, n, ns))
<1>1. PICK v : v = FirstVolume
  OBVIOUS
<1>2. v \in DOMAIN VolumeNames /\ volumes[v] = Null
  <2>1. FreeVolumes \in SUBSET Nat
    BY Constants, LenProperties DEF FreeVolumes
  <2>2. \E w \in FreeVolumes : \A u \in FreeVolumes : w <= u
    BY <2>1, LeastNumber
  <2> QED BY <1>1, <2>2 DEF FirstVolume, FreeVolumes
<1>3. PICK root : root = Append(n, VolumeNames[v])
  OBVIOUS
<1>4. root \notin DOMAIN ns
  BY <1>2, <1>3, RootIsFree
<1>5. PICK node : node = NodeOf(ns[n].name, ns[n].parent, {"DIR"}, "fatroot")
  OBVIOUS
<1>6. PICK ns1 : ns1 = Put(ns, root, node)
  OBVIOUS
<1>7. DOMAIN ns1 = DOMAIN ns \cup {root} /\ ns1[root] = node /\ \A k \in DOMAIN ns : ns1[k] = ns[k]
  BY <1>4, <1>6 DEF Put
<1>8. PICK ns2 : ns2 = [ns1 EXCEPT ![n].type = @ \cup {"MOUNT"}, ![n].mount = root]
  OBVIOUS
<1>9. ns[n] \in NodeRecords /\ ns1[n] \in NodeRecords
  BY <1>7 DEF Ordered, Tree, Typed
<1>10. /\ DOMAIN ns2 = DOMAIN ns1 /\ \A k \in DOMAIN ns1 : k # n => ns2[k] = ns1[k]
       /\ ns2[n].name = ns1[n].name /\ ns2[n].parent = ns1[n].parent /\ ns2[n].fs = ns1[n].fs
       /\ ns2[n].kids = ns1[n].kids /\ ns2[n].type = ns1[n].type \cup {"MOUNT"}
       /\ ns2[n].mount = root
  BY <1>7, <1>8, <1>9 DEF NodeRecords
<1>11. IsMounted(ns, n, root, ns2)
  BY <1>4, <1>5, <1>7, <1>10 DEF IsMounted, SameNode
<1>12. PICK s : s = FatMount(source, n, ns)
  OBVIOUS
<1>13. \/ s.nodes = ns /\ s.volumes = volumes
       \/ s.nodes = ns2 /\ s.volumes = [volumes EXCEPT ![v] = source]
  BY <1>1, <1>3, <1>5, <1>6, <1>8, <1>12 DEF FatMount
<1>14. Mounts(ns, source, n, v, s)
  BY <1>3, <1>11, <1>13 DEF Mounts
<1> QED BY <1>2, <1>12, <1>14

\* A new root leaves the tree in order; its volume is taken.
LEMMA MountedOrder ==
    ASSUME NEW dv, NEW ns, Ordered(ns, dv, volumes), NEW n \in DOMAIN ns, ns[n].type = {"DIR"},
           NEW source \in DOMAIN ns, ns[source].type = {"BLOCK"},
           NEW v \in DOMAIN VolumeNames, volumes[v] = Null,
           NEW root, root = Append(n, VolumeNames[v]),
           NEW ns2, IsMounted(ns, n, root, ns2), Tree(ns2, dv),
           NEW vols2, vols2 = [volumes EXCEPT ![v] = source]
    PROVE  Ordered(ns2, dv, vols2) /\ Grows(ns, ns2)
<1>1. /\ \A r \in DOMAIN ns : ~ RootFor(ns, v, r)
      /\ root \notin DOMAIN ns /\ root \in Ids /\ root # Null /\ root # RootNode
  BY RootIsFree
<1>2. /\ DOMAIN ns2 = DOMAIN ns \cup {root} /\ \A k \in DOMAIN ns : k # n => ns2[k] = ns[k]
      /\ ns2[n].kids = ns[n].kids /\ ns2[n].type = {"DIR", "MOUNT"} /\ ns2[n].mount = root
      /\ SameNode(ns, ns2, n)
  BY DEF IsMounted
<1>3. /\ ns2[root].name = ns[n].name /\ ns2[root].parent = ns[n].parent
      /\ ns2[root].type = {"DIR"} /\ ns2[root].kids = <<>> /\ ns2[root].mount = Null
      /\ ns2[root].fs = "fatroot"
  BY DEF IsMounted, NodeOf
<1>4. \A k \in DOMAIN ns : SameNode(ns, ns2, k) /\ ns2[k].kids = ns[k].kids
  BY <1>2 DEF SameNode
<1>5. Grows(ns, ns2)
  BY <1>4 DEF Grows
<1>6. DOMAIN volumes = DOMAIN VolumeNames
  BY DEF Ordered, Orderly
<1>7. vols2[v] = source /\ DOMAIN vols2 = DOMAIN VolumeNames
      /\ \A w \in DOMAIN VolumeNames : w # v => vols2[w] = volumes[w]
  BY <1>6
<1>8. StillTaken(volumes, vols2)
  BY <1>7 DEF StillTaken
<1>9. /\ n \in Ids /\ Placed(ns, n) /\ MountOf(ns, n) /\ ns[n].parent \in Ids
      /\ ns[n].parent = Null \/ ns[n].parent \in DOMAIN ns
      /\ ns[n].fs = "thread" <=> n \in ThreadIds
  BY NodeFacts
<1>10. VolumeNames[v] \in Words
  BY Constants DEF Range
<1>11. n \notin ThreadIds /\ (ns[n].mount # Null => ns[n].fs = "fat")
  BY <1>9 DEF MountOf
<1>12. IsRoot(ns2, root) /\ ~ IsChild(ns2, root)
  BY <1>3 DEF IsRoot, IsChild
<1>13. Placed(ns2, root)
  <2>1. RootOf(ns2, root)
    BY <1>2, <1>3, <1>10, <1>11 DEF RootOf, SameNode
  <2>2. Len(n) < Len(root) /\ Len(n) \in Nat
    <3>1. n \in Seq(Words)
      BY <1>9 DEF Ids
    <3>2. Len(root) = Len(n) + 1 /\ Len(n) \in Nat
      BY <1>10, <3>1, AppendProperties, LenProperties
    <3> QED BY <3>2
  <2>3. ASSUME ns[n].parent # Null
        PROVE  Len(ns[n].parent) < Len(root) /\ ns2[ns[n].parent].name \notin DotNames
    <3>1. PICK m : m = ns[n].parent
      OBVIOUS
    <3>2. Len(m) < Len(n) /\ ns[m].name \notin DotNames /\ m \in DOMAIN ns /\ m \in Ids
      BY <1>9, <2>3, <3>1 DEF Placed
    <3>3. Len(m) \in Nat /\ Len(root) \in Nat
      BY <1>1, <3>2, LenProperties DEF Ids
    <3>4. ns2[m].name = ns[m].name
      BY <1>4, <3>2 DEF SameNode
    <3> QED BY <2>2, <3>1, <3>2, <3>3, <3>4
  <2> QED BY <1>1, <1>3, <1>12, <2>1, <2>3 DEF Placed
<1>14. InOrder(ns2, vols2, root)
  <2>1. KidsOf(ns2, root)
    <3>1. \A i \in DOMAIN <<>> : FALSE
      OBVIOUS
    <3> QED BY <1>3, <3>1 DEF KidsOf
  <2>2. Listed(ns2, root) /\ FatOf(ns2, vols2, root)
    BY <1>3, <1>12 DEF Listed, FatOf
  <2> QED BY <1>13, <2>1, <2>2 DEF InOrder
<1>15. ASSUME NEW k \in DOMAIN ns PROVE InOrder(ns2, vols2, k)
  <2>1. \A i \in DOMAIN ns[k].kids : ns[k].kids[i] \in DOMAIN ns2
    BY <1>2, NodeFacts
  <2>2. ns2[k].type \ {"MOUNT"} = ns[k].type \ {"MOUNT"}
    BY <1>2
  <2> QED BY <1>4, <1>5, <1>8, <2>1, <2>2, OrderKept
<1>16. ASSUME NEW k \in DOMAIN ns, k # n PROVE Stays(ns, ns2, k)
  BY <1>2, <1>4, <1>16 DEF Stays
<1>17. ASSUME NEW k \in DOMAIN ns2 PROVE MountOf(ns2, k)
  <2>1. CASE k \in DOMAIN ns /\ k # n
    BY <1>5, <1>16, <2>1, MountKept
  <2>2. CASE k = n
    <3>1. /\ ns2[n].mount = root /\ ns2[n].type = {"DIR", "MOUNT"}
          /\ ns2[n].fs # "thread" /\ IsRoot(ns2, root)
      BY <1>2, <1>9, <1>11, <1>12 DEF SameNode
    <3> QED BY <1>10, <2>2, <3>1 DEF MountOf
  <2>3. CASE k = root
    BY <1>3, <2>3 DEF MountOf
  <2> QED BY <1>2, <2>1, <2>2, <2>3
<1>18. ASSUME NEW d \in dv PROVE d \in DOMAIN ns /\ Stays(ns, ns2, d)
  <2>1. d \in DOMAIN ns /\ d = Append(DevRoot, ns[d].name) /\ d \in DeviceIds /\ DeviceOf(ns, d)
    BY DEF Ordered, Tree, Orderly
  <2>2. ns[d].name \in DOMAIN DeviceType
    <3>1. DevRoot \in Ids /\ ns[d].name \in Words
      BY <2>1, FixedIds, NodeFacts DEF Plain
    <3> QED BY <2>1, <3>1, AppendedIds
  <2>3. ns[d].type = {"CHAR"} \/ ns[d].type = {"BLOCK"}
    BY <2>1, <2>2, VfsAssumption DEF DeviceOf
  <2>4. d # n
    BY <2>3
  <2> QED BY <1>16, <2>1, <2>4
<1>19. \A d \in dv : DeviceOf(ns2, d)
  BY <1>18, DevicesKept
<1>20. VolumeSane(ns2, dv, vols2, v)
  <2>1. source \in dv
    <3>1. ns[source].fs = "device"
      BY NodeFacts DEF MountOf
    <3> QED BY <3>1, DeviceNodes DEF Ordered
  <2>2. ns2[source].type = {"BLOCK"}
    BY <1>18, <2>1 DEF Stays
  <2>3. OnlyRoot(ns2, v, root)
    <3>1. RootFor(ns2, v, root)
      <4>1. root[Len(root)] = VolumeNames[v]
        <5>1. n \in Seq(Words)
          BY <1>9 DEF Ids
        <5> QED BY <1>10, <5>1, AppendProperties
      <4> QED BY <1>3, <4>1 DEF RootFor
    <3>2. \A k \in DOMAIN ns : ~ RootFor(ns2, v, k)
      BY <1>1, <1>4 DEF RootFor, SameNode
    <3> QED BY <1>2, <3>1, <3>2 DEF OnlyRoot
  <2>4. n \in DOMAIN ns2 \ ThreadIds /\ ns2[n].mount = root
    BY <1>2, <1>11
  <2> QED BY <1>7, <2>1, <2>2, <2>3, <2>4 DEF VolumeSane
<1>21. ASSUME NEW w \in DOMAIN VolumeNames, w # v PROVE VolumeSane(ns2, dv, vols2, w)
  <2>1. ~ RootFor(ns2, w, root)
    <3>1. root[Len(root)] = VolumeNames[v]
      <4>1. n \in Seq(Words)
        BY <1>9 DEF Ids
      <4> QED BY <1>10, <4>1, AppendProperties
    <3>2. VolumeNames[v] # VolumeNames[w]
      BY <1>21, VfsAssumption DEF IsInjective
    <3> QED BY <3>1, <3>2 DEF RootFor
  <2>2. \A r \in DOMAIN ns2 : RootFor(ns2, w, r) => r \in DOMAIN ns
    BY <1>2, <2>1
  <2>3. \A k \in DOMAIN ns \ ThreadIds :
            ns2[k].mount = ns[k].mount \/ ns[k].mount = Null \/ ns[k].fs = "fat"
    BY <1>11, <1>16 DEF Stays
  <2>4. vols2[w] = volumes[w]
    BY <1>7, <1>21
  <2> QED BY <1>5, <1>18, <2>2, <2>3, <2>4, VolumeKept
<1>22. Orderly(ns2, dv, vols2)
  BY <1>2, <1>7, <1>14, <1>15, <1>17, <1>19, <1>20, <1>21 DEF Orderly, InOrder
<1> QED BY <1>5, <1>22 DEF Ordered

\* ns2 is ns with nodes of threads made anew, in the list of /system/threads.
IsFilled(ns, new, ns2) ==
    /\ new \subseteq ThreadIds /\ new \subseteq DOMAIN ns2
    /\ DOMAIN ns \ ThreadIds \subseteq DOMAIN ns2
    /\ \A n \in new : ns2[n] = NodeOf(n[Len(n)], ThreadsDir, {"FILE"}, "thread")
    /\ \A n \in DOMAIN ns2 : n \notin new /\ n # ThreadsDir => n \in DOMAIN ns /\ ns2[n] = ns[n]
    /\ Stays(ns, ns2, ThreadsDir)
    /\ \A i \in DOMAIN ns2[ThreadsDir].kids : ns2[ThreadsDir].kids[i] \in new

\* The open function of /system/threads makes the node of each process.
LEMMA FillMakes ==
    ASSUME NEW dv, NEW ns, Tree(ns, dv), live \in Seq(Process), NEW ns2, ns2 = FillThreads(ns)
    PROVE  \E new : IsFilled(ns, new, ns2)
<1> DEFINE id(p) == Append(ThreadsDir, p)
           Old == {ns[ThreadsDir].kids[i] : i \in DOMAIN ns[ThreadsDir].kids}
           New == {id(live[i]) : i \in DOMAIN live}
           Kids == [i \in DOMAIN live |-> id(live[i])]
           Node(n) == CASE n \in New -> NodeOf(n[Len(n)], ThreadsDir, {"FILE"}, "thread")
                        [] n = ThreadsDir -> [ns[n] EXCEPT !.kids = Kids]
                        [] OTHER -> ns[n]
<1>1. ns2 = [n \in (DOMAIN ns \ Old) \cup New |-> Node(n)]
  BY DEF FillThreads
<1>2. ThreadsDir \in DOMAIN ns /\ ThreadsDir \notin ThreadIds /\ ns[ThreadsDir] \in NodeRecords
  BY FixedFsIs DEF Tree, Fixed, Typed
<1>3. New \subseteq ThreadIds
  <2>1. \A i \in DOMAIN live : live[i] \in Process
    BY LenProperties, ElementOfSeq
  <2> QED BY <2>1 DEF ThreadIds
<1>4. Old \subseteq ThreadIds
  BY <1>2 DEF Tree, LinksOf
<1>5. /\ DOMAIN ns2 = (DOMAIN ns \ Old) \cup New
      /\ ThreadsDir \in DOMAIN ns2 /\ ns2[ThreadsDir] = [ns[ThreadsDir] EXCEPT !.kids = Kids]
      /\ \A n \in New : ns2[n] = NodeOf(n[Len(n)], ThreadsDir, {"FILE"}, "thread")
      /\ \A n \in DOMAIN ns2 : n \notin New /\ n # ThreadsDir => n \in DOMAIN ns /\ ns2[n] = ns[n]
  BY <1>1, <1>2, <1>3, <1>4
<1>6. \A i \in DOMAIN Kids : Kids[i] \in New
  OBVIOUS
<1> HIDE DEF New, Old, Kids
<1>7. Stays(ns, ns2, ThreadsDir) /\ ns2[ThreadsDir].kids = Kids
  BY <1>2, <1>5 DEF NodeRecords, Stays, SameNode
<1>8. IsFilled(ns, New, ns2)
  BY <1>3, <1>4, <1>5, <1>6, <1>7 DEF IsFilled
<1> QED BY <1>8

\* /system/threads is filled anew, in order.
LEMMA ThreadsOrder ==
    ASSUME NEW dv, NEW ns, Ordered(ns, dv, volumes), live \in Seq(Process),
           NEW ns2, ns2 = FillThreads(ns)
    PROVE  Ordered(ns2, dv, volumes) /\ Grows(ns, ns2)
<1>1. Tree(ns2, dv)
  <2>1. \A i \in DOMAIN live : live[i] \in Process
    BY LenProperties, ElementOfSeq
  <2> QED BY <2>1, ThreadsFilled DEF Ordered
<1>2. PICK new : IsFilled(ns, new, ns2)
  BY FillMakes DEF Ordered
<1>3. /\ new \subseteq ThreadIds /\ new \subseteq DOMAIN ns2
      /\ DOMAIN ns \ ThreadIds \subseteq DOMAIN ns2
      /\ \A k \in DOMAIN ns2 : k \notin new /\ k # ThreadsDir => k \in DOMAIN ns /\ ns2[k] = ns[k]
      /\ Stays(ns, ns2, ThreadsDir)
      /\ \A i \in DOMAIN ns2[ThreadsDir].kids : ns2[ThreadsDir].kids[i] \in new
  BY <1>2 DEF IsFilled
<1>4. ThreadsDir \in DOMAIN ns /\ ThreadsDir \notin ThreadIds
  BY FixedFsIs DEF Ordered, Tree, Fixed
<1>5. ASSUME NEW k \in ThreadIds
      PROVE  /\ k \in Ids /\ k # RootNode /\ k # DevRoot /\ k # SystemRoot /\ k # Null
             /\ k[Len(k)] \in Process /\ k = Append(ThreadsDir, k[Len(k)])
             /\ Len(ThreadsDir) < Len(k)
  <2>1. PICK p \in Process : k = Append(ThreadsDir, p)
    BY DEF ThreadIds
  <2>2. p \in Words /\ ThreadsDir \in Ids /\ ThreadsDir \in Seq(Words)
    BY Constants, FixedIds DEF Ids
  <2>3. k \in Ids /\ k[Len(k)] = p
    BY <2>1, <2>2, OneAppend, AppendProperties
  <2>4. Len(k) = Len(ThreadsDir) + 1 /\ Len(ThreadsDir) \in Nat
    BY <2>1, <2>2, AppendProperties, LenProperties
  <2>5. k # RootNode /\ k # DevRoot /\ k # SystemRoot
    BY FixedFsIs DEF Fixed
  <2>6. k # Null
    <3>1. Null = Append(<<>>, "@null") /\ <<>> \in Ids /\ "@null" \in Words /\ ThreadsDir # <<>>
      BY FixedIds DEF Null, Words
    <3>2. PICK empty, none : empty = <<>> /\ none = "@null"
      OBVIOUS
    <3>3. empty \in Ids /\ none \in Words /\ empty # ThreadsDir /\ Null = Append(empty, none)
      BY <3>1, <3>2
    <3>4. Append(ThreadsDir, p) # Append(empty, none)
      <4> SUFFICES ASSUME Append(ThreadsDir, p) = Append(empty, none) PROVE FALSE
        OBVIOUS
      <4>1. ThreadsDir \in Ids /\ empty \in Ids /\ p \in Words /\ none \in Words
            /\ Append(ThreadsDir, p) = Append(empty, none)
        BY <2>2, <3>3
      <4>2. ThreadsDir = empty
        BY ONLY <4>1, SamePath
      <4> QED BY <3>3, <4>2
    <3> QED BY <2>1, <3>3, <3>4
  <2> QED BY <2>1, <2>3, <2>4, <2>5, <2>6
<1>6. ASSUME NEW k \in new
      PROVE  /\ k \in ThreadIds /\ ns2[k].name = k[Len(k)] /\ ns2[k].parent = ThreadsDir
             /\ ns2[k].type = {"FILE"} /\ ns2[k].kids = <<>> /\ ns2[k].mount = Null
             /\ ns2[k].fs = "thread"
  <2>1. PICK name : name = k[Len(k)]
    OBVIOUS
  <2>2. ns2[k] = NodeOf(name, ThreadsDir, {"FILE"}, "thread") /\ k \in ThreadIds
    BY <1>2, <2>1 DEF IsFilled
  <2> QED BY <2>1, <2>2 DEF NodeOf
<1>7. ASSUME NEW k \in ThreadIds, k \in DOMAIN ns
      PROVE  /\ ns[k].name = k[Len(k)] /\ ns[k].parent = ThreadsDir /\ ns[k].fs = "thread"
             /\ \A j : ~ InList(ns[k].kids, j)
  <2>1. /\ Placed(ns, k) /\ ns[k].fs = "thread" /\ ns[k].parent \in Ids /\ ns[k].name \in Words
        /\ KidsOf(ns, k) /\ \A i \in DOMAIN ns[k].kids : ns[k].kids[i] \in DOMAIN ns
    BY <1>7, NodeFacts DEF Plain
  <2>2. IsChild(ns, k)
    BY <1>5, <2>1 DEF IsChild, IsRoot
  <2>3. PICK m, x : m = ns[k].parent /\ x = ns[k].name
    OBVIOUS
  <2>4. PICK p : p = k[Len(k)]
    OBVIOUS
  <2>5. k = Append(m, x) /\ k = Append(ThreadsDir, p) /\ p \in Words
    BY <1>5, <2>1, <2>2, <2>3, <2>4, Constants DEF Placed
  <2>6. m \in Ids /\ x \in Words /\ ThreadsDir \in Ids
    BY <2>1, <2>3, FixedIds
  <2>7. m \in Ids /\ x \in Words /\ ThreadsDir \in Ids /\ p \in Words
        /\ Append(m, x) = Append(ThreadsDir, p)
    BY <2>5, <2>6
  <2>8. m = ThreadsDir /\ x = p
    BY ONLY <2>7, SamePath
  <2>9. ASSUME NEW i \in DOMAIN ns[k].kids PROVE FALSE
    <3>1. PICK j : j = ns[k].kids[i]
      OBVIOUS
    <3>2. j \in DOMAIN ns /\ ns[j].parent = k
      BY <2>1, <3>1 DEF KidsOf, Kid
    <3>3. k = Null \/ k \notin ThreadIds
      BY <3>2, NodeFacts
    <3> QED BY <1>5, <3>3
  <2> QED BY <2>1, <2>3, <2>4, <2>8, <2>9 DEF InList
<1>8. ASSUME NEW k \in DOMAIN ns \cap DOMAIN ns2 PROVE SameNode(ns, ns2, k)
  <2>1. CASE k \in new
    BY <1>6, <1>7, <2>1 DEF SameNode
  <2>2. CASE k \notin new
    BY <1>3, <2>2 DEF SameNode, Stays
  <2> QED BY <2>1, <2>2
<1>9. Grows(ns, ns2)
  <2>1. \A k \in DOMAIN ns \ ThreadIds : SameNode(ns, ns2, k)
    BY <1>3, <1>8
  <2>2. ASSUME NEW k \in DOMAIN ns \ {ThreadsDir}, NEW j, k \in DOMAIN ns2, InList(ns[k].kids, j)
        PROVE  InList(ns2[k].kids, j)
    <3>1. k \notin new
      BY <1>3, <1>7, <2>2
    <3> QED BY <1>3, <2>2, <3>1
  <2> QED BY <1>8, <2>1, <2>2 DEF Grows
<1>10. StillTaken(volumes, volumes)
  BY DEF StillTaken
<1>11. ASSUME NEW k \in DOMAIN ns2, k \notin new PROVE k \in DOMAIN ns /\ Stays(ns, ns2, k)
  BY <1>3, <1>4, <1>8, <1>11 DEF Stays
<1>12. ASSUME NEW k \in DOMAIN ns2, k \notin new, k # ThreadsDir PROVE InOrder(ns2, volumes, k)
  <2>1. k \in DOMAIN ns /\ Stays(ns, ns2, k) /\ ns2[k] = ns[k]
    BY <1>3, <1>11, <1>12
  <2>2. \A i \in DOMAIN ns[k].kids : ns[k].kids[i] \in DOMAIN ns2
    <3>1. LinksOf(ns, k)
      BY <2>1 DEF Ordered, Tree
    <3> QED BY <1>3, <1>12, <3>1 DEF LinksOf
  <2> QED BY <1>9, <1>10, <2>1, <2>2, OrderKept DEF Stays
<1>13. ns2[ThreadsDir].name \notin DotNames /\ ThreadsDir # Null /\ ThreadsDir \in DOMAIN ns2
  <2>1. Placed(ns, ThreadsDir) /\ ns[ThreadsDir].parent \in Ids /\ ns[ThreadsDir].name \in Words
    BY <1>4, NodeFacts DEF Plain
  <2>2. ns[ThreadsDir].fs = "threads"
    BY FixedFsIs DEF Ordered, Tree, Fixed
  <2>3. IsChild(ns, ThreadsDir)
    <3>1. ThreadsDir # RootNode /\ ThreadsDir # DevRoot /\ ThreadsDir # SystemRoot
      BY FixedFsIs
    <3> QED BY <2>2, <3>1 DEF IsChild, IsRoot
  <2>4. PICK m, x : m = ns[ThreadsDir].parent /\ x = ns[ThreadsDir].name
    OBVIOUS
  <2>5. PICK r, w : r = SystemRoot /\ w = "threads"
    OBVIOUS
  <2>6. /\ m \in Ids /\ x \in Words /\ r \in Ids /\ w \in Words
        /\ Append(m, x) = Append(r, w)
    <3>1. m \in Ids /\ x \in Words /\ "threads" \in Words /\ SystemRoot \in Ids
      BY <2>1, <2>4, FixedIds DEF Words
    <3>2. Append(m, x) = Append(SystemRoot, "threads")
      BY <2>1, <2>3, <2>4, FixedIds DEF Placed
    <3> QED BY <2>5, <3>1, <3>2
  <2>7. x = "threads"
    <3>1. x = w
      BY ONLY <2>6, SamePath
    <3> QED BY <2>5, <3>1
  <2>8. "threads" \notin DotNames
    BY VfsAssumption DEF DotNames, BootNames
  <2> QED BY <1>3, <2>1, <2>4, <2>7, <2>8 DEF Placed, Stays, SameNode
<1>14. ASSUME NEW k \in new PROVE IsChild(ns2, k) /\ InOrder(ns2, volumes, k) /\ MountOf(ns2, k)
  <2>1. k \in ThreadIds /\ ns2[k].fs = "thread"
    BY <1>6
  <2>2. IsChild(ns2, k) /\ ~ IsRoot(ns2, k)
    BY <1>5, <2>1 DEF IsChild, IsRoot
  <2>3. Placed(ns2, k)
    <3>1. /\ k # RootNode /\ k # Null /\ k = Append(ThreadsDir, k[Len(k)])
          /\ Len(ThreadsDir) < Len(k)
      BY <1>5, <2>1
    <3>2. ns2[k].name = k[Len(k)] /\ ns2[k].parent = ThreadsDir
      BY <1>6
    <3>3. k = Append(ns2[k].parent, ns2[k].name)
      BY <3>1, <3>2
    <3> QED BY <1>13, <2>1, <2>2, <3>1, <3>2, <3>3 DEF Placed
  <2>4. KidsOf(ns2, k)
    <3>1. \A i \in DOMAIN <<>> : FALSE
      OBVIOUS
    <3> QED BY <1>6, <3>1 DEF KidsOf
  <2>5. Listed(ns2, k) /\ FatOf(ns2, volumes, k) /\ MountOf(ns2, k)
    BY <1>6 DEF Listed, FatOf, MountOf
  <2> QED BY <2>2, <2>3, <2>4, <2>5 DEF InOrder
<1>15. InOrder(ns2, volumes, ThreadsDir)
  <2>1. Placed(ns2, ThreadsDir) /\ Listed(ns2, ThreadsDir)
    BY <1>4, <1>9, <1>13, PlacedKept, ListedKept
  <2>2. ns2[ThreadsDir].fs = "threads"
    BY <1>1, FixedFsIs DEF Tree, Fixed
  <2>3. ASSUME NEW i \in DOMAIN ns2[ThreadsDir].kids
        PROVE  Kid(ns2, ThreadsDir, ns2[ThreadsDir].kids[i])
    <3>1. PICK k \in new : k = ns2[ThreadsDir].kids[i]
      BY <1>3
    <3>2. Kid(ns2, ThreadsDir, k)
      BY <1>6, <1>14, <2>2 DEF Kid
    <3> QED BY <3>1, <3>2
  <2> QED BY <2>1, <2>2, <2>3 DEF InOrder, FatOf, KidsOf
<1>16. \A k \in DOMAIN ns2 : InOrder(ns2, volumes, k)
  BY <1>12, <1>14, <1>15
<1>17. \A k \in DOMAIN ns2 : MountOf(ns2, k)
  BY <1>9, <1>11, <1>14, MountKept
<1>18. ASSUME NEW d \in dv PROVE Stays(ns, ns2, d)
  <2>1. d \in DOMAIN ns2 /\ ns2[d].fs = "device"
    BY <1>1, DeviceNodes
  <2> QED BY <1>6, <1>11, <2>1
<1>19. \A d \in dv : DeviceOf(ns2, d)
  BY <1>18, DevicesKept
<1>20. ASSUME NEW v \in DOMAIN VolumeNames PROVE VolumeSane(ns2, dv, volumes, v)
  <2>1. \A r \in DOMAIN ns2 : RootFor(ns2, v, r) => r \in DOMAIN ns
    BY <1>6, <1>11 DEF RootFor
  <2>2. \A k \in DOMAIN ns \ ThreadIds : ns2[k].mount = ns[k].mount
    BY <1>3, <1>11 DEF Stays
  <2> QED BY <1>9, <1>18, <2>1, <2>2, VolumeKept
<1>21. Orderly(ns2, dv, volumes)
  BY <1>16, <1>17, <1>19, <1>20 DEF Orderly, InOrder, Ordered
<1> QED BY <1>1, <1>9, <1>21 DEF Ordered

\* The names of directories that are made at boot begin with no dot.
LEMMA DevRootNamed ==
    ASSUME NEW dv, NEW vols, NEW ns, Ordered(ns, dv, vols)
    PROVE  DevRoot \in DOMAIN ns /\ ns[DevRoot].name \notin DotNames /\ DevRoot # Null
<1>1. DevRoot \in DOMAIN ns /\ <<"dev">> \in DOMAIN ns /\ ns[<<"dev">>].fs = "root"
  BY FixedFsIs DEF Ordered, Tree, Fixed
<1>2. Placed(ns, DevRoot) /\ RootOf(ns, DevRoot) /\ DevRoot # Null
  BY <1>1, NodeFacts DEF Placed, IsRoot
<1>3. PICK up \in DOMAIN ns \ ThreadIds, end \in Words :
          DevRoot = Append(up, end) /\ ns[DevRoot].name = ns[up].name
  BY <1>2 DEF RootOf
<1>4. PICK dev : dev = <<"dev">>
  OBVIOUS
<1>5. up = dev
  <2>1. DevRoot = Append(<<"dev">>, "@dev")
    BY DEF DevRoot
  <2>2. <<"dev">> \in Ids /\ "@dev" \in Words
    BY FixedIds DEF Words
  <2>3. up \in Ids
    BY <1>3, NodeFacts
  <2>4. Append(up, end) = Append(dev, "@dev")
    BY <1>3, <1>4, <2>1
  <2>5. PICK w \in Words : w = "@dev"
    BY <2>2
  <2>6. /\ up \in Ids /\ dev \in Ids /\ end \in Words /\ w \in Words
        /\ Append(up, end) = Append(dev, w)
    BY <1>3, <1>4, <2>2, <2>3, <2>4, <2>5
  <2> QED BY ONLY <2>6, SamePath
<1>6. Placed(ns, dev) /\ ns[dev].name \in Words /\ ns[dev].parent \in Ids /\ ns[dev].fs = "root"
      /\ dev \in Ids /\ dev = Append(RootNode, "dev") /\ "dev" \in Words /\ RootNode \in Ids
  <2>1. Placed(ns, dev) /\ ns[dev].name \in Words /\ ns[dev].parent \in Ids /\ dev \in Ids
    BY <1>1, <1>4, NodeFacts DEF Plain
  <2>2. <<"dev">> = Append(<<>>, "dev")
    OBVIOUS
  <2>3. dev = Append(RootNode, "dev")
    BY <1>4, <2>2 DEF RootNode
  <2>4. "dev" \in Words /\ RootNode \in Ids
    BY FixedIds DEF Words
  <2> QED BY <1>1, <1>4, <2>1, <2>3, <2>4
<1>7. dev # RootNode /\ dev # DevRoot /\ dev # SystemRoot
  BY <1>4, FixedIds
<1>8. IsChild(ns, dev)
  BY <1>6, <1>7 DEF IsChild, IsRoot
<1>9. PICK p, y : p = ns[dev].parent /\ y = ns[dev].name
  OBVIOUS
<1>10. Append(p, y) = Append(RootNode, "dev")
  BY <1>6, <1>8, <1>9 DEF Placed
<1>11. y = "dev"
  <2>1. PICK w \in Words, r \in Ids : w = "dev" /\ r = RootNode
    BY <1>6
  <2>2. w \in Words /\ r \in Ids /\ p \in Ids /\ y \in Words /\ Append(p, y) = Append(r, w)
    BY <1>6, <1>9, <1>10, <2>1
  <2>3. y = w
    BY ONLY <2>2, SamePath
  <2> QED BY <2>1, <2>3
<1>12. "dev" \notin DotNames
  <2>1. "dev" \in BootNames
    BY DEF BootNames
  <2> QED BY <2>1, VfsAssumption DEF DotNames
<1>13. ns[DevRoot].name = y
  BY <1>3, <1>5, <1>9
<1> QED BY <1>1, <1>2, <1>11, <1>12, <1>13

\* devfs_register_device keeps the tree in order.
LEMMA DeviceOrder ==
    ASSUME NEW dv, NEW ns, Ordered(ns, dv, volumes), ListOf(devices, dv),
           NEW name \in DOMAIN DeviceType, Named(ns, devices, name) = Null,
           NEW id, id = Append(DevRoot, name), NEW ns2, ns2 = Put(ns, id, DeviceNode(name)),
           NEW dv2, dv2 = dv \cup {id}
    PROVE  Ordered(ns2, dv2, volumes) /\ Grows(ns, ns2)
<1>1. Tree(ns2, dv2) /\ id \notin DOMAIN ns
  BY DeviceAdded DEF Ordered
<1>2. DOMAIN ns2 = DOMAIN ns \cup {id} /\ \A k \in DOMAIN ns : ns2[k] = ns[k]
  BY <1>1 DEF Put
<1>3. ns2[id] = DeviceNode(name)
  BY DEF Put
<1>4. PICK type : type = DeviceType[name]
  OBVIOUS
<1>5. /\ ns2[id].name = name /\ ns2[id].parent = DevRoot /\ ns2[id].type = {type}
      /\ ns2[id].kids = <<>> /\ ns2[id].mount = Null /\ ns2[id].fs = "device"
  <2>1. PICK types, root : types = {type} /\ root = DevRoot
    OBVIOUS
  <2>2. ns2[id] = NodeOf(name, root, types, "device")
    BY <1>3, <1>4, <2>1 DEF DeviceNode
  <2> QED BY <2>1, <2>2 DEF NodeOf
<1>6. type = "CHAR" \/ type = "BLOCK"
  BY <1>4, VfsAssumption
<1>7. \A k \in DOMAIN ns : Stays(ns, ns2, k)
  BY <1>2 DEF Stays, SameNode
<1>8. Grows(ns, ns2)
  BY <1>2, <1>7 DEF Grows, Stays
<1>9. StillTaken(volumes, volumes)
  BY DEF StillTaken
<1>10. ASSUME NEW k \in DOMAIN ns PROVE InOrder(ns2, volumes, k)
  <2>1. \A i \in DOMAIN ns[k].kids : ns[k].kids[i] \in DOMAIN ns2
    BY <1>2, NodeFacts
  <2>2. Stays(ns, ns2, k) /\ ns2[k].kids = ns[k].kids
    BY <1>2, <1>7
  <2> QED BY <1>8, <1>9, <2>1, <2>2, OrderKept DEF Stays
<1>11. DevRoot \in Ids /\ name \in Words /\ DevRoot \in Seq(Words) /\ id \in Ids
  BY Constants, FixedIds, OneAppend DEF Ids
<1>12. id # RootNode /\ id # DevRoot /\ id # SystemRoot /\ id # Null
  <2>1. Len(id) = Len(DevRoot) + 1 /\ Len(DevRoot) = 2
    <3>1. PICK s : s = DevRoot
      OBVIOUS
    <3>2. Len(Append(s, name)) = Len(s) + 1
      BY <1>11, <3>1, AppendProperties
    <3> QED BY <3>1, <3>2, FixedIds
  <2>2. Len(RootNode) = 0 /\ Len(SystemRoot) = 2 /\ Len(Null) = 1
    BY FixedIds DEF Null
  <2> QED BY <2>1, <2>2
<1>13. IsChild(ns2, id) /\ ~ IsRoot(ns2, id)
  BY <1>5, <1>12 DEF IsChild, IsRoot
<1>14. Placed(ns2, id)
  <2>1. ns2[DevRoot].name \notin DotNames /\ DevRoot # Null
    BY <1>2, DevRootNamed
  <2>2. Len(DevRoot) < Len(id)
    BY <1>11, AppendProperties, LenProperties
  <2> QED BY <1>5, <1>12, <1>13, <2>1, <2>2 DEF Placed
<1>15. InOrder(ns2, volumes, id) /\ MountOf(ns2, id)
  <2>1. KidsOf(ns2, id)
    <3>1. \A i \in DOMAIN <<>> : FALSE
      OBVIOUS
    <3> QED BY <1>5, <3>1 DEF KidsOf
  <2>2. "MOUNT" \notin {type}
    BY <1>6
  <2>3. Listed(ns2, id) /\ FatOf(ns2, volumes, id) /\ MountOf(ns2, id)
    BY <1>5, <2>2 DEF Listed, FatOf, MountOf
  <2> QED BY <1>14, <2>1, <2>3 DEF InOrder
<1>16. \A k \in DOMAIN ns2 : InOrder(ns2, volumes, k) /\ MountOf(ns2, k)
  BY <1>2, <1>7, <1>8, <1>10, <1>15, MountKept
<1>17. ASSUME NEW d \in dv PROVE Stays(ns, ns2, d)
  BY <1>7 DEF Ordered, Tree
<1>18. \A d \in dv2 : DeviceOf(ns2, d)
  <2>1. \A d \in dv : DeviceOf(ns2, d)
    BY <1>17, DevicesKept
  <2>2. DeviceOf(ns2, id)
    BY <1>4, <1>5 DEF DeviceOf
  <2> QED BY <2>1, <2>2
<1>19. ASSUME NEW v \in DOMAIN VolumeNames PROVE VolumeSane(ns2, dv2, volumes, v)
  <2>1. \A r \in DOMAIN ns2 : RootFor(ns2, v, r) => r \in DOMAIN ns
    BY <1>2, <1>5 DEF RootFor
  <2>2. \A k \in DOMAIN ns \ ThreadIds : ns2[k].mount = ns[k].mount
    BY <1>2
  <2>3. dv \subseteq dv2
    OBVIOUS
  <2> QED BY <1>8, <1>17, <2>1, <2>2, <2>3, VolumeKept
<1>20. Orderly(ns2, dv2, volumes)
  BY <1>16, <1>18, <1>19 DEF Orderly, InOrder, Ordered
<1> QED BY <1>1, <1>8, <1>20 DEF Ordered

\* The last name of an id.
LEMMA LastName ==
    ASSUME NEW m \in Ids, NEW x \in Words, NEW n, n = Append(m, x)
    PROVE  n[Len(n)] = x /\ n # <<>>
<1>1. m \in Seq(Words)
  BY DEF Ids
<1> QED BY <1>1, AppendProperties

\* The places of the nodes that are made at boot.
IsBootIds(r, d, i, s, dr, sr, mi, tp, up, td, pp, sh) ==
    /\ r = RootNode /\ d = <<"dev">> /\ i = <<"initrd">> /\ s = <<"system">> /\ dr = DevRoot
    /\ sr = SystemRoot /\ mi = MemInfo /\ tp = MemInfo \o <<"totalpages">>
    /\ up = MemInfo \o <<"usedpages">> /\ td = ThreadsDir /\ pp = SystemRoot \o <<"pipes">>
    /\ sh = SystemRoot \o <<"shm">>

\* Each of these places is a name below another one.
LEMMA BootAppends ==
    ASSUME NEW r, NEW d, NEW i, NEW s, NEW dr, NEW sr, NEW mi, NEW tp, NEW up, NEW td, NEW pp,
           NEW sh, IsBootIds(r, d, i, s, dr, sr, mi, tp, up, td, pp, sh)
    PROVE  /\ d = Append(r, "dev") /\ i = Append(r, "initrd") /\ s = Append(r, "system")
           /\ dr = Append(d, "@dev") /\ sr = Append(s, "@system")
           /\ mi = Append(sr, "meminfo") /\ pp = Append(sr, "pipes") /\ sh = Append(sr, "shm")
           /\ tp = Append(mi, "totalpages") /\ up = Append(mi, "usedpages")
           /\ td = Append(sr, "threads")
           /\ r \in Ids /\ d \in Ids /\ s \in Ids /\ sr \in Ids /\ mi \in Ids /\ dr \in Ids
           /\ {"dev", "initrd", "system", "@dev", "@system"} \subseteq Words
           /\ {"meminfo", "pipes", "shm", "totalpages", "usedpages", "threads"} \subseteq Words
<1>1. d = Append(r, "dev") /\ i = Append(r, "initrd") /\ s = Append(r, "system")
      /\ dr = Append(d, "@dev") /\ sr = Append(s, "@system")
  BY DEF IsBootIds, RootNode, DevRoot, SystemRoot
<1>2. r \in Ids /\ d \in Ids /\ s \in Ids /\ sr \in Ids /\ dr \in Ids
  BY FixedIds DEF IsBootIds
<1>3. mi = Append(sr, "meminfo") /\ mi \in Ids /\ pp = Append(sr, "pipes") /\ sh = Append(sr, "shm")
  BY BootIds DEF MemInfo, IsBootIds
<1>4. tp = Append(mi, "totalpages") /\ up = Append(mi, "usedpages") /\ td = Append(sr, "threads")
  BY BootIds, FixedIds DEF IsBootIds
<1>5. /\ {"dev", "initrd", "system", "@dev", "@system"} \subseteq Words
      /\ {"meminfo", "pipes", "shm", "totalpages", "usedpages", "threads"} \subseteq Words
  BY DEF Words
<1> QED BY <1>1, <1>2, <1>3, <1>4, <1>5

LastIs(n, x) == n # <<>> /\ n[Len(n)] = x

\* Their last names differ.
LEMMA BootLast ==
    ASSUME NEW r, NEW d, NEW i, NEW s, NEW dr, NEW sr, NEW mi, NEW tp, NEW up, NEW td, NEW pp,
           NEW sh, IsBootIds(r, d, i, s, dr, sr, mi, tp, up, td, pp, sh)
    PROVE  /\ r = <<>> /\ LastIs(d, "dev") /\ LastIs(i, "initrd") /\ LastIs(s, "system")
           /\ LastIs(dr, "@dev") /\ LastIs(sr, "@system") /\ LastIs(mi, "meminfo")
           /\ LastIs(pp, "pipes") /\ LastIs(sh, "shm") /\ LastIs(tp, "totalpages")
           /\ LastIs(up, "usedpages") /\ LastIs(td, "threads")
<1>1. r = <<>>
  BY DEF IsBootIds, RootNode
<1>2. LastIs(d, "dev")
  <2>1. d = Append(r, "dev")
    BY BootAppends
  <2>2. r \in Ids /\ "dev" \in Words
    BY BootAppends
  <2> QED BY <2>1, <2>2, LastName DEF LastIs
<1>3. LastIs(i, "initrd")
  <2>1. i = Append(r, "initrd")
    BY BootAppends
  <2>2. r \in Ids /\ "initrd" \in Words
    BY BootAppends
  <2> QED BY <2>1, <2>2, LastName DEF LastIs
<1>4. LastIs(s, "system")
  <2>1. s = Append(r, "system")
    BY BootAppends
  <2>2. r \in Ids /\ "system" \in Words
    BY BootAppends
  <2> QED BY <2>1, <2>2, LastName DEF LastIs
<1>5. LastIs(dr, "@dev")
  <2>1. dr = Append(d, "@dev")
    BY BootAppends
  <2>2. d \in Ids /\ "@dev" \in Words
    BY BootAppends
  <2> QED BY <2>1, <2>2, LastName DEF LastIs
<1>6. LastIs(sr, "@system")
  <2>1. sr = Append(s, "@system")
    BY BootAppends
  <2>2. s \in Ids /\ "@system" \in Words
    BY BootAppends
  <2> QED BY <2>1, <2>2, LastName DEF LastIs
<1>7. LastIs(mi, "meminfo")
  <2>1. mi = Append(sr, "meminfo")
    BY BootAppends
  <2>2. sr \in Ids /\ "meminfo" \in Words
    BY BootAppends
  <2> QED BY <2>1, <2>2, LastName DEF LastIs
<1>8. LastIs(pp, "pipes")
  <2>1. pp = Append(sr, "pipes")
    BY BootAppends
  <2>2. sr \in Ids /\ "pipes" \in Words
    BY BootAppends
  <2> QED BY <2>1, <2>2, LastName DEF LastIs
<1>9. LastIs(sh, "shm")
  <2>1. sh = Append(sr, "shm")
    BY BootAppends
  <2>2. sr \in Ids /\ "shm" \in Words
    BY BootAppends
  <2> QED BY <2>1, <2>2, LastName DEF LastIs
<1>10. LastIs(tp, "totalpages")
  <2>1. tp = Append(mi, "totalpages")
    BY BootAppends
  <2>2. mi \in Ids /\ "totalpages" \in Words
    BY BootAppends
  <2> QED BY <2>1, <2>2, LastName DEF LastIs
<1>11. LastIs(up, "usedpages")
  <2>1. up = Append(mi, "usedpages")
    BY BootAppends
  <2>2. mi \in Ids /\ "usedpages" \in Words
    BY BootAppends
  <2> QED BY <2>1, <2>2, LastName DEF LastIs
<1>12. LastIs(td, "threads")
  <2>1. td = Append(sr, "threads")
    BY BootAppends
  <2>2. sr \in Ids /\ "threads" \in Words
    BY BootAppends
  <2> QED BY <2>1, <2>2, LastName DEF LastIs
<1> QED BY <1>1, <1>2, <1>3, <1>4, <1>5, <1>6, <1>7, <1>8, <1>9, <1>10, <1>11, <1>12

\* Every node that fs_initialize, devfs_initialize and systemfs_initialize make has a
\* place of its own.
LEMMA BootUnique ==
    ASSUME NEW p \in RootNodes \cup SystemNodes, NEW q \in RootNodes \cup SystemNodes, p[1] = q[1]
    PROVE  p = q
<1>1. PICK r, d, i, s, dr, sr, td, mi, tp, up, pp, sh :
         /\ r = RootNode /\ d = <<"dev">> /\ i = <<"initrd">> /\ s = <<"system">> /\ dr = DevRoot
         /\ sr = SystemRoot /\ td = ThreadsDir /\ mi = MemInfo /\ tp = MemInfo \o <<"totalpages">>
         /\ up = MemInfo \o <<"usedpages">> /\ pp = SystemRoot \o <<"pipes">>
         /\ sh = SystemRoot \o <<"shm">>
  OBVIOUS
<1>2. PICK nr, nd, ni, ns, ndr, nsr, nmi, ntp, nup, ntd, npp, nsh :
         /\ nr = [NodeOf("", Null, {"DIR"}, "root") EXCEPT !.kids = <<d, i, s>>]
         /\ nd = [NodeOf("dev", r, {"DIR", "MOUNT"}, "root") EXCEPT !.mount = dr]
         /\ ni = NodeOf("initrd", r, {"DIR"}, "root")
         /\ ns = [NodeOf("system", r, {"DIR", "MOUNT"}, "root") EXCEPT !.mount = sr]
         /\ ndr = NodeOf("dev", r, {"DIR"}, "dev")
         /\ nsr = [NodeOf("system", r, {"DIR"}, "system") EXCEPT !.kids = <<mi, td, pp, sh>>]
         /\ nmi = [NodeOf("meminfo", sr, {"DIR"}, "system") EXCEPT !.kids = <<tp, up>>]
         /\ ntp = NodeOf("totalpages", mi, {"FILE"}, "system")
         /\ nup = NodeOf("usedpages", mi, {"FILE"}, "system")
         /\ ntd = NodeOf("threads", sr, {"DIR"}, "threads")
         /\ npp = NodeOf("pipes", sr, {"DIR"}, "bare")
         /\ nsh = NodeOf("shm", sr, {"DIR"}, "bare")
  OBVIOUS
<1>3. IsBootIds(r, d, i, s, dr, sr, mi, tp, up, td, pp, sh)
  BY <1>1 DEF IsBootIds
<1>4. /\ r = <<>> /\ LastIs(d, "dev") /\ LastIs(i, "initrd") /\ LastIs(s, "system")
      /\ LastIs(dr, "@dev") /\ LastIs(sr, "@system") /\ LastIs(mi, "meminfo")
      /\ LastIs(pp, "pipes") /\ LastIs(sh, "shm") /\ LastIs(tp, "totalpages")
      /\ LastIs(up, "usedpages") /\ LastIs(td, "threads")
  BY <1>3, BootLast
<1>5. \/ q = <<r, nr>> \/ q = <<d, nd>> \/ q = <<i, ni>> \/ q = <<s, ns>> \/ q = <<dr, ndr>>
       \/ q = <<sr, nsr>> \/ q = <<mi, nmi>> \/ q = <<tp, ntp>> \/ q = <<up, nup>>
       \/ q = <<td, ntd>> \/ q = <<pp, npp>> \/ q = <<sh, nsh>>
  <2>1. q \in RootNodes => \/ q = <<r, nr>> \/ q = <<d, nd>> \/ q = <<i, ni>> \/ q = <<s, ns>>
                           \/ q = <<dr, ndr>>
    BY <1>1, <1>2 DEF RootNodes
  <2>2. q \in SystemNodes => \/ q = <<sr, nsr>> \/ q = <<mi, nmi>>
                               \/ q = <<tp, ntp>> \/ q = <<up, nup>>
                             \/ q = <<td, ntd>> \/ q = <<pp, npp>> \/ q = <<sh, nsh>>
    BY <1>1, <1>2 DEF SystemNodes, SystemNode, MemInfo
  <2> QED BY <2>1, <2>2
<1>6. \/ p = <<r, nr>> \/ p = <<d, nd>> \/ p = <<i, ni>> \/ p = <<s, ns>> \/ p = <<dr, ndr>>
       \/ p = <<sr, nsr>> \/ p = <<mi, nmi>> \/ p = <<tp, ntp>> \/ p = <<up, nup>>
       \/ p = <<td, ntd>> \/ p = <<pp, npp>> \/ p = <<sh, nsh>>
  <2>1. p \in RootNodes => \/ p = <<r, nr>> \/ p = <<d, nd>> \/ p = <<i, ni>> \/ p = <<s, ns>>
                           \/ p = <<dr, ndr>>
    BY <1>1, <1>2 DEF RootNodes
  <2>2. p \in SystemNodes => \/ p = <<sr, nsr>> \/ p = <<mi, nmi>>
                               \/ p = <<tp, ntp>> \/ p = <<up, nup>>
                             \/ p = <<td, ntd>> \/ p = <<pp, npp>> \/ p = <<sh, nsh>>
    BY <1>1, <1>2 DEF SystemNodes, SystemNode, MemInfo
  <2> QED BY <2>1, <2>2
<1>7. p[1] = q[1]
  OBVIOUS
<1>8. r # d /\ r # i /\ r # s /\ r # dr /\ r # sr
       /\ r # mi /\ r # pp /\ r # sh /\ r # tp /\ r # up /\ r # td
  BY <1>4 DEF LastIs
<1>9. d # i /\ d # s /\ d # dr /\ d # sr /\ d # mi
       /\ d # pp /\ d # sh /\ d # tp /\ d # up /\ d # td
  BY <1>4 DEF LastIs
<1>10. i # s /\ i # dr /\ i # sr /\ i # mi /\ i # pp /\ i # sh /\ i # tp /\ i # up /\ i # td
  BY <1>4 DEF LastIs
<1>11. s # dr /\ s # sr /\ s # mi /\ s # pp /\ s # sh /\ s # tp /\ s # up /\ s # td
  BY <1>4 DEF LastIs
<1>12. dr # sr /\ dr # mi /\ dr # pp /\ dr # sh /\ dr # tp /\ dr # up /\ dr # td
  BY <1>4 DEF LastIs
<1>13. sr # mi /\ sr # pp /\ sr # sh /\ sr # tp /\ sr # up /\ sr # td
  BY <1>4 DEF LastIs
<1>14. mi # pp /\ mi # sh /\ mi # tp /\ mi # up /\ mi # td
  BY <1>4 DEF LastIs
<1>15. pp # sh /\ pp # tp /\ pp # up /\ pp # td
  BY <1>4 DEF LastIs
<1>16. sh # tp /\ sh # up /\ sh # td
  BY <1>4 DEF LastIs
<1>17. tp # up /\ tp # td
  BY <1>4 DEF LastIs
<1>18. up # td
  BY <1>4 DEF LastIs
<1>19. CASE q = <<r, nr>>
  BY <1>6, <1>7, <1>19, <1>8, <1>9, <1>10, <1>11, <1>12, <1>13, <1>14, <1>15, <1>16, <1>17, <1>18
<1>20. CASE q = <<d, nd>>
  BY <1>6, <1>7, <1>20, <1>8, <1>9, <1>10, <1>11, <1>12, <1>13, <1>14, <1>15, <1>16, <1>17, <1>18
<1>21. CASE q = <<i, ni>>
  BY <1>6, <1>7, <1>21, <1>8, <1>9, <1>10, <1>11, <1>12, <1>13, <1>14, <1>15, <1>16, <1>17, <1>18
<1>22. CASE q = <<s, ns>>
  BY <1>6, <1>7, <1>22, <1>8, <1>9, <1>10, <1>11, <1>12, <1>13, <1>14, <1>15, <1>16, <1>17, <1>18
<1>23. CASE q = <<dr, ndr>>
  BY <1>6, <1>7, <1>23, <1>8, <1>9, <1>10, <1>11, <1>12, <1>13, <1>14, <1>15, <1>16, <1>17, <1>18
<1>24. CASE q = <<sr, nsr>>
  BY <1>6, <1>7, <1>24, <1>8, <1>9, <1>10, <1>11, <1>12, <1>13, <1>14, <1>15, <1>16, <1>17, <1>18
<1>25. CASE q = <<mi, nmi>>
  BY <1>6, <1>7, <1>25, <1>8, <1>9, <1>10, <1>11, <1>12, <1>13, <1>14, <1>15, <1>16, <1>17, <1>18
<1>26. CASE q = <<pp, npp>>
  BY <1>6, <1>7, <1>26, <1>8, <1>9, <1>10, <1>11, <1>12, <1>13, <1>14, <1>15, <1>16, <1>17, <1>18
<1>27. CASE q = <<sh, nsh>>
  BY <1>6, <1>7, <1>27, <1>8, <1>9, <1>10, <1>11, <1>12, <1>13, <1>14, <1>15, <1>16, <1>17, <1>18
<1>28. CASE q = <<tp, ntp>>
  BY <1>6, <1>7, <1>28, <1>8, <1>9, <1>10, <1>11, <1>12, <1>13, <1>14, <1>15, <1>16, <1>17, <1>18
<1>29. CASE q = <<up, nup>>
  BY <1>6, <1>7, <1>29, <1>8, <1>9, <1>10, <1>11, <1>12, <1>13, <1>14, <1>15, <1>16, <1>17, <1>18
<1>30. CASE q = <<td, ntd>>
  BY <1>6, <1>7, <1>30, <1>8, <1>9, <1>10, <1>11, <1>12, <1>13, <1>14, <1>15, <1>16, <1>17, <1>18
<1> QED BY <1>5, <1>19, <1>20, <1>21, <1>22, <1>23, <1>24, <1>25, <1>26, <1>27, <1>28, <1>29, <1>30

\* The node at each place.
LEMMA BootNodeIs ==
    ASSUME NEW q \in RootNodes \cup SystemNodes \cup BootPairs
    PROVE  q[1] \in DOMAIN BootNodes /\ BootNodes[q[1]] = q[2]
<1> DEFINE pairs == RootNodes \cup SystemNodes \cup BootPairs
           all == {u[1] : u \in pairs}
<1>1. PICK ns : ns = [id \in all |-> (CHOOSE u \in pairs : u[1] = id)[2]]
  OBVIOUS
<1>2. BootNodes = ns
  BY <1>1 DEF BootNodes, BootPairs
<1>3. q[1] \in all
  OBVIOUS
<1>4. PICK u \in pairs : u[1] = q[1] /\ ns[q[1]] = u[2]
  BY <1>1, <1>3
<1>5. \A w \in RootNodes \cup SystemNodes : w[1] \notin BootDeviceIds
  BY BootNodesFit
<1>6. \A w \in BootPairs : w[1] \in BootDeviceIds
  BY BootDevicesFit
<1>7. CASE u \in RootNodes \cup SystemNodes /\ q \in RootNodes \cup SystemNodes
  BY <1>1, <1>2, <1>3, <1>4, <1>7, BootUnique
<1>8. CASE u \in BootPairs /\ q \in BootPairs
  <2>1. PICK i \in DOMAIN BootDevices, j \in DOMAIN BootDevices :
            /\ u = <<Append(DevRoot, BootDevices[i]), DeviceNode(BootDevices[i])>>
            /\ q = <<Append(DevRoot, BootDevices[j]), DeviceNode(BootDevices[j])>>
    BY <1>8 DEF BootPairs
  <2>2. PICK a, b : a = BootDevices[i] /\ b = BootDevices[j]
    OBVIOUS
  <2>3. a \in Words /\ b \in Words /\ DevRoot \in Ids
    BY <2>2, Constants, VfsAssumption, ElementOfSeq, FixedIds
  <2>4. Append(DevRoot, a) = Append(DevRoot, b)
    BY <1>4, <2>1, <2>2
  <2>5. a = b
    BY <2>3, <2>4, OneAppend
  <2> QED BY <1>1, <1>2, <1>3, <1>4, <2>1, <2>2, <2>5
<1> QED BY <1>4, <1>5, <1>6, <1>7, <1>8

\* A node that is made at boot below node m.
HasFields(node, name, parent, fs) == node.name = name /\ node.parent = parent /\ node.fs = fs

\* A node that is made at boot below another is its child, in order.
LEMMA BootChild ==
    ASSUME NEW ns, NEW vols, NEW m \in Ids, NEW name \in Words, NEW fs, NEW n, n = Append(m, name),
           HasFields(ns[n], name, m, fs), m # Null, ns[m].name \notin DotNames,
           n \notin {RootNode, DevRoot, SystemRoot, Null},
           fs \notin {"fat", "fatroot", "dev"}, fs = "device" \/ InList(ns[m].kids, n),
           \A i \in DOMAIN ns[n].kids : Kid(ns, n, ns[n].kids[i])
    PROVE  InOrder(ns, vols, n) /\ IsChild(ns, n)
<1>1. ns[n].name = name /\ ns[n].parent = m /\ ns[n].fs = fs
  BY DEF HasFields
<1>2. IsChild(ns, n) /\ ~ IsRoot(ns, n)
  BY <1>1 DEF IsChild, IsRoot
<1>3. Len(m) < Len(n)
  BY AppendProperties, LenProperties DEF Ids
<1>4. Placed(ns, n)
  BY <1>1, <1>2, <1>3 DEF Placed
<1>5. KidsOf(ns, n) /\ FatOf(ns, vols, n)
  BY <1>1 DEF KidsOf, FatOf
<1>6. Listed(ns, n)
  BY <1>1 DEF Listed
<1> QED BY <1>2, <1>4, <1>5, <1>6 DEF InOrder

\* The fields of the nodes that are made at boot.
BootTable(ns, r, d, i, s, dr, sr, mi, tp, up, td, pp, sh) ==
    /\ HasFields(ns[r], "", Null, "root") /\ ns[r].kids = <<d, i, s>>
    /\ HasFields(ns[d], "dev", r, "root") /\ ns[d].kids = <<>>
    /\ HasFields(ns[i], "initrd", r, "root") /\ ns[i].kids = <<>>
    /\ HasFields(ns[s], "system", r, "root") /\ ns[s].kids = <<>>
    /\ HasFields(ns[dr], "dev", r, "dev") /\ ns[dr].kids = <<>>
    /\ HasFields(ns[sr], "system", r, "system") /\ ns[sr].kids = <<mi, td, pp, sh>>
    /\ HasFields(ns[mi], "meminfo", sr, "system") /\ ns[mi].kids = <<tp, up>>
    /\ HasFields(ns[tp], "totalpages", mi, "system") /\ ns[tp].kids = <<>>
    /\ HasFields(ns[up], "usedpages", mi, "system") /\ ns[up].kids = <<>>
    /\ HasFields(ns[td], "threads", sr, "threads") /\ ns[td].kids = <<>>
    /\ HasFields(ns[pp], "pipes", sr, "bare") /\ ns[pp].kids = <<>>
    /\ HasFields(ns[sh], "shm", sr, "bare") /\ ns[sh].kids = <<>>
BootMounts(ns, d, s, dr, sr) ==
    /\ ns[d].mount = dr /\ ns[d].type = {"DIR", "MOUNT"}
    /\ ns[s].mount = sr /\ ns[s].type = {"DIR", "MOUNT"}

Filled(node, name, parent, type, fs, kids, mount) ==
    HasFields(node, name, parent, fs) /\ node.type = type /\ node.kids = kids /\ node.mount = mount
BootTypes(ns, r, i, dr, sr, mi, tp, up, td, pp, sh) ==
    /\ \A n \in {r, i, dr, sr, mi, td, pp, sh} : ns[n].mount = Null /\ ns[n].type = {"DIR"}
    /\ \A n \in {tp, up} : ns[n].mount = Null /\ ns[n].type = {"FILE"}

\* The tree at boot is this table and the devices.
LEMMA BootTableIs ==
    ASSUME NEW r, NEW d, NEW i, NEW s, NEW dr, NEW sr, NEW mi, NEW tp, NEW up, NEW td, NEW pp,
           NEW sh, IsBootIds(r, d, i, s, dr, sr, mi, tp, up, td, pp, sh)
    PROVE  /\ BootTable(BootNodes, r, d, i, s, dr, sr, mi, tp, up, td, pp, sh)
           /\ BootMounts(BootNodes, d, s, dr, sr)
           /\ BootTypes(BootNodes, r, i, dr, sr, mi, tp, up, td, pp, sh)
           /\ DOMAIN BootNodes \subseteq {r, d, i, s, dr, sr, mi, tp, up, td, pp, sh} \cup BootDeviceIds
<1>1. Filled(BootNodes[r], "", Null, {"DIR"}, "root", <<d, i, s>>, Null)
  <2>1. PICK node : node = [NodeOf("", Null, {"DIR"}, "root") EXCEPT !.kids = <<d, i, s>>]
    OBVIOUS
  <2>2. <<r, node>> \in RootNodes
    BY <2>1 DEF RootNodes, IsBootIds
  <2>3. <<r, node>>[1] = r /\ <<r, node>>[2] = node
    OBVIOUS
  <2>4. BootNodes[r] = node
    BY <2>2, <2>3, BootNodeIs
  <2>5. Filled(node, "", Null, {"DIR"}, "root", <<d, i, s>>, Null)
    BY <2>1 DEF NodeOf, Filled, HasFields
  <2> QED BY <2>4, <2>5
<1>2. Filled(BootNodes[d], "dev", r, {"DIR", "MOUNT"}, "root", <<>>, dr)
  <2>1. PICK node : node = [NodeOf("dev", r, {"DIR", "MOUNT"}, "root") EXCEPT !.mount = dr]
    OBVIOUS
  <2>2. <<d, node>> \in RootNodes
    BY <2>1 DEF RootNodes, IsBootIds
  <2>3. <<d, node>>[1] = d /\ <<d, node>>[2] = node
    OBVIOUS
  <2>4. BootNodes[d] = node
    BY <2>2, <2>3, BootNodeIs
  <2>5. Filled(node, "dev", r, {"DIR", "MOUNT"}, "root", <<>>, dr)
    BY <2>1 DEF NodeOf, Filled, HasFields
  <2> QED BY <2>4, <2>5
<1>3. Filled(BootNodes[i], "initrd", r, {"DIR"}, "root", <<>>, Null)
  <2>1. PICK node : node = NodeOf("initrd", r, {"DIR"}, "root")
    OBVIOUS
  <2>2. <<i, node>> \in RootNodes
    BY <2>1 DEF RootNodes, IsBootIds
  <2>3. <<i, node>>[1] = i /\ <<i, node>>[2] = node
    OBVIOUS
  <2>4. BootNodes[i] = node
    BY <2>2, <2>3, BootNodeIs
  <2>5. Filled(node, "initrd", r, {"DIR"}, "root", <<>>, Null)
    BY <2>1 DEF NodeOf, Filled, HasFields
  <2> QED BY <2>4, <2>5
<1>4. Filled(BootNodes[s], "system", r, {"DIR", "MOUNT"}, "root", <<>>, sr)
  <2>1. PICK node : node = [NodeOf("system", r, {"DIR", "MOUNT"}, "root") EXCEPT !.mount = sr]
    OBVIOUS
  <2>2. <<s, node>> \in RootNodes
    BY <2>1 DEF RootNodes, IsBootIds
  <2>3. <<s, node>>[1] = s /\ <<s, node>>[2] = node
    OBVIOUS
  <2>4. BootNodes[s] = node
    BY <2>2, <2>3, BootNodeIs
  <2>5. Filled(node, "system", r, {"DIR", "MOUNT"}, "root", <<>>, sr)
    BY <2>1 DEF NodeOf, Filled, HasFields
  <2> QED BY <2>4, <2>5
<1>5. Filled(BootNodes[dr], "dev", r, {"DIR"}, "dev", <<>>, Null)
  <2>1. PICK node : node = NodeOf("dev", r, {"DIR"}, "dev")
    OBVIOUS
  <2>2. <<dr, node>> \in RootNodes
    BY <2>1 DEF RootNodes, IsBootIds
  <2>3. <<dr, node>>[1] = dr /\ <<dr, node>>[2] = node
    OBVIOUS
  <2>4. BootNodes[dr] = node
    BY <2>2, <2>3, BootNodeIs
  <2>5. Filled(node, "dev", r, {"DIR"}, "dev", <<>>, Null)
    BY <2>1 DEF NodeOf, Filled, HasFields
  <2> QED BY <2>4, <2>5
<1>6. Filled(BootNodes[sr], "system", r, {"DIR"}, "system", <<mi, td, pp, sh>>, Null)
  <2>1. PICK node : node = [NodeOf("system", r, {"DIR"}, "system") EXCEPT !.kids = <<mi, td, pp, sh>>]
    OBVIOUS
  <2>2. <<sr, node>> \in SystemNodes
    BY <2>1 DEF SystemNodes, SystemNode, MemInfo, IsBootIds
  <2>3. <<sr, node>>[1] = sr /\ <<sr, node>>[2] = node
    OBVIOUS
  <2>4. BootNodes[sr] = node
    BY <2>2, <2>3, BootNodeIs
  <2>5. Filled(node, "system", r, {"DIR"}, "system", <<mi, td, pp, sh>>, Null)
    BY <2>1 DEF NodeOf, Filled, HasFields
  <2> QED BY <2>4, <2>5
<1>7. Filled(BootNodes[mi], "meminfo", sr, {"DIR"}, "system", <<tp, up>>, Null)
  <2>1. PICK node : node = [NodeOf("meminfo", sr, {"DIR"}, "system") EXCEPT !.kids = <<tp, up>>]
    OBVIOUS
  <2>2. <<mi, node>> \in SystemNodes
    BY <2>1 DEF SystemNodes, SystemNode, MemInfo, IsBootIds
  <2>3. <<mi, node>>[1] = mi /\ <<mi, node>>[2] = node
    OBVIOUS
  <2>4. BootNodes[mi] = node
    BY <2>2, <2>3, BootNodeIs
  <2>5. Filled(node, "meminfo", sr, {"DIR"}, "system", <<tp, up>>, Null)
    BY <2>1 DEF NodeOf, Filled, HasFields
  <2> QED BY <2>4, <2>5
<1>8. Filled(BootNodes[tp], "totalpages", mi, {"FILE"}, "system", <<>>, Null)
  <2>1. PICK node : node = NodeOf("totalpages", mi, {"FILE"}, "system")
    OBVIOUS
  <2>2. <<tp, node>> \in SystemNodes
    BY <2>1 DEF SystemNodes, SystemNode, MemInfo, IsBootIds
  <2>3. <<tp, node>>[1] = tp /\ <<tp, node>>[2] = node
    OBVIOUS
  <2>4. BootNodes[tp] = node
    BY <2>2, <2>3, BootNodeIs
  <2>5. Filled(node, "totalpages", mi, {"FILE"}, "system", <<>>, Null)
    BY <2>1 DEF NodeOf, Filled, HasFields
  <2> QED BY <2>4, <2>5
<1>9. Filled(BootNodes[up], "usedpages", mi, {"FILE"}, "system", <<>>, Null)
  <2>1. PICK node : node = NodeOf("usedpages", mi, {"FILE"}, "system")
    OBVIOUS
  <2>2. <<up, node>> \in SystemNodes
    BY <2>1 DEF SystemNodes, SystemNode, MemInfo, IsBootIds
  <2>3. <<up, node>>[1] = up /\ <<up, node>>[2] = node
    OBVIOUS
  <2>4. BootNodes[up] = node
    BY <2>2, <2>3, BootNodeIs
  <2>5. Filled(node, "usedpages", mi, {"FILE"}, "system", <<>>, Null)
    BY <2>1 DEF NodeOf, Filled, HasFields
  <2> QED BY <2>4, <2>5
<1>10. Filled(BootNodes[td], "threads", sr, {"DIR"}, "threads", <<>>, Null)
  <2>1. PICK node : node = NodeOf("threads", sr, {"DIR"}, "threads")
    OBVIOUS
  <2>2. <<td, node>> \in SystemNodes
    BY <2>1 DEF SystemNodes, SystemNode, MemInfo, IsBootIds
  <2>3. <<td, node>>[1] = td /\ <<td, node>>[2] = node
    OBVIOUS
  <2>4. BootNodes[td] = node
    BY <2>2, <2>3, BootNodeIs
  <2>5. Filled(node, "threads", sr, {"DIR"}, "threads", <<>>, Null)
    BY <2>1 DEF NodeOf, Filled, HasFields
  <2> QED BY <2>4, <2>5
<1>11. Filled(BootNodes[pp], "pipes", sr, {"DIR"}, "bare", <<>>, Null)
  <2>1. PICK node : node = NodeOf("pipes", sr, {"DIR"}, "bare")
    OBVIOUS
  <2>2. <<pp, node>> \in SystemNodes
    BY <2>1 DEF SystemNodes, SystemNode, MemInfo, IsBootIds
  <2>3. <<pp, node>>[1] = pp /\ <<pp, node>>[2] = node
    OBVIOUS
  <2>4. BootNodes[pp] = node
    BY <2>2, <2>3, BootNodeIs
  <2>5. Filled(node, "pipes", sr, {"DIR"}, "bare", <<>>, Null)
    BY <2>1 DEF NodeOf, Filled, HasFields
  <2> QED BY <2>4, <2>5
<1>12. Filled(BootNodes[sh], "shm", sr, {"DIR"}, "bare", <<>>, Null)
  <2>1. PICK node : node = NodeOf("shm", sr, {"DIR"}, "bare")
    OBVIOUS
  <2>2. <<sh, node>> \in SystemNodes
    BY <2>1 DEF SystemNodes, SystemNode, MemInfo, IsBootIds
  <2>3. <<sh, node>>[1] = sh /\ <<sh, node>>[2] = node
    OBVIOUS
  <2>4. BootNodes[sh] = node
    BY <2>2, <2>3, BootNodeIs
  <2>5. Filled(node, "shm", sr, {"DIR"}, "bare", <<>>, Null)
    BY <2>1 DEF NodeOf, Filled, HasFields
  <2> QED BY <2>4, <2>5
<1>13. BootTable(BootNodes, r, d, i, s, dr, sr, mi, tp, up, td, pp, sh)
  BY <1>1, <1>2, <1>3, <1>4, <1>5, <1>6, <1>7, <1>8, <1>9, <1>10, <1>11, <1>12
     DEF BootTable, Filled
<1>14. BootMounts(BootNodes, d, s, dr, sr)
  BY <1>2, <1>4 DEF BootMounts, Filled
<1>15. BootTypes(BootNodes, r, i, dr, sr, mi, tp, up, td, pp, sh)
  BY <1>1, <1>3, <1>5, <1>6, <1>7, <1>8, <1>9, <1>10, <1>11, <1>12 DEF BootTypes, Filled
<1>16. ASSUME NEW n \in DOMAIN BootNodes
       PROVE  n \in {r, d, i, s, dr, sr, mi, tp, up, td, pp, sh} \cup BootDeviceIds
  <2> DEFINE pairs == RootNodes \cup SystemNodes \cup BootPairs
             all == {q[1] : q \in pairs}
  <2>1. DOMAIN BootNodes = all
    BY DEF BootNodes, BootPairs
  <2>2. PICK q \in pairs : n = q[1]
    BY <2>1
  <2>3. CASE q \in BootPairs
    BY <2>2, <2>3, BootDevicesFit
  <2>4. CASE q \in RootNodes
    <3>1. PICK nr, nd, ni, ns, ndr :
             /\ nr = [NodeOf("", Null, {"DIR"}, "root") EXCEPT !.kids = <<d, i, s>>]
             /\ nd = [NodeOf("dev", r, {"DIR", "MOUNT"}, "root") EXCEPT !.mount = dr]
             /\ ni = NodeOf("initrd", r, {"DIR"}, "root")
             /\ ns = [NodeOf("system", r, {"DIR", "MOUNT"}, "root") EXCEPT !.mount = sr]
             /\ ndr = NodeOf("dev", r, {"DIR"}, "dev")
      OBVIOUS
    <3>2. \/ q = <<r, nr>> \/ q = <<d, nd>> \/ q = <<i, ni>> \/ q = <<s, ns>> \/ q = <<dr, ndr>>
      BY <2>4, <3>1 DEF RootNodes, IsBootIds
    <3> QED BY <2>2, <3>2
  <2>5. CASE q \in SystemNodes
    <3>1. PICK nsr, nmi, ntp, nup, ntd, npp, nsh :
             /\ nsr = [NodeOf("system", r, {"DIR"}, "system") EXCEPT !.kids = <<mi, td, pp, sh>>]
             /\ nmi = [NodeOf("meminfo", sr, {"DIR"}, "system") EXCEPT !.kids = <<tp, up>>]
             /\ ntp = NodeOf("totalpages", mi, {"FILE"}, "system")
             /\ nup = NodeOf("usedpages", mi, {"FILE"}, "system")
             /\ ntd = NodeOf("threads", sr, {"DIR"}, "threads")
             /\ npp = NodeOf("pipes", sr, {"DIR"}, "bare")
             /\ nsh = NodeOf("shm", sr, {"DIR"}, "bare")
      OBVIOUS
    <3>2. \/ q = <<sr, nsr>> \/ q = <<mi, nmi>> \/ q = <<tp, ntp>> \/ q = <<up, nup>>
          \/ q = <<td, ntd>> \/ q = <<pp, npp>> \/ q = <<sh, nsh>>
      BY <2>5, <3>1 DEF SystemNodes, SystemNode, MemInfo, IsBootIds
    <3> QED BY <2>2, <3>2
  <2> QED BY <2>2, <2>3, <2>4, <2>5
<1> QED BY <1>13, <1>14, <1>15, <1>16

\* The name of a node at boot begins with no dot.
LEMMA BootNamesShown == \A x \in BootNames : x \in Words /\ x \notin DotNames
<1>1. BootNames \subseteq Words
  BY Constants DEF Plain
<1>2. \A x \in BootNames : x \notin DotNames
  BY VfsAssumption DEF DotNames
<1> QED BY <1>1, <1>2

AllInOrder(ns, vols, these) ==
    \A n \in these :
        InOrder(ns, vols, n) /\ ns[n].name \notin DotNames /\ ns[n].fs \notin {"fat", "fatroot"}

\* The directories made at boot are in order.
LEMMA BootInOrder ==
    ASSUME NEW ns, NEW vols, NEW r, NEW d, NEW i, NEW s, NEW dr, NEW sr, NEW mi, NEW tp, NEW up,
           NEW td, NEW pp, NEW sh, IsBootIds(r, d, i, s, dr, sr, mi, tp, up, td, pp, sh),
           d \in DOMAIN ns, s \in DOMAIN ns, BootTable(ns, r, d, i, s, dr, sr, mi, tp, up, td, pp, sh)
    PROVE  AllInOrder(ns, vols, {r, d, i, s, dr, sr, mi, tp, up, td, pp, sh})
<1>1. r = RootNode /\ dr = DevRoot /\ sr = SystemRoot
  BY DEF IsBootIds
<1>2. /\ r = <<>> /\ LastIs(d, "dev") /\ LastIs(i, "initrd") /\ LastIs(s, "system")
      /\ LastIs(dr, "@dev") /\ LastIs(sr, "@system") /\ LastIs(mi, "meminfo")
      /\ LastIs(pp, "pipes") /\ LastIs(sh, "shm") /\ LastIs(tp, "totalpages")
      /\ LastIs(up, "usedpages") /\ LastIs(td, "threads")
  BY BootLast
<1>3. LastIs(Null, "@null")
  <2>1. <<"@null">>[Len(<<"@null">>)] = "@null" /\ <<"@null">> # <<>>
    OBVIOUS
  <2> QED BY <2>1 DEF Null, LastIs
<1>4. \A n \in {d, i, s, mi, tp, up, td, pp, sh} : n \notin {RootNode, DevRoot, SystemRoot, Null}
  BY <1>1, <1>2, <1>3 DEF LastIs
<1>5. r # Null /\ dr # Null /\ sr # Null /\ mi # Null /\ dr # r /\ sr # r /\ dr # sr
  BY <1>2, <1>3 DEF LastIs
<1>6. /\ "" \in BootNames /\ "dev" \in BootNames /\ "initrd" \in BootNames /\ "system" \in BootNames
      /\ "meminfo" \in BootNames /\ "totalpages" \in BootNames /\ "usedpages" \in BootNames
      /\ "threads" \in BootNames /\ "pipes" \in BootNames /\ "shm" \in BootNames
  BY DEF BootNames
<1>7. \A n \in {r, d, i, s, dr, sr, mi, tp, up, td, pp, sh} : ns[n].name \in BootNames
  <2>1. /\ ns[r].name \in BootNames /\ ns[d].name \in BootNames /\ ns[i].name \in BootNames
        /\ ns[s].name \in BootNames /\ ns[dr].name \in BootNames /\ ns[sr].name \in BootNames
    BY <1>6 DEF BootTable, HasFields
  <2>2. /\ ns[mi].name \in BootNames /\ ns[tp].name \in BootNames /\ ns[up].name \in BootNames
        /\ ns[td].name \in BootNames /\ ns[pp].name \in BootNames /\ ns[sh].name \in BootNames
    BY <1>6 DEF BootTable, HasFields
  <2> QED BY <2>1, <2>2
<1>8. \A n \in {r, d, i, s, dr, sr, mi, tp, up, td, pp, sh} : ns[n].name \notin DotNames
  BY <1>7, BootNamesShown
<1>9. \A n \in {r, d, i, s, dr, sr, mi, tp, up, td, pp, sh} : ns[n].fs \notin {"fat", "fatroot"}
  BY DEF BootTable, HasFields
<1>10. \A n \in {d, i, s, mi, tp, up, td, pp, sh} : IsChild(ns, n)
  BY <1>1, <1>4, <1>9 DEF IsChild, IsRoot
<1>11. \A k : InList(ns[r].kids, k) <=> k \in {d, i, s}
  <2>1. ns[r].kids = <<d, i, s>>
    BY DEF BootTable
  <2> QED BY <2>1 DEF InList
<1>12. \A k : InList(ns[sr].kids, k) <=> k \in {mi, td, pp, sh}
  <2>1. ns[sr].kids = <<mi, td, pp, sh>>
    BY DEF BootTable
  <2> QED BY <2>1 DEF InList
<1>13. \A k : InList(ns[mi].kids, k) <=> k \in {tp, up}
  <2>1. ns[mi].kids = <<tp, up>>
    BY DEF BootTable
  <2> QED BY <2>1 DEF InList
<1>14. \A n \in {d, i, s, dr, tp, up, td, pp, sh} : \A k : ~ InList(ns[n].kids, k)
  <2>1. \A n \in {d, i, s, dr, tp, up, td, pp, sh} : ns[n].kids = <<>>
    BY DEF BootTable
  <2> QED BY <2>1 DEF InList
<1>15. \A k \in {d, i, s} : Kid(ns, r, k)
  BY <1>9, <1>10 DEF Kid, BootTable, HasFields
<1>16. \A k \in {mi, td, pp, sh} : Kid(ns, sr, k)
  BY <1>9, <1>10 DEF Kid, BootTable, HasFields
<1>17. \A k \in {tp, up} : Kid(ns, mi, k)
  BY <1>9, <1>10 DEF Kid, BootTable, HasFields
<1>18. ASSUME NEW n \in {r, d, i, s, dr, sr, mi, tp, up, td, pp, sh}
       PROVE  \A j \in DOMAIN ns[n].kids : Kid(ns, n, ns[n].kids[j])
  <2>1. \A j \in DOMAIN ns[n].kids : InList(ns[n].kids, ns[n].kids[j])
    BY DEF InList
  <2> QED BY <1>11, <1>12, <1>13, <1>14, <1>15, <1>16, <1>17, <2>1
<1>19. InOrder(ns, vols, d)
  <2>1. d = Append(r, "dev") /\ r \in Ids /\ "dev" \in Words
    BY BootAppends
  <2>2. HasFields(ns[d], "dev", r, "root")
    BY DEF BootTable
  <2>3. r # Null /\ ns[r].name \notin DotNames /\ InList(ns[r].kids, d)
    BY <1>5, <1>8, <1>11, <1>12, <1>13
  <2>4. d \notin {RootNode, DevRoot, SystemRoot, Null}
    BY <1>4
  <2>5. \A j \in DOMAIN ns[d].kids : Kid(ns, d, ns[d].kids[j])
    BY <1>18
  <2>6. PICK w, fs : w = "dev" /\ fs = "root"
    OBVIOUS
  <2>7. d = Append(r, w) /\ w \in Words /\ HasFields(ns[d], w, r, fs)
    BY <2>1, <2>2, <2>6
  <2>8. fs \notin {"fat", "fatroot", "dev"}
    BY <2>6
  <2> QED BY <2>1, <2>3, <2>4, <2>5, <2>7, <2>8, BootChild
<1>20. InOrder(ns, vols, i)
  <2>1. i = Append(r, "initrd") /\ r \in Ids /\ "initrd" \in Words
    BY BootAppends
  <2>2. HasFields(ns[i], "initrd", r, "root")
    BY DEF BootTable
  <2>3. r # Null /\ ns[r].name \notin DotNames /\ InList(ns[r].kids, i)
    BY <1>5, <1>8, <1>11, <1>12, <1>13
  <2>4. i \notin {RootNode, DevRoot, SystemRoot, Null}
    BY <1>4
  <2>5. \A j \in DOMAIN ns[i].kids : Kid(ns, i, ns[i].kids[j])
    BY <1>18
  <2>6. PICK w, fs : w = "initrd" /\ fs = "root"
    OBVIOUS
  <2>7. i = Append(r, w) /\ w \in Words /\ HasFields(ns[i], w, r, fs)
    BY <2>1, <2>2, <2>6
  <2>8. fs \notin {"fat", "fatroot", "dev"}
    BY <2>6
  <2> QED BY <2>1, <2>3, <2>4, <2>5, <2>7, <2>8, BootChild
<1>21. InOrder(ns, vols, s)
  <2>1. s = Append(r, "system") /\ r \in Ids /\ "system" \in Words
    BY BootAppends
  <2>2. HasFields(ns[s], "system", r, "root")
    BY DEF BootTable
  <2>3. r # Null /\ ns[r].name \notin DotNames /\ InList(ns[r].kids, s)
    BY <1>5, <1>8, <1>11, <1>12, <1>13
  <2>4. s \notin {RootNode, DevRoot, SystemRoot, Null}
    BY <1>4
  <2>5. \A j \in DOMAIN ns[s].kids : Kid(ns, s, ns[s].kids[j])
    BY <1>18
  <2>6. PICK w, fs : w = "system" /\ fs = "root"
    OBVIOUS
  <2>7. s = Append(r, w) /\ w \in Words /\ HasFields(ns[s], w, r, fs)
    BY <2>1, <2>2, <2>6
  <2>8. fs \notin {"fat", "fatroot", "dev"}
    BY <2>6
  <2> QED BY <2>1, <2>3, <2>4, <2>5, <2>7, <2>8, BootChild
<1>22. InOrder(ns, vols, mi)
  <2>1. mi = Append(sr, "meminfo") /\ sr \in Ids /\ "meminfo" \in Words
    BY BootAppends
  <2>2. HasFields(ns[mi], "meminfo", sr, "system")
    BY DEF BootTable
  <2>3. sr # Null /\ ns[sr].name \notin DotNames /\ InList(ns[sr].kids, mi)
    BY <1>5, <1>8, <1>11, <1>12, <1>13
  <2>4. mi \notin {RootNode, DevRoot, SystemRoot, Null}
    BY <1>4
  <2>5. \A j \in DOMAIN ns[mi].kids : Kid(ns, mi, ns[mi].kids[j])
    BY <1>18
  <2>6. PICK w, fs : w = "meminfo" /\ fs = "system"
    OBVIOUS
  <2>7. mi = Append(sr, w) /\ w \in Words /\ HasFields(ns[mi], w, sr, fs)
    BY <2>1, <2>2, <2>6
  <2>8. fs \notin {"fat", "fatroot", "dev"}
    BY <2>6
  <2> QED BY <2>1, <2>3, <2>4, <2>5, <2>7, <2>8, BootChild
<1>23. InOrder(ns, vols, tp)
  <2>1. tp = Append(mi, "totalpages") /\ mi \in Ids /\ "totalpages" \in Words
    BY BootAppends
  <2>2. HasFields(ns[tp], "totalpages", mi, "system")
    BY DEF BootTable
  <2>3. mi # Null /\ ns[mi].name \notin DotNames /\ InList(ns[mi].kids, tp)
    BY <1>5, <1>8, <1>11, <1>12, <1>13
  <2>4. tp \notin {RootNode, DevRoot, SystemRoot, Null}
    BY <1>4
  <2>5. \A j \in DOMAIN ns[tp].kids : Kid(ns, tp, ns[tp].kids[j])
    BY <1>18
  <2>6. PICK w, fs : w = "totalpages" /\ fs = "system"
    OBVIOUS
  <2>7. tp = Append(mi, w) /\ w \in Words /\ HasFields(ns[tp], w, mi, fs)
    BY <2>1, <2>2, <2>6
  <2>8. fs \notin {"fat", "fatroot", "dev"}
    BY <2>6
  <2> QED BY <2>1, <2>3, <2>4, <2>5, <2>7, <2>8, BootChild
<1>24. InOrder(ns, vols, up)
  <2>1. up = Append(mi, "usedpages") /\ mi \in Ids /\ "usedpages" \in Words
    BY BootAppends
  <2>2. HasFields(ns[up], "usedpages", mi, "system")
    BY DEF BootTable
  <2>3. mi # Null /\ ns[mi].name \notin DotNames /\ InList(ns[mi].kids, up)
    BY <1>5, <1>8, <1>11, <1>12, <1>13
  <2>4. up \notin {RootNode, DevRoot, SystemRoot, Null}
    BY <1>4
  <2>5. \A j \in DOMAIN ns[up].kids : Kid(ns, up, ns[up].kids[j])
    BY <1>18
  <2>6. PICK w, fs : w = "usedpages" /\ fs = "system"
    OBVIOUS
  <2>7. up = Append(mi, w) /\ w \in Words /\ HasFields(ns[up], w, mi, fs)
    BY <2>1, <2>2, <2>6
  <2>8. fs \notin {"fat", "fatroot", "dev"}
    BY <2>6
  <2> QED BY <2>1, <2>3, <2>4, <2>5, <2>7, <2>8, BootChild
<1>25. InOrder(ns, vols, td)
  <2>1. td = Append(sr, "threads") /\ sr \in Ids /\ "threads" \in Words
    BY BootAppends
  <2>2. HasFields(ns[td], "threads", sr, "threads")
    BY DEF BootTable
  <2>3. sr # Null /\ ns[sr].name \notin DotNames /\ InList(ns[sr].kids, td)
    BY <1>5, <1>8, <1>11, <1>12, <1>13
  <2>4. td \notin {RootNode, DevRoot, SystemRoot, Null}
    BY <1>4
  <2>5. \A j \in DOMAIN ns[td].kids : Kid(ns, td, ns[td].kids[j])
    BY <1>18
  <2>6. PICK w, fs : w = "threads" /\ fs = "threads"
    OBVIOUS
  <2>7. td = Append(sr, w) /\ w \in Words /\ HasFields(ns[td], w, sr, fs)
    BY <2>1, <2>2, <2>6
  <2>8. fs \notin {"fat", "fatroot", "dev"}
    BY <2>6
  <2> QED BY <2>1, <2>3, <2>4, <2>5, <2>7, <2>8, BootChild
<1>26. InOrder(ns, vols, pp)
  <2>1. pp = Append(sr, "pipes") /\ sr \in Ids /\ "pipes" \in Words
    BY BootAppends
  <2>2. HasFields(ns[pp], "pipes", sr, "bare")
    BY DEF BootTable
  <2>3. sr # Null /\ ns[sr].name \notin DotNames /\ InList(ns[sr].kids, pp)
    BY <1>5, <1>8, <1>11, <1>12, <1>13
  <2>4. pp \notin {RootNode, DevRoot, SystemRoot, Null}
    BY <1>4
  <2>5. \A j \in DOMAIN ns[pp].kids : Kid(ns, pp, ns[pp].kids[j])
    BY <1>18
  <2>6. PICK w, fs : w = "pipes" /\ fs = "bare"
    OBVIOUS
  <2>7. pp = Append(sr, w) /\ w \in Words /\ HasFields(ns[pp], w, sr, fs)
    BY <2>1, <2>2, <2>6
  <2>8. fs \notin {"fat", "fatroot", "dev"}
    BY <2>6
  <2> QED BY <2>1, <2>3, <2>4, <2>5, <2>7, <2>8, BootChild
<1>27. InOrder(ns, vols, sh)
  <2>1. sh = Append(sr, "shm") /\ sr \in Ids /\ "shm" \in Words
    BY BootAppends
  <2>2. HasFields(ns[sh], "shm", sr, "bare")
    BY DEF BootTable
  <2>3. sr # Null /\ ns[sr].name \notin DotNames /\ InList(ns[sr].kids, sh)
    BY <1>5, <1>8, <1>11, <1>12, <1>13
  <2>4. sh \notin {RootNode, DevRoot, SystemRoot, Null}
    BY <1>4
  <2>5. \A j \in DOMAIN ns[sh].kids : Kid(ns, sh, ns[sh].kids[j])
    BY <1>18
  <2>6. PICK w, fs : w = "shm" /\ fs = "bare"
    OBVIOUS
  <2>7. sh = Append(sr, w) /\ w \in Words /\ HasFields(ns[sh], w, sr, fs)
    BY <2>1, <2>2, <2>6
  <2>8. fs \notin {"fat", "fatroot", "dev"}
    BY <2>6
  <2> QED BY <2>1, <2>3, <2>4, <2>5, <2>7, <2>8, BootChild
<1>28. InOrder(ns, vols, r)
  <2>1. ns[r].name = "" /\ ns[r].parent = Null /\ ns[r].fs = "root"
    BY DEF BootTable, HasFields
  <2>2. ~ IsChild(ns, r) /\ ~ IsRoot(ns, r)
    BY <1>1, <1>5, <2>1 DEF IsChild, IsRoot
  <2>3. Placed(ns, r)
    BY <1>1, <1>5, <2>1, <2>2 DEF Placed
  <2>4. Listed(ns, r) /\ FatOf(ns, vols, r) /\ KidsOf(ns, r)
    BY <1>18, <2>1, <2>2 DEF Listed, FatOf, KidsOf
  <2> QED BY <2>3, <2>4 DEF InOrder
<1>29. InOrder(ns, vols, dr)
  <2>1. /\ ns[dr].name = "dev" /\ ns[dr].parent = r /\ ns[dr].fs = "dev"
        /\ ns[d].name = "dev" /\ ns[d].parent = r
    BY DEF BootTable, HasFields
  <2>2. ~ IsChild(ns, dr) /\ IsRoot(ns, dr)
    BY <1>1, <2>1 DEF IsChild, IsRoot
  <2>3. dr = Append(d, "@dev") /\ "@dev" \in Words
    BY BootAppends
  <2>4. d \in DOMAIN ns \ ThreadIds
    BY FixedFsIs DEF IsBootIds, Fixed
  <2>5. RootOf(ns, dr)
    BY <2>1, <2>3, <2>4 DEF RootOf
  <2>6. Len(r) < Len(dr)
    <3>1. r \in Seq(Words) /\ d \in Seq(Words) /\ d = Append(r, "dev") /\ "dev" \in Words
      BY BootAppends DEF Ids
    <3> QED BY <2>3, <3>1, AppendProperties, LenProperties
  <2>7. Placed(ns, dr)
    BY <1>1, <1>5, <1>8, <2>1, <2>2, <2>5, <2>6 DEF Placed
  <2>8. Listed(ns, dr) /\ FatOf(ns, vols, dr) /\ KidsOf(ns, dr)
    BY <1>18, <2>1, <2>2 DEF Listed, FatOf, KidsOf
  <2> QED BY <2>7, <2>8 DEF InOrder
<1>30. InOrder(ns, vols, sr)
  <2>1. /\ ns[sr].name = "system" /\ ns[sr].parent = r /\ ns[sr].fs = "system"
        /\ ns[s].name = "system" /\ ns[s].parent = r
    BY DEF BootTable, HasFields
  <2>2. ~ IsChild(ns, sr) /\ IsRoot(ns, sr)
    BY <1>1, <2>1 DEF IsChild, IsRoot
  <2>3. sr = Append(s, "@system") /\ "@system" \in Words
    BY BootAppends
  <2>4. s \in DOMAIN ns \ ThreadIds
    BY FixedFsIs DEF IsBootIds, Fixed
  <2>5. RootOf(ns, sr)
    BY <2>1, <2>3, <2>4 DEF RootOf
  <2>6. Len(r) < Len(sr)
    <3>1. r \in Seq(Words) /\ s \in Seq(Words) /\ s = Append(r, "system") /\ "system" \in Words
      BY BootAppends DEF Ids
    <3> QED BY <2>3, <3>1, AppendProperties, LenProperties
  <2>7. Placed(ns, sr)
    BY <1>1, <1>5, <1>8, <2>1, <2>2, <2>5, <2>6 DEF Placed
  <2>8. Listed(ns, sr) /\ FatOf(ns, vols, sr) /\ KidsOf(ns, sr)
    BY <1>18, <2>1, <2>2 DEF Listed, FatOf, KidsOf
  <2> QED BY <2>7, <2>8 DEF InOrder
<1> QED BY <1>8, <1>9, <1>19, <1>20, <1>21, <1>22, <1>23, <1>24, <1>25, <1>26, <1>27, <1>28,
          <1>29, <1>30 DEF AllInOrder

\* A device that kmain registers is in order below the root of /dev.
LEMMA BootDeviceInOrder ==
    ASSUME NEW ns, NEW vols, NEW n \in BootDeviceIds, ns = BootNodes, ns[DevRoot].name \notin DotNames
    PROVE  /\ InOrder(ns, vols, n) /\ MountOf(ns, n) /\ DeviceOf(ns, n) /\ ns[n].fs = "device"
           /\ ns[n].name \in DOMAIN DeviceType
<1>1. PICK j \in DOMAIN BootDevices : n = Append(DevRoot, BootDevices[j])
  BY DEF BootDeviceIds
<1>2. PICK name, type : name = BootDevices[j] /\ type = DeviceType[name]
  OBVIOUS
<1>3. name \in DOMAIN DeviceType
  BY <1>2, VfsAssumption, ElementOfSeq
<1>4. name \in Words /\ (type = "CHAR" \/ type = "BLOCK")
  BY <1>2, <1>3, Constants, VfsAssumption
<1>5. PICK types, root : types = {type} /\ root = DevRoot
  OBVIOUS
<1>6. <<n, DeviceNode(name)>> \in BootPairs
  BY <1>1, <1>2 DEF BootPairs
<1>7. <<n, DeviceNode(name)>>[1] = n /\ <<n, DeviceNode(name)>>[2] = DeviceNode(name)
  OBVIOUS
<1>8. ns[n] = DeviceNode(name)
  BY <1>6, <1>7, BootNodeIs
<1>9. ns[n] = NodeOf(name, root, types, "device")
  BY <1>2, <1>5, <1>8 DEF DeviceNode
<1>10. /\ ns[n].name = name /\ ns[n].parent = root /\ ns[n].type = types /\ ns[n].kids = <<>>
       /\ ns[n].mount = Null /\ ns[n].fs = "device"
  BY <1>9 DEF NodeOf
<1>11. PICK fs : fs = "device"
  OBVIOUS
<1>12. /\ HasFields(ns[n], name, root, fs) /\ fs \notin {"fat", "fatroot", "dev"}
       /\ fs = "device" \/ InList(ns[root].kids, n)
       /\ \A i \in DOMAIN ns[n].kids : Kid(ns, n, ns[n].kids[i])
  BY <1>10, <1>11 DEF HasFields
<1>13. root \in Ids /\ root # Null
  <2>1. Len(DevRoot) = 2 /\ Len(Null) = 1
    BY FixedIds DEF Null
  <2> QED BY <1>5, <2>1, FixedIds
<1>14. n \notin {RootNode, DevRoot, SystemRoot, Null}
  <2>1. Len(n) = Len(root) + 1 /\ Len(root) = 2
    <3>1. root \in Seq(Words) /\ n = Append(root, name)
      BY <1>1, <1>2, <1>5, <1>13 DEF Ids
    <3>2. Len(DevRoot) = 2
      BY FixedIds
    <3>3. Len(Append(root, name)) = Len(root) + 1
      BY <1>4, <3>1, AppendProperties
    <3> QED BY <1>5, <3>1, <3>2, <3>3
  <2>2. Len(RootNode) = 0 /\ Len(DevRoot) = 2 /\ Len(SystemRoot) = 2 /\ Len(Null) = 1
    BY FixedIds DEF Null
  <2>3. Len(n) = 3
    BY <2>1
  <2> QED BY <2>2, <2>3
<1>15. n = Append(root, name) /\ ns[root].name \notin DotNames
  BY <1>1, <1>2, <1>5
<1>16. InOrder(ns, vols, n)
  BY <1>4, <1>11, <1>12, <1>13, <1>14, <1>15, BootChild
<1>17. MountOf(ns, n)
  <2>1. "MOUNT" \notin types
    BY <1>4, <1>5
  <2> QED BY <1>10, <2>1 DEF MountOf
<1>18. DeviceOf(ns, n)
  BY <1>2, <1>5, <1>10 DEF DeviceOf
<1> QED BY <1>3, <1>10, <1>16, <1>17, <1>18

\* The tree at boot is in order, and no volume is mounted.
LEMMA BootOrder ==
    ASSUME NEW vols, vols = [v \in DOMAIN VolumeNames |-> Null]
    PROVE  /\ Ordered(BootNodes, BootDeviceIds, vols)
           /\ RootNode \in DOMAIN BootNodes /\ BootNodes[RootNode].name \notin DotNames
<1>1. PICK ns : ns = BootNodes
  OBVIOUS
<1>2. PICK r, d, i, s, dr, sr, td, mi, tp, up, pp, sh :
         /\ r = RootNode /\ d = <<"dev">> /\ i = <<"initrd">> /\ s = <<"system">> /\ dr = DevRoot
         /\ sr = SystemRoot /\ td = ThreadsDir /\ mi = MemInfo /\ tp = MemInfo \o <<"totalpages">>
         /\ up = MemInfo \o <<"usedpages">> /\ pp = SystemRoot \o <<"pipes">>
         /\ sh = SystemRoot \o <<"shm">>
  OBVIOUS
<1>3. IsBootIds(r, d, i, s, dr, sr, mi, tp, up, td, pp, sh)
  BY <1>2 DEF IsBootIds
<1>4. Tree(ns, BootDeviceIds)
  BY <1>1, BootTree
<1>5. \A f \in Fixed : f \in DOMAIN ns
  BY <1>4 DEF Tree
<1>6. r \in DOMAIN ns /\ d \in DOMAIN ns /\ s \in DOMAIN ns /\ dr \in DOMAIN ns /\ sr \in DOMAIN ns
  BY <1>2, <1>5 DEF Fixed
<1>7. BootTable(ns, r, d, i, s, dr, sr, mi, tp, up, td, pp, sh)
  BY <1>1, <1>3, BootTableIs
<1>8. BootMounts(ns, d, s, dr, sr)
  BY <1>1, <1>3, BootTableIs
<1>9. BootTypes(ns, r, i, dr, sr, mi, tp, up, td, pp, sh)
  BY <1>1, <1>3, BootTableIs
<1>10. DOMAIN ns \subseteq {r, d, i, s, dr, sr, mi, tp, up, td, pp, sh} \cup BootDeviceIds
  BY <1>1, <1>3, BootTableIs
<1>11. \A n \in {r, d, i, s, dr, sr, mi, tp, up, td, pp, sh} :
          InOrder(ns, vols, n) /\ ns[n].name \notin DotNames /\ ns[n].fs \notin {"fat", "fatroot"}
  <2>1. AllInOrder(ns, vols, {r, d, i, s, dr, sr, mi, tp, up, td, pp, sh})
    BY <1>3, <1>6, <1>7, BootInOrder
  <2> QED BY <2>1 DEF AllInOrder
<1>12. ns[DevRoot].name \notin DotNames
  BY <1>2, <1>11
<1>13. \A n \in BootDeviceIds : /\ InOrder(ns, vols, n) /\ MountOf(ns, n) /\ DeviceOf(ns, n)
                               /\ ns[n].fs = "device"
  BY <1>1, <1>12, BootDeviceInOrder
<1>14. \A n \in DOMAIN ns : ns[n].fs = "thread" => n \in ThreadIds
  BY <1>4 DEF Tree, PlaceOf
<1>15. \A n \in {r, i, dr, sr, mi, td, pp, sh} : MountOf(ns, n)
  <2>1. \A n \in {r, i, dr, sr, mi, td, pp, sh} :
           ns[n].mount = Null /\ ns[n].type = {"DIR"} /\ ns[n].fs # "thread"
    BY <1>7, <1>9 DEF BootTypes, BootTable, HasFields
  <2> QED BY <2>1 DEF MountOf
<1>16. \A n \in {tp, up} : MountOf(ns, n)
  <2>1. \A n \in {tp, up} : ns[n].mount = Null /\ ns[n].type = {"FILE"} /\ ns[n].fs # "thread"
    BY <1>7, <1>9 DEF BootTypes, BootTable, HasFields
  <2> QED BY <2>1 DEF MountOf
<1>17. MountOf(ns, d) /\ MountOf(ns, s)
  <2>1. dr = Append(d, "@dev") /\ "@dev" \in Words /\ sr = Append(s, "@system") /\ "@system" \in Words
    BY <1>3, BootAppends
  <2>2. IsRoot(ns, dr) /\ IsRoot(ns, sr)
    BY <1>2 DEF IsRoot
  <2>3. ns[d].fs = "root" /\ ns[s].fs = "root"
    BY <1>7 DEF BootTable, HasFields
  <2>4. ns[d].mount = dr /\ ns[d].type = {"DIR", "MOUNT"} /\ ns[s].mount = sr
        /\ ns[s].type = {"DIR", "MOUNT"}
    BY <1>8 DEF BootMounts
  <2>5. MountOf(ns, d)
    BY <2>1, <2>2, <2>3, <2>4 DEF MountOf
  <2>6. MountOf(ns, s)
    BY <2>1, <2>2, <2>3, <2>4 DEF MountOf
  <2> QED BY <2>5, <2>6
<1>18. \A n \in DOMAIN ns : InOrder(ns, vols, n) /\ MountOf(ns, n)
  BY <1>10, <1>11, <1>13, <1>15, <1>16, <1>17
<1>19. \A n \in DOMAIN ns : ns[n].fs # "fatroot"
  BY <1>10, <1>11, <1>13
<1>20. DOMAIN vols = DOMAIN VolumeNames /\ \A v \in DOMAIN VolumeNames : vols[v] = Null
  OBVIOUS
<1>21. \A v \in DOMAIN VolumeNames : VolumeSane(ns, BootDeviceIds, vols, v)
  BY <1>19, <1>20 DEF VolumeSane, RootFor
<1>22. Orderly(ns, BootDeviceIds, vols)
  BY <1>13, <1>18, <1>20, <1>21 DEF Orderly, InOrder
<1> QED BY <1>1, <1>2, <1>4, <1>6, <1>11, <1>22 DEF Ordered

-----------------------------------------------------------------------------
(***************************************************************************)
(* Every step keeps the names in order.                                    *)
(***************************************************************************)

\* fs_initialize, devfs_initialize, systemfs_initialize and kmain leave the names in order.
LEMMA NamesInit ==
    ASSUME VfsInit
    PROVE  NameInv
<1>1. VfsIInv
  BY InitStep
<1>2. /\ nodes = BootNodes /\ volumes = [v \in DOMAIN VolumeNames |-> Null]
      /\ cwd = [p \in Process |-> RootNode]
  BY DEF VfsInit
<1>3. DeviceSet = BootDeviceIds
  BY BootList DEF ListOf, DeviceSet
<1>4. /\ Ordered(nodes, DeviceSet, volumes)
      /\ RootNode \in DOMAIN nodes /\ nodes[RootNode].name \notin DotNames
  BY <1>2, <1>3, BootOrder
<1>5. CwdSane
  BY <1>2, <1>4 DEF CwdSane, WorkingDir
<1> QED BY <1>1, <1>4, <1>5 DEF NameInv, Ordered

\* A step that changes the nodes only, for the names.
LEMMA NodesNameStep ==
    ASSUME NameInv, VfsIInv', Ordered(nodes', DeviceSet, volumes), Grows(nodes, nodes'),
           UNCHANGED <<devices, volumes, cwd>>
    PROVE  NameInv'
<1>1. DeviceSet' = DeviceSet
  BY DEF DeviceSet
<1>2. Orderly(nodes', DeviceSet', volumes')
  BY <1>1 DEF Ordered
<1>3. DOMAIN cwd' = Process /\ \A p \in Process : cwd'[p] = cwd[p]
  BY DEF NameInv, CwdSane
<1> QED BY <1>2, <1>3, NameStep

\* A look-up, and a stat of what it found.
LEMMA LocatedNameStep ==
    ASSUME NameInv, VfsIInv', NEW at, Located(nodes, DeviceSet, at),
           \/ nodes' = at.nodes
           \/ at.node # Null /\ nodes' = FsStat(at.nodes, at.node).nodes,
           UNCHANGED <<devices, volumes, cwd>>
    PROVE  NameInv'
<1>1. Ordered(nodes, DeviceSet, volumes)
  BY NameFacts
<1>2. Ordered(at.nodes, DeviceSet, volumes) /\ Grown(nodes, at.nodes)
  BY DEF Located
<1>3. Grows(nodes, at.nodes) /\ DOMAIN nodes \subseteq DOMAIN at.nodes
  BY <1>2 DEF Grown, Stays, SameNode
<1>4. CASE nodes' = at.nodes
  BY <1>2, <1>3, <1>4, NodesNameStep
<1>5. CASE at.node # Null /\ nodes' = FsStat(at.nodes, at.node).nodes
  <2>1. at.node \in DOMAIN at.nodes
    BY <1>5 DEF Located
  <2>2. Ordered(nodes', DeviceSet, volumes) /\ Grows(at.nodes, nodes')
    BY <1>2, <1>5, <2>1, StatOrder
  <2>3. DOMAIN nodes \cap DOMAIN nodes' \subseteq DOMAIN at.nodes
    BY <1>3
  <2>4. Grows(nodes, nodes')
    BY <1>1, <1>3, <2>2, <2>3, GrowsTransitive
  <2> QED BY <2>2, <2>4, NodesNameStep
<1> QED BY <1>4, <1>5

\* syscall_chdir
LEMMA ChdirNameStep ==
    ASSUME NameInv, NEW p \in Process, NEW path \in PathNames, Chdir(p, path)
    PROVE  NameInv'
<1>1. VfsIInv'
  BY NameFacts, ChdirStep
<1>2. Ordered(nodes, DeviceSet, volumes) /\ ListOf(devices, DeviceSet)
  BY NameFacts
<1>3. PICK at : at = Locate(p, path)
  OBVIOUS
<1>4. /\ Sound(p, path) /\ nodes' = at.nodes
      /\ cwd' = [cwd EXCEPT ![p] = IF at.node = Null THEN cwd[p] ELSE at.node]
      /\ UNCHANGED <<devices, volumes>>
  BY <1>3 DEF Chdir
<1>5. Located(nodes, DeviceSet, at)
  BY <1>2, <1>3, <1>4, LocateLocates
<1>6. Ordered(at.nodes, DeviceSet, volumes) /\ Grows(nodes, nodes')
  BY <1>4, <1>5 DEF Located, Grown
<1>7. DeviceSet' = DeviceSet
  BY <1>4 DEF DeviceSet
<1>8. Orderly(nodes', DeviceSet', volumes')
  BY <1>4, <1>6, <1>7 DEF Ordered
<1>9. DOMAIN cwd = Process
  BY NameFacts DEF CwdSane
<1>10. DOMAIN cwd' = Process
  BY <1>4, <1>9
<1>11. \A q \in Process : cwd'[q] = cwd[q] \/ WorkingDir(nodes', cwd'[q])
  BY <1>4, <1>5, <1>9 DEF Located
<1> QED BY <1>1, <1>6, <1>8, <1>10, <1>11, NameStep

\* syscall_stat
LEMMA StatNameStep ==
    ASSUME NameInv, NEW p \in Process, NEW path \in PathNames, Stat(p, path)
    PROVE  NameInv'
<1>1. VfsIInv'
  BY NameFacts, StatStep
<1>2. Ordered(nodes, DeviceSet, volumes) /\ ListOf(devices, DeviceSet)
  BY NameFacts
<1>3. PICK at : at = Locate(p, path)
  OBVIOUS
<1>4. /\ Sound(p, path) /\ UNCHANGED <<devices, volumes, cwd>>
      /\ \/ nodes' = at.nodes
         \/ at.node # Null /\ nodes' = FsStat(at.nodes, at.node).nodes
  BY <1>3 DEF Stat
<1>5. Located(nodes, DeviceSet, at)
  BY <1>2, <1>3, <1>4, LocateLocates
<1> QED BY <1>1, <1>4, <1>5, LocatedNameStep

\* syscall_fstat, and syscall_statx with an empty path
LEMMA FstatNameStep ==
    ASSUME NameInv, NEW p \in Process, NEW i \in Descriptors, Fstat(p, i)
    PROVE  NameInv'
<1>1. VfsIInv'
  BY NameFacts, FstatStep
<1>2. Ordered(nodes, DeviceSet, volumes)
  BY NameFacts
<1>3. PICK n : n = files[fd[p][i]].node
  OBVIOUS
<1>4. n \in DOMAIN nodes /\ nodes' = FsStat(nodes, n).nodes /\ UNCHANGED <<devices, volumes, cwd>>
  BY <1>3 DEF Fstat
<1>5. Ordered(nodes', DeviceSet, volumes) /\ Grows(nodes, nodes')
  BY <1>2, <1>4, StatOrder
<1> QED BY <1>1, <1>4, <1>5, NodesNameStep

\* syscall_statx with a path relative to an open directory
LEMMA StatAtNameStep ==
    ASSUME NameInv, NEW p \in Process, NEW i \in Descriptors, NEW path \in PathNames,
           StatAt(p, i, path)
    PROVE  NameInv'
<1>1. VfsIInv'
  BY NameFacts, StatAtStep
<1>2. Ordered(nodes, DeviceSet, volumes) /\ ListOf(devices, DeviceSet)
  BY NameFacts
<1>3. PICK n, at : n = files[fd[p][i]].node /\ at = GetRelative(nodes, n, path.names)
  OBVIOUS
<1>4. /\ n \in DOMAIN nodes /\ UNCHANGED <<devices, volumes, cwd>>
      /\ \/ nodes' = at.nodes
         \/ at.node # Null /\ nodes' = FsStat(at.nodes, at.node).nodes
  BY <1>3 DEF StatAt
<1>5. path.names \in Seq(Plain)
  BY PathPlain
<1>6. Located(nodes, DeviceSet, at)
  BY <1>2, <1>3, <1>4, <1>5, RelativeLocates
<1> QED BY <1>1, <1>4, <1>6, LocatedNameStep

\* syscall_unmount
LEMMA UnmountNameStep ==
    ASSUME NameInv, NEW p \in Process, NEW path \in PathNames, Unmount(p, path)
    PROVE  NameInv'
<1>1. VfsIInv'
  BY NameFacts, UnmountStep
<1>2. Ordered(nodes, DeviceSet, volumes) /\ ListOf(devices, DeviceSet)
  BY NameFacts
<1>3. PICK at : at = GetNode(nodes, path.names)
  OBVIOUS
<1>4. path.names \in Seq(Plain)
  BY PathPlain
<1>5. Located(nodes, DeviceSet, at)
  BY <1>2, <1>3, <1>4, GetNodeLocates
<1>6. at.node # Null => at.nodes[at.node].type # {"MOUNT"}
  <2> SUFFICES ASSUME at.node # Null, at.nodes[at.node].type = {"MOUNT"} PROVE FALSE
    OBVIOUS
  <2>1. MountOf(at.nodes, at.node)
    BY <1>5 DEF Located, Ordered, Orderly
  <2>2. "DIR" \in {"MOUNT"}
    BY <2>1 DEF MountOf
  <2> QED BY <2>2
<1>7. nodes' = at.nodes /\ UNCHANGED <<devices, volumes, cwd>>
  BY <1>3, <1>6 DEF Unmount
<1> QED BY <1>1, <1>5, <1>7, LocatedNameStep

\* syscall_mkdir
LEMMA MkdirNameStep ==
    ASSUME NameInv, NEW p \in Process, NEW path \in PathNames, Mkdir(p, path)
    PROVE  NameInv'
<1>1. VfsIInv'
  BY NameFacts, MkdirStep
<1>2. Ordered(nodes, DeviceSet, volumes) /\ ListOf(devices, DeviceSet)
  BY NameFacts
<1>3. PICK all : all = path.names
  OBVIOUS
<1>4. all \in Seq(Plain) /\ all # <<>>
  BY <1>3, PathPlain DEF Mkdir
<1>5. PICK k \in Nat : k = Len(all)
  BY <1>4, LenProperties
<1>6. k >= 1
  <2>1. k # 0
    BY <1>4, <1>5, EmptySeq
  <2> QED BY <2>1
<1>7. \A i \in 1 .. k : all[i] \in Plain
  BY <1>4, <1>5, ElementOfSeq
<1>8. PICK name, up : name = all[k] /\ up = SubSeq(all, 1, k - 1)
  OBVIOUS
<1>9. name \in Plain
  BY <1>6, <1>7, <1>8
<1>10. up \in Seq(Plain)
  BY <1>7, <1>8, SubSeqProperties
<1>11. PICK at : at = GetNode(nodes, up)
  OBVIOUS
<1>12. Located(nodes, DeviceSet, at)
  BY <1>2, <1>10, <1>11, GetNodeLocates
<1>13. /\ nodes' = IF at.node # Null THEN FsMkdir(at.nodes, at.node, name) ELSE at.nodes
       /\ UNCHANGED <<devices, volumes, cwd>>
  BY <1>3, <1>5, <1>8, <1>11 DEF Mkdir
<1>14. CASE at.node = Null
  BY <1>1, <1>12, <1>13, <1>14, LocatedNameStep
<1>15. CASE at.node # Null
  <2>1. /\ Ordered(at.nodes, DeviceSet, volumes) /\ Grown(nodes, at.nodes)
        /\ at.node \in DOMAIN at.nodes /\ at.nodes[at.node].name \notin DotNames
    BY <1>12, <1>15 DEF Located, WorkingDir
  <2>2. PICK ns2 : ns2 = FsMkdir(at.nodes, at.node, name)
    OBVIOUS
  <2>3. Ordered(ns2, DeviceSet, volumes) /\ Grown(at.nodes, ns2)
    BY <1>2, <1>9, <2>1, <2>2, MkdirOrder
  <2>4. Grown(nodes, ns2)
    BY <1>2, <2>1, <2>3, GrownTransitive
  <2>5. Ordered(nodes', DeviceSet, volumes) /\ Grows(nodes, nodes')
    BY <1>13, <1>15, <2>2, <2>3, <2>4 DEF Grown
  <2> QED BY <1>1, <1>13, <2>5, NodesNameStep
<1> QED BY <1>14, <1>15

\* syscall_mount, whichever of its tests fails.
LEMMA MountNameStep ==
    ASSUME NameInv, NEW p \in Process, NEW type, NEW from \in PathNames, NEW to \in PathNames,
           Mount(p, type, from, to)
    PROVE  NameInv'
<1>1. VfsIInv'
  BY NameFacts, MountStep
<1>2. Ordered(nodes, DeviceSet, volumes) /\ ListOf(devices, DeviceSet)
  BY NameFacts
<1>3. PICK a, b : a = from.names /\ b = to.names
  OBVIOUS
<1>4. a \in Seq(Plain) /\ b \in Seq(Plain)
  BY <1>3, PathPlain
<1>5. PICK source : source = GetNode(nodes, a)
  OBVIOUS
<1>6. PICK target : target = GetNode(source.nodes, b)
  OBVIOUS
<1>7. Located(nodes, DeviceSet, source)
  BY <1>2, <1>4, <1>5, GetNodeLocates
<1>8. Ordered(source.nodes, DeviceSet, volumes) /\ Grown(nodes, source.nodes)
  BY <1>7 DEF Located
<1>9. Located(source.nodes, DeviceSet, target)
  BY <1>2, <1>4, <1>6, <1>8, GetNodeLocates
<1>10. Ordered(target.nodes, DeviceSet, volumes) /\ Grown(source.nodes, target.nodes)
  BY <1>9 DEF Located
<1>11. Grown(nodes, target.nodes)
  BY <1>2, <1>8, <1>10, GrownTransitive
<1>12. PICK mounted : mounted = FatMount(source.node, target.node, target.nodes)
  OBVIOUS
<1>13. /\ UNCHANGED <<devices, cwd>>
       /\ \/ volumes' = volumes
              /\ (nodes' = nodes \/ nodes' = source.nodes \/ nodes' = target.nodes)
          \/ /\ volumes' = mounted.volumes /\ nodes' = mounted.nodes
             /\ CheckMount(source, target) /\ FreeVolumes # {}
  BY <1>3, <1>5, <1>6, <1>12 DEF Mount, FsMount
<1>14. CASE volumes' = volumes
              /\ (nodes' = nodes \/ nodes' = source.nodes \/ nodes' = target.nodes)
  <2>1. Ordered(nodes', DeviceSet, volumes) /\ Grown(nodes, nodes')
    BY <1>2, <1>8, <1>10, <1>11, <1>14, GrownSelf
  <2>2. Grows(nodes, nodes')
    BY <2>1 DEF Grown
  <2> QED BY <1>1, <1>13, <1>14, <2>1, <2>2, NodesNameStep
<1>15. CASE /\ volumes' = mounted.volumes /\ nodes' = mounted.nodes
            /\ CheckMount(source, target) /\ FreeVolumes # {}
  <2>1. PICK ns, n, s : ns = target.nodes /\ n = target.node /\ s = source.node
    OBVIOUS
  <2>2. /\ Ordered(ns, DeviceSet, volumes) /\ Grown(nodes, ns)
        /\ n \in DOMAIN ns /\ ns[n].type = {"DIR"}
    BY <1>9, <1>10, <1>11, <1>15, <2>1 DEF CheckMount, Located
  <2>3. s \in DOMAIN ns /\ ns[s].type = {"BLOCK"}
    BY <1>7, <1>10, <1>15, <2>1 DEF CheckMount, Located, Grown, Stays, SameNode
  <2>4. PICK v \in DOMAIN VolumeNames : volumes[v] = Null /\ Mounts(ns, s, n, v, mounted)
    BY <1>12, <1>15, <2>1, <2>2, FatMountMakes
  <2>5. PICK ns2, vols2, root : /\ ns2 = mounted.nodes /\ vols2 = mounted.volumes
                                /\ root = Append(n, VolumeNames[v])
    OBVIOUS
  <2>6. Grows(nodes, ns)
    BY <2>2 DEF Grown
  <2>7. Ordered(ns2, DeviceSet, vols2) /\ Grows(nodes, ns2)
    <3>1. CASE ns2 = ns /\ vols2 = volumes
      BY <2>2, <2>6, <3>1
    <3>2. CASE IsMounted(ns, n, root, ns2) /\ vols2 = [volumes EXCEPT ![v] = s]
      <4>1. Tree(ns, DeviceSet)
        BY <2>2 DEF Ordered
      <4>2. Tree(ns2, DeviceSet)
        BY <1>12, <1>15, <2>1, <2>2, <2>5, <4>1, FatMountChanges
      <4>3. Ordered(ns2, DeviceSet, vols2) /\ Grows(ns, ns2)
        <5>1. Ordered(ns, DeviceSet, volumes) /\ n \in DOMAIN ns /\ ns[n].type = {"DIR"}
          BY <2>2
        <5>2. /\ s \in DOMAIN ns /\ ns[s].type = {"BLOCK"}
              /\ v \in DOMAIN VolumeNames /\ volumes[v] = Null
          BY <2>3, <2>4
        <5>3. root = Append(n, VolumeNames[v]) /\ IsMounted(ns, n, root, ns2) /\ Tree(ns2, DeviceSet)
          BY <2>5, <3>2, <4>2
        <5>4. vols2 = [volumes EXCEPT ![v] = s]
          BY <3>2
        <5> QED BY ONLY <5>1, <5>2, <5>3, <5>4, MountedOrder
      <4>4. DOMAIN nodes \subseteq DOMAIN ns
        BY <2>2 DEF Grown, Stays, SameNode
      <4>5. Grows(nodes, ns2)
        BY <1>2, <2>6, <4>3, <4>4, GrowsTransitive
      <4> QED BY <4>3, <4>5
    <3> QED BY <2>4, <2>5, <3>1, <3>2 DEF Mounts
  <2>8. DeviceSet' = DeviceSet
    BY <1>13 DEF DeviceSet
  <2>9. Orderly(nodes', DeviceSet', volumes') /\ Grows(nodes, nodes')
    BY <1>15, <2>5, <2>7, <2>8 DEF Ordered
  <2>10. DOMAIN cwd' = Process /\ \A q \in Process : cwd'[q] = cwd[q]
    BY <1>13, NameFacts DEF CwdSane
  <2> QED BY <1>1, <2>9, <2>10, NameStep
<1> QED BY <1>13, <1>14, <1>15

\* devfs_register_device
LEMMA RegisterDeviceNameStep ==
    ASSUME NameInv, NEW name \in DOMAIN DeviceType, RegisterDevice(name)
    PROVE  NameInv'
<1>1. VfsIInv'
  BY NameFacts, RegisterDeviceStep
<1>2. Ordered(nodes, DeviceSet, volumes) /\ ListOf(devices, DeviceSet)
  BY NameFacts
<1>3. PICK id : id = Append(DevRoot, name)
  OBVIOUS
<1>4. PICK dv, ns2, dv2, list : /\ dv = DeviceSet /\ ns2 = Put(nodes, id, DeviceNode(name))
                                /\ dv2 = dv \cup {id} /\ list = Append(devices, id)
  OBVIOUS
<1>5. /\ Named(nodes, devices, name) = Null
      /\ nodes' = ns2 /\ devices' = list /\ UNCHANGED <<volumes, cwd>>
  BY <1>3, <1>4 DEF RegisterDevice
<1>6. Tree(nodes, dv) /\ ListOf(devices, dv)
  BY <1>2, <1>4 DEF Ordered
<1>7. ListOf(list, dv2)
  BY <1>3, <1>4, <1>5, <1>6, DeviceAdded
<1>8. DeviceSet' = dv2
  BY <1>5, <1>7 DEF DeviceSet, ListOf
<1>9. Ordered(ns2, dv2, volumes) /\ Grows(nodes, ns2)
  BY <1>2, <1>3, <1>4, <1>5, DeviceOrder
<1>10. Orderly(nodes', DeviceSet', volumes') /\ Grows(nodes, nodes')
  BY <1>5, <1>8, <1>9 DEF Ordered
<1>11. DOMAIN cwd' = Process /\ \A q \in Process : cwd'[q] = cwd[q]
  BY <1>5, NameFacts DEF CwdSane
<1> QED BY <1>1, <1>10, <1>11, NameStep

\* syscall_close
LEMMA CloseFdNameStep ==
    ASSUME NameInv, NEW p \in Process, NEW i \in Descriptors, CloseFd(p, i)
    PROVE  NameInv'
<1>1. VfsIInv' /\ VfsIInv
  BY NameFacts, CloseFdStep
<1>2. Ordered(nodes, DeviceSet, volumes)
  BY NameFacts
<1>3. PICK f, st, dv, running : /\ f = fd[p][i] /\ st = St /\ dv = DeviceSet /\ running = Running
  OBVIOUS
<1>4. Match(nodes, files, fd, drivers, dv, running)
  BY <1>1, <1>3 DEF VfsIInv
<1>5. f \in DOMAIN files
  BY <1>3, <1>4 DEF Match, SlotsMatch, CloseFd
<1>6. st = StateOf(nodes, files, fd, drivers)
  BY <1>3 DEF St, StateOf
<1>7. FsClose(st, f) = StateOf(nodes, Without(files, f), Emptied(fd, files[f].process, files[f].fd),
                               Less(drivers, dv, files[f].node))
  BY <1>4, <1>5, <1>6, FsCloseFields
<1>8. PICK st2 : st2 = FsClose(st, f)
  OBVIOUS
<1>9. st2.nodes = nodes
  BY <1>7, <1>8 DEF StateOf
<1>10. nodes' = nodes /\ UNCHANGED <<devices, volumes, cwd>>
  BY <1>3, <1>8, <1>9 DEF CloseFd, Becomes
<1>11. Grows(nodes, nodes')
  BY <1>10, GrownSelf DEF Grown
<1> QED BY <1>1, <1>2, <1>10, <1>11, NodesNameStep

\* syscall_open
LEMMA OpenNameStep ==
    ASSUME NameInv, NEW p \in Process, NEW path \in PathNames, NEW flags, Open(p, path, flags)
    PROVE  NameInv'
<1>1. VfsIInv' /\ VfsIInv
  BY NameFacts, OpenStep
<1>2. Ordered(nodes, DeviceSet, volumes) /\ live \in Seq(Process)
  BY <1>1, NameFacts DEF VfsIInv
<1>3. PICK at : at = Locate(p, path)
  OBVIOUS
<1>4. Located(nodes, DeviceSet, at)
  BY <1>2, <1>3, NameFacts, LocateLocates DEF Open
<1>5. /\ Ordered(at.nodes, DeviceSet, volumes) /\ Grown(nodes, at.nodes)
      /\ Grows(nodes, at.nodes)
  <2>1. Ordered(at.nodes, DeviceSet, volumes) /\ Grown(nodes, at.nodes)
    BY <1>4 DEF Located
  <2> QED BY <2>1 DEF Grown
<1>6. PICK st : st = StateOf(at.nodes, files, fd, drivers)
  OBVIOUS
<1>7. /\ Becomes(IF at.node = Null THEN st ELSE FsOpen(st, p, at.node, flags))
      /\ UNCHANGED <<devices, volumes, cwd>> /\ Runs(p)
  <2>1. [St EXCEPT !.nodes = at.nodes] = st
    BY <1>6 DEF St, StateOf
  <2> QED BY <1>3, <2>1 DEF Open
<1>8. CASE at.node = Null
  <2>1. nodes' = at.nodes
    BY <1>6, <1>7, <1>8 DEF Becomes, StateOf
  <2> QED BY <1>1, <1>5, <1>7, <2>1, NodesNameStep
<1>9. CASE at.node # Null
  <2>1. PICK n, st2 : n = Crossed(at.nodes, at.node) /\ st2 = FsOpen(st, p, at.node, flags)
    OBVIOUS
  <2>2. OpenLeaves(at.nodes, files, fd, DeviceSet, Running, p, n, st2)
    <3>1. p \in Running \cap Process /\ Cardinality(DOMAIN files) <= FileLimit
      BY <1>1, <1>7, IInvFacts DEF VfsIInv
    <3>2. Match(nodes, files, fd, drivers, DeviceSet, Running)
      BY <1>1 DEF VfsIInv
    <3>3. Match(at.nodes, files, fd, drivers, DeviceSet, Running)
      <4>1. Found(nodes, DeviceSet, at)
        BY <1>1, <1>3, <1>7, IInvFacts, LocateFinds DEF Open
      <4> QED BY <3>2, <4>1, TreeChanged DEF Found
    <3>4. at.node \in DOMAIN at.nodes
      BY <1>4, <1>9 DEF Located
    <3> QED BY <1>2, <1>6, <2>1, <3>1, <3>3, <3>4, FsOpenMatches
  <2>3. PICK ns2, fl2, slots2, dr2 :
        st2 = StateOf(ns2, fl2, slots2, dr2) /\ OpenedNodes(at.nodes, n, ns2)
    BY <2>2 DEF OpenLeaves
  <2>4. nodes' = ns2
    BY <1>7, <1>9, <2>1, <2>3 DEF Becomes, StateOf
  <2>5. ns2 = at.nodes \/ ns2 = FillThreads(at.nodes)
    BY <2>3 DEF OpenedNodes
  <2>6. CASE ns2 = at.nodes
    BY <1>1, <1>5, <1>7, <2>4, <2>6, NodesNameStep
  <2>7. CASE ns2 = FillThreads(at.nodes)
    <3>1. Ordered(ns2, DeviceSet, volumes) /\ Grows(at.nodes, ns2)
      BY <1>2, <1>5, <2>7, ThreadsOrder
    <3>2. DOMAIN nodes \subseteq DOMAIN at.nodes
      BY <1>5 DEF Grown, Stays, SameNode
    <3>3. Grows(nodes, ns2)
      BY <1>2, <1>5, <3>1, <3>2, GrowsTransitive
    <3> QED BY <1>1, <1>7, <2>4, <3>1, <3>3, NodesNameStep
  <2> QED BY <2>5, <2>6, <2>7
<1> QED BY <1>8, <1>9

\* process_create_ex, whose process begins where its parent is.
LEMMA SpawnNameStep ==
    ASSUME NameInv, NEW p \in Process, NEW q \in Process, NEW k \in DOMAIN devices,
           nodes[devices[k]].type = {"CHAR"}, Spawn(p, q, devices[k])
    PROVE  NameInv'
<1>1. VfsIInv' /\ nodes' = nodes
  BY NameFacts, SpawnStep
<1>2. UNCHANGED <<devices, volumes>> /\ cwd' = [cwd EXCEPT ![q] = cwd[p]]
  BY Zenon DEF Spawn
<1>3. Ordered(nodes, DeviceSet, volumes) /\ CwdSane
  BY NameFacts
<1>4. DOMAIN cwd = Process /\ WorkingDir(nodes, cwd[p])
  BY <1>3 DEF CwdSane
<1>5. DeviceSet' = DeviceSet
  BY <1>2 DEF DeviceSet
<1>6. Orderly(nodes', DeviceSet', volumes') /\ Grows(nodes, nodes')
  BY <1>1, <1>2, <1>3, <1>5, GrownSelf DEF Ordered, Grown
<1>7. DOMAIN cwd' = Process /\ \A r \in Process : cwd'[r] = cwd[r] \/ WorkingDir(nodes', cwd'[r])
  BY <1>1, <1>2, <1>4
<1> QED BY <1>1, <1>6, <1>7, NameStep

\* process_destroy: the node that its process was at is the root again.
LEMMA DestroyNameStep ==
    ASSUME NameInv, NEW p \in Process, Destroy(p)
    PROVE  NameInv'
<1>1. VfsIInv' /\ nodes' = nodes
  BY NameFacts, DestroyStep
<1>2. UNCHANGED <<devices, volumes>> /\ cwd' = [cwd EXCEPT ![p] = RootNode]
  BY Zenon DEF Destroy
<1>3. Ordered(nodes, DeviceSet, volumes) /\ CwdSane
  BY NameFacts
<1>4. RootNode \in DOMAIN nodes
  BY <1>3 DEF Ordered, Tree, Fixed
<1>5. nodes[RootNode].name = ""
  <2>1. Placed(nodes, RootNode)
    BY <1>3, <1>4 DEF Ordered, Orderly
  <2> QED BY <2>1 DEF Placed
<1>6. WorkingDir(nodes, RootNode)
  <2>1. "" \in BootNames
    BY DEF BootNames
  <2>2. nodes[RootNode].name \notin DotNames
    BY <1>5, <2>1, BootNamesShown
  <2> QED BY <1>4, <2>2 DEF WorkingDir
<1>7. DOMAIN cwd = Process
  BY <1>3 DEF CwdSane
<1>8. DeviceSet' = DeviceSet
  BY <1>2 DEF DeviceSet
<1>9. Orderly(nodes', DeviceSet', volumes') /\ Grows(nodes, nodes')
  BY <1>1, <1>2, <1>3, <1>8, GrownSelf DEF Ordered, Grown
<1>10. DOMAIN cwd' = Process /\ \A r \in Process : cwd'[r] = cwd[r] \/ WorkingDir(nodes', cwd'[r])
  BY <1>1, <1>2, <1>6, <1>7
<1> QED BY <1>1, <1>9, <1>10, NameStep

\* Every call keeps the names in order.
LEMMA NextNameStep ==
    ASSUME NameInv, VfsNext
    PROVE  NameInv'
<1>1. PathsGiven
  BY GivenPaths
<1>2. ASSUME NEW p \in Process, NEW path \in CallPaths[p].open, NEW flags \in {"r", "w"},
             Open(p, path, flags)
      PROVE  NameInv'
  BY <1>1, <1>2, OpenNameStep DEF PathsGiven
<1>3. ASSUME NEW p \in Process, NEW path \in CallPaths[p].chdir, Chdir(p, path)
      PROVE  NameInv'
  BY <1>1, <1>3, ChdirNameStep DEF PathsGiven
<1>4. ASSUME NEW p \in Process, NEW path \in CallPaths[p].stat, Stat(p, path)
      PROVE  NameInv'
  BY <1>1, <1>4, StatNameStep DEF PathsGiven
<1>5. ASSUME NEW p \in Process, NEW i \in Descriptors, NEW path \in CallPaths[p].stat,
             StatAt(p, i, path)
      PROVE  NameInv'
  BY <1>1, <1>5, StatAtNameStep DEF PathsGiven
<1>6. ASSUME NEW p \in Process, NEW path \in MkdirPaths, Mkdir(p, path)
      PROVE  NameInv'
  BY <1>1, <1>6, MkdirNameStep DEF PathsGiven
<1>7. ASSUME NEW p \in Process, NEW pair \in MountPairs, NEW type \in Registered \cup {"ext2"},
             Mount(p, type, pair[1], pair[2])
      PROVE  NameInv'
  BY <1>1, <1>7, MountNameStep DEF PathsGiven
<1>8. ASSUME NEW p \in Process, NEW pair \in MountPairs, Unmount(p, pair[2])
      PROVE  NameInv'
  BY <1>1, <1>8, UnmountNameStep DEF PathsGiven
<1>9. ASSUME NEW p \in Process, NEW i \in Descriptors, CloseFd(p, i)
      PROVE  NameInv'
  BY <1>9, CloseFdNameStep
<1>10. ASSUME NEW p \in Process, NEW i \in Descriptors, Fstat(p, i)
      PROVE  NameInv'
  BY <1>10, FstatNameStep
<1>11. ASSUME NEW name \in DOMAIN DeviceType, RegisterDevice(name)
      PROVE  NameInv'
  BY <1>11, RegisterDeviceNameStep
<1>12. ASSUME NEW p \in Process, NEW q \in Process, NEW i \in DOMAIN devices,
              nodes[devices[i]].type = {"CHAR"}, Spawn(p, q, devices[i])
      PROVE  NameInv'
  BY <1>12, SpawnNameStep
<1>13. ASSUME NEW p \in Process, Destroy(p)
      PROVE  NameInv'
  BY <1>13, DestroyNameStep
<1> QED BY <1>2, <1>3, <1>4, <1>5, <1>6, <1>7, <1>8, <1>9, <1>10, <1>11, <1>12, <1>13 DEF VfsNext

\* Nothing changes.
LEMMA StutterNameStep ==
    ASSUME NameInv, UNCHANGED vfsVars
    PROVE  NameInv'
<1>1. VfsIInv'
  BY NameFacts, StutterStep
<1>2. nodes' = nodes /\ UNCHANGED <<devices, volumes, cwd>>
  BY DEF vfsVars
<1>3. Ordered(nodes', DeviceSet, volumes) /\ Grows(nodes, nodes')
  BY <1>2, NameFacts, GrownSelf DEF Grown
<1> QED BY <1>1, <1>2, <1>3, NodesNameStep

\* What a look-up finds has the names that led to it, getcwd gives the path of the working
\* directory, a listed entry of a directory is found again under its name, and the roots of
\* volumes hang where their disks are mounted: fs_get_node, fs_get_node_relative_to,
\* fs_get_node_path, fs_readdir, fat_mount and fat_umount, for every tree, process and volume.
THEOREM NamesReach == VfsSpec => []NamesReachNodes
<1>1. VfsInit => NameInv
  BY NamesInit
<1>2. NameInv /\ [VfsNext]_vfsVars => NameInv'
  BY NextNameStep, StutterNameStep
<1>3. NameInv => NamesReachNodes
  BY NameFacts, LookupsNamed, RootsMounted DEF NamesReachNodes
<1> QED BY <1>1, <1>2, <1>3, PTL DEF VfsSpec
=============================================================================
