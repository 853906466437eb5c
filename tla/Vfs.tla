-------------------------------- MODULE Vfs --------------------------------
(***************************************************************************)
(* The virtual file system: fs.c with its file systems rootfs.c, devfs.c,  *)
(* systemfs.c and fatfilesystem.c (what FatFs finds on a device is         *)
(* external), the descriptors of process.c and the system calls on paths   *)
(* and descriptors.                                                        *)
(*                                                                         *)
(* A name is a string and a path a record [abs, names]; Resolve does what  *)
(* the code does to the characters.  A node is known by where it was made, *)
(* a sequence of names in which "@x" stands for the crossing to the root x *)
(* of a mounted file system; what the code follows is only the fields of   *)
(* the node: name, parent, node_type, children, mount_point.  One call     *)
(* runs to its end before the next begins: system calls enter with         *)
(* interrupts disabled and none of these enables them.                     *)
(***************************************************************************)
EXTENDS Integers, Sequences, FiniteSets, Functions

CONSTANTS
    Process,        \* the processes, by the names of their threads
    FirstProcess,   \* the process that exists at first
    MaxFiles,       \* ASTERISK_MAX_OPENED_FILES
    PathLimit,      \* names that fit in the 128 bytes of target_path
    VolumeNames,    \* the FF_VOLUMES volumes, a sequence of strings "@..."
    Images,         \* by block device: [formatted, tree], tree from paths
                    \* to "dir", "file" or "readonly"
    DeviceType,     \* by device name: "CHAR" or "BLOCK"
    BootDevices,    \* the names that kmain registers, in order
    Dotted,         \* names that begin with one dot
    DoubleDotted,   \* names that begin with two dots
    CallPaths,      \* by process: the paths that it uses to open, chdir and stat
    MkdirPaths,     \* the paths that they make directories at
    MountPairs,     \* the pairs of paths that they mount
    FileLimit,      \* bound: files open at a time
    ListRoom        \* bound: entries that fit in the buffer of getdents

\* Names that the nodes have which are made at boot.
BootNames == {"", "dev", "initrd", "system", "meminfo", "totalpages", "usedpages", "threads",
              "pipes", "shm"}

\* The names that a program or a disk may give: the names of volumes and the marks of
\* this model stand for nothing else.
Marks == {"@dev", "@system", "@null", "@long"}
GivenNames == STRING \ (Marks \cup Range(VolumeNames))
PathNames == [abs : BOOLEAN, names : Seq(GivenNames)]

ASSUME VfsAssumption ==
    /\ FirstProcess \in Process /\ Process \subseteq STRING
    /\ MaxFiles \in Nat \ {0} /\ PathLimit \in Nat \ {0} /\ FileLimit \in Nat
    /\ VolumeNames \in Seq(STRING) /\ IsInjective(VolumeNames)
    /\ Range(VolumeNames) \cap (Marks \cup BootNames \cup Process \cup DOMAIN DeviceType
                                  \cup Dotted \cup DoubleDotted) = {}
    /\ DOMAIN DeviceType \subseteq STRING /\ (Process \cup DOMAIN DeviceType) \cap Marks = {}
    /\ \A d \in DOMAIN DeviceType : DeviceType[d] \in {"CHAR", "BLOCK"}
    /\ DOMAIN Images = {d \in DOMAIN DeviceType : DeviceType[d] = "BLOCK"}
    /\ \A d \in DOMAIN Images :
          /\ IsFiniteSet(DOMAIN Images[d].tree) /\ DOMAIN Images[d].tree \subseteq Seq(GivenNames)
          /\ Range(Images[d].tree) \subseteq {"dir", "file", "readonly"}
    /\ BootDevices \in Seq(DOMAIN DeviceType) /\ IsInjective(BootDevices)
    /\ CallPaths \in [Process -> [{"open", "chdir", "stat"} -> SUBSET PathNames]]
    /\ MkdirPaths \subseteq PathNames /\ MountPairs \subseteq PathNames \X PathNames
    /\ "." \in Dotted /\ Dotted \cap DoubleDotted = {} /\ ListRoom \in Nat
    /\ (Dotted \cup DoubleDotted) \cap (BootNames \cup Process) = {}

VARIABLES
    nodes,      \* filesystem_node by node
    devices,    \* g_device_list: nodes
    volumes,    \* g_mounted_block_devices: a node or Null by volume
    live,       \* the processes there are, in the order of the thread list
    cwd,        \* working_directory
    files,      \* File by number: node, process, fd, and fil: private_data is set
    fd,         \* fd by process and descriptor: a file or 0
    drivers     \* by device: calls of its open less calls of its close

vfsVars == <<nodes, devices, volumes, live, cwd, files, fd, drivers>>

Null == <<"@null">>
TooLong == <<"@long">>
RootNode == <<>>
DevRoot == <<"dev", "@dev">>
SystemRoot == <<"system", "@system">>
ThreadsDir == SystemRoot \o <<"threads">>
Descriptors == 0 .. MaxFiles - 1

\* A new node.
NodeOf(name, parent, type, fs) ==
    [name |-> name, parent |-> parent, type |-> type, kids |-> <<>>, mount |-> Null, fs |-> fs]

Put(f, x, y) == [z \in DOMAIN f \cup {x} |-> IF z = x THEN y ELSE f[z]]

\* list append of a child: first_child or the last next_sibling.
AddChild(ns, n, id, node) ==
    [Put(ns, id, node) EXCEPT ![n].kids = Append(@, id)]

-----------------------------------------------------------------------------
\* fs_initialize, devfs_initialize, systemfs_initialize, create_nodes

SystemNode(name, type, fs) == NodeOf(name, SystemRoot, type, fs)

\* The nodes of /system, of which pipe.c and sharedmemory.c mount the last two.
SystemNodes ==
    LET meminfo == SystemRoot \o <<"meminfo">> IN
    {<<SystemRoot, [NodeOf("system", RootNode, {"DIR"}, "system") EXCEPT !.kids =
          <<meminfo, ThreadsDir, SystemRoot \o <<"pipes">>, SystemRoot \o <<"shm">>>>]>>,
     <<meminfo, [SystemNode("meminfo", {"DIR"}, "system") EXCEPT !.kids =
          <<meminfo \o <<"totalpages">>, meminfo \o <<"usedpages">>>>]>>,
     <<meminfo \o <<"totalpages">>, NodeOf("totalpages", meminfo, {"FILE"}, "system")>>,
     <<meminfo \o <<"usedpages">>, NodeOf("usedpages", meminfo, {"FILE"}, "system")>>,
     <<ThreadsDir, SystemNode("threads", {"DIR"}, "threads")>>,
     <<SystemRoot \o <<"pipes">>, SystemNode("pipes", {"DIR"}, "bare")>>,
     <<SystemRoot \o <<"shm">>, SystemNode("shm", {"DIR"}, "bare")>>}

\* devfs_register_device: the new node.
DeviceNode(name) == NodeOf(name, DevRoot, {DeviceType[name]}, "device")

RootNodes ==
    {<<RootNode, [NodeOf("", Null, {"DIR"}, "root") EXCEPT !.kids =
          <<<<"dev">>, <<"initrd">>, <<"system">>>>]>>,
     <<<<"dev">>, [NodeOf("dev", RootNode, {"DIR", "MOUNT"}, "root") EXCEPT !.mount = DevRoot]>>,
     <<<<"initrd">>, NodeOf("initrd", RootNode, {"DIR"}, "root")>>,
     <<<<"system">>, [NodeOf("system", RootNode, {"DIR", "MOUNT"}, "root") EXCEPT
          !.mount = SystemRoot]>>,
     <<DevRoot, NodeOf("dev", RootNode, {"DIR"}, "dev")>>}

BootNodes ==
    LET boot == {BootDevices[i] : i \in DOMAIN BootDevices}
        pairs == RootNodes \cup SystemNodes
                     \cup {<<Append(DevRoot, d), DeviceNode(d)>> : d \in boot}
    IN
    [id \in {q[1] : q \in pairs} |-> (CHOOSE q \in pairs : q[1] = id)[2]]

-----------------------------------------------------------------------------
\* Paths

\* fs_resolve_path: a token that begins with ".." takes away the last name,
\* one that begins with "." is passed over.
ResolveName(before, name) ==
    CASE name \in DoubleDotted -> SubSeq(before, 1, Len(before) - 1)
      [] name \in Dotted -> before
      [] OTHER -> Append(before, name)

Resolve(names) ==
    LET Upto[i \in 0 .. Len(names)] ==
            IF i = 0 THEN <<>> ELSE ResolveName(Upto[i - 1], names[i])
    IN  Upto[Len(names)]

\* The node of Top above node n and the names below it, put together from the last one up.
Climb(ns, Top, below) ==
    IF below.at \in Top THEN below
    ELSE [at |-> ns[below.at].parent, names |-> <<ns[below.at].name>> \o below.names]

Climbed(ns, Top, n) ==
    LET Up[k \in 0 .. Len(n)] ==
            IF k = 0 THEN [at |-> n, names |-> <<>>] ELSE Climb(ns, Top, Up[k - 1])
    IN  Up[Len(n)]

\* The names from the top of the tree to node n.
NamesDown(ns, n) == Climbed(ns, {m \in DOMAIN ns : ns[m].parent = Null}, n).names

\* fs_get_node_path
NodePath(ns, n) ==
    IF Len(NamesDown(ns, n)) > PathLimit THEN TooLong ELSE NamesDown(ns, n)

\* The node that stands for n: the root that is mounted there, or n.
Crossed(ns, n) ==
    IF "MOUNT" \in ns[n].type /\ ns[n].mount # Null THEN ns[n].mount ELSE n

-----------------------------------------------------------------------------
\* fatfilesystem.c: what FatFs finds, and the nodes for it

\* The volume of a node: the root above it and the names below that root,
\* as readdir, finddir, stat and open put them together.
FatPlace(ns, n) == Climbed(ns, {m \in DOMAIN ns : ns[m].fs = "fatroot"}, n)

VolumeOf(root) == CHOOSE v \in DOMAIN VolumeNames : VolumeNames[v] = root[Len(root)]

\* f_stat: what the device holds at these names; "none" for an error.
FStat(ns, root, names) ==
    LET device == volumes[VolumeOf(root)]
        tree == Images[ns[device].name].tree
    IN  IF Len(names) <= PathLimit /\ names \in DOMAIN tree THEN tree[names] ELSE "none"

\* finddir: the node made at an earlier call, or a new one.
FatFinddir(ns, n, name, cached) ==
    LET place == FatPlace(ns, n)
        kind == FStat(ns, place.at, Append(place.names, name))
        id == Append(n, name)
    IN  CASE cached # Null -> [nodes |-> ns, node |-> cached]
          [] cached = Null /\ kind = "none" -> [nodes |-> ns, node |-> Null]
          [] OTHER -> [nodes |-> AddChild(ns, n, id, NodeOf(name, n,
                                     IF kind = "dir" THEN {"DIR"} ELSE {"FILE"}, "fat")),
                       node |-> id]

-----------------------------------------------------------------------------
\* Lookup

\* The first node of a list with this name: rootfs_finddir, systemfs_finddir,
\* devfs_finddir.
Named(ns, list, name) ==
    LET hits == {i \in DOMAIN list : ns[list[i]].name = name} IN
    IF hits = {} THEN Null ELSE list[CHOOSE i \in hits : \A j \in hits : i <= j]

\* The finddir function of node m.
NodeFinddir(ns, m, name) ==
    CASE ns[m].fs \in {"root", "system", "threads"} ->
             [nodes |-> ns, node |-> Named(ns, ns[m].kids, name)]
      [] ns[m].fs = "dev" -> [nodes |-> ns, node |-> Named(ns, devices, name)]
      [] ns[m].fs \in {"fat", "fatroot"} ->
             FatFinddir(ns, m, name, Named(ns, ns[m].kids, name))
      [] OTHER -> [nodes |-> ns, node |-> Null]

\* fs_finddir
FsFinddir(ns, n, name) ==
    LET m == Crossed(ns, n) IN
    IF m # n \/ "DIR" \in ns[m].type THEN NodeFinddir(ns, m, name)
    ELSE [nodes |-> ns, node |-> Null]

\* fs_get_node: the node, and the nodes with the ones that FAT made on the way.
WalkOn(at, name) == IF at.node = Null THEN at ELSE FsFinddir(at.nodes, at.node, name)

GetNode(ns, names) ==
    LET real == Resolve(names)
        Walk[i \in 0 .. Len(real)] ==
            IF i = 0 THEN [nodes |-> ns, node |-> RootNode] ELSE WalkOn(Walk[i - 1], real[i])
    IN  Walk[Len(real)]

\* fs_get_node_relative_to_node
GetRelative(ns, n, names) ==
    IF NodePath(ns, n) = TooLong THEN [nodes |-> ns, node |-> Null]
    ELSE GetNode(ns, NodePath(ns, n) \o names)

\* fs_get_node_absolute_or_relative
Locate(p, path) ==
    CASE path.abs -> GetNode(nodes, path.names)
      [] ~path.abs /\ path.names = <<>> -> [nodes |-> nodes, node |-> Null]
      [] OTHER -> GetRelative(nodes, cwd[p], path.names)

\* The path can be looked up: the working directory is not a node that
\* clean_thread_nodes has freed, whose fields could be anything.
Sound(p, path) == path.abs \/ cwd[p] \in DOMAIN nodes

-----------------------------------------------------------------------------
\* Directories.  An entry is [name, type]; NULL is an empty sequence.

EntryOf(ns, k) == [name |-> ns[k].name, type |-> ns[k].type]

\* rootfs_readdir and systemfs_readdir: the child at an index from 0.
ChildAt(ns, m, index) ==
    IF index < Len(ns[m].kids) THEN <<EntryOf(ns, ns[m].kids[index + 1])>> ELSE <<>>

\* devfs_readdir
DeviceAt(ns, index) ==
    IF index < Len(devices) THEN <<EntryOf(ns, devices[index + 1])>> ELSE <<>>

\* readdir of fatfilesystem.c: f_readdir from the start until the index, in the
\* order of the directory.
FatReaddir(ns, m, index) ==
    LET place == FatPlace(ns, m)
        tree == Images[ns[volumes[VolumeOf(place.at)]].name].tree
        within == {t \in DOMAIN tree : t # <<>> /\ SubSeq(t, 1, Len(t) - 1) = place.names}
        order == CHOOSE o \in [1 .. Cardinality(within) -> within] : Range(o) = within
        at == order[index + 1]
    IN  IF index >= Cardinality(within) \/ Len(place.names) > PathLimit THEN <<>>
        ELSE <<[name |-> at[Len(at)],
                type |-> IF tree[at] = "dir" THEN {"DIR"} ELSE {"FILE"}]>>

\* fs_readdir
FsReaddir(ns, n, index) ==
    LET m == Crossed(ns, n)
        fs == ns[m].fs
    IN  CASE m = n /\ "DIR" \notin ns[m].type -> <<>>
          [] (m # n \/ "DIR" \in ns[m].type) /\ fs \in {"root", "system", "threads"} ->
                 ChildAt(ns, m, index)
          [] (m # n \/ "DIR" \in ns[m].type) /\ fs = "dev" -> DeviceAt(ns, index)
          [] (m # n \/ "DIR" \in ns[m].type) /\ fs \in {"fat", "fatroot"} ->
                 FatReaddir(ns, m, index)
          [] OTHER -> <<>>

\* syscall_getdents into room for so many entries: from the first one on.
Getdents(ns, n, room) ==
    LET Listed[i \in 0 .. room] ==
            IF i = 0 THEN <<>>
            ELSE IF Len(Listed[i - 1]) < i - 1 THEN Listed[i - 1]
            ELSE Listed[i - 1] \o FsReaddir(ns, n, i - 1)
    IN  Listed[room]

-----------------------------------------------------------------------------
\* Descriptors: fs_open_for_process and fs_close on the state st

St == [nodes |-> nodes, files |-> files, fd |-> fd, drivers |-> drivers]

Becomes(st) ==
    /\ nodes' = st.nodes /\ files' = st.files /\ fd' = st.fd
    /\ drivers' = st.drivers

\* clean_thread_nodes and systemfs_open_threads_dir
FillThreads(ns) ==
    LET id(p) == Append(ThreadsDir, p)
        old == {ns[ThreadsDir].kids[i] : i \in DOMAIN ns[ThreadsDir].kids}
        new == {id(live[i]) : i \in DOMAIN live}
    IN  [n \in (DOMAIN ns \ old) \cup new |->
            CASE n \in new -> NodeOf(n[Len(n)], ThreadsDir, {"FILE"}, "thread")
              [] n = ThreadsDir ->
                     [ns[n] EXCEPT !.kids = [i \in DOMAIN live |-> id(live[i])]]
              [] OTHER -> ns[n]]

\* The open function of node n: whether it succeeds and a FIL is kept.
DriverOpen(st, n, flags) ==
    LET fs == st.nodes[n].fs
        place == FatPlace(st.nodes, n)
        kind == FStat(st.nodes, place.at, place.names)
    IN  CASE fs = "device" ->
                 [ok |-> TRUE, fil |-> FALSE, st |-> [st EXCEPT !.drivers[n] = @ + 1]]
          [] fs = "threads" ->
                 [ok |-> TRUE, fil |-> FALSE, st |-> [st EXCEPT !.nodes = FillThreads(@)]]
          [] fs = "fat" /\ st.nodes[n].type # {"DIR"} ->
                 LET ok == kind = "file" \/ (kind = "readonly" /\ flags = "r") IN
                 [ok |-> ok, fil |-> ok, st |-> st]
          [] OTHER -> [ok |-> TRUE, fil |-> FALSE, st |-> st]

\* The close function of node n.
DriverClose(st, n) ==
    IF n \in DOMAIN st.nodes /\ st.nodes[n].fs = "device"
    THEN [st EXCEPT !.drivers[n] = @ - 1] ELSE st

\* The first descriptor of a process that leads to f, 0 for a free one; -1.
FirstDescriptor(st, p, f) ==
    LET slots == {i \in Descriptors : st.fd[p][i] = f} IN
    IF slots = {} THEN -1 ELSE CHOOSE i \in slots : \A j \in slots : i <= j

\* process_add_file
process_add_file(st, p, f) ==
    LET slot == FirstDescriptor(st, p, 0) IN
    IF slot = -1 THEN st ELSE [st EXCEPT !.files[f].fd = slot, !.fd[p][slot] = f]

\* process_remove_file
process_remove_file(st, p, f) ==
    LET slot == FirstDescriptor(st, p, f) IN
    IF slot = -1 THEN st ELSE [st EXCEPT !.fd[p][slot] = 0]

\* fs_close: the driver's close, the descriptor, kfree.
FsClose(st, f) ==
    LET closed == DriverClose(st, st.files[f].node)
        removed == process_remove_file(closed, st.files[f].process, f)
    IN  [removed EXCEPT !.files = [g \in DOMAIN @ \ {f} |-> @[g]]]

\* The File that kmalloc gives.
NewFile(st) ==
    CHOOSE g \in 1 .. FileLimit + 1 :
        g \notin DOMAIN st.files /\ \A h \in 1 .. g - 1 : h \in DOMAIN st.files

\* Faulty variant: when no descriptor is free the driver stays open.
FsOpenNoClose(st, p, n0, flags) ==
    LET n == Crossed(st.nodes, n0)
        opened == DriverOpen(st, n, flags)
        f == NewFile(st)
        made == [opened.st EXCEPT !.files =
                   Put(@, f, [node |-> n, process |-> p, fd |-> 0, fil |-> opened.fil])]
    IN  CASE st.nodes[n].fs = "bare" -> st
          [] st.nodes[n].fs # "bare" /\ (~opened.ok \/ FirstDescriptor(st, p, 0) = -1) ->
                 opened.st
          [] OTHER -> process_add_file(made, p, f)

\* fs_open_for_process: a file that gets no descriptor is closed again.
FsOpen(st, p, n0, flags) ==
    LET n == Crossed(st.nodes, n0)
        opened == DriverOpen(st, n, flags)
        f == NewFile(st)
        made == [opened.st EXCEPT !.files =
                   Put(@, f, [node |-> n, process |-> p, fd |-> 0, fil |-> opened.fil])]
        added == process_add_file(made, p, f)
    IN  CASE st.nodes[n].fs = "bare" -> st
          [] st.nodes[n].fs # "bare" /\ ~opened.ok -> opened.st
          [] st.nodes[n].fs # "bare" /\ opened.ok /\ FirstDescriptor(st, p, 0) = -1 ->
                 FsClose(added, f)
          [] OTHER -> added

-----------------------------------------------------------------------------
\* System calls of process p

Runs(p) == \E i \in DOMAIN live : live[i] = p

\* syscall_open
Open(p, path, flags) ==
    LET at == Locate(p, path) IN
    /\ Runs(p) /\ Sound(p, path)
    /\ Cardinality(DOMAIN files) < FileLimit \/ \A i \in Descriptors : fd[p][i] # 0
    /\ Becomes(IF at.node = Null THEN [St EXCEPT !.nodes = at.nodes]
               ELSE FsOpen([St EXCEPT !.nodes = at.nodes], p, at.node, flags))
    /\ UNCHANGED <<devices, volumes, live, cwd>>

\* syscall_close
CloseFd(p, i) ==
    /\ Runs(p) /\ fd[p][i] # 0
    /\ Becomes(FsClose(St, fd[p][i]))
    /\ UNCHANGED <<devices, volumes, live, cwd>>

\* syscall_chdir: any node will do, a file too.
Chdir(p, path) ==
    LET at == Locate(p, path) IN
    /\ Runs(p) /\ Sound(p, path)
    /\ nodes' = at.nodes
    /\ cwd' = [cwd EXCEPT ![p] = IF at.node = Null THEN @ ELSE at.node]
    /\ UNCHANGED <<devices, volumes, live, files, fd, drivers>>

\* syscall_getcwd
Getcwd(p) == NodePath(nodes, cwd[p])

\* stat of fatfilesystem.c, the only one there is: it writes node_type anew.
FatStat(ns, n) ==
    LET place == FatPlace(ns, n)
        kind == FStat(ns, place.at, place.names)
    IN  IF ns[n].fs # "fat" \/ kind = "none" THEN ns
        ELSE [ns EXCEPT ![n].type = IF kind = "dir" THEN {"DIR"} ELSE {"FILE"}]

\* fs_stat: the nodes after it, and st_mode, "none" without a stat function.
FsStat(ns, n) ==
    LET after == FatStat(ns, n)
        kinds == <<"DIR", "CHAR", "BLOCK", "FILE">>
        hits == {i \in DOMAIN kinds : kinds[i] \in after[n].type}
    IN  [nodes |-> after,
         mode |-> IF ns[n].fs = "fat" THEN kinds[CHOOSE i \in hits : \A j \in hits : i <= j]
                  ELSE "none"]

\* syscall_stat
Stat(p, path) ==
    LET at == Locate(p, path) IN
    /\ Runs(p) /\ Sound(p, path)
    /\ nodes' = IF at.node = Null THEN at.nodes ELSE FsStat(at.nodes, at.node).nodes
    /\ UNCHANGED <<devices, volumes, live, cwd, files, fd, drivers>>

\* syscall_fstat, and syscall_statx with an empty path
Fstat(p, i) ==
    /\ Runs(p) /\ fd[p][i] # 0 /\ files[fd[p][i]].node \in DOMAIN nodes
    /\ nodes' = FsStat(nodes, files[fd[p][i]].node).nodes
    /\ UNCHANGED <<devices, volumes, live, cwd, files, fd, drivers>>

\* syscall_statx with a path relative to the open directory i
StatAt(p, i, path) ==
    LET n == files[fd[p][i]].node
        at == GetRelative(nodes, n, path.names)
    IN  /\ Runs(p) /\ fd[p][i] # 0 /\ ~path.abs /\ path.names # <<>>
        /\ n \in DOMAIN nodes /\ "DIR" \in nodes[n].type
        /\ nodes' = IF at.node = Null THEN at.nodes ELSE FsStat(at.nodes, at.node).nodes
        /\ UNCHANGED <<devices, volumes, live, cwd, files, fd, drivers>>

\* rootfs_mkdir
RootfsMkdir(ns, m, name) ==
    IF Named(ns, ns[m].kids, name) # Null THEN ns
    ELSE AddChild(ns, m, Append(m, name), NodeOf(name, m, {"DIR"}, "root"))

\* fs_mkdir: only rootfs has a mkdir.
FsMkdir(ns, n, name) ==
    LET m == Crossed(ns, n) IN
    IF ns[m].fs = "root" /\ "DIR" \in ns[m].type THEN RootfsMkdir(ns, m, name) ELSE ns

\* syscall_mkdir.  The name is what follows the last slash, unresolved.
Mkdir(p, path) ==
    LET at == GetNode(nodes, SubSeq(path.names, 1, Len(path.names) - 1)) IN
    /\ Runs(p) /\ path.abs /\ path.names # <<>>
    /\ nodes' = IF at.node # Null THEN FsMkdir(at.nodes, at.node, path.names[Len(path.names)])
                ELSE at.nodes
    /\ UNCHANGED <<devices, volumes, live, cwd, files, fd, drivers>>

\* The first volume without a device.
FreeVolumes == {v \in DOMAIN VolumeNames : volumes[v] = Null}
FirstVolume == CHOOSE v \in FreeVolumes : \A w \in FreeVolumes : v <= w

\* Faulty variant: the parent of the new root is the node it is mounted on.
FatMountBelowTarget(source, target, ns) ==
    LET ok == Images[ns[source].name].formatted
        root == Append(target, VolumeNames[FirstVolume])
        new == NodeOf(ns[target].name, target, {"DIR"}, "fatroot")
    IN  [volumes |-> IF ok THEN [volumes EXCEPT ![FirstVolume] = source] ELSE volumes,
         nodes |-> IF ok THEN [Put(ns, root, new) EXCEPT ![target].type = @ \cup {"MOUNT"},
                                                         ![target].mount = root]
                   ELSE ns]

\* mount of fatfilesystem.c once its tests have passed; f_mount succeeds on a
\* device with a FAT, otherwise what was set is taken back.
FatMount(source, target, ns) ==
    LET ok == Images[ns[source].name].formatted
        root == Append(target, VolumeNames[FirstVolume])
        new == NodeOf(ns[target].name, ns[target].parent, {"DIR"}, "fatroot")
    IN  [volumes |-> IF ok THEN [volumes EXCEPT ![FirstVolume] = source] ELSE volumes,
         nodes |-> IF ok THEN [Put(ns, root, new) EXCEPT ![target].type = @ \cup {"MOUNT"},
                                                         ![target].mount = root]
                   ELSE ns]

\* The tests of mount, which checkMount repeats: a block device and a
\* directory and nothing else; the target is looked up only behind the source.
CheckMount(source, target) ==
    /\ source.node # Null /\ source.nodes[source.node].type = {"BLOCK"}
    /\ target.node # Null /\ target.nodes[target.node].type = {"DIR"}

\* g_registered_filesystems after fatfs_initialize.
Registered == {"fat"}

\* fs_mount: a type that is not registered fails before any path is looked up.
FsMount(type, from, to) ==
    LET source == GetNode(nodes, from.names)
        isBlock == source.node # Null /\ source.nodes[source.node].type = {"BLOCK"}
        target == GetNode(source.nodes, to.names)
        mounted == FatMount(source.node, target.node, target.nodes)
        looked == IF isBlock THEN target.nodes ELSE source.nodes
    IN  IF type \in Registered /\ CheckMount(source, target) /\ FreeVolumes # {}
        THEN volumes' = mounted.volumes /\ nodes' = mounted.nodes
        ELSE volumes' = volumes /\ nodes' = IF type \in Registered THEN looked ELSE nodes

\* syscall_mount
Mount(p, type, from, to) ==
    /\ Runs(p) /\ from.abs /\ to.abs
    /\ FsMount(type, from, to)
    /\ UNCHANGED <<devices, live, cwd, files, fd, drivers>>

\* syscall_unmount: node_type is FT_MOUNT_POINT and nothing else.
Unmount(p, path) ==
    LET at == GetNode(nodes, path.names) IN
    /\ Runs(p) /\ path.abs
    /\ nodes' = IF at.node # Null /\ at.nodes[at.node].type = {"MOUNT"}
                THEN [at.nodes EXCEPT ![at.node].type = {"DIR"}, ![at.node].mount = Null]
                ELSE at.nodes
    /\ UNCHANGED <<devices, volumes, live, cwd, files, fd, drivers>>

\* devfs_register_device: a name in use is refused.
RegisterDevice(name) ==
    LET id == Append(DevRoot, name) IN
    /\ Named(nodes, devices, name) = Null
    /\ nodes' = Put(nodes, id, DeviceNode(name))
    /\ devices' = Append(devices, id)
    /\ drivers' = Put(drivers, id, 0)
    /\ UNCHANGED <<volumes, live, cwd, files, fd>>

\* process_create_ex for child q of p: the working directory of the parent,
\* and the terminal opened as descriptors 0, 1 and 2.
Spawn(p, q, tty) ==
    LET Opened[k \in 0 .. 3] == IF k = 0 THEN St ELSE FsOpen(Opened[k - 1], q, tty, "r") IN
    /\ Runs(p) /\ ~Runs(q)
    /\ Cardinality(DOMAIN files) + MaxFiles <= FileLimit
    /\ live' = Append(live, q)
    /\ cwd' = [cwd EXCEPT ![q] = cwd[p]]
    /\ Becomes(Opened[3])
    /\ UNCHANGED <<devices, volumes>>

\* The list without its only p.
Unlink(list, p) ==
    LET i == CHOOSE i \in DOMAIN list : list[i] = p
    IN  SubSeq(list, 1, i - 1) \o SubSeq(list, i + 1, Len(list))

\* process_destroy: every file that is still open.
CloseSlot(st, p, i) == IF st.fd[p][i] = 0 THEN st ELSE FsClose(st, st.fd[p][i])

Destroy(p) ==
    LET Closed[k \in 0 .. MaxFiles] ==
            IF k = 0 THEN St ELSE CloseSlot(Closed[k - 1], p, k - 1)
    IN  /\ Runs(p) /\ p # FirstProcess
        /\ live' = Unlink(live, p)
        /\ Becomes(Closed[MaxFiles])
        /\ cwd' = [cwd EXCEPT ![p] = RootNode]
        /\ UNCHANGED <<devices, volumes>>

VfsInit ==
    /\ nodes = BootNodes
    /\ devices = [i \in DOMAIN BootDevices |-> Append(DevRoot, BootDevices[i])]
    /\ volumes = [v \in DOMAIN VolumeNames |-> Null]
    /\ live = <<FirstProcess>>
    /\ cwd = [p \in Process |-> RootNode]
    /\ files = [f \in {} |-> {}]
    /\ fd = [p \in Process |-> [i \in Descriptors |-> 0]]
    /\ drivers = [n \in {devices[i] : i \in DOMAIN devices} |-> 0]

VfsNext ==
    \/ \E p \in Process :
           \/ \E path \in CallPaths[p].open, flags \in {"r", "w"} : Open(p, path, flags)
           \/ \E path \in CallPaths[p].chdir : Chdir(p, path)
           \/ \E path \in CallPaths[p].stat : Stat(p, path)
           \/ \E i \in Descriptors, path \in CallPaths[p].stat : StatAt(p, i, path)
    \/ \E p \in Process, path \in MkdirPaths : Mkdir(p, path)
    \/ \E p \in Process, pair \in MountPairs :
           \/ \E type \in Registered \cup {"ext2"} : Mount(p, type, pair[1], pair[2])
           \/ Unmount(p, pair[2])
    \/ \E p \in Process, i \in Descriptors : CloseFd(p, i) \/ Fstat(p, i)
    \/ \E name \in DOMAIN DeviceType : RegisterDevice(name)
    \/ \E p, q \in Process, i \in DOMAIN devices :
           nodes[devices[i]].type = {"CHAR"} /\ Spawn(p, q, devices[i])
    \/ \E p \in Process : Destroy(p)

VfsSpec == VfsInit /\ [][VfsNext]_vfsVars

-----------------------------------------------------------------------------
\* Correctness

\* The descriptors, the files and the drivers agree: a used descriptor leads
\* to a file that names this process and descriptor, a file is reached by its
\* descriptor, each driver has been opened once for every file open on its
\* device, and a FIL is held exactly for the regular FAT files: fs_open and
\* fs_close keep this up through failed opens, full tables and process ends.
DescriptorsMatch ==
    /\ \A p \in Process, i \in Descriptors : fd[p][i] # 0 =>
           /\ fd[p][i] \in DOMAIN files
           /\ files[fd[p][i]].process = p /\ files[fd[p][i]].fd = i
    /\ \A f \in DOMAIN files :
           /\ Runs(files[f].process) /\ fd[files[f].process][files[f].fd] = f
    /\ \A n \in DOMAIN drivers :
           drivers[n] = Cardinality({f \in DOMAIN files : files[f].node = n})
    /\ \A f \in DOMAIN files : files[f].fil =>
           files[f].node \in DOMAIN nodes /\ nodes[files[f].node].fs = "fat"

\* Looking up a path finds the node whose own path, as getcwd spells it, is the
\* resolved path, through mounts and through nodes that FAT made earlier, and
\* "." finds the path of the working directory; whatever getdents lists, unless
\* its name begins with a dot, can be looked up and is of the kind that the
\* entry and stat say.
LookupReturnsNamed ==
    /\ \A p \in Process : cwd[p] \in DOMAIN nodes =>
        LET at == Locate(p, [abs |-> FALSE, names |-> <<".">>]) IN
        at.node # Null => NamesDown(at.nodes, at.node) = Getcwd(p)
    /\ \A path \in UNION {CallPaths[p].open \cup CallPaths[p].stat : p \in Process} :
       path.abs =>
        LET at == GetNode(nodes, path.names)
            real == Resolve(path.names)
        IN  at.node # Null =>
                /\ NamesDown(at.nodes, at.node) = real
                /\ \A entry \in Range(Getdents(at.nodes, at.node, ListRoom)) :
                       entry.name \notin Dotted \cup DoubleDotted /\ Len(real) < PathLimit =>
                           LET found == GetNode(at.nodes, Append(real, entry.name))
                               stat == FsStat(found.nodes, found.node)
                           IN  /\ found.node # Null
                               /\ entry.type \subseteq found.nodes[found.node].type
                               /\ stat.mode \in {"none"} \cup entry.type

\* The nodes whose mount_point is a root made for volume v.
MountedOn(v) ==
    {n \in DOMAIN nodes :
        /\ nodes[n].mount \in DOMAIN nodes /\ nodes[nodes[n].mount].fs = "fatroot"
        /\ nodes[n].mount[Len(nodes[n].mount)] = VolumeNames[v]}

\* A volume is taken exactly when a root made for it is the mount_point of one node,
\* also after a mount that FatFs refused.  Only the root on a directory of another FAT
\* volume can be lost: stat of that directory takes the mark of the mount away, so that
\* mount puts the next root in its place, and nothing frees the volume of the first.
VolumesMatchMounts ==
    \A v \in DOMAIN VolumeNames :
        /\ volumes[v] = Null => MountedOn(v) = {}
        /\ volumes[v] # Null =>
              \E n \in DOMAIN nodes :
                  /\ Append(n, VolumeNames[v]) \in DOMAIN nodes
                  /\ MountedOn(v) = {n} \/ (MountedOn(v) = {} /\ nodes[n].fs = "fat")

\* Every name leads where it should, through volumes that come and go.
NamesReachNodes == LookupReturnsNamed /\ VolumesMatchMounts
=============================================================================
