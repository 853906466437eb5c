----------------------------- MODULE FileStore ------------------------------
(***************************************************************************)
(* What a file system promises its callers: a tree of directories and      *)
(* files, positions of open files in them, and reads that return what was  *)
(* written.  Any call may fail and change nothing.                         *)
(***************************************************************************)
EXTENDS Integers, Sequences

CONSTANTS
    TreePaths,      \* paths, as sequences of names
    OpenFiles,      \* handles
    ReadCounts,     \* cell counts asked of a read
    WriteData,      \* sequences of cells written by one call
    Nothing,        \* no file or directory; no handle
    Directory

VARIABLES
    tree,           \* tree[p]: Nothing, Directory or the cells of a file
    cursor,         \* cursor[h]: Nothing or [path, pos]
    room,           \* how many clusters are free
    answer          \* what the last read returned

storeVars == <<tree, cursor, room, answer>>

IsFile(p) == tree[p] \notin {Nothing, Directory}

Above(p) == SubSeq(p, 1, Len(p) - 1)

InDirectory(p) == Len(p) = 1 \/ tree[Above(p)] = Directory

\* The files there are at first lie in directories.
StoreInit ==
    /\ \A p \in TreePaths : tree[p] # Nothing => InDirectory(p)
    /\ cursor = [h \in OpenFiles |-> Nothing]
    /\ room \in Nat
    /\ answer = <<>>

Below(p, q) == Len(q) > Len(p) /\ SubSeq(q, 1, Len(p)) = p

Users(p) == {h \in OpenFiles : cursor[h] # Nothing /\ cursor[h].path = p}

OnlyTree(p, x) == tree' = [tree EXCEPT ![p] = x]

\* An open file appears, with a new or emptied file if it is opened so.
OpenAt(h, p, pos) == cursor' = [cursor EXCEPT ![h] = [path |-> p, pos |-> pos]]

StoreOpen(h) ==
    /\ cursor[h] = Nothing
    /\ \E p \in TreePaths :
          /\ InDirectory(p)
          /\ \/ /\ IsFile(p)
                /\ UNCHANGED tree
                /\ \E pos \in {0, Len(tree[p])} : OpenAt(h, p, pos)
             \/ /\ IsFile(p) \/ tree[p] = Nothing
                /\ Users(p) = {}
                /\ OnlyTree(p, <<>>)
                /\ OpenAt(h, p, 0)
    /\ UNCHANGED answer

StoreClose(h) ==
    /\ cursor[h] # Nothing
    /\ cursor' = [cursor EXCEPT ![h] = Nothing]
    /\ UNCHANGED <<tree, answer>>

\* A read returns the cells from the position on, as many as there are.
StoreRead(h, n) ==
    LET c == cursor[h]
        end == IF c.pos + n < Len(tree[c.path]) THEN c.pos + n
               ELSE Len(tree[c.path])
        cells == SubSeq(tree[c.path], c.pos + 1, end)
    IN  /\ c # Nothing
        /\ answer' = cells
        /\ OpenAt(h, c.path, c.pos + Len(cells))
        /\ UNCHANGED tree

\* A write replaces or appends cells; it is cut short only by a full volume.
StoreWrite(h, data) ==
    LET c == cursor[h]
        old == tree[c.path]
    IN  /\ c # Nothing
        /\ \E n \in 0 .. Len(data) :
              /\ n < Len(data) => room' = 0
              /\ OnlyTree(c.path, SubSeq(old, 1, c.pos) \o SubSeq(data, 1, n)
                                      \o SubSeq(old, c.pos + n + 1, Len(old)))
              /\ OpenAt(h, c.path, c.pos + n)
        /\ UNCHANGED answer

\* A seek past the end of a file that is written makes the file longer; what
\* it then holds there is not specified.
StoreSeek(h) ==
    LET c == cursor[h]
        old == tree[c.path]
    IN  /\ c # Nothing
        /\ cursor'[h] # Nothing
        /\ OpenAt(h, c.path, cursor'[h].pos)
        /\ \/ cursor'[h].pos <= Len(old) /\ UNCHANGED tree
           \/ /\ cursor'[h].pos = Len(tree'[c.path])
              /\ cursor'[h].pos > Len(old)
              /\ SubSeq(tree'[c.path], 1, Len(old)) = old
              /\ OnlyTree(c.path, tree'[c.path])
        /\ UNCHANGED answer

StoreTruncate(h) ==
    LET c == cursor[h]
    IN  /\ c # Nothing
        /\ OnlyTree(c.path, SubSeq(tree[c.path], 1, c.pos))
        /\ UNCHANGED <<cursor, answer>>

StoreMkdir(p) ==
    /\ tree[p] = Nothing
    /\ InDirectory(p)
    /\ OnlyTree(p, Directory)
    /\ UNCHANGED <<cursor, answer>>

StoreUnlink(p) ==
    /\ tree[p] # Nothing
    /\ \A q \in TreePaths : Below(p, q) => tree[q] = Nothing
    /\ OnlyTree(p, Nothing)
    /\ UNCHANGED <<cursor, answer>>

\* Everything below a directory moves with it.
StoreRename(p, q) ==
    LET Moved(r) == q \o SubSeq(r, Len(p) + 1, Len(r))
        from == {r \in TreePaths : r = p \/ Below(p, r)}
    IN  /\ tree[p] # Nothing
        /\ tree[q] = Nothing
        /\ InDirectory(q)
        /\ tree' = [r \in TreePaths |->
                      IF \E s \in from : Moved(s) = r
                      THEN tree[CHOOSE s \in from : Moved(s) = r]
                      ELSE IF r \in from THEN Nothing ELSE tree[r]]
        /\ UNCHANGED <<cursor, answer>>

\* Space is taken and given back, files or not.
StoreRoom == UNCHANGED <<tree, cursor, answer>>

StoreNext ==
    /\ room' \in Nat
    /\ \/ \E h \in OpenFiles :
             \/ StoreOpen(h) \/ StoreClose(h) \/ StoreSeek(h)
             \/ StoreTruncate(h)
             \/ \E n \in ReadCounts : StoreRead(h, n)
             \/ \E data \in WriteData : StoreWrite(h, data)
       \/ \E p \in TreePaths : StoreMkdir(p) \/ StoreUnlink(p)
       \/ \E p, q \in TreePaths : StoreRename(p, q)
       \/ StoreRoom

StoreSpec == StoreInit /\ [][StoreNext]_storeVars
=============================================================================
