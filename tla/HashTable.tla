----------------------------- MODULE HashTable -----------------------------
(***************************************************************************)
(* hashtable.c: open addressing with linear probing.  A cell that was      *)
(* removed is free again at once, so a search always looks at the whole    *)
(* table.  hashtable_create does not clear the cells it gets from kmalloc, *)
(* so used, a byte, may be neither FALSE (0) nor TRUE (1) at first.        *)
(***************************************************************************)
EXTENDS Integers, FiniteSets

CONSTANTS
    TableCapacity,      \* capacity
    HashKeys,           \* keys, natural numbers
    HashValues          \* data

ASSUME HashAssumption ==
    /\ TableCapacity \in Nat \ {0}
    /\ HashKeys \subseteq Nat

VARIABLES
    cell,       \* items: cell[i] is a record with key, data and used
    stale,      \* the keys that the memory held by chance at first
    holds       \* what has been stored and not removed: the map it should be

hashVars == <<cell, stale, holds>>

TableCells == 0 .. TableCapacity - 1

\* hash_code
HashCode(key) == key % TableCapacity

\* The cell of the i-th probe, from 0.
Probe(key, i) == (HashCode(key) + i) % TableCapacity

\* Faulty variant: a free cell ends the search.
SearchInternalToFree(key) ==
    LET ends == {i \in TableCells : \/ cell[Probe(key, i)].key = key
                               \/ cell[Probe(key, i)].used = 0}
        last == CHOOSE i \in ends : \A j \in ends : i <= j
    IN  IF ends = {} \/ cell[Probe(key, last)].used # 1 THEN -1
        ELSE Probe(key, last)

\* HashTable_search_internal: the first cell in use with this key; -1 for NULL.
SearchInternal(key) ==
    LET hits == {i \in TableCells : /\ cell[Probe(key, i)].key = key
                               /\ cell[Probe(key, i)].used = 1}
    IN  IF hits = {} THEN -1
        ELSE Probe(key, CHOOSE i \in hits : \A j \in hits : i <= j)

\* hashtable_search: the data in a set, which is empty if there is none.
HashSearch(key) ==
    IF SearchInternal(key) = -1 THEN {} ELSE {cell[SearchInternal(key)].data}

\* hashtable_create.
HashInit ==
    /\ cell \in [TableCells -> [key : HashKeys, data : HashValues, used : {0, 1, 2}]]
    /\ stale = {cell[i].key : i \in {j \in TableCells : cell[j].used = 1}}
    /\ holds = [k \in HashKeys |-> {}]

\* The probes that come to a free cell.
FreeCells(key) == {i \in TableCells : cell[Probe(key, i)].used = 0}

\* hashtable_insert: the data of the key changes in its place, or the first
\* free cell is taken; a full table changes nothing.
HashInsert(key, value) ==
    LET at == SearchInternal(key)
        free == FreeCells(key)
        first == CHOOSE i \in free : \A j \in free : i <= j
    IN  /\ \/ /\ at # -1
              /\ cell' = [cell EXCEPT ![at].data = value]
           \/ /\ at = -1
              /\ free # {}
              /\ cell' = [cell EXCEPT ![Probe(key, first)] =
                             [key |-> key, data |-> value, used |-> 1]]
        /\ holds' = [holds EXCEPT ![key] = {value}]
        /\ UNCHANGED stale

\* hashtable_remove.
HashRemove(key) ==
    /\ SearchInternal(key) # -1
    /\ cell' = [cell EXCEPT ![SearchInternal(key)].used = 0]
    /\ holds' = [holds EXCEPT ![key] = {}]
    /\ UNCHANGED stale

HashNext ==
    \E key \in HashKeys :
        HashRemove(key) \/ \E value \in HashValues : HashInsert(key, value)

HashSpec == HashInit /\ [][HashNext]_hashVars

-----------------------------------------------------------------------------
(* Properties *)

\* A search finds what was stored under its key last, and nothing else,
\* whatever collided with it, wrapped around the end of the table, or was
\* removed in front of it since.  Only keys that the uncleared memory did not
\* hold are meant.
HashIsMap == \A key \in HashKeys \ stale : HashSearch(key) = holds[key]
=============================================================================
