----------------------------- MODULE LinkedList -----------------------------
(***************************************************************************)
(* list.c: doubly linked lists, and the stack and the queue made of them.  *)
(* Nodes are memory that kmalloc hands out and kfree takes back, so that a *)
(* node that was freed can turn up again in another list.                  *)
(***************************************************************************)
EXTENDS Integers, Sequences, FiniteSets

CONSTANTS
    Lists,          \* the lists
    ListNodes,      \* memory for nodes
    ListData,       \* what the lists hold
    nil             \* NULL

ASSUME ListAssumption ==
    /\ IsFiniteSet(ListNodes)
    /\ nil \notin ListNodes

VARIABLES
    head, tail,         \* head[l], tail[l]
    next, previous,     \* per node
    element,            \* per node: data
    allocated,          \* the nodes kmalloc has handed out
    result              \* what the last operation that returns data returned

listVars == <<head, tail, next, previous, element, allocated, result>>

\* list_create, stack_create and queue_create: memset clears both pointers.
ListInit ==
    /\ head = [l \in Lists |-> nil]
    /\ tail = [l \in Lists |-> nil]
    /\ next = [n \in ListNodes |-> nil]
    /\ previous = [n \in ListNodes |-> nil]
    /\ element = [n \in ListNodes |-> nil]
    /\ allocated = {}
    /\ result = nil

\* The nodes list_foreach visits; nil once it has come to the end.  A walk
\* longer than the number of nodes would not end.
Steps == 1 .. Cardinality(ListNodes) + 1
Walk(from, link) ==
    LET at[i \in Steps] == IF i = 1 THEN from
                           ELSE IF at[i - 1] = nil THEN nil
                           ELSE link[at[i - 1]]
    IN  at
Visited(from, link) ==
    LET at == Walk(from, link)
    IN  [i \in 1 .. Cardinality({j \in Steps : at[j] # nil}) |-> at[i]]

NodesOf(l) == Visited(head[l], next)
Items(l) == [i \in DOMAIN NodesOf(l) |-> element[NodesOf(l)[i]]]

-----------------------------------------------------------------------------
(* Operations *)

\* kmalloc, k times, for a node: distinct pieces of memory not in use.
NewMemory(k) == CHOOSE f \in [1 .. k -> ListNodes \ allocated] :
                 \A i, j \in 1 .. k : f[i] = f[j] => i = j
HasMemory(k) == k <= Cardinality(ListNodes \ allocated)

\* The kmalloc, memset and data assignment that begin append and prepend.
NewNode(n, d) ==
    /\ n = NewMemory(1)[1]
    /\ allocated' = allocated \cup {n}
    /\ element' = [element EXCEPT ![n] = d]

\* list_append; queue_enqueue.
ListAppend(l, d) ==
    \E n \in ListNodes :
        /\ HasMemory(1)
        /\ NewNode(n, d)
        /\ tail' = [tail EXCEPT ![l] = n]
        /\ IF tail[l] = nil
           THEN /\ head' = [head EXCEPT ![l] = n]
                /\ next' = [next EXCEPT ![n] = nil]
                /\ previous' = [previous EXCEPT ![n] = nil]
           ELSE /\ UNCHANGED head
                /\ next' = [next EXCEPT ![n] = nil, ![tail[l]] = n]
                /\ previous' = [previous EXCEPT ![n] = tail[l]]
        /\ UNCHANGED result

\* list_prepend; stack_push.
ListPrepend(l, d) ==
    \E n \in ListNodes :
        /\ HasMemory(1)
        /\ NewNode(n, d)
        /\ head' = [head EXCEPT ![l] = n]
        /\ IF tail[l] = nil
           THEN /\ tail' = [tail EXCEPT ![l] = n]
                /\ next' = [next EXCEPT ![n] = nil]
                /\ previous' = [previous EXCEPT ![n] = nil]
           ELSE /\ UNCHANGED tail
                /\ next' = [next EXCEPT ![n] = head[l]]
                /\ previous' = [previous EXCEPT ![n] = nil, ![head[l]] = n]
        /\ UNCHANGED result

\* Faulty variant: the tail is left where it was.
UnlinkNodeKeepsTail(l, n) ==
    /\ next' = [m \in ListNodes |-> IF m = n THEN nil
                                    ELSE IF m = previous[n] THEN next[n] ELSE next[m]]
    /\ previous' = [m \in ListNodes |-> IF m = n THEN nil
                                        ELSE IF m = next[n] THEN previous[n]
                                        ELSE previous[m]]
    /\ element' = [element EXCEPT ![n] = nil]
    /\ head' = IF n = head[l] THEN [head EXCEPT ![l] = next[n]] ELSE head
    /\ allocated' = allocated \ {n}
    /\ UNCHANGED tail

\* list_remove_node, for a node.  Nothing may be read from a node after kfree,
\* so what it held is forgotten.
UnlinkNode(l, n) ==
    /\ next' = [m \in ListNodes |-> IF m = n THEN nil
                                    ELSE IF m = previous[n] THEN next[n] ELSE next[m]]
    /\ previous' = [m \in ListNodes |-> IF m = n THEN nil
                                        ELSE IF m = next[n] THEN previous[n]
                                        ELSE previous[m]]
    /\ element' = [element EXCEPT ![n] = nil]
    /\ head' = IF n = head[l] THEN [head EXCEPT ![l] = next[n]] ELSE head
    /\ tail' = IF n = tail[l] THEN [tail EXCEPT ![l] = previous[n]] ELSE tail
    /\ allocated' = allocated \ {n}

\* list_find_first_occurrence: nil, if there is none.
FirstOccurrence(l, d) ==
    LET hits == {i \in DOMAIN Items(l) : Items(l)[i] = d}
    IN  IF hits = {} THEN nil
        ELSE NodesOf(l)[CHOOSE i \in hits : \A j \in hits : i <= j]

\* list_remove_first_node, list_remove_last_node and list_remove_node itself.
RemoveNode(l, n) ==
    /\ n # nil
    /\ UnlinkNode(l, n)
    /\ UNCHANGED result

RemoveFirstOccurrence(l, d) == RemoveNode(l, FirstOccurrence(l, d))

\* stack_pop and queue_dequeue: the data, or NULL.
TakeFirst(l) ==
    IF head[l] = nil
    THEN /\ result' = nil
         /\ UNCHANGED <<head, tail, next, previous, element, allocated>>
    ELSE /\ result' = element[head[l]]
         /\ UnlinkNode(l, head[l])

\* list_clear and list_destroy: the walk reads the next pointer before kfree.
ListClear(l) ==
    LET gone == {NodesOf(l)[i] : i \in DOMAIN NodesOf(l)}
        Forget(f) == [n \in ListNodes |-> IF n \in gone THEN nil ELSE f[n]]
    IN  /\ allocated' = allocated \ gone
        /\ head' = [head EXCEPT ![l] = nil]
        /\ tail' = [tail EXCEPT ![l] = nil]
        /\ next' = Forget(next)
        /\ previous' = Forget(previous)
        /\ element' = Forget(element)
        /\ UNCHANGED result

\* list_create_clone, into a list that is empty: one list_append for each
\* element, so the nodes are new ones.
ListClone(from, to) ==
    LET k == Len(NodesOf(from))
    IN  /\ head[to] = nil
        /\ k > 0
        /\ HasMemory(k)
        /\ LET place == NewMemory(k)
               at(n) == CHOOSE i \in 1 .. k : place[i] = n
               new == {place[i] : i \in 1 .. k}
           IN  /\ head' = [head EXCEPT ![to] = place[1]]
               /\ tail' = [tail EXCEPT ![to] = place[k]]
               /\ next' = [n \in ListNodes |->
                     IF n \notin new THEN next[n]
                     ELSE IF at(n) = k THEN nil ELSE place[at(n) + 1]]
               /\ previous' = [n \in ListNodes |->
                     IF n \notin new THEN previous[n]
                     ELSE IF at(n) = 1 THEN nil ELSE place[at(n) - 1]]
               /\ element' = [n \in ListNodes |->
                     IF n \notin new THEN element[n] ELSE Items(from)[at(n)]]
               /\ allocated' = allocated \cup new
               /\ UNCHANGED result

\* list_get_count.
GetCount(l) ==
    /\ result' = Len(NodesOf(l))
    /\ UNCHANGED <<head, tail, next, previous, element, allocated>>

\* list_find_first_occurrence_index.
FirstIndex(l, d) ==
    /\ result' = IF FirstOccurrence(l, d) = nil THEN -1
                 ELSE (CHOOSE i \in DOMAIN NodesOf(l) :
                          NodesOf(l)[i] = FirstOccurrence(l, d)) - 1
    /\ UNCHANGED <<head, tail, next, previous, element, allocated>>

ListNext ==
    \E l \in Lists :
        \/ \E d \in ListData :
              \/ ListAppend(l, d) \/ ListPrepend(l, d)
              \/ RemoveFirstOccurrence(l, d) \/ FirstIndex(l, d)
        \/ \E i \in DOMAIN NodesOf(l) : RemoveNode(l, NodesOf(l)[i])
        \/ RemoveNode(l, tail[l])
        \/ TakeFirst(l) \/ ListClear(l) \/ GetCount(l)
        \/ \E to \in Lists \ {l} : ListClone(l, to)

ListSpec == ListInit /\ [][ListNext]_listVars

-----------------------------------------------------------------------------
(* Properties *)

\* The pointers are those of separate chains: read backwards from the tail a
\* list has the nodes it has forwards, no node is in two lists, and the nodes
\* of the lists are the nodes allocated: none leaks, none is used after kfree.
ListShape ==
    /\ \A l \in Lists :
          LET fore == NodesOf(l)
              back == Visited(tail[l], previous)
          IN  /\ Len(back) = Len(fore)
              /\ \A i \in DOMAIN fore : back[Len(fore) + 1 - i] = fore[i]
    /\ allocated = UNION {{NodesOf(l)[i] : i \in DOMAIN NodesOf(l)} : l \in Lists}
    /\ \A l, m \in Lists : l # m =>
          \A i \in DOMAIN NodesOf(l), j \in DOMAIN NodesOf(m) :
              NodesOf(l)[i] # NodesOf(m)[j]

\* Whatever is appended, prepended, removed from the middle, popped, cleared
\* and copied, the lists are the sequences of Deque, and what an operation
\* returns is what Deque returns.
D == INSTANCE Deque WITH items <- [l \in Lists |-> Items(l)]
ImplementsDeque == D!DequeSpec
=============================================================================
