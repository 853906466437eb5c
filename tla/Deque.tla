------------------------------- MODULE Deque -------------------------------
(***************************************************************************)
(* What the users of list.c rely on: each list is a sequence that grows at *)
(* both ends and loses single elements, and an operation on one list       *)
(* leaves the others alone.                                                *)
(***************************************************************************)
EXTENDS Sequences, SequencesExt

CONSTANTS Lists, ListData, nil

VARIABLES items, result

DequeInit ==
    /\ items = [l \in Lists |-> <<>>]
    /\ result = nil

Put(l, seq) == items' = [items EXCEPT ![l] = seq]

Append1(l, d) == Put(l, Append(items[l], d)) /\ UNCHANGED result
Prepend1(l, d) == Put(l, <<d>> \o items[l]) /\ UNCHANGED result
RemoveAny(l) ==
    \E i \in DOMAIN items[l] : Put(l, RemoveAt(items[l], i)) /\ UNCHANGED result

\* The first d goes, and only that one.
RemoveOnce(l, d) == Put(l, RemoveFirst(items[l], d)) /\ UNCHANGED result

Take1(l) ==
    /\ items[l] # <<>>
    /\ result' = Head(items[l])
    /\ Put(l, Tail(items[l]))

TakeNone(l) == items[l] = <<>> /\ result' = nil /\ UNCHANGED items
Empty(l) == Put(l, <<>>) /\ UNCHANGED result
Copy(from, to) == Put(to, items[from]) /\ UNCHANGED result

\* The questions: how many, and where the first d is.
Count(l) == result' = Len(items[l]) /\ UNCHANGED items
IndexOf(l, d) ==
    /\ result' = SelectInSeq(items[l], LAMBDA x : x = d) - 1
    /\ UNCHANGED items

DequeNext ==
    \E l \in Lists :
        \/ RemoveAny(l) \/ Take1(l) \/ TakeNone(l) \/ Empty(l) \/ Count(l)
        \/ \E d \in ListData :
              Append1(l, d) \/ Prepend1(l, d) \/ RemoveOnce(l, d) \/ IndexOf(l, d)
        \/ \E from \in Lists : Copy(from, l)

dequeVars == <<items, result>>

DequeSpec == DequeInit /\ [][DequeNext]_dequeVars
=============================================================================
