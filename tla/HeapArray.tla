----------------------------- MODULE HeapArray -----------------------------
(***************************************************************************)
(* The binary heap of heap-inl.h as an array: the children of node i are   *)
(* nodes 2i and 2i+1.  Module Heap shows that the tree of linked nodes in  *)
(* heap-inl.h computes the same array.  less[a, b] is less_than.           *)
(***************************************************************************)
EXTENDS Integers, Sequences, Functions

Exchange(a, i, j) == [a EXCEPT ![i] = a[j], ![j] = a[i]]

\* Walks node i up while it is less than its parent.
RECURSIVE SiftUp(_, _, _)
SiftUp(a, i, less) ==
    IF i > 1 /\ less[a[i], a[i \div 2]]
    THEN SiftUp(Exchange(a, i, i \div 2), i \div 2, less)
    ELSE a

\* The least of node i and its children.
Smallest(a, i, less) ==
    LET family == {i, 2 * i, 2 * i + 1} \cap DOMAIN a
    IN  CHOOSE m \in family : \A j \in family : ~ less[a[j], a[m]]

\* Walks node i down while a child is less; the array and where it ended.
RECURSIVE SiftDown(_, _, _)
SiftDown(a, i, less) ==
    LET m == Smallest(a, i, less)
    IN  IF m = i THEN <<a, i>> ELSE SiftDown(Exchange(a, i, m), m, less)

HeapInsert(a, x, less) == SiftUp(Append(a, x), Len(a) + 1, less)

\* The last node takes the place of the removed one and finds its level; it may
\* have to go up, because it comes from another subtree.
HeapRemove(a, x, less) ==
    LET i == CHOOSE j \in DOMAIN a : a[j] = x
        last == Len(a)
        moved == SubSeq([a EXCEPT ![i] = a[last]], 1, last - 1)
        down == SiftDown(moved, i, less)
    IN  IF x \notin Range(a) THEN a
        ELSE IF i = last THEN moved
        ELSE SiftUp(down[1], down[2], less)
=============================================================================
