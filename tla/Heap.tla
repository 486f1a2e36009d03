-------------------------------- MODULE Heap --------------------------------
(***************************************************************************)
(* heap-inl.h: a binary min-heap of nodes linked by left, right and parent *)
(* pointers.  heap is the value of struct heap and of the nodes' fields.   *)
(***************************************************************************)
EXTENDS HeapArray, FiniteSets

CONSTANTS
    Nodes,  \* a finite set of numbers; less_than is <
    NULL

ASSUME NodesAssumption == Nodes \subseteq Nat /\ NULL \notin Nodes

VARIABLES
    heap,    \* [min, nelts, left, right, parent]
    array    \* the heap as module HeapArray has it

vars == <<heap, array>>

less == [<<a, b>> \in Nodes \X Nodes |-> a < b]

heap_init ==
    LET none == [n \in Nodes |-> NULL]
    IN  [min |-> NULL, nelts |-> 0, left |-> none, right |-> none, parent |-> none]

\* p->field = v, where p may be NULL under "if (p != NULL)".
SetIf(link, p, v) == IF p = NULL THEN link ELSE [link EXCEPT ![p] = v]

BadReplaceChild(t, up, old, new) ==
    IF up = NULL THEN [t EXCEPT !.min = new] ELSE [t EXCEPT !.left[up] = new]

\* The node that pointed to the place of old now points to new.
ReplaceChild(t, up, old, new) ==
    IF up = NULL THEN [t EXCEPT !.min = new]
    ELSE IF t.left[up] = old THEN [t EXCEPT !.left[up] = new]
    ELSE [t EXCEPT !.right[up] = new]

\* "if (child != NULL) child->parent = p"
Adopt(parent, child, p) == SetIf(parent, child, p)

heap_node_swap(t, p, c) ==
    LET fields == [t EXCEPT !.left = Exchange(@, p, c), !.right = Exchange(@, p, c),
                            !.parent = [Exchange(@, p, c) EXCEPT ![p] = c]]
        isLeft == fields.left[c] = c
        sibling == IF isLeft THEN fields.right[c] ELSE fields.left[c]
        below == IF isLeft THEN [fields EXCEPT !.left[c] = p] ELSE [fields EXCEPT !.right[c] = p]
        linked == [below EXCEPT
            !.parent = Adopt(SetIf(SetIf(@, below.left[p], p), below.right[p], p), sibling, c)]
    IN  ReplaceChild(linked, linked.parent[c], p, c)

\* Follows the bits of n below the highest from the root.
RECURSIVE NodeAt(_, _)
NodeAt(t, n) ==
    IF n = 1 THEN t.min
    ELSE IF n % 2 = 1 THEN t.right[NodeAt(t, n \div 2)] ELSE t.left[NodeAt(t, n \div 2)]

RECURSIVE WalkUp(_, _)
WalkUp(t, n) ==
    IF t.parent[n] # NULL /\ n < t.parent[n] THEN WalkUp(heap_node_swap(t, t.parent[n], n), n)
    ELSE t

RECURSIVE WalkDown(_, _)
WalkDown(t, n) ==
    LET l == t.left[n]
        r == t.right[n]
        m == IF l # NULL /\ l < n THEN l ELSE n
        smallest == IF r # NULL /\ r < m THEN r ELSE m
    IN  IF smallest = n THEN t ELSE WalkDown(heap_node_swap(t, n, smallest), n)

heap_insert(t, n) ==
    LET pos == t.nelts + 1
        up == IF pos = 1 THEN NULL ELSE NodeAt(t, pos \div 2)
        new == [t EXCEPT !.left[n] = NULL, !.right[n] = NULL, !.parent[n] = up, !.nelts = pos]
        linked == IF up = NULL THEN [new EXCEPT !.min = n]
                  ELSE IF pos % 2 = 1 THEN [new EXCEPT !.right[up] = n]
                  ELSE [new EXCEPT !.left[up] = n]
    IN  WalkUp(linked, n)

BadSettle(t, n) == WalkDown(t, n)

\* heap_remove: down, then up.
Settle(t, n) == WalkUp(WalkDown(t, n), n)

heap_remove(t, n) ==
    LET pos == t.nelts
        child == NodeAt(t, pos)
        up == IF pos = 1 THEN NULL ELSE NodeAt(t, pos \div 2)
        cut == [(IF up = NULL THEN [t EXCEPT !.min = NULL]
                 ELSE IF pos % 2 = 1 THEN [t EXCEPT !.right[up] = NULL]
                 ELSE [t EXCEPT !.left[up] = NULL]) EXCEPT !.nelts = @ - 1]
        placed == [cut EXCEPT
            !.left[child] = cut.left[n], !.right[child] = cut.right[n],
            !.parent = [SetIf(SetIf(@, cut.left[n], child), cut.right[n], child)
                            EXCEPT ![child] = cut.parent[n]]]
    IN  IF pos = 0 THEN t
        ELSE IF child = n THEN cut
        ELSE Settle(ReplaceChild(placed, placed.parent[n], n, child), child)

-----------------------------------------------------------------------------
Init == heap = heap_init /\ array = <<>>

\* uv_timer_stop reuses the memory of the node it has removed (uv__queue_init).
Reuse(t, n) == [t EXCEPT !.left[n] = NULL, !.right[n] = NULL, !.parent[n] = NULL]

Insert(n) ==
    /\ n \notin Range(array)
    /\ heap' = heap_insert(heap, n)
    /\ array' = HeapInsert(array, n, less)

Remove(n) ==
    /\ n \in Range(array)
    /\ heap' = Reuse(heap_remove(heap, n), n)
    /\ array' = HeapRemove(array, n, less)

heap_dequeue ==
    /\ heap.min # NULL
    /\ heap' = Reuse(heap_remove(heap, heap.min), heap.min)
    /\ array' = HeapRemove(array, heap.min, less)

Next == (\E n \in Nodes : Insert(n) \/ Remove(n)) \/ heap_dequeue

Spec == Init /\ [][Next]_vars

-----------------------------------------------------------------------------
(* Properties *)

\* The tree has the nodes of the array in the array's places, and no others, and
\* every node's parent pointer is the inverse of the child pointers.
TreeIsArray ==
    /\ heap.nelts = Len(array)
    /\ \A i \in DOMAIN array :
           /\ NodeAt(heap, i) = array[i]
           /\ 2 * i > Len(array) => heap.left[array[i]] = NULL
           /\ 2 * i + 1 > Len(array) => heap.right[array[i]] = NULL
           /\ heap.parent[array[i]] = (IF i = 1 THEN NULL ELSE array[i \div 2])

\* heap_min is the least node, whatever was inserted and removed before.
MinIsLeast == heap.min = NULL \/ \A n \in Range(array) : heap.min <= n
=============================================================================
