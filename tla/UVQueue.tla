------------------------------- MODULE UVQueue -------------------------------
(***************************************************************************)
(* The intrusive circular list of src/src/queue.h.  A list head is a       *)
(* sequence of the nodes linked to it, first node first.  A node that is   *)
(* linked to itself (uv__queue_init) is a node that is in no sequence.     *)
(***************************************************************************)
EXTENDS Integers, Sequences, Functions

\* uv__queue_empty, of a list head.
QueueEmpty(q) == q = <<>>

\* uv__queue_head.
QueueHead(q) == q[1]

\* uv__queue_empty, of a node: it is linked somewhere iff it is not empty.
InQueue(q, e) == e \in Range(q)

\* uv__queue_insert_tail.
QueueInsertTail(q, e) == Append(q, e)

\* uv__queue_insert_head.
QueueInsertHead(q, e) == <<e>> \o q

\* uv__queue_remove: unlinks e; the other nodes keep their order.
QueueRemove(q, e) ==
    IF InQueue(q, e)
    THEN LET k == CHOOSE i \in DOMAIN q : q[i] = e
         IN  [i \in 1 .. Len(q) - 1 |-> IF i < k THEN q[i] ELSE q[i + 1]]
    ELSE q

\* uv__queue_remove of the head node.
QueuePop(q) == Tail(q)
=============================================================================
