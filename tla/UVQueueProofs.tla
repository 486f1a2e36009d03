---------------------------- MODULE UVQueueProofs ----------------------------
(***************************************************************************)
(* What the list operations of UVQueue do to the set of linked nodes, and  *)
(* that they never link a node twice.                                      *)
(***************************************************************************)
EXTENDS UVQueue, TLAPS

\* The operations take lists to lists.
LEMMA QueueTypes ==
  ASSUME NEW S, NEW q \in Seq(S)
  PROVE  /\ q # <<>> => QueueHead(q) \in S /\ QueuePop(q) \in Seq(S)
         /\ \A e \in S : QueueInsertTail(q, e) \in Seq(S)
         /\ \A e : QueueRemove(q, e) \in Seq(S)
<1>1. q # <<>> => QueueHead(q) \in S /\ QueuePop(q) \in Seq(S)
  BY DEF QueueHead, QueuePop
<1>2. \A e \in S : QueueInsertTail(q, e) \in Seq(S)
  BY DEF QueueInsertTail
<1>3. ASSUME NEW e PROVE QueueRemove(q, e) \in Seq(S)
  <2>1. CASE InQueue(q, e)
    <3> DEFINE k == CHOOSE i \in DOMAIN q : q[i] = e
    <3>1. k \in 1 .. Len(q)
      BY <2>1 DEF InQueue, Range
    <3>2. QueueRemove(q, e) = [i \in 1 .. Len(q) - 1 |-> IF i < k THEN q[i] ELSE q[i + 1]]
      BY <2>1 DEF QueueRemove
    <3> HIDE DEF k
    <3> QED BY <3>1, <3>2
  <2> QED BY <2>1 DEF QueueRemove
<1> QED BY <1>1, <1>2, <1>3

\* uv__queue_insert_tail links the new node and nothing else, and a node that
\* was not linked is linked once afterwards.
LEMMA InsertTail ==
  ASSUME NEW S, NEW q \in Seq(S), NEW e \in S
  PROVE  /\ QueueInsertTail(q, e) \in Seq(S)
         /\ Range(QueueInsertTail(q, e)) = Range(q) \cup {e}
         /\ QueueInsertTail(q, e) # <<>>
         /\ IsInjective(q) /\ e \notin Range(q) => IsInjective(QueueInsertTail(q, e))
<1> DEFINE r == QueueInsertTail(q, e)
<1>1. /\ r \in Seq(S)
      /\ Len(r) = Len(q) + 1
      /\ \A i \in 1 .. Len(q) : r[i] = q[i]
      /\ r[Len(q) + 1] = e
  BY DEF QueueInsertTail
<1> HIDE DEF r
<1>2. Range(r) = Range(q) \cup {e}
  <2>1. ASSUME NEW x \in Range(r) PROVE x \in Range(q) \cup {e}
    <3>1. PICK i \in 1 .. Len(q) + 1 : r[i] = x
      BY <1>1, <2>1 DEF Range
    <3>2. CASE i = Len(q) + 1
      BY <1>1, <3>1, <3>2
    <3>3. CASE i \in 1 .. Len(q)
      BY <1>1, <3>1, <3>3 DEF Range
    <3> QED BY <3>1, <3>2, <3>3
  <2>2. ASSUME NEW x \in Range(q) PROVE x \in Range(r)
    <3>1. PICK i \in 1 .. Len(q) : q[i] = x
      BY <2>2 DEF Range
    <3>2. i \in DOMAIN r /\ r[i] = x
      BY <1>1, <3>1
    <3> QED BY <3>2 DEF Range
  <2>3. e \in Range(r)
    <3>1. Len(q) + 1 \in DOMAIN r /\ r[Len(q) + 1] = e
      BY <1>1
    <3> QED BY <3>1 DEF Range
  <2> QED BY <2>1, <2>2, <2>3
<1>3. ASSUME IsInjective(q), e \notin Range(q) PROVE IsInjective(r)
  BY <1>1, <1>3 DEF IsInjective, Range
<1>4. r # <<>>
  BY <1>1
<1> QED BY <1>1, <1>2, <1>3, <1>4 DEF r

\* Unlinking the head of a non-empty list.
LEMMA Pop ==
  ASSUME NEW S, NEW q \in Seq(S), q # <<>>, IsInjective(q)
  PROVE  /\ QueueHead(q) \in S
         /\ QueueHead(q) \in Range(q)
         /\ QueuePop(q) \in Seq(S)
         /\ Range(QueuePop(q)) = Range(q) \ {QueueHead(q)}
         /\ IsInjective(QueuePop(q))
<1> DEFINE r == QueuePop(q)
<1>1. /\ Len(q) > 0
      /\ r \in Seq(S)
      /\ Len(r) = Len(q) - 1
      /\ \A i \in 1 .. Len(r) : r[i] = q[i + 1]
  BY DEF QueuePop
<1> HIDE DEF r
<1>2. 1 \in DOMAIN q /\ QueueHead(q) = q[1]
  BY <1>1 DEF QueueHead
<1>3. Range(r) = Range(q) \ {q[1]}
  <2>1. ASSUME NEW x \in Range(r) PROVE x \in Range(q) \ {q[1]}
    BY <1>1, <1>2, <2>1 DEF Range, IsInjective
  <2>2. ASSUME NEW x \in Range(q) \ {q[1]} PROVE x \in Range(r)
    <3>1. PICK i \in 1 .. Len(q) : q[i] = x
      BY <2>2 DEF Range
    <3>2. i - 1 \in DOMAIN r /\ r[i - 1] = x
      BY <1>1, <2>2, <3>1
    <3> QED BY <3>2 DEF Range
  <2> QED BY <2>1, <2>2
<1>4. IsInjective(r)
  <2> SUFFICES ASSUME NEW a \in DOMAIN r, NEW b \in DOMAIN r, r[a] = r[b] PROVE a = b
    BY DEF IsInjective
  <2>1. a \in 1 .. Len(r) /\ b \in 1 .. Len(r)
    BY <1>1
  <2>2. a + 1 \in DOMAIN q /\ b + 1 \in DOMAIN q /\ q[a + 1] = q[b + 1]
    BY <1>1, <2>1
  <2>3. a + 1 = b + 1
    BY <2>2 DEF IsInjective
  <2> QED BY <2>1, <2>3
<1>5. QueueHead(q) \in S /\ QueueHead(q) \in Range(q)
  BY <1>1, <1>2 DEF Range
<1> QED BY <1>1, <1>2, <1>3, <1>4, <1>5 DEF r

\* uv__queue_remove keeps the list a list, unlinks exactly the node it is
\* given and keeps every other node linked once.
LEMMA Removal ==
  ASSUME NEW S, NEW q \in Seq(S), NEW e, IsInjective(q)
  PROVE  /\ QueueRemove(q, e) \in Seq(S)
         /\ Range(QueueRemove(q, e)) = Range(q) \ {e}
         /\ IsInjective(QueueRemove(q, e))
         /\ Len(QueueRemove(q, e)) = IF InQueue(q, e) THEN Len(q) - 1 ELSE Len(q)
<1>1. CASE ~ InQueue(q, e)
  BY <1>1 DEF QueueRemove, InQueue, Range
<1>2. CASE InQueue(q, e)
  <2> DEFINE k == CHOOSE i \in DOMAIN q : q[i] = e
             r == QueueRemove(q, e)
  <2>1. k \in 1 .. Len(q) /\ q[k] = e
    BY <1>2 DEF InQueue, Range
  <2>2. r = [i \in 1 .. Len(q) - 1 |-> IF i < k THEN q[i] ELSE q[i + 1]]
    BY <1>2 DEF QueueRemove
  <2> HIDE DEF k, r
  <2>3. r \in Seq(S) /\ Len(r) = Len(q) - 1
    BY <2>1, <2>2
  <2>4. IsInjective(r)
    BY <2>1, <2>2, <2>3 DEF IsInjective
  <2>5. Range(r) = Range(q) \ {e}
    <3>1. ASSUME NEW x \in Range(r) PROVE x \in Range(q) \ {e}
      BY <2>1, <2>2, <2>3 DEF Range, IsInjective
    <3>2. ASSUME NEW x \in Range(q) \ {e} PROVE x \in Range(r)
      <4>1. PICK i \in 1 .. Len(q) : q[i] = x
        BY <3>2 DEF Range
      <4>2. i # k
        BY <2>1, <4>1
      <4>3. CASE i < k
        <5>1. i \in DOMAIN r /\ r[i] = x
          BY <2>1, <2>2, <2>3, <4>1, <4>3
        <5> QED BY <5>1 DEF Range
      <4>4. CASE i > k
        <5>1. i - 1 \in 1 .. Len(q) - 1 /\ r[i - 1] = q[i]
          BY <2>1, <2>2, <4>1, <4>4
        <5> QED BY <2>3, <4>1, <5>1 DEF Range
      <4> QED BY <2>1, <4>1, <4>2, <4>3, <4>4
    <3> QED BY <3>1, <3>2
  <2> QED BY <1>2, <2>3, <2>4, <2>5 DEF r
<1> QED BY <1>1, <1>2
=============================================================================
