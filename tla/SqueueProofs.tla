----------------------------- MODULE SqueueProofs -----------------------------
(***************************************************************************)
(* The queue of squeue.c is a queue: whatever values it holds, addBack,    *)
(* leaveFront and leaveBack keep its pointers linked and do to the values  *)
(* what Append, Tail and Front do.  With it are the lemmas about character *)
(* signals and beginnings of sequences that the proofs of the messenger    *)
(* and of the wire share.                                                  *)
(***************************************************************************)
EXTENDS Squeue, Characters, SequencesExt, WellFoundedInduction, FiniteSetTheorems, SequenceTheorems, TLAPS

\* A well linked queue of values of V.
GoodSqueue(q, V) == IsQueue(q, V) /\ Linked(q)

LEMMA OrderType ==
  ASSUME NEW V, NEW q, GoodSqueue(q, V)
  PROVE  /\ Len(q.order) \in Nat
         /\ \A i \in 1 .. Len(q.order) : q.order[i] \in Nat \ {NULL}
         /\ \A i \in 1 .. Len(q.order) : q.order[i] \in DOMAIN q.node
  BY DEF GoodSqueue, IsQueue, Linked

LEMMA NodesFinite ==
  ASSUME NEW V, NEW q, GoodSqueue(q, V)
  PROVE  IsFiniteSet(DOMAIN q.node)
<1> DEFINE S == 1 .. Len(q.order)
           f == [i \in S |-> q.order[i]]
<1>1. IsFiniteSet(S)
  BY OrderType, FS_Interval
<1>2. f \in Surjection(S, DOMAIN q.node)
  BY OrderType DEF Surjection, GoodSqueue, Linked
<1> QED
  BY <1>1, <1>2, FS_Surjection

\* malloc returns an address, and one of no linked node.
LEMMA MallocFresh ==
  ASSUME NEW V, NEW q, GoodSqueue(q, V)
  PROVE  malloc(q) \in Nat \ {NULL} /\ malloc(q) \notin DOMAIN q.node
<1> DEFINE D == DOMAIN q.node
           c == Cardinality(D)
<1>1. IsFiniteSet(D) /\ c \in Nat
  BY NodesFinite, FS_CardinalityType
<1>2. \E n \in 1 .. c + 1 : n \notin D
  <2> SUFFICES ASSUME 1 .. c + 1 \subseteq D
               PROVE  FALSE
    OBVIOUS
  <2>1. Cardinality(1 .. c + 1) = c + 1
    BY <1>1, FS_Interval
  <2>2. Cardinality(1 .. c + 1) <= c
    BY <1>1, FS_Subset
  <2> QED
    BY <1>1, <2>1, <2>2
<1>3. malloc(q) \in 1 .. c + 1 /\ malloc(q) \notin D
  BY <1>2 DEF malloc
<1> QED
  BY <1>1, <1>3 DEF NULL

LEMMA InitSqueue ==
  ASSUME NEW V
  PROVE  /\ GoodSqueue(initSqueue, V)
         /\ Values(initSqueue) = <<>>
<1>1. initSqueue.order = <<>> /\ Len(initSqueue.order) = 0
  BY DEF initSqueue
<1>2. IsQueue(initSqueue, V)
  BY DEF initSqueue, IsQueue, NULL
<1>3. Linked(initSqueue)
  BY DEF initSqueue, Linked, NULL
<1>4. Values(initSqueue) = <<>>
  BY <1>1 DEF Values
<1> QED
  BY <1>2, <1>3, <1>4 DEF GoodSqueue

LEMMA EmptyMeans ==
  ASSUME NEW V, NEW q, GoodSqueue(q, V)
  PROVE  /\ isEmpty(q) <=> Len(q.order) = 0
         /\ isEmpty(q) <=> Values(q) = <<>>
<1>1. Len(q.order) # 0 => 1 \in 1 .. Len(q.order)
  BY OrderType
<1>2. isEmpty(q) <=> Len(q.order) = 0
  BY <1>1, OrderType DEF GoodSqueue, Linked, isEmpty
<1>3. Len(Values(q)) = Len(q.order)
  BY OrderType DEF Values
<1> QED
  BY <1>2, <1>3 DEF Values

LEMMA ValuesType ==
  ASSUME NEW V, NEW q, GoodSqueue(q, V)
  PROVE  Values(q) \in Seq(V) /\ Len(Values(q)) = Len(q.order)
<1>1. \A i \in 1 .. Len(q.order) : q.node[q.order[i]].val \in V
  BY OrderType DEF GoodSqueue, IsQueue
<1> QED
  BY <1>1, OrderType DEF Values

-----------------------------------------------------------------------------
(* addBack *)

\* The node added is the last, its predecessor is the node that was last, and all
\* others are as they were.
LEMMA AddBackLinked ==
  ASSUME NEW V, NEW q, GoodSqueue(q, V), NEW v \in V
  PROVE  /\ GoodSqueue(addBack(q, v), V)
         /\ Values(addBack(q, v)) = Append(Values(q), v)
<1> DEFINE n == malloc(q)
           r == addBack(q, v)
           s == q.order
           k == Len(s)
           N == DOMAIN q.node
<1>1. n \in Nat \ {NULL} /\ n \notin N
  BY MallocFresh
<1>2. /\ k \in Nat /\ s \in Seq(Nat \ {NULL})
      /\ \A i \in 1 .. k : s[i] \in Nat \ {NULL} /\ s[i] \in N
  BY OrderType DEF GoodSqueue, IsQueue
<1>3. isEmpty(q) <=> k = 0
  BY EmptyMeans
<1>4. /\ N = {s[i] : i \in 1 .. k}
      /\ \A i, j \in 1 .. k : s[i] = s[j] => i = j
      /\ q.first = IF k = 0 THEN NULL ELSE s[1]
      /\ q.last = IF k = 0 THEN NULL ELSE s[k]
      /\ \A i \in 1 .. k :
           /\ q.node[s[i]].next = IF i = k THEN NULL ELSE s[i + 1]
           /\ q.node[s[i]].prev = IF i = 1 THEN NULL ELSE s[i - 1]
  BY DEF GoodSqueue, Linked
<1>5. /\ q.first \in Nat /\ q.last \in Nat
      /\ \A m \in N : q.node[m] \in [val : V, next : Nat, prev : Nat]
  BY DEF GoodSqueue, IsQueue
<1>6. /\ DOMAIN r = {"first", "last", "node", "order"}
      /\ r.first = IF k = 0 THEN n ELSE q.first
      /\ r.last = n
      /\ r.order = Append(s, n)
      /\ DOMAIN r.node = N \cup {n}
  BY <1>3 DEF addBack
<1>7. \A m \in N \cup {n} : r.node[m] =
         IF m = n THEN [val |-> v, next |-> NULL, prev |-> q.last]
         ELSE IF m = q.last THEN [q.node[m] EXCEPT !.next = n]
         ELSE q.node[m]
  BY DEF addBack
<1>8. /\ Len(r.order) = k + 1
      /\ r.order[k + 1] = n
      /\ \A i \in 1 .. k : r.order[i] = s[i]
      /\ r.order \in Seq(Nat \ {NULL})
  BY <1>1, <1>2, <1>6
<1>9. IsQueue(r, V)
  <2>1. \A m \in N \cup {n} : r.node[m] \in [val : V, next : Nat, prev : Nat]
    <3> SUFFICES ASSUME NEW m \in N \cup {n}
                 PROVE  r.node[m] \in [val : V, next : Nat, prev : Nat]
      OBVIOUS
    <3>1. CASE m = n
      <4>1. [val |-> v, next |-> NULL, prev |-> q.last] \in [val : V, next : Nat, prev : Nat]
        BY <1>5 DEF NULL
      <4> QED
        BY <1>7, <3>1, <4>1
    <3>2. CASE m # n
      <4>1. q.node[m] \in [val : V, next : Nat, prev : Nat]
        BY <1>5, <3>2
      <4>2. [q.node[m] EXCEPT !.next = n] \in [val : V, next : Nat, prev : Nat]
        BY <1>1, <4>1
      <4> QED
        BY <1>7, <3>2, <4>1, <4>2
    <3> QED
      BY <3>1, <3>2
  <2>2. r.node \in [DOMAIN r.node -> [val : V, next : Nat, prev : Nat]]
    <3>1. r.node = [m \in DOMAIN r.node |-> r.node[m]]
      BY DEF addBack
    <3> QED
      BY <1>6, <2>1, <3>1
  <2>3. r.first \in Nat /\ r.last \in Nat
    BY <1>1, <1>5, <1>6
  <2> QED
    BY <1>6, <1>8, <2>2, <2>3 DEF IsQueue
<1>10. \A i \in 1 .. k : s[i] # n
  BY <1>1, <1>2
<1>11. \A i \in 1 .. k : s[i] = q.last <=> i = k
  BY <1>2, <1>4
<1>12. ASSUME NEW i \in 1 .. k
       PROVE  /\ r.node[s[i]].val = q.node[s[i]].val
              /\ r.node[s[i]].prev = q.node[s[i]].prev
              /\ r.node[s[i]].next = IF i = k THEN n ELSE q.node[s[i]].next
  <2>1. q.node[s[i]] \in [val : V, next : Nat, prev : Nat]
    BY <1>2, <1>5
  <2>2. r.node[s[i]] = IF i = k THEN [q.node[s[i]] EXCEPT !.next = n]
                                ELSE q.node[s[i]]
    BY <1>2, <1>7, <1>10, <1>11
  <2> QED
    BY <2>1, <2>2
<1>13. r.node[n] = [val |-> v, next |-> NULL, prev |-> q.last]
  BY <1>7
<1>14. Linked(r)
  <2>1. DOMAIN r.node = {r.order[i] : i \in 1 .. k + 1}
    <3>1. 1 .. k + 1 = (1 .. k) \cup {k + 1}
      BY <1>2
    <3>2. {r.order[i] : i \in 1 .. k + 1} = {r.order[i] : i \in 1 .. k} \cup {r.order[k + 1]}
      BY <3>1, Zenon
    <3>3. {r.order[i] : i \in 1 .. k} = {s[i] : i \in 1 .. k}
      BY <1>8
    <3>4. {r.order[i] : i \in 1 .. k + 1} = {s[i] : i \in 1 .. k} \cup {n}
      BY <1>8, <3>2, <3>3, Zenon
    <3> QED
      BY <1>4, <1>6, <3>4, Zenon
  <2>2. \A i, j \in 1 .. k + 1 : r.order[i] = r.order[j] => i = j
    <3> SUFFICES ASSUME NEW i \in 1 .. k + 1, NEW j \in 1 .. k + 1,
                        r.order[i] = r.order[j]
                 PROVE  i = j
      OBVIOUS
    <3>1. \A l \in 1 .. k + 1 : l = k + 1 \/ l \in 1 .. k
      BY <1>2
    <3>2. CASE i \in 1 .. k /\ j \in 1 .. k
      BY <1>4, <1>8, <3>2
    <3>3. CASE i = k + 1 \/ j = k + 1
      BY <1>8, <1>10, <3>1, <3>3
    <3> QED
      BY <3>1, <3>2, <3>3
  <2>3. r.first = r.order[1] /\ r.last = r.order[k + 1]
    BY <1>2, <1>4, <1>6, <1>8
  <2>4. ASSUME NEW i \in 1 .. k + 1
        PROVE  /\ r.node[r.order[i]].next =
                    IF i = k + 1 THEN NULL ELSE r.order[i + 1]
               /\ r.node[r.order[i]].prev = IF i = 1 THEN NULL ELSE r.order[i - 1]
    <3>1. CASE i = k + 1
      <4>1. r.order[i] = n
        BY <1>8, <3>1
      <4>2. CASE k = 0
        BY <1>4, <1>13, <3>1, <4>1, <4>2
      <4>3. CASE k # 0
        <5>1. k \in 1 .. k /\ i - 1 = k /\ i # 1
          BY <1>2, <3>1, <4>3
        <5>2. r.order[i - 1] = s[k]
          BY <1>8, <5>1
        <5> QED
          BY <1>4, <1>13, <3>1, <4>1, <4>3, <5>1, <5>2
      <4> QED
        BY <4>2, <4>3
    <3>2. CASE i # k + 1
      <4>1. i \in 1 .. k
        BY <1>2, <3>2
      <4>2. r.order[i + 1] = IF i = k THEN n ELSE s[i + 1]
        <5>1. i # k => i + 1 \in 1 .. k
          BY <1>2, <4>1
        <5> QED
          BY <1>8, <5>1
      <4>3. i # 1 => r.order[i - 1] = s[i - 1]
        <5>1. i # 1 => i - 1 \in 1 .. k
          BY <1>2, <4>1
        <5> QED
          BY <1>8, <5>1
      <4>4. r.order[i] = s[i]
        BY <1>8, <4>1
      <4>5. /\ q.node[s[i]].next = IF i = k THEN NULL ELSE s[i + 1]
            /\ q.node[s[i]].prev = IF i = 1 THEN NULL ELSE s[i - 1]
        BY <1>4, <4>1
      <4>6. /\ r.node[s[i]].prev = q.node[s[i]].prev
            /\ r.node[s[i]].next = IF i = k THEN n ELSE q.node[s[i]].next
        BY <1>12, <4>1
      <4> HIDE DEF n, r, s, k
      <4>7. r.node[r.order[i]].next = r.order[i + 1]
        BY <4>2, <4>4, <4>5, <4>6, Zenon
      <4>8. r.node[r.order[i]].prev = IF i = 1 THEN NULL ELSE r.order[i - 1]
        BY <4>3, <4>4, <4>5, <4>6, Zenon
      <4> QED
        BY <3>2, <4>7, <4>8, Zenon
    <3> QED
      BY <3>1, <3>2
  <2> QED
    BY <1>2, <1>8, <2>1, <2>2, <2>3, <2>4 DEF Linked
<1>15. Values(r) = Append(Values(q), v)
  <2>1. Values(q) \in Seq(V) /\ Len(Values(q)) = k
    BY ValuesType
  <2>2. Values(r) \in Seq(V) /\ Len(Values(r)) = k + 1
    BY <1>8, <1>9, <1>14, ValuesType DEF GoodSqueue
  <2>3. /\ Append(Values(q), v) \in Seq(V) /\ Len(Append(Values(q), v)) = k + 1
        /\ Append(Values(q), v)[k + 1] = v
        /\ \A i \in 1 .. k : Append(Values(q), v)[i] = Values(q)[i]
    BY <1>2, <2>1
  <2>4. \A i \in 1 .. k + 1 : Values(r)[i] = r.node[r.order[i]].val
    BY <1>8 DEF Values
  <2>5. \A i \in 1 .. k : Values(r)[i] = Values(q)[i]
    <3> SUFFICES ASSUME NEW i \in 1 .. k
                 PROVE  Values(r)[i] = Values(q)[i]
      OBVIOUS
    <3>1. Values(q)[i] = q.node[s[i]].val
      BY DEF Values
    <3>2. i \in 1 .. k + 1 /\ r.order[i] = s[i]
      BY <1>2, <1>8
    <3> QED
      BY <1>12, <2>4, <3>1, <3>2
  <2>6. Values(r)[k + 1] = v
    BY <1>2, <1>8, <1>13, <2>4
  <2>7. \A i \in 1 .. k + 1 : i = k + 1 \/ i \in 1 .. k
    BY <1>2
  <2> QED
    BY <2>2, <2>3, <2>5, <2>6, <2>7, SeqEqual
<1> QED
  BY <1>9, <1>14, <1>15 DEF GoodSqueue

-----------------------------------------------------------------------------
(* peekFront and leaveFront *)

LEMMA PeekFront ==
  ASSUME NEW V, NEW q, GoodSqueue(q, V), ~isEmpty(q)
  PROVE  peekFront(q) \in V /\ peekFront(q) = Values(q)[1]
<1>1. Len(q.order) # 0 /\ 1 \in 1 .. Len(q.order)
  BY EmptyMeans, OrderType
<1>2. q.first = q.order[1]
  BY <1>1 DEF GoodSqueue, Linked
<1>3. Values(q)[1] = q.node[q.order[1]].val
  BY <1>1 DEF Values
<1>4. Values(q)[1] \in V
  BY <1>1, ValuesType
<1> QED
  BY <1>2, <1>3, <1>4 DEF peekFront

LEMMA Ends ==
  ASSUME NEW n \in Nat \ {0}
  PROVE  /\ 1 \in 1 .. n /\ n \in 1 .. n
         /\ n # 1 => 2 \in 1 .. n /\ n > 1 /\ n \in Nat
         /\ n # 1 => /\ n - 1 \in 1 .. n /\ n - 1 # n
                     /\ 1 \in 1 .. n - 1 /\ n - 1 \in 1 .. n - 1
  OBVIOUS

\* The first node goes, the second loses its predecessor.
LEMMA LeaveFrontLinked ==
  ASSUME NEW V, NEW q, GoodSqueue(q, V), ~isEmpty(q)
  PROVE  /\ GoodSqueue(leaveFront(q), V)
         /\ Values(leaveFront(q)) = Tail(Values(q))
<1> DEFINE r == leaveFront(q)
           s == q.order
           k == Len(s)
           N == DOMAIN q.node
<1>1. /\ k \in Nat \ {0} /\ s \in Seq(Nat \ {NULL})
      /\ \A i \in 1 .. k : s[i] \in Nat \ {NULL} /\ s[i] \in N
  BY EmptyMeans, OrderType DEF GoodSqueue, IsQueue
<1>2. /\ N = {s[i] : i \in 1 .. k}
      /\ \A i, j \in 1 .. k : s[i] = s[j] => i = j
      /\ q.first = s[1] /\ q.last = s[k]
      /\ \A i \in 1 .. k :
           /\ q.node[s[i]].next = IF i = k THEN NULL ELSE s[i + 1]
           /\ q.node[s[i]].prev = IF i = 1 THEN NULL ELSE s[i - 1]
  BY <1>1 DEF GoodSqueue, Linked
<1>3. Values(q) \in Seq(V) /\ Len(Values(q)) = k
  BY ValuesType
<1>4. q.first = q.last <=> k = 1
  <2>1. 1 \in 1 .. k /\ k \in 1 .. k
    BY <1>1, Ends
  <2> QED
    BY <1>2, <2>1
<1>5. CASE k = 1
  <2>1. r = initSqueue
    BY <1>4, <1>5 DEF leaveFront
  <2>2. Tail(Values(q)) \in Seq(V) /\ Len(Tail(Values(q))) = 0
    BY <1>3, <1>5
  <2>3. Tail(Values(q)) = <<>>
    <3>1. <<>> \in Seq(V) /\ Len(<<>>) = 0 /\ 1 .. 0 = {}
      OBVIOUS
    <3> QED
      BY <2>2, <3>1, SeqEqual
  <2> QED
    BY <2>1, <2>3, InitSqueue
<1>6. CASE k # 1
  <2>0. 1 \in 1 .. k /\ 2 \in 1 .. k /\ k \in 1 .. k /\ k > 1 /\ k \in Nat
    BY <1>1, <1>6, Ends
  <2>1. q.node[q.first].next = s[2]
    BY <1>2, <1>6, <2>0
  <2>2. /\ DOMAIN r = {"first", "last", "node", "order"}
        /\ r.first = s[2] /\ r.last = s[k] /\ r.order = Tail(s)
        /\ DOMAIN r.node = N \ {s[1]}
        /\ r.node = [m \in N \ {s[1]} |-> IF m = s[2] THEN [q.node[m] EXCEPT !.prev = NULL]
                                                      ELSE q.node[m]]
    BY <1>2, <1>4, <1>6, <2>1 DEF leaveFront
  <2>3. /\ Len(r.order) = k - 1
        /\ \A i \in 1 .. k - 1 : r.order[i] = s[i + 1] /\ i + 1 \in 1 .. k
        /\ r.order \in Seq(Nat \ {NULL})
    BY <1>1, <2>0, <2>2
  <2>4. \A m \in N : q.node[m] \in [val : V, next : Nat, prev : Nat]
    BY DEF GoodSqueue, IsQueue
  <2>5. IsQueue(r, V)
    <3>1. ASSUME NEW m \in N
          PROVE  /\ q.node[m] \in [val : V, next : Nat, prev : Nat]
                 /\ [q.node[m] EXCEPT !.prev = NULL] \in [val : V, next : Nat, prev : Nat]
      BY <2>4 DEF NULL
    <3>2. r.node \in [DOMAIN r.node -> [val : V, next : Nat, prev : Nat]]
      BY <2>2, <3>1
    <3>3. r.first \in Nat /\ r.last \in Nat
      BY <1>1, <2>0, <2>2
    <3> QED
      BY <2>2, <2>3, <3>2, <3>3 DEF IsQueue
  <2>6. ASSUME NEW i \in 1 .. k - 1
        PROVE  /\ s[i + 1] \in DOMAIN r.node
               /\ r.node[s[i + 1]].val = q.node[s[i + 1]].val
               /\ r.node[s[i + 1]].next = q.node[s[i + 1]].next
               /\ r.node[s[i + 1]].prev = IF i = 1 THEN NULL ELSE q.node[s[i + 1]].prev
    <3>1. i + 1 \in 1 .. k /\ i + 1 # 1 /\ (i + 1 = 2 <=> i = 1)
      BY <1>1
    <3>2. s[i + 1] \in N \ {s[1]} /\ (s[i + 1] = s[2] <=> i = 1)
      BY <1>1, <1>2, <2>0, <3>1
    <3>3. q.node[s[i + 1]] \in [val : V, next : Nat, prev : Nat]
      BY <2>4, <3>2
    <3>4. r.node[s[i + 1]] = IF i = 1 THEN [q.node[s[i + 1]] EXCEPT !.prev = NULL]
                                      ELSE q.node[s[i + 1]]
      BY <2>2, <3>2
    <3> QED
      BY <2>2, <3>2, <3>3, <3>4
  <2>7. Linked(r)
    <3>1. DOMAIN r.node = {r.order[i] : i \in 1 .. k - 1}
      <4>1. \A j \in 1 .. k : j = 1 \/ (j - 1 \in 1 .. k - 1 /\ (j - 1) + 1 = j)
        BY <1>1
      <4>2. \A m \in N \ {s[1]} : \E i \in 1 .. k - 1 : m = s[i + 1]
        BY <1>2, <4>1
      <4>3. \A i \in 1 .. k - 1 : s[i + 1] \in N \ {s[1]}
        BY <2>2, <2>6
      <4>4. {r.order[i] : i \in 1 .. k - 1} = {s[i + 1] : i \in 1 .. k - 1}
        BY <2>3
      <4> QED
        BY <2>2, <4>2, <4>3, <4>4
    <3>2. \A i, j \in 1 .. k - 1 : r.order[i] = r.order[j] => i = j
      <4> SUFFICES ASSUME NEW i \in 1 .. k - 1, NEW j \in 1 .. k - 1, r.order[i] = r.order[j]
                   PROVE  i = j
        OBVIOUS
      <4>1. s[i + 1] = s[j + 1] /\ i + 1 \in 1 .. k /\ j + 1 \in 1 .. k
        BY <2>3
      <4>2. i + 1 = j + 1
        BY <1>2, <4>1
      <4> QED
        BY <1>1, <4>2
    <3>3. r.first = r.order[1] /\ r.last = r.order[k - 1] /\ k - 1 # 0
      BY <1>1, <2>0, <2>2, <2>3
    <3>4. ASSUME NEW i \in 1 .. k - 1
          PROVE  /\ r.node[r.order[i]].next = IF i = k - 1 THEN NULL ELSE r.order[i + 1]
                 /\ r.node[r.order[i]].prev = IF i = 1 THEN NULL ELSE r.order[i - 1]
      <4>1. r.order[i] = s[i + 1] /\ i + 1 \in 1 .. k /\ i + 1 # 1
        <5>1. r.order[i] = s[i + 1] /\ i + 1 \in 1 .. k
          BY <2>3
        <5>2. i \in Nat /\ i # 0
          BY <2>0
        <5> QED
          BY <5>1, <5>2
      <4>2. i # k - 1 => i + 1 \in 1 .. k - 1 /\ i + 1 # k /\ r.order[i + 1] = s[(i + 1) + 1]
        <5> SUFFICES ASSUME i # k - 1
                     PROVE  i + 1 \in 1 .. k - 1 /\ i + 1 # k /\ r.order[i + 1] = s[(i + 1) + 1]
          OBVIOUS
        <5>1. i + 1 \in 1 .. k - 1 /\ i + 1 # k
          BY <2>0
        <5> QED
          BY <2>3, <5>1
      <4>3. i # 1 => r.order[i - 1] = s[(i + 1) - 1]
        <5> SUFFICES ASSUME i # 1
                     PROVE  r.order[i - 1] = s[(i + 1) - 1]
          OBVIOUS
        <5>1. i - 1 \in 1 .. k - 1 /\ (i - 1) + 1 = (i + 1) - 1
          BY <2>0
        <5> QED
          BY <2>3, <5>1
      <4>4. i = k - 1 => i + 1 = k
        BY <1>1
      <4>5. q.node[s[i + 1]].next = IF i + 1 = k THEN NULL ELSE s[(i + 1) + 1]
        BY <1>2, <4>1
      <4>6. q.node[s[i + 1]].prev = s[(i + 1) - 1]
        BY <1>2, <4>1
      <4>7. r.node[r.order[i]].next = IF i = k - 1 THEN NULL ELSE r.order[i + 1]
        BY <2>6, <4>1, <4>2, <4>4, <4>5
      <4>8. r.node[r.order[i]].prev = IF i = 1 THEN NULL ELSE r.order[i - 1]
        BY <2>6, <4>1, <4>3, <4>6
      <4> QED
        BY <4>7, <4>8, Zenon
    <3> QED
      BY <2>3, <3>1, <3>2, <3>3, <3>4 DEF Linked
  <2>8. Values(r) = Tail(Values(q))
    <3>1. Values(r) \in Seq(V) /\ Len(Values(r)) = k - 1
      BY <2>3, <2>5, <2>7, ValuesType DEF GoodSqueue
    <3>2. /\ Tail(Values(q)) \in Seq(V) /\ Len(Tail(Values(q))) = k - 1
          /\ \A i \in 1 .. k - 1 : Tail(Values(q))[i] = Values(q)[i + 1]
      BY <1>1, <1>3, <2>0
    <3>3. ASSUME NEW i \in 1 .. k - 1
          PROVE  Values(r)[i] = Values(q)[i + 1]
      <4>1. Values(r)[i] = r.node[r.order[i]].val
        BY <2>3 DEF Values
      <4>2. i + 1 \in 1 .. k /\ r.order[i] = s[i + 1]
        BY <2>3
      <4>3. Values(q)[i + 1] = q.node[s[i + 1]].val
        BY <4>2 DEF Values
      <4> QED
        BY <2>6, <4>1, <4>2, <4>3
    <3> QED
      BY <3>1, <3>2, <3>3, SeqEqual
  <2> QED
    BY <2>5, <2>7, <2>8 DEF GoodSqueue
<1> QED
  BY <1>5, <1>6

LEMMA ButLast ==
  ASSUME NEW S, NEW s \in Seq(S), Len(s) > 0
  PROVE  /\ SubSeq(s, 1, Len(s) - 1) \in Seq(S)
         /\ Len(SubSeq(s, 1, Len(s) - 1)) = Len(s) - 1
         /\ \A i \in 1 .. Len(s) - 1 : SubSeq(s, 1, Len(s) - 1)[i] = s[i]
<1> DEFINE k == Len(s) - 1
<1>1. k \in Nat /\ k + 1 = Len(s)
  OBVIOUS
<1>2. \A i \in 1 .. k : s[i] \in S
  BY <1>1
<1>3. SubSeq(s, 1, k) = [i \in 1 .. k |-> s[i]]
  BY <1>1
<1>4. SubSeq(s, 1, k) \in Seq(S)
  BY <1>1, <1>2, <1>3
<1>5. Len(SubSeq(s, 1, k)) = k
  BY <1>1, <1>3
<1> QED
  BY <1>3, <1>4, <1>5

\* The last node goes, the one before it loses its successor.
LEMMA LeaveBackLinked ==
  ASSUME NEW V, NEW q, GoodSqueue(q, V), ~isEmpty(q)
  PROVE  /\ GoodSqueue(leaveBack(q), V)
         /\ \A i \in 1 .. Len(q.order) - 1 : Values(leaveBack(q))[i] = Values(q)[i]
         /\ Len(Values(leaveBack(q))) = Len(Values(q)) - 1
<1> DEFINE r == leaveBack(q)
           s == q.order
           k == Len(s)
           N == DOMAIN q.node
<1>1. /\ k \in Nat \ {0} /\ s \in Seq(Nat \ {NULL})
      /\ \A i \in 1 .. k : s[i] \in Nat \ {NULL} /\ s[i] \in N
  BY EmptyMeans, OrderType DEF GoodSqueue, IsQueue
<1>2. /\ N = {s[i] : i \in 1 .. k}
      /\ \A i, j \in 1 .. k : s[i] = s[j] => i = j
      /\ q.first = s[1] /\ q.last = s[k]
      /\ \A i \in 1 .. k :
           /\ q.node[s[i]].next = IF i = k THEN NULL ELSE s[i + 1]
           /\ q.node[s[i]].prev = IF i = 1 THEN NULL ELSE s[i - 1]
  BY <1>1 DEF GoodSqueue, Linked
<1>3. Len(Values(q)) = k
  BY ValuesType
<1>4. q.first = q.last <=> k = 1
  <2>1. 1 \in 1 .. k /\ k \in 1 .. k
    BY <1>1, Ends
  <2> QED
    BY <1>2, <2>1
<1>5. CASE k = 1
  <2>1. r = initSqueue
    BY <1>4, <1>5 DEF leaveBack
  <2>2. GoodSqueue(initSqueue, V) /\ Len(Values(initSqueue)) = 0
    BY InitSqueue
  <2>3. 1 .. k - 1 = {}
    BY <1>5
  <2> QED
    BY <1>3, <1>5, <2>1, <2>2, <2>3
<1>6. CASE k # 1
  <2>0. /\ 1 \in 1 .. k /\ k \in 1 .. k /\ k - 1 \in 1 .. k /\ k - 1 # k /\ k > 1 /\ k \in Nat
        /\ 1 \in 1 .. k - 1 /\ k - 1 \in 1 .. k - 1
    BY <1>1, <1>6, Ends
  <2>1. q.node[q.last].prev = s[k - 1]
    BY <1>2, <1>6, <2>0
  <2>2. /\ DOMAIN r = {"first", "last", "node", "order"}
        /\ r.first = s[1] /\ r.last = s[k - 1] /\ r.order = SubSeq(s, 1, k - 1)
        /\ DOMAIN r.node = N \ {s[k]}
        /\ r.node = [m \in N \ {s[k]} |-> IF m = s[k - 1] THEN [q.node[m] EXCEPT !.next = NULL]
                                                          ELSE q.node[m]]
    BY <1>2, <1>4, <1>6, <2>1 DEF leaveBack
  <2>3. /\ Len(r.order) = k - 1
        /\ \A i \in 1 .. k - 1 : r.order[i] = s[i] /\ i \in 1 .. k
        /\ r.order \in Seq(Nat \ {NULL})
    <3>1. /\ SubSeq(s, 1, k - 1) \in Seq(Nat \ {NULL}) /\ Len(SubSeq(s, 1, k - 1)) = k - 1
          /\ \A i \in 1 .. k - 1 : SubSeq(s, 1, k - 1)[i] = s[i]
      BY <1>1, <2>0, ButLast
    <3>2. \A i \in 1 .. k - 1 : i \in 1 .. k
      BY <2>0
    <3> QED
      BY <2>2, <3>1, <3>2
  <2>4. \A m \in N : q.node[m] \in [val : V, next : Nat, prev : Nat]
    BY DEF GoodSqueue, IsQueue
  <2>5. IsQueue(r, V)
    <3>1. ASSUME NEW m \in N
          PROVE  /\ q.node[m] \in [val : V, next : Nat, prev : Nat]
                 /\ [q.node[m] EXCEPT !.next = NULL] \in [val : V, next : Nat, prev : Nat]
      BY <2>4 DEF NULL
    <3>2. r.node \in [DOMAIN r.node -> [val : V, next : Nat, prev : Nat]]
      BY <2>2, <3>1
    <3>3. r.first \in Nat /\ r.last \in Nat
      BY <1>1, <2>0, <2>2
    <3> QED
      BY <2>2, <2>3, <3>2, <3>3 DEF IsQueue
  <2>6. ASSUME NEW i \in 1 .. k - 1
        PROVE  /\ s[i] \in DOMAIN r.node
               /\ r.node[s[i]].val = q.node[s[i]].val
               /\ r.node[s[i]].prev = q.node[s[i]].prev
               /\ r.node[s[i]].next = IF i = k - 1 THEN NULL ELSE q.node[s[i]].next
    <3>1. i \in 1 .. k /\ i # k
      BY <1>1
    <3>2. s[i] \in N \ {s[k]} /\ (s[i] = s[k - 1] <=> i = k - 1)
      BY <1>1, <1>2, <2>0, <3>1
    <3>3. q.node[s[i]] \in [val : V, next : Nat, prev : Nat]
      BY <2>4, <3>2
    <3>4. r.node[s[i]] = IF i = k - 1 THEN [q.node[s[i]] EXCEPT !.next = NULL]
                                      ELSE q.node[s[i]]
      BY <2>2, <3>2
    <3> QED
      BY <2>2, <3>2, <3>3, <3>4
  <2>7. Linked(r)
    <3>1. DOMAIN r.node = {r.order[i] : i \in 1 .. k - 1}
      <4>1. \A j \in 1 .. k : j = k \/ j \in 1 .. k - 1
        BY <1>1
      <4>2. \A m \in N \ {s[k]} : \E i \in 1 .. k - 1 : m = s[i]
        BY <1>2, <4>1
      <4>3. \A i \in 1 .. k - 1 : s[i] \in N \ {s[k]}
        BY <2>2, <2>6
      <4>4. {r.order[i] : i \in 1 .. k - 1} = {s[i] : i \in 1 .. k - 1}
        BY <2>3
      <4>5. N \ {s[k]} = {s[i] : i \in 1 .. k - 1}
        BY <4>2, <4>3, Zenon
      <4> QED
        BY <2>2, <4>4, <4>5, Zenon
    <3>2. \A i, j \in 1 .. k - 1 : r.order[i] = r.order[j] => i = j
      BY <1>2, <2>3
    <3>3. r.first = r.order[1] /\ r.last = r.order[k - 1] /\ k - 1 # 0
      BY <1>1, <2>0, <2>2, <2>3
    <3>4. ASSUME NEW i \in 1 .. k - 1
          PROVE  /\ r.node[r.order[i]].next = IF i = k - 1 THEN NULL ELSE r.order[i + 1]
                 /\ r.node[r.order[i]].prev = IF i = 1 THEN NULL ELSE r.order[i - 1]
      <4>1. r.order[i] = s[i] /\ i \in 1 .. k /\ i # k
        BY <2>0, <2>3
      <4>2. i # k - 1 => i + 1 \in 1 .. k - 1 /\ r.order[i + 1] = s[i + 1]
        <5>1. i # k - 1 => i + 1 \in 1 .. k - 1
          BY <1>1
        <5> QED
          BY <2>3, <5>1
      <4>3. i # 1 => i - 1 \in 1 .. k - 1 /\ r.order[i - 1] = s[i - 1]
        <5>1. i # 1 => i - 1 \in 1 .. k - 1
          BY <1>1
        <5> QED
          BY <2>3, <5>1
      <4>4. q.node[s[i]].next = s[i + 1] /\ q.node[s[i]].prev = IF i = 1 THEN NULL ELSE s[i - 1]
        BY <1>2, <4>1
      <4>5. /\ r.node[s[i]].prev = q.node[s[i]].prev
            /\ r.node[s[i]].next = IF i = k - 1 THEN NULL ELSE q.node[s[i]].next
        BY <2>6
      <4>6. r.node[r.order[i]].next = IF i = k - 1 THEN NULL ELSE r.order[i + 1]
        BY <4>1, <4>2, <4>4, <4>5, Zenon
      <4>7. r.node[r.order[i]].prev = IF i = 1 THEN NULL ELSE r.order[i - 1]
        BY <4>1, <4>3, <4>4, <4>5, Zenon
      <4> QED
        BY <4>6, <4>7, Zenon
    <3>5. Len(r.order) = k - 1
      BY <2>3
    <3> HIDE DEF r, s, k, N
    <3> QED
      BY <3>1, <3>2, <3>3, <3>4, <3>5 DEF Linked
  <2>8. ASSUME NEW i \in 1 .. k - 1
        PROVE  Values(r)[i] = Values(q)[i]
    <3>1. Values(r)[i] = r.node[r.order[i]].val
      BY <2>3 DEF Values
    <3>2. i \in 1 .. k /\ r.order[i] = s[i]
      BY <2>3
    <3>3. Values(q)[i] = q.node[s[i]].val
      BY <3>2 DEF Values
    <3> QED
      BY <2>6, <3>1, <3>2, <3>3
  <2>9. Len(Values(r)) = k - 1
    BY <2>3, <2>5, <2>7, ValuesType DEF GoodSqueue
  <2> QED
    BY <1>3, <2>5, <2>7, <2>8, <2>9 DEF GoodSqueue
<1> QED
  BY <1>5, <1>6
-----------------------------------------------------------------------------
(* Induction over a set of numbers, and functions defined by recursion on the *)
(* numbers from 0 to n, for what a loop computes step by step.                *)

LEMMA LeastOf ==
  ASSUME NEW S \in SUBSET Nat, S # {}
  PROVE  \E n \in S : \A m \in S : n <= m
<1> DEFINE R == {ss \in Nat \X Nat : ss[1] < ss[2]}
<1>1. IsWellFoundedOn(R, Nat)
  <2>1. R = OpToRel(<, Nat)
    BY DEF OpToRel
  <2> QED
    BY <2>1, NatLessThanWellFounded
<1>2. \A m, n \in Nat : <<m, n>> \in R <=> m < n
  OBVIOUS
<1> HIDE DEF R
<1>3. PICK n \in S : \A m \in S : ~ (<<m, n>> \in R)
  BY <1>1, WFMin
<1>4. ASSUME NEW m \in S
      PROVE  n <= m
  <2>1. m \in Nat /\ n \in Nat /\ ~ (m < n)
    BY <1>2, <1>3
  <2> QED
    BY <2>1
<1> QED
  BY <1>3, <1>4

LEMMA InductionSet ==
  ASSUME NEW S, 0 \in S, \A n \in Nat : n \in S => n + 1 \in S
  PROVE  \A n \in Nat : n \in S
<1> DEFINE R == Nat \ S
<1>1. SUFFICES ASSUME R # {}
               PROVE  FALSE
  OBVIOUS
<1>2. PICK n \in R : \A m \in R : n <= m
  BY <1>1, LeastOf
<1>3. n # 0 /\ n - 1 \in Nat /\ ~(n <= n - 1) /\ (n - 1) + 1 = n
  BY <1>2
<1>4. n - 1 \in S
  BY <1>2, <1>3
<1> QED
  BY <1>2, <1>3, <1>4

\* A function that a loop of n rounds computes, from s on, by g.
Computes(f, n, s, g) ==
  /\ f[0] = s
  /\ \A i \in 1 .. n : f[i] = g[<<i, f[i - 1]>>]

LEMMA LoopExists ==
  ASSUME NEW A, NEW s \in A, NEW n \in Nat, NEW g \in [(1 .. n) \X A -> A]
  PROVE  \E f \in [0 .. n -> A] : Computes(f, n, s, g)
<1> DEFINE S == {k \in Nat : k <= n => \E f \in [0 .. k -> A] : Computes(f, k, s, g)}
<1>1. 0 \in S
  <2> DEFINE f == [i \in 0 .. 0 |-> s]
  <2>1. f \in [0 .. 0 -> A] /\ f[0] = s
    OBVIOUS
  <2>2. \A i \in 1 .. 0 : FALSE
    OBVIOUS
  <2>3. Computes(f, 0, s, g)
    BY <2>1, <2>2 DEF Computes
  <2> QED
    BY <2>1, <2>3
<1>2. ASSUME NEW k \in Nat, k \in S
      PROVE  k + 1 \in S
  <2> SUFFICES ASSUME k + 1 <= n
               PROVE  \E f \in [0 .. k + 1 -> A] : Computes(f, k + 1, s, g)
    OBVIOUS
  <2>1. k <= n /\ k + 1 \in 1 .. n /\ k \in 0 .. k
    OBVIOUS
  <2>2. PICK f \in [0 .. k -> A] : Computes(f, k, s, g)
    BY <1>2, <2>1
  <2> DEFINE h == [i \in 0 .. k + 1 |-> IF i = k + 1 THEN g[<<k + 1, f[k]>>] ELSE f[i]]
  <2>3. g[<<k + 1, f[k]>>] \in A
    BY <2>1
  <2>4. \A i \in 0 .. k + 1 : i # k + 1 => i \in 0 .. k
    OBVIOUS
  <2>5. h \in [0 .. k + 1 -> A]
    BY <2>3, <2>4
  <2>6. h[k + 1] = g[<<k + 1, f[k]>>] /\ \A i \in 0 .. k : h[i] = f[i]
    OBVIOUS
  <2> HIDE DEF h
  <2>7. h[0] = s
    BY <2>2, <2>6 DEF Computes
  <2>8. ASSUME NEW i \in 1 .. k + 1
        PROVE  h[i] = g[<<i, h[i - 1]>>]
    <3>1. CASE i = k + 1
      <4>1. i - 1 = k /\ k \in 0 .. k
        BY <3>1
      <4> QED
        BY <2>6, <3>1, <4>1
    <3>2. CASE i # k + 1
      <4>1. i \in 1 .. k /\ i \in 0 .. k /\ i - 1 \in 0 .. k
        BY <3>2
      <4> QED
        BY <2>2, <2>6, <4>1 DEF Computes
    <3> QED
      BY <3>1, <3>2
  <2> QED
    BY <2>5, <2>7, <2>8 DEF Computes
<1> HIDE DEF S
<1>3. n \in S
  BY <1>1, <1>2, InductionSet
<1> QED
  BY <1>3 DEF S

\* print() walks along the next pointers and so prints the values in order.
LEMMA PrintIsValues ==
  ASSUME NEW V, NEW q, GoodSqueue(q, V)
  PROVE  print(q) = Values(q)
<1> DEFINE D == DOMAIN q.node
           n == Len(q.order)
           go(a) == [i \in 1 .. Cardinality(D) |->
                       IF i = 1 THEN q.first ELSE q.node[a[i - 1]].next]
           at == CHOOSE a : a = go(a)
<1>1. n \in Nat /\ Cardinality(D) = n
  <2> DEFINE f == [i \in 1 .. n |-> q.order[i]]
  <2>1. n \in Nat /\ IsFiniteSet(1 .. n) /\ Cardinality(1 .. n) = n
    BY OrderType, FS_Interval
  <2>2. f \in Surjection(1 .. n, D)
    BY OrderType DEF Surjection, GoodSqueue, Linked
  <2>3. f \in Injection(1 .. n, D)
    <3>1. f \in [1 .. n -> D]
      BY <2>2 DEF Surjection
    <3>2. \A i, j \in 1 .. n : q.order[i] = q.order[j] => i = j
      BY DEF GoodSqueue, Linked
    <3>3. \A i, j \in 1 .. n : f[i] = f[j] => i = j
      BY <3>2
    <3> HIDE DEF f
    <3>4. IsInjective(f)
      BY <3>1, <3>3 DEF IsInjective
    <3> QED
      BY <3>1, <3>4 DEF Injection
  <2> HIDE DEF f, n
  <2> QED
    BY <2>1, <2>2, <2>3, FS_Surjection
<1>2. /\ \A i \in 1 .. n : i = 1 => q.first = q.order[i]
      /\ \A i \in 1 .. n : i # 1 => i - 1 \in 1 .. n /\ q.node[q.order[i - 1]].next = q.order[i]
  <2>1. \A i \in 1 .. n : i # 1 => i - 1 \in 1 .. n /\ i - 1 # n /\ (i - 1) + 1 = i
    BY <1>1
  <2>2. \A i \in 1 .. n : n # 0
    BY <1>1
  <2> QED
    BY <2>1, <2>2 DEF GoodSqueue, Linked
<1>3. at = go(at)
  <2> DEFINE a == [i \in 1 .. n |-> q.order[i]]
  <2>1. \A i \in 1 .. n : i # 1 => a[i - 1] = q.order[i - 1]
    BY <1>2
  <2>2. \A i \in 1 .. n :
          q.order[i] = IF i = 1 THEN q.first ELSE q.node[a[i - 1]].next
    BY <1>2, <2>1
  <2> HIDE DEF n
  <2>3. a = go(a)
    BY <1>1, <2>2
  <2> HIDE DEF go, a
  <2> QED
    BY <2>3
<1>4. \A i \in 1 .. n : at[i] = IF i = 1 THEN q.first ELSE q.node[at[i - 1]].next
  <2> HIDE DEF n, at
  <2> QED
    BY <1>1, <1>3
<1>5. DOMAIN at = 1 .. n
  <2> HIDE DEF n, at
  <2> QED
    BY <1>1, <1>3
<1>6. \A i \in 1 .. n : at[i] = q.order[i]
  <2> HIDE DEF n, at
  <2> DEFINE S == {k \in Nat : k \in 1 .. n => at[k] = q.order[k]}
  <2>1. 0 \in S
    OBVIOUS
  <2>2. ASSUME NEW k \in Nat, k \in S
        PROVE  k + 1 \in S
    <3> SUFFICES ASSUME k + 1 \in 1 .. n
                 PROVE  at[k + 1] = q.order[k + 1]
      OBVIOUS
    <3>1. CASE k = 0
      BY <1>2, <1>4, <3>1
    <3>2. CASE k # 0
      <4>1. k \in 1 .. n /\ (k + 1) - 1 = k /\ k + 1 # 1
        BY <1>1, <3>2
      <4> QED
        BY <1>2, <1>4, <2>2, <4>1
    <3> QED
      BY <3>1, <3>2
  <2> HIDE DEF S
  <2>3. \A k \in Nat : k \in S
    BY <2>1, <2>2, InductionSet
  <2>4. \A k \in 1 .. n : k \in Nat
    BY <1>1
  <2> QED
    BY <2>3, <2>4 DEF S
<1>7. print(q) = [i \in DOMAIN at |-> q.node[at[i]].val]
  BY DEF print
<1> HIDE DEF at
<1> QED
  BY <1>5, <1>6, <1>7 DEF Values

-----------------------------------------------------------------------------
(* Characters and their bits. *)

LEMMA EightLong ==
  ASSUME NEW S, NEW b \in [1 .. 8 -> S]
  PROVE  b \in Seq(S) /\ Len(b) = 8
<1>1. b \in Seq(S)
  BY SeqDef
<1>2. DOMAIN b = 1 .. 8
  OBVIOUS
<1> QED
  BY <1>1, <1>2, LenProperties

LEMMA EightSteps ==
  ASSUME NEW n \in Nat, NEW j \in Nat
  PROVE  (8 * n + j) \div 8 = n + j \div 8 /\ (8 * n + j) % 8 = j % 8
<1>1. PICK q \in Nat, r \in 0 .. 7 : j = 8 * q + r
  <2> WITNESS j \div 8 \in Nat, j % 8 \in 0 .. 7
  <2> QED
    OBVIOUS
<1>2. j \div 8 = q /\ j % 8 = r
  BY <1>1
<1>3. 8 * n + j = 8 * (n + q) + r /\ n + q \in Nat
  BY <1>1
<1>4. (8 * n + j) \div 8 = n + q /\ (8 * n + j) % 8 = r
  BY <1>3
<1> QED
  BY <1>2, <1>4

\* A sequence is the concatenation of two that has their elements.
LEMMA ConcatIs ==
  ASSUME NEW S, NEW x \in Seq(S), NEW y \in Seq(S), NEW z \in Seq(S),
         Len(z) = Len(x) + Len(y),
         \A k \in 1 .. Len(x) : z[k] = x[k],
         \A k \in 1 .. Len(y) : z[Len(x) + k] = y[k]
  PROVE  x \o y = z
<1>1. /\ Len(x) \in Nat /\ Len(y) \in Nat
      /\ x \o y \in Seq(S) /\ Len(x \o y) = Len(z)
      /\ \A k \in 1 .. Len(x) : (x \o y)[k] = x[k]
      /\ \A k \in 1 .. Len(y) : (x \o y)[Len(x) + k] = y[k]
  OBVIOUS
<1>2. ASSUME NEW k \in 1 .. Len(z)
      PROVE  (x \o y)[k] = z[k]
  <2>1. CASE k \in 1 .. Len(x)
    BY <1>1, <2>1
  <2>2. CASE k \notin 1 .. Len(x)
    <3>1. k - Len(x) \in 1 .. Len(y) /\ Len(x) + (k - Len(x)) = k
      BY <1>1, <2>2
    <3> QED
      BY <1>1, <3>1
  <2> QED
    BY <2>1, <2>2
<1> QED
  BY <1>1, <1>2

LEMMA Halves ==
  ASSUME NEW c \in 0 .. 255
  PROVE  /\ c = 2 * (c \div 2) + (c % 2)
         /\ c \div 2 = 2 * (c \div 4) + ((c \div 2) % 2)
         /\ c \div 4 = 2 * (c \div 8) + ((c \div 4) % 2)
         /\ c \div 8 = 2 * (c \div 16) + ((c \div 8) % 2)
         /\ c \div 16 = 2 * (c \div 32) + ((c \div 16) % 2)
         /\ c \div 32 = 2 * (c \div 64) + ((c \div 32) % 2)
         /\ c \div 64 = 2 * (c \div 128) + ((c \div 64) % 2)
         /\ c \div 128 = (c \div 128) % 2
  OBVIOUS

\* A character has eight bits, convertBack makes it of them again, and only 255 has
\* eight 1s.
LEMMA ConvertBack ==
  ASSUME NEW c \in 0 .. 255
  PROVE  /\ convert(c) \in Seq(Bit) /\ Len(convert(c)) = 8
         /\ convertBack(convert(c)) = c
         /\ AllOnes(convert(c)) <=> c = 255
<1> DEFINE b == convert(c)
<1>1. /\ Weight[1] = 128 /\ Weight[2] = 64 /\ Weight[3] = 32 /\ Weight[4] = 16
      /\ Weight[5] = 8 /\ Weight[6] = 4 /\ Weight[7] = 2 /\ Weight[8] = 1
  BY DEF Weight
<1>2. \A i \in 1 .. 8 : i \in {1, 2, 3, 4, 5, 6, 7, 8}
  OBVIOUS
<1>3. \A i \in 1 .. 8 : Weight[i] \in Nat \ {0}
  BY <1>1, <1>2
<1>4. b \in [1 .. 8 -> Bit]
  <2>1. \A i \in 1 .. 8 : (c \div Weight[i]) % 2 \in Bit
    <3>1. \A n \in Nat \ {0} : (c \div n) % 2 \in {0, 1}
      OBVIOUS
    <3> QED
      BY <1>3, <3>1 DEF Bit
  <2> QED
    BY <2>1 DEF convert
<1>5. b \in Seq(Bit) /\ Len(b) = 8
  <2> HIDE DEF b
  <2> QED
    BY <1>4, EightLong
<1>6. /\ b[1] = (c \div 128) % 2 /\ b[2] = (c \div 64) % 2 /\ b[3] = (c \div 32) % 2
      /\ b[4] = (c \div 16) % 2 /\ b[5] = (c \div 8) % 2 /\ b[6] = (c \div 4) % 2
      /\ b[7] = (c \div 2) % 2 /\ b[8] = (c \div 1) % 2
  BY <1>1, SMTT(20) DEF convert
<1>7. c \div 1 = c
  OBVIOUS
<1>8. WeightSum(b, Weight) = b[1] * 128 + b[2] * 64 + b[3] * 32 + b[4] * 16
                         + b[5] * 8 + b[6] * 4 + b[7] * 2 + b[8] * 1
  BY <1>1 DEF WeightSum
<1>9. c = b[1] * 128 + b[2] * 64 + b[3] * 32 + b[4] * 16
            + b[5] * 8 + b[6] * 4 + b[7] * 2 + b[8] * 1
  <2> HIDE DEF b
  <2> QED
    BY <1>6, <1>7, Halves, SMTT(20)
<1>10. convertBack(b) = c
  BY <1>8, <1>9 DEF convertBack
<1>11. AllOnes(b) => c = 255
  <2>1. AllOnes(b) => /\ b[1] = 1 /\ b[2] = 1 /\ b[3] = 1 /\ b[4] = 1
                      /\ b[5] = 1 /\ b[6] = 1 /\ b[7] = 1 /\ b[8] = 1
    BY DEF AllOnes
  <2> HIDE DEF b
  <2> QED
    BY <1>9, <2>1, SMTT(20)
<1>12. c = 255 => AllOnes(b)
  <2> SUFFICES ASSUME c = 255
               PROVE  AllOnes(b)
    OBVIOUS
  <2>1. /\ b[1] = 1 /\ b[2] = 1 /\ b[3] = 1 /\ b[4] = 1
        /\ b[5] = 1 /\ b[6] = 1 /\ b[7] = 1 /\ b[8] = 1
    <3> HIDE DEF b
    <3> QED
      BY <1>6
  <2> HIDE DEF b
  <2> QED
    BY <1>2, <2>1 DEF AllOnes
<1> QED
  BY <1>5, <1>10, <1>11, <1>12

LEMMA SumType ==
  ASSUME NEW b \in Seq(Bit), Len(b) = 8
  PROVE  convertBack(b) \in 0 .. 255
<1>1. /\ Weight[1] = 128 /\ Weight[2] = 64 /\ Weight[3] = 32 /\ Weight[4] = 16
      /\ Weight[5] = 8 /\ Weight[6] = 4 /\ Weight[7] = 2 /\ Weight[8] = 1
  BY DEF Weight
<1>2. /\ b[1] \in {0, 1} /\ b[2] \in {0, 1} /\ b[3] \in {0, 1} /\ b[4] \in {0, 1}
      /\ b[5] \in {0, 1} /\ b[6] \in {0, 1} /\ b[7] \in {0, 1} /\ b[8] \in {0, 1}
  <2>1. b \in [1 .. 8 -> Bit]
    BY LenProperties
  <2>2. \A i \in 1 .. 8 : b[i] \in Bit
    BY <2>1
  <2> QED
    BY <2>2 DEF Bit
<1>3. convertBack(b) = b[1] * 128 + b[2] * 64 + b[3] * 32 + b[4] * 16
                         + b[5] * 8 + b[6] * 4 + b[7] * 2 + b[8] * 1
  BY <1>1 DEF convertBack, WeightSum
<1>4. PICK i, j, k, l, m, n, o, r \in {0, 1} :
        /\ b[1] = i /\ b[2] = j /\ b[3] = k /\ b[4] = l
        /\ b[5] = m /\ b[6] = n /\ b[7] = o /\ b[8] = r
  BY <1>2
<1>5. i * 128 + j * 64 + k * 32 + l * 16 + m * 8 + n * 4 + o * 2 + r * 1 \in 0 .. 255
  OBVIOUS
<1> QED
  BY <1>3, <1>4, <1>5

-----------------------------------------------------------------------------
(* Prefixes. *)

LEMMA PrefixSelf ==
  ASSUME NEW S, NEW s \in Seq(S)
  PROVE  IsPrefix(s, s)
  BY DEF IsPrefix

LEMMA PrefixAppend ==
  ASSUME NEW S, NEW s \in Seq(S), NEW t \in Seq(S), NEW x \in S, IsPrefix(s, t)
  PROVE  IsPrefix(s, Append(t, x))
<1>1. PICK n \in Nat, m \in Nat : n = Len(s) /\ m = Len(t) /\ n <= m
  <2>1. Len(s) \in Nat /\ Len(t) \in Nat /\ Len(s) <= Len(t)
    BY DEF IsPrefix
  <2> QED
    BY <2>1
<1>2. PICK u \in Seq(S) : u = Append(t, x)
  <2> WITNESS Append(t, x) \in Seq(S)
  <2> QED
    OBVIOUS
<1>3. Len(u) = m + 1 /\ \A i \in 1 .. m : u[i] = t[i]
  BY <1>1, <1>2
<1>4. SubSeq(u, 1, n) = SubSeq(t, 1, n)
  BY <1>1, <1>3
<1> QED
  BY <1>1, <1>2, <1>3, <1>4 DEF IsPrefix

=============================================================================
