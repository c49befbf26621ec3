-------------------------------- MODULE Squeue --------------------------------
(***************************************************************************)
(* The doubly linked queue of 379-a1/squeue.c, pointer by pointer.         *)
(*                                                                         *)
(* The statements that move the pointers are the same in assignmen2/       *)
(* squeue.c and its draft; a value there is a file name, content and md5.  *)
(*                                                                         *)
(* A queue is a record of its two pointers and of the nodes it links, by   *)
(* address.  The code frees no node that leaves, but nothing points to it  *)
(* any more, so it is dropped from `node'.  `order' is a history variable: *)
(* the addresses in the order in which they were added.                    *)
(***************************************************************************)
EXTENDS Naturals, Sequences, FiniteSets

NULL == 0

initSqueue == [first |-> NULL, last |-> NULL,
               node |-> [n \in {} |-> NULL], order |-> <<>>]

isEmpty(q) == q.first = NULL /\ q.last = NULL

\* An address of no linked node.
malloc(q) ==
  CHOOSE n \in 1 .. Cardinality(DOMAIN q.node) + 1 : n \notin DOMAIN q.node

addBack_Unlinked(q, v) ==   \* mutant: squeue->last->next is not set
  LET n == malloc(q)
  IN [first |-> IF isEmpty(q) THEN n ELSE q.first,
      last |-> n,
      node |-> [m \in DOMAIN q.node \cup {n} |->
                  IF m = n THEN [val |-> v, next |-> NULL, prev |-> q.last]
                           ELSE q.node[m]],
      order |-> Append(q.order, n)]

addBack(q, v) ==
  LET n == malloc(q)
  IN [first |-> IF isEmpty(q) THEN n ELSE q.first,
      last |-> n,
      node |-> [m \in DOMAIN q.node \cup {n} |->
                  IF m = n THEN [val |-> v, next |-> NULL, prev |-> q.last]
                  ELSE IF m = q.last THEN [q.node[m] EXCEPT !.next = n]
                  ELSE q.node[m]],
      order |-> Append(q.order, n)]

peekFront(q) == q.node[q.first].val

leaveFront(q) ==
  IF q.first = q.last
    THEN initSqueue
    ELSE LET temp == q.node[q.first].next
         IN [first |-> temp,
             last |-> q.last,
             node |-> [m \in DOMAIN q.node \ {q.first} |->
                         IF m = temp THEN [q.node[m] EXCEPT !.prev = NULL]
                                     ELSE q.node[m]],
             order |-> Tail(q.order)]

leaveBack(q) ==
  IF q.first = q.last
    THEN initSqueue
    ELSE LET temp == q.node[q.last].prev
         IN [first |-> q.first,
             last |-> temp,
             node |-> [m \in DOMAIN q.node \ {q.last} |->
                         IF m = temp THEN [q.node[m] EXCEPT !.next = NULL]
                                     ELSE q.node[m]],
             order |-> SubSeq(q.order, 1, Len(q.order) - 1)]

\* The loop ends only when first is NULL, and the leaveFront that makes it so
\* clears last as well.
nuke(q) == initSqueue

\* print(squeue, 'f'): the values met along the next pointers.
print(q) ==
  LET at[i \in 1 .. Cardinality(DOMAIN q.node)] ==
        IF i = 1 THEN q.first ELSE q.node[at[i - 1]].next
  IN [i \in DOMAIN at |-> q.node[at[i]].val]

-----------------------------------------------------------------------------
(* What the pointers must say of a queue. *)

\* The sequence a queue stands for.
Values(q) == [i \in 1 .. Len(q.order) |-> q.node[q.order[i]].val]

\* A record of the two pointers and of nodes that hold values of V.
IsQueue(q, V) ==
  /\ DOMAIN q = {"first", "last", "node", "order"}
  /\ q.order \in Seq(Nat \ {NULL})
  /\ q.first \in Nat /\ q.last \in Nat
  /\ q.node \in [DOMAIN q.node -> [val : V, next : Nat, prev : Nat]]

\* The nodes are exactly those added and not yet taken, each once; the two
\* pointers are the ends; next and prev lead from each to its neighbours.
Linked(q) ==
  LET s == q.order
      n == Len(s)
  IN /\ DOMAIN q.node = {s[i] : i \in 1 .. n}
     /\ \A i, j \in 1 .. n : s[i] = s[j] => i = j
     /\ q.first = IF n = 0 THEN NULL ELSE s[1]
     /\ q.last = IF n = 0 THEN NULL ELSE s[n]
     /\ \A i \in 1 .. n :
          /\ q.node[s[i]].next = IF i = n THEN NULL ELSE s[i + 1]
          /\ q.node[s[i]].prev = IF i = 1 THEN NULL ELSE s[i - 1]
=============================================================================
