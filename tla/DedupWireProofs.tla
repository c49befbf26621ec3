---------------------------- MODULE DedupWireProofs ----------------------------
(***************************************************************************)
(* What a connection of the file server does for files of any sizes, if    *)
(* the user types and every size arrives: of a command, an answer or a     *)
(* content nothing is ever left for the next one to read.                  *)
(***************************************************************************)
EXTENDS DedupWire, SequencesExt, SqueueProofs

-----------------------------------------------------------------------------
(* Streams *)

Kinds == Ops \cup {"zero", "size", "data", "flag", "count", "name", "junk"}
Tags == {"0x01", "0x03", "0x05", "0x07", "0x09", "0xFF"}
Runs == [what : Kinds, n : Nat \ {0}, v : Nat \cup Tags]

LEMMA RunBytes == \A r \in Runs : r.n \in Nat /\ r.n > 0
  BY DEF Runs

LEMMA BeforeIs ==
  ASSUME NEW s \in Seq(Runs)
  PROVE  /\ Before(s) \in [0 .. Len(s) -> Nat]
         /\ Before(s)[0] = 0
         /\ \A i \in 1 .. Len(s) : Before(s)[i] = Before(s)[i - 1] + s[i].n
<1> DEFINE m == Len(s)
           go(a) == [i \in 0 .. m |-> IF i = 0 THEN 0 ELSE a[i - 1] + s[i].n]
           f == CHOOSE a : a = go(a)
           g == [e \in (1 .. m) \X Nat |-> e[2] + s[e[1]].n]
<1>1. m \in Nat /\ \A i \in 1 .. m : s[i].n \in Nat
  <2>1. m \in Nat /\ \A i \in 1 .. m : s[i] \in Runs
    OBVIOUS
  <2>2. \A r \in Runs : r.n \in Nat
    BY DEF Runs
  <2> QED
    BY <2>1, <2>2
<1>2. g \in [(1 .. m) \X Nat -> Nat]
  BY <1>1
<1>3. PICK a \in [0 .. m -> Nat] : Computes(a, m, 0, g)
  <2> HIDE DEF g, m
  <2> QED
    BY <1>1, <1>2, LoopExists
<1>4. a[0] = 0 /\ \A i \in 1 .. m : a[i] = a[i - 1] + s[i].n
  <2>1. a[0] = 0 /\ \A i \in 1 .. m : a[i] = g[<<i, a[i - 1]>>]
    BY <1>3 DEF Computes
  <2>2. \A i \in 1 .. m : i - 1 \in 0 .. m
    BY <1>1
  <2>3. \A i \in 1 .. m : <<i, a[i - 1]>> \in (1 .. m) \X Nat
    BY <1>1, <1>3, <2>2
  <2>4. \A i \in 1 .. m : g[<<i, a[i - 1]>>] = a[i - 1] + s[i].n
    BY <2>3
  <2> QED
    BY <2>1, <2>4
<1>5. a = go(a)
  <2>1. \A i \in 0 .. m : i # 0 => i \in 1 .. m
    BY <1>1
  <2> HIDE DEF m
  <2>2. \A i \in 0 .. m : a[i] = IF i = 0 THEN 0 ELSE a[i - 1] + s[i].n
    BY <1>4, <2>1
  <2> QED
    BY <1>3, <2>2
<1>6. f = go(f)
  <2> HIDE DEF go
  <2> QED
    BY <1>5
<1>7. DOMAIN f = 0 .. m /\ \A i \in 0 .. m : f[i] = IF i = 0 THEN 0 ELSE f[i - 1] + s[i].n
  <2> HIDE DEF f, m
  <2> QED
    BY <1>6
<1>8. \A i \in 0 .. m : f[i] = a[i]
  <2> HIDE DEF f, m
  <2> DEFINE S == {k \in Nat : k \in 0 .. m => f[k] = a[k]}
  <2>1. 0 \in S
    BY <1>1, <1>4, <1>7
  <2>2. ASSUME NEW k \in Nat, k \in S
        PROVE  k + 1 \in S
    <3> SUFFICES ASSUME k + 1 \in 0 .. m
                 PROVE  f[k + 1] = a[k + 1]
      OBVIOUS
    <3>1. k \in 0 .. m /\ k + 1 \in 1 .. m /\ (k + 1) - 1 = k /\ k + 1 # 0
      BY <1>1
    <3> QED
      BY <1>4, <1>7, <2>2, <3>1
  <2> HIDE DEF S
  <2>3. \A k \in Nat : k \in S
    BY <2>1, <2>2, InductionSet
  <2>4. \A k \in 0 .. m : k \in Nat
    BY <1>1
  <2> QED
    BY <2>3, <2>4 DEF S
<1>9. Before(s) = f
  BY DEF Before
<1>10. f = a
  <2>1. f = [i \in 0 .. m |-> f[i]]
    <3> HIDE DEF f, m
    <3>1. go(f) = [i \in 0 .. m |-> go(f)[i]]
      OBVIOUS
    <3> QED
      BY <1>6, <3>1
  <2> HIDE DEF f, m, go
  <2> QED
    BY <1>3, <1>8, <2>1
<1> HIDE DEF f
<1> QED
  BY <1>3, <1>4, <1>9, <1>10

LEMMA BeforeGrows ==
  ASSUME NEW s \in Seq(Runs), NEW i \in 0 .. Len(s)
  PROVE  \A j \in i + 1 .. Len(s) : Before(s)[i] < Before(s)[j]
<1> DEFINE b == Before(s)
           m == Len(s)
           S == {k \in Nat : i + 1 + k <= m => b[i] < b[i + 1 + k]}
<1>1. /\ m \in Nat /\ i \in Nat
      /\ b \in [0 .. m -> Nat]
      /\ \A k \in 1 .. m : s[k].n \in Nat \ {0} /\ b[k] = b[k - 1] + s[k].n
  <2>1. \A k \in 1 .. m : s[k] \in Runs
    OBVIOUS
  <2> QED
    BY <2>1, BeforeIs, RunBytes
<1> HIDE DEF b, m
<1>2. 0 \in S
  <2> SUFFICES ASSUME i + 1 <= m
               PROVE  b[i] < b[i + 1]
    BY <1>1
  <2>1. i + 1 \in 1 .. m /\ (i + 1) - 1 = i /\ i \in 0 .. m
    BY <1>1
  <2>2. b[i] \in Nat /\ s[i + 1].n \in Nat \ {0} /\ b[i + 1] = b[i] + s[i + 1].n
    BY <1>1, <2>1
  <2> QED
    BY <2>2
<1>3. ASSUME NEW k \in Nat, k \in S
      PROVE  k + 1 \in S
  <2> SUFFICES ASSUME i + 1 + (k + 1) <= m
               PROVE  b[i] < b[i + 1 + (k + 1)]
    OBVIOUS
  <2>1. /\ i + 1 + (k + 1) \in 1 .. m /\ (i + 1 + (k + 1)) - 1 = i + 1 + k
        /\ i + 1 + k \in 0 .. m /\ i + 1 + k <= m /\ i \in 0 .. m
    BY <1>1
  <2>2. b[i] \in Nat /\ b[i + 1 + k] \in Nat /\ b[i] < b[i + 1 + k]
    BY <1>1, <1>3, <2>1
  <2>3. b[i + 1 + (k + 1)] = b[i + 1 + k] + s[i + 1 + (k + 1)].n
        /\ s[i + 1 + (k + 1)].n \in Nat
    BY <1>1, <2>1
  <2> QED
    BY <2>2, <2>3
<1> HIDE DEF S
<1>4. \A k \in Nat : k \in S
  BY <1>2, <1>3, InductionSet
<1>5. ASSUME NEW j \in i + 1 .. m
      PROVE  b[i] < b[j]
  <2>1. j - (i + 1) \in Nat /\ i + 1 + (j - (i + 1)) = j /\ j <= m
    BY <1>1
  <2>2. j - (i + 1) \in S
    BY <1>4, <2>1
  <2> QED
    BY <2>1, <2>2 DEF S
<1> QED
  BY <1>5 DEF b, m

\* A read that ends inside run k + 1, or with the run before it.
LEMMA CutAt ==
  ASSUME NEW s \in Seq(Runs), NEW k \in 0 .. Len(s) - 1, NEW n \in Nat,
         Before(s)[k] <= n, n < Before(s)[k + 1]
  PROVE  Cut(s, n) = IF n = Before(s)[k] THEN SubSeq(s, k + 1, Len(s))
                     ELSE <<Rest(s[k + 1], n - Before(s)[k])>> \o SubSeq(s, k + 2, Len(s))
<1> DEFINE b == Before(s)
           m == Len(s)
           S == {i \in 0 .. m : b[i] <= n}
<1>1. m \in Nat /\ k \in 0 .. m /\ k + 1 \in 0 .. m /\ b \in [0 .. m -> Nat]
  BY BeforeIs
<1>2. \A i \in k + 2 .. m : b[k + 1] < b[i]
  BY <1>1, BeforeGrows
<1> HIDE DEF b
<1>3. k \in S
  BY <1>1 DEF b
<1>4. ASSUME NEW i \in S
      PROVE  k >= i
  <2>1. i \in 0 .. m /\ b[i] \in Nat /\ b[k + 1] \in Nat /\ b[i] <= n /\ n < b[k + 1]
    BY <1>1 DEF b
  <2>2. i # k + 1
    BY <2>1
  <2>3. i \notin k + 2 .. m
    BY <1>2, <2>1
  <2> QED
    BY <1>1, <2>1, <2>2, <2>3
<1>5. Max(S) = k
  <2>1. Max(S) \in S /\ \A y \in S : Max(S) >= y
    <3> HIDE DEF S
    <3> QED
      BY <1>3, <1>4 DEF Max
  <2>2. Max(S) >= k /\ k >= Max(S)
    BY <1>3, <1>4, <2>1
  <2>3. Max(S) \in Nat /\ k \in Nat
    BY <1>1, <2>1
  <2> QED
    BY <2>2, <2>3
<1>6. k # m /\ b[k] \in Nat
  BY <1>1
<1> HIDE DEF S
<1>7. Cut(s, n) = LET d == n - b[k]
                  IN IF k = m THEN <<>>
                     ELSE IF d = 0 THEN SubSeq(s, k + 1, m)
                     ELSE <<Rest(s[k + 1], d)>> \o SubSeq(s, k + 2, m)
  BY <1>5 DEF Cut, S, b
<1>8. n - b[k] = 0 <=> n = b[k]
  BY <1>6
<1> QED
  BY <1>6, <1>7, <1>8 DEF b


-----------------------------------------------------------------------------
(* Streams, run by run *)

LEMMA ConsIs ==
  ASSUME NEW r \in Runs, NEW s \in Seq(Runs)
  PROVE  /\ Cons(r, s) \in Seq(Runs) /\ Len(s) \in Nat
         /\ Len(Cons(r, s)) = 1 + Len(s) /\ Cons(r, s)[1] = r
         /\ \A i \in 1 .. Len(s) : Cons(r, s)[i + 1] = s[i]
<1>1. <<r>> \in Seq(Runs) /\ Len(<<r>>) = 1 /\ <<r>>[1] = r /\ Len(s) \in Nat
  OBVIOUS
<1> QED
  BY <1>1 DEF Cons

LEMMA ConsParts ==
  ASSUME NEW r \in Runs, NEW s \in Seq(Runs)
  PROVE  /\ Cons(r, s) # <<>> /\ Head(Cons(r, s)) = r /\ Tail(Cons(r, s)) = s
         /\ SubSeq(Cons(r, s), 2, Len(Cons(r, s))) = s
<1> DEFINE c == Cons(r, s)
<1>1. /\ c \in Seq(Runs) /\ Len(s) \in Nat /\ Len(c) = 1 + Len(s) /\ c[1] = r
      /\ \A i \in 1 .. Len(s) : c[i + 1] = s[i]
  BY ConsIs
<1> HIDE DEF c
<1>2. c # <<>> /\ Head(c) = r
  BY <1>1
<1>3. Tail(c) = s
  <2>1. Tail(c) \in Seq(Runs) /\ Len(Tail(c)) = Len(s)
    BY <1>1, <1>2
  <2>2. \A i \in 1 .. Len(s) : Tail(c)[i] = c[i + 1]
    BY <1>1, <1>2, <2>1
  <2> QED
    BY <1>1, <2>1, <2>2
<1>4. SubSeq(c, 2, Len(c)) = s
  <2>1. Len(SubSeq(c, 2, Len(c))) = Len(s) /\ SubSeq(c, 2, Len(c)) \in Seq(Runs)
    BY <1>1
  <2>2. \A i \in 1 .. Len(s) : SubSeq(c, 2, Len(c))[i] = c[i + 1]
    BY <1>1
  <2> QED
    BY <1>1, <2>1, <2>2
<1> QED
  BY <1>2, <1>3, <1>4 DEF c

LEMMA BytesOf ==
  /\ Bytes(<<>>) = 0
  /\ \A s \in Seq(Runs) : Bytes(s) \in Nat /\ (Bytes(s) = 0 => s = <<>>)
  /\ \A s \in Seq(Runs) : \A r \in Runs : Bytes(Cons(r, s)) = r.n + Bytes(s)
<1>1. Bytes(<<>>) = 0
  <2>1. <<>> \in Seq(Runs) /\ Len(<<>>) = 0
    OBVIOUS
  <2> QED
    BY <2>1, BeforeIs DEF Bytes
<1>2. ASSUME NEW s \in Seq(Runs)
      PROVE  Bytes(s) \in Nat /\ (Bytes(s) = 0 => s = <<>>)
  <2>1. Len(s) \in Nat /\ Bytes(s) \in Nat /\ Before(s)[0] = 0
    BY BeforeIs DEF Bytes
  <2>2. Len(s) # 0 => Before(s)[0] < Before(s)[Len(s)]
    BY <2>1, BeforeGrows
  <2> QED
    BY <2>1, <2>2 DEF Bytes
<1>3. ASSUME NEW s \in Seq(Runs), NEW r \in Runs
      PROVE  Bytes(Cons(r, s)) = r.n + Bytes(s)
  <2> DEFINE c == Cons(r, s)
             b == Before(c)
             a == Before(s)
             m == Len(s)
             S == {i \in Nat : i <= m => b[i + 1] = r.n + a[i]}
  <2>1. /\ c \in Seq(Runs) /\ Len(c) = m + 1 /\ m \in Nat
        /\ c[1] = r /\ \A i \in 1 .. m : c[i + 1] = s[i]
    <3>1. /\ Cons(r, s) \in Seq(Runs) /\ Len(s) \in Nat
          /\ Len(Cons(r, s)) = 1 + Len(s) /\ Cons(r, s)[1] = r
          /\ \A i \in 1 .. Len(s) : Cons(r, s)[i + 1] = s[i]
      BY ConsIs
    <3> HIDE DEF S, a, b
    <3>2. Len(c) = m + 1
      BY <3>1
    <3> QED
      BY <3>1, <3>2
  <2>2. /\ a \in [0 .. m -> Nat] /\ a[0] = 0
        /\ \A i \in 1 .. m : a[i] = a[i - 1] + s[i].n
    BY BeforeIs
  <2>3. /\ b \in [0 .. m + 1 -> Nat] /\ b[0] = 0
        /\ \A i \in 1 .. m + 1 : b[i] = b[i - 1] + c[i].n
    <3> HIDE DEF c
    <3> QED
      BY BeforeIs, <2>1
  <2>4. r.n \in Nat /\ \A i \in 1 .. m : s[i].n \in Nat
    <3>1. \A i \in 1 .. m : s[i] \in Runs
      OBVIOUS
    <3> QED
      BY <3>1 DEF Runs
  <2> HIDE DEF a, b, c, m
  <2>5. 0 \in S
    <3>1. 1 \in 1 .. m + 1 /\ b[1] = b[0] + r.n
      BY <2>1, <2>3
    <3> QED
      BY <2>2, <2>3, <2>4, <3>1
  <2>6. ASSUME NEW i \in Nat, i \in S
        PROVE  i + 1 \in S
    <3> SUFFICES ASSUME i + 1 <= m
                 PROVE  b[(i + 1) + 1] = r.n + a[i + 1]
      OBVIOUS
    <3>1. /\ i <= m /\ i + 1 \in 1 .. m /\ (i + 1) - 1 = i /\ i \in 0 .. m
          /\ (i + 1) + 1 \in 1 .. m + 1 /\ ((i + 1) + 1) - 1 = i + 1
      BY <2>1
    <3>2. b[i + 1] = r.n + a[i] /\ a[i] \in Nat
      BY <2>2, <2>6, <3>1
    <3>3. b[(i + 1) + 1] = b[i + 1] + s[i + 1].n
      BY <2>1, <2>3, <3>1
    <3>4. a[i + 1] = a[i] + s[i + 1].n /\ s[i + 1].n \in Nat
      BY <2>2, <2>4, <3>1
    <3> QED
      BY <2>4, <3>2, <3>3, <3>4
  <2> HIDE DEF S
  <2>7. \A i \in Nat : i \in S
    BY <2>5, <2>6, InductionSet
  <2>8. b[m + 1] = r.n + a[m]
    BY <2>1, <2>7 DEF S
  <2> QED
    BY <2>1, <2>8 DEF Bytes, a, b, c, m
<1> QED
  BY <1>1, <1>2, <1>3

LEMMA FirstRuns ==
  ASSUME NEW r \in Runs, NEW s \in Seq(Runs)
  PROVE  Before(Cons(r, s))[0] = 0 /\ Before(Cons(r, s))[1] = r.n
<1> DEFINE c == Cons(r, s)
<1>1. c \in Seq(Runs) /\ Len(c) = 1 + Len(s) /\ c[1] = r /\ Len(s) \in Nat
  BY ConsIs
<1>2. r.n \in Nat
  BY DEF Runs
<1> HIDE DEF c
<1>3. /\ Before(c)[0] = 0
      /\ \A i \in 1 .. Len(c) : Before(c)[i] = Before(c)[i - 1] + c[i].n
  BY <1>1, BeforeIs
<1>4. 1 \in 1 .. Len(c) /\ 1 - 1 = 0
  BY <1>1
<1>5. Before(c)[1] = r.n
  BY <1>1, <1>2, <1>3, <1>4
<1> QED
  BY <1>3, <1>5 DEF c

\* A read that takes the first run, or a part of it.
LEMMA CutFirst ==
  ASSUME NEW r \in Runs, NEW s \in Seq(Runs), NEW n \in Nat
  PROVE  /\ n = r.n => Cut(Cons(r, s), n) = s
         /\ 0 < n /\ n < r.n => Cut(Cons(r, s), n) = Cons(Rest(r, n), s)
<1> DEFINE c == Cons(r, s)
<1>1. /\ c \in Seq(Runs) /\ Len(c) = 1 + Len(s) /\ c[1] = r /\ Len(s) \in Nat
      /\ SubSeq(c, 2, Len(c)) = s
  BY ConsIs, ConsParts
<1>2. r.n \in Nat /\ r.n > 0 /\ Before(c)[0] = 0 /\ Before(c)[1] = r.n
  BY FirstRuns, RunBytes
<1> HIDE DEF c
<1>3. CASE 0 < n /\ n < r.n
  <2>1. 0 \in 0 .. Len(c) - 1 /\ 0 + 1 = 1 /\ 0 + 2 = 2 /\ n # 0 /\ n - 0 = n
        /\ n # r.n /\ 0 <= n
    BY <1>1, <1>2, <1>3
  <2>2. Cut(c, n) = IF n = Before(c)[0] THEN SubSeq(c, 0 + 1, Len(c))
                    ELSE <<Rest(c[0 + 1], n - Before(c)[0])>> \o SubSeq(c, 0 + 2, Len(c))
    <3>1. Before(c)[0] <= n /\ n < Before(c)[0 + 1]
      BY <1>2, <1>3, <2>1
    <3> QED
      BY <1>1, <2>1, <3>1, CutAt
  <2> QED
    BY <1>1, <1>2, <2>1, <2>2, <1>3 DEF c, Cons
<1>4. CASE n = r.n /\ Len(c) = 1
  <2> DEFINE S == {i \in 0 .. 1 : Before(c)[i] <= n}
  <2>1. S = {0, 1}
    BY <1>2, <1>4
  <2>2. Max(S) = 1
    BY <2>1 DEF Max
  <2>3. Cut(c, n) = <<>>
    BY <1>4, <2>2 DEF Cut
  <2> QED
    BY <1>1, <1>4, <2>3 DEF c
<1>5. CASE n = r.n /\ Len(c) # 1
  <2>1. 1 \in 0 .. Len(c) - 1 /\ 1 + 1 = 2 /\ 1 \in 0 .. Len(c) /\ 2 \in 1 + 1 .. Len(c)
    BY <1>1, <1>5
  <2>2. Before(c)[1] < Before(c)[2]
    BY <1>1, <2>1, BeforeGrows
  <2>3. Cut(c, n) = IF n = Before(c)[1] THEN SubSeq(c, 1 + 1, Len(c))
                    ELSE <<Rest(c[1 + 1], n - Before(c)[1])>> \o SubSeq(c, 1 + 2, Len(c))
    <3>1. Before(c)[1] <= n /\ n < Before(c)[1 + 1]
      BY <1>2, <1>5, <2>1, <2>2
    <3> QED
      BY <1>1, <2>1, <3>1, CutAt
  <2>4. Cut(c, n) = SubSeq(c, 2, Len(c))
    BY <1>2, <1>5, <2>1, <2>3
  <2>5. ~(n < r.n)
    BY <1>2, <1>5
  <2> QED
    BY <1>1, <2>4, <2>5 DEF c
<1> QED
  BY <1>3, <1>4, <1>5 DEF c

\* A read that takes the first run and a part of the second.
LEMMA CutSecond ==
  ASSUME NEW q \in Runs, NEW r \in Runs, NEW s \in Seq(Runs), NEW n \in Nat,
         q.n < n, n < q.n + r.n
  PROVE  Cut(Cons(q, Cons(r, s)), n) = Cons(Rest(r, n - q.n), s)
<1> DEFINE t == Cons(r, s)
           c == Cons(q, t)
<1>1. t \in Seq(Runs) /\ Len(t) = 1 + Len(s) /\ t[1] = r /\ Len(s) \in Nat
      /\ \A i \in 1 .. Len(s) : t[i + 1] = s[i]
  BY ConsIs
<1>2. q.n \in Nat /\ r.n \in Nat
  BY DEF Runs
<1> HIDE DEF t
<1>3. c \in Seq(Runs) /\ Len(c) = 1 + Len(t) /\ \A i \in 1 .. Len(t) : c[i + 1] = t[i]
  BY <1>1, ConsIs
<1>4. Before(c)[1] = q.n
  BY <1>1, FirstRuns
<1> HIDE DEF c
<1>5. Len(c) = 2 + Len(s) /\ c[2] = r /\ \A i \in 1 .. Len(s) : c[i + 2] = s[i]
  <2>1. 1 \in 1 .. Len(t) /\ 1 + 1 = 2
    BY <1>1
  <2>2. \A i \in 1 .. Len(s) : i + 1 \in 1 .. Len(t) /\ (i + 1) + 1 = i + 2
    BY <1>1
  <2> QED
    BY <1>1, <1>3, <2>1, <2>2
<1>6. Before(c)[2] = q.n + r.n
  <2>1. 2 \in 1 .. Len(c) /\ 2 - 1 = 1
    BY <1>1, <1>5
  <2>2. \A i \in 1 .. Len(c) : Before(c)[i] = Before(c)[i - 1] + c[i].n
    BY <1>3, BeforeIs
  <2>3. Before(c)[2] = Before(c)[2 - 1] + c[2].n
    BY <2>1, <2>2
  <2> QED
    BY <1>4, <1>5, <2>1, <2>3
<1>7. SubSeq(c, 3, Len(c)) = s
  <2>1. Len(SubSeq(c, 3, Len(c))) = Len(s) /\ SubSeq(c, 3, Len(c)) \in Seq(Runs)
    BY <1>1, <1>3, <1>5
  <2>2. \A i \in 1 .. Len(s) : SubSeq(c, 3, Len(c))[i] = c[i + 2]
    BY <1>1, <1>3, <1>5
  <2> QED
    BY <1>5, <2>1, <2>2
<1>8. 1 \in 0 .. Len(c) - 1 /\ 1 + 1 = 2 /\ 1 + 2 = 3
  BY <1>1, <1>5
<1>9. Cut(c, n) = IF n = Before(c)[1] THEN SubSeq(c, 1 + 1, Len(c))
                  ELSE <<Rest(c[1 + 1], n - Before(c)[1])>> \o SubSeq(c, 1 + 2, Len(c))
  <2>1. Before(c)[1] <= n /\ n < Before(c)[1 + 1]
    BY <1>2, <1>4, <1>6, <1>8
  <2> QED
    BY <1>3, <1>8, <2>1, CutAt
<1>10. n # q.n
  BY <1>2
<1>11. Cut(c, n) = <<Rest(c[2], n - q.n)>> \o SubSeq(c, 3, Len(c))
  BY <1>4, <1>8, <1>9, <1>10
<1> QED
  BY <1>5, <1>7, <1>11 DEF c, t, Cons

\* A read that takes everything.
LEMMA CutAll ==
  ASSUME NEW s \in Seq(Runs), NEW n \in Nat, Bytes(s) <= n
  PROVE  Cut(s, n) = <<>>
<1> DEFINE b == Before(s)
           m == Len(s)
           S == {i \in 0 .. m : b[i] <= n}
<1>1. m \in Nat /\ b[m] <= n
  BY DEF Bytes
<1> HIDE DEF b
<1>2. m \in S /\ \A i \in S : m >= i
  BY <1>1
<1>3. Max(S) = m
  <2>1. Max(S) \in S /\ \A y \in S : Max(S) >= y
    <3> HIDE DEF S
    <3> QED
      BY <1>2 DEF Max
  <2>2. Max(S) >= m /\ m >= Max(S) /\ Max(S) \in Nat
    BY <1>1, <1>2, <2>1
  <2> QED
    BY <1>1, <2>2
<1> QED
  BY <1>3 DEF Cut, S, b


\* A size that arrives: strncpy() stops at no zero byte of it.
FieldsTravel == \A s \in Sizes : SizeField(s + 1) = s + 1

-----------------------------------------------------------------------------
(* The inductive invariant: where a command stands, and what is on its way. *)

\* A command, and d of its bytes that the server has not read, before s.
Order(s) == Cons(Run(op, 16, 0), Cons(Run("zero", 1008, 0), s))
Zeros(d, s) == IF d = 0 THEN s ELSE Cons(Run("zero", d, 0), s)

\* When the server has begun a command, 524 bytes of it are left.
Leftover == \E d \in {0, 24, 524} : up = Zeros(d, <<>>)

Names(c) == [i \in 1 .. c |-> Run("name", 1024, 0)]

\* The first k blocks of the last `left' bytes of an upload.
Sent(left, k) ==
  [i \in 1 .. k |-> Run("data", 1024, Min({1024, (left - 1024 * (i - 1)) - 1}))]

\* The answers to a command, and what the server did.
Answer(tag, runs, result) ==
  \/ /\ op = "list" /\ tag = "0x01"
     /\ \E c \in Counts : /\ runs = Cons(Run("count", 2, c), Names(c))
                          /\ result = Result("OK", c)
  \/ /\ op = "download" /\ tag = "0x07"
     /\ \E s \in Sizes : /\ runs = Cons(SizeRun(s + 1), Blocks(s + 1, Segment))
                         /\ result = Result("OK", s)
  \/ /\ op = "update" /\ tag = "0x03" /\ runs = <<>>
     /\ \E n \in Nat : (sz < 1024 => n = sz) /\ result = Result("OK", n)
  \/ op = "delete" /\ tag = "0x05" /\ runs = <<>> /\ result = Result("OK", 0)
  \/ op = "quit" /\ tag = "0x09" /\ runs = <<>> /\ result = Result("OK", 0)
  \/ /\ op \in {"update", "delete", "download"} /\ tag = "0xFF" /\ runs = <<>>
     /\ result = Result("SERROR", 0)

Agreed ==
  /\ heard.tag = said.tag
  /\ op # "update" \/ sz < 1024 => heard.len = said.len

\* The user is asked for a command, or has quit.
Idle == cpc = "idle" /\ spc = "read" /\ down = <<>> /\ Leftover /\ Agreed
Gone == cpc = "gone" /\ spc = "closed" /\ down = <<>> /\ Leftover

\* A command on its way, and at work.
Asked == cpc = "flag" /\ spc = "read" /\ op # "update" /\ down = <<>> /\ up = Order(<<>>)
Serving ==
  cpc = "flag" /\ spc = op /\ op # "update" /\ down = <<>> /\ up = Zeros(524, <<>>)

Answering ==
  /\ cpc = "flag" /\ spc = (IF op = "quit" THEN "closed" ELSE "read") /\ Leftover
  /\ \E tag \in Tags : \E runs \in Seq(Runs) :
       Answer(tag, runs, said) /\ down = Cons(Run("flag", 5, tag), runs)

\* list: the count and the names; download: the size and the content.
Counting ==
  /\ cpc = "count" /\ spc = "read" /\ op = "list" /\ Leftover
  /\ \E c \in Counts : /\ down = Cons(Run("count", 2, c), Names(c))
                       /\ said = Result("OK", c) /\ heard = Result("OK", 0)
Naming ==
  /\ cpc = "names" /\ spc = "read" /\ op = "list" /\ Leftover
  /\ cx > 0 /\ down = Names(cx) /\ cx <= said.len
  /\ said.tag = "OK" /\ heard = Result("OK", said.len - cx)
Sizing ==
  /\ cpc = "field" /\ spc = "read" /\ op = "download" /\ Leftover /\ taken = 0
  /\ \E s \in Sizes : /\ down = Cons(SizeRun(s + 1), Blocks(s + 1, Segment))
                      /\ said = Result("OK", s) /\ heard = Result("OK", 0)
Fetching ==
  /\ cpc = "recv" /\ spc = "read" /\ op = "download" /\ Leftover
  /\ down \in Seq(Runs) /\ Bytes(down) = cx /\ cx > 0
  /\ said.tag = "OK" /\ said.len + 1 = taken + cx /\ heard = Result("OK", 0)

\* update: k blocks are on their way, of the bytes that the server has still to
\* receive the first; the client has toSend of them still to send.
OnTheWay(left, k) ==
  \/ cpc = "send" /\ toSend > 0 /\ left = 1024 * k + toSend
  \/ cpc = "flag" /\ 1024 * (k - 1) < left /\ left <= 1024 * k

Loading(s) ==
  \/ cpc = "size" /\ s = <<>>
  \/ \E k \in Nat : OnTheWay(sz + 1, k) /\ s = Cons(SizeRun(sz + 1), Sent(sz + 1, k))

Behind(s) ==
  \/ spc = "read" /\ up = Order(s)
  \/ spc = "update" /\ \E j \in 0 .. 131 : up = Zeros(4 * j, s)
Uploading ==
  /\ op = "update" /\ down = <<>>
  /\ \E s \in Seq(Runs) : Loading(s) /\ Behind(s)
Storing ==
  /\ op = "update" /\ down = <<>> /\ spc = "body"
  /\ x > 0 /\ (sz < 1024 => x = sz + 1 /\ text = 0)
  /\ \E k \in Nat : OnTheWay(x, k) /\ up = Sent(x, k)
Stored ==
  /\ op = "update" /\ down = <<>> /\ spc = "stored" /\ cpc = "flag" /\ up = <<>>
  /\ (sz < 1024 => text = sz)

Stage ==
  \/ Idle \/ Gone \/ Asked \/ Serving \/ Answering \/ Counting \/ Naming \/ Sizing
  \/ Fetching \/ Uploading \/ Storing \/ Stored

\* The numbers, and those that are 0 until they are needed.
Numbers ==
  /\ op \in Ops /\ sz \in Sizes \cup {0} /\ (op = "update" => sz \in Sizes)
  /\ toSend \in Nat /\ cx \in Nat
  /\ last \in Nat /\ taken \in Nat /\ inPlace \in BOOLEAN
  /\ heard \in Results /\ said \in Results
  /\ x \in Nat /\ text \in Nat /\ (spc \notin {"body", "stored"} => text = 0)
  /\ cpc \in {"size", "send", "flag"} => taken = 0
WireTypes == Numbers /\ up \in Seq(Runs) /\ down \in Seq(Runs)

WireInv == Numbers /\ Stage

-----------------------------------------------------------------------------
(* The streams of the invariant *)

LEMMA MinOf ==
  ASSUME NEW a \in Int, NEW b \in Int
  PROVE  Min({a, b}) = IF a <= b THEN a ELSE b
<1> DEFINE S == {a, b}
<1>1. \E m \in S : \A y \in S : m <= y
  OBVIOUS
<1>2. Min(S) \in S /\ \A y \in S : Min(S) <= y
  <2> HIDE DEF S
  <2> QED
    BY <1>1 DEF Min
<1> QED
  BY <1>2

LEMMA KindsAre ==
  /\ Ops \subseteq Kinds
  /\ {"zero", "size", "data", "flag", "count", "name", "junk"} \subseteq Kinds
BY DEF Kinds

LEMMA RunIs ==
  ASSUME NEW what \in Kinds, NEW n \in Nat, n > 0, NEW v, v \in Nat \/ v \in Tags
  PROVE  /\ Run(what, n, v) \in Runs
         /\ Run(what, n, v).what = what /\ Run(what, n, v).n = n /\ Run(what, n, v).v = v
BY DEF Run, Runs

LEMMA EmptyIs ==
  <<>> \in Seq(Runs) /\ Len(<<>>) = 0
  OBVIOUS

LEMMA ConsAppend ==
  ASSUME NEW r \in Runs, NEW s \in Seq(Runs), NEW e \in Runs
  PROVE  Append(Cons(r, s), e) = Cons(r, Append(s, e))
<1>1. /\ Cons(r, s) \in Seq(Runs) /\ Len(s) \in Nat
      /\ Len(Cons(r, s)) = 1 + Len(s) /\ Cons(r, s)[1] = r
      /\ \A i \in 1 .. Len(s) : Cons(r, s)[i + 1] = s[i]
  BY ConsIs
<1> DEFINE t == Append(s, e)
<1>2. t \in Seq(Runs) /\ Len(t) = Len(s) + 1 /\ t[Len(s) + 1] = e
      /\ \A i \in 1 .. Len(s) : t[i] = s[i]
  OBVIOUS
<1> HIDE DEF t
<1>3. /\ Cons(r, t) \in Seq(Runs) /\ Len(Cons(r, t)) = 1 + Len(t) /\ Cons(r, t)[1] = r
      /\ \A i \in 1 .. Len(t) : Cons(r, t)[i + 1] = t[i]
  BY <1>2, ConsIs
<1> DEFINE a == Append(Cons(r, s), e)
           m == Len(s)
<1>4. /\ a \in Seq(Runs) /\ Len(a) = m + 2 /\ a[m + 2] = e
      /\ \A i \in 1 .. m + 1 : a[i] = Cons(r, s)[i]
  BY <1>1
<1> HIDE DEF a
<1>5. ASSUME NEW i \in 1 .. m + 2
      PROVE  a[i] = Cons(r, t)[i]
  <2>1. CASE i = 1
    BY <1>1, <1>3, <1>4, <2>1
  <2>2. CASE i = m + 2
    <3>1. m + 1 \in 1 .. Len(t) /\ (m + 1) + 1 = m + 2
      BY <1>1, <1>2
    <3> QED
      BY <1>2, <1>3, <1>4, <2>2, <3>1
  <2>3. CASE i # 1 /\ i # m + 2
    <3>1. PICK j \in 1 .. m : i = j + 1
      <4>1. i - 1 \in 1 .. m /\ i = (i - 1) + 1
        BY <1>1, <2>3
      <4> QED
        BY <4>1
    <3>2. j \in 1 .. Len(t) /\ i \in 1 .. m + 1
      BY <1>1, <1>2, <3>1
    <3>3. a[i] = Cons(r, s)[i] /\ Cons(r, s)[j + 1] = s[j]
      BY <1>1, <1>4, <3>2
    <3>4. Cons(r, t)[j + 1] = t[j] /\ t[j] = s[j]
      BY <1>2, <1>3, <3>2
    <3> QED
      BY <3>1, <3>3, <3>4
  <2> QED
    BY <2>1, <2>2, <2>3
<1>6. Len(Cons(r, t)) = m + 2
  BY <1>1, <1>2, <1>3
<1>7. a = Cons(r, t)
  BY <1>3, <1>4, <1>5, <1>6
<1> QED
  BY <1>7 DEF a, t

LEMMA ConsPair ==
  ASSUME NEW q \in Runs, NEW r \in Runs, NEW s \in Seq(Runs)
  PROVE  <<q, r>> \o s = Cons(q, Cons(r, s))
<1>1. <<q, r>> = <<q>> \o <<r>>
  <2>1. Len(<<q, r>>) = 2 /\ Len(<<q>> \o <<r>>) = 2
    OBVIOUS
  <2>2. /\ <<q, r>>[1] = q /\ <<q, r>>[2] = r
        /\ (<<q>> \o <<r>>)[1] = q /\ (<<q>> \o <<r>>)[2] = r
    OBVIOUS
  <2>3. <<q, r>> \in Seq(Runs) /\ <<q>> \o <<r>> \in Seq(Runs)
    OBVIOUS
  <2>4. \A a, b \in Seq(Runs) :
          Len(a) = 2 /\ Len(b) = 2 /\ a[1] = b[1] /\ a[2] = b[2] => a = b
    OBVIOUS
  <2> QED
    BY <2>1, <2>2, <2>3, <2>4
<1> DEFINE a == <<q>>
           b == <<r>>
           p == <<q, r>>
<1>2. p = a \o b /\ a \in Seq(Runs) /\ b \in Seq(Runs)
  BY <1>1
<1>3. Cons(r, s) = b \o s /\ Cons(q, Cons(r, s)) = a \o Cons(r, s)
  BY DEF Cons
<1> HIDE DEF a, b, p
<1>4. (a \o b) \o s = a \o (b \o s)
  BY <1>2
<1>5. p \o s = Cons(q, Cons(r, s))
  BY <1>2, <1>3, <1>4
<1> QED
  BY <1>5 DEF p


LEMMA SizesAre == /\ Sizes \subseteq Nat /\ Counts \subseteq Nat
                  /\ Segment \in Nat /\ Segment > 0
<1>1. Sizes \subseteq Nat /\ Counts \subseteq Nat /\ Segment \in Nat \ {0}
  BY WireAssumption
<1> QED
  BY <1>1

LEMMA SizeRunIs ==
  ASSUME FieldsTravel, NEW s \in Sizes
  PROVE  /\ s \in Nat
         /\ SizeRun(s + 1) \in Runs /\ SizeRun(s + 1).n = 4
         /\ IsSize(SizeRun(s + 1)) /\ FieldOf(SizeRun(s + 1)) = s + 1
<1>1. s \in Nat /\ s + 1 \in Nat
  BY SizesAre
<1>2. SizeField(s + 1) = s + 1 /\ s + 1 # 0
  BY <1>1 DEF FieldsTravel
<1>3. SizeRun(s + 1) = Run("size", 4, s + 1)
  BY <1>2 DEF SizeRun
<1>4. /\ Run("size", 4, s + 1) \in Runs
      /\ Run("size", 4, s + 1).what = "size" /\ Run("size", 4, s + 1).n = 4
      /\ Run("size", 4, s + 1).v = s + 1
  BY <1>1, RunIs, KindsAre
<1> QED
  BY <1>1, <1>3, <1>4 DEF IsSize, FieldOf

LEMMA ZeroRun ==
  ASSUME NEW d \in Nat, d > 0
  PROVE  /\ Run("zero", d, 0) \in Runs
         /\ Run("zero", d, 0).n = d /\ Run("zero", d, 0).what = "zero"
         /\ \A k \in Nat : k < d => Rest(Run("zero", d, 0), k) = Run("zero", d - k, 0)
<1>1. /\ Run("zero", d, 0) \in Runs
      /\ Run("zero", d, 0).n = d /\ Run("zero", d, 0).what = "zero"
  BY RunIs, KindsAre
<1>2. \A k \in Nat : k < d => Rest(Run("zero", d, 0), k) = Run("zero", d - k, 0)
  BY DEF Rest, Run
<1> QED
  BY <1>1, <1>2

LEMMA ZerosAre ==
  ASSUME NEW d \in Nat, NEW s \in Seq(Runs)
  PROVE  /\ Zeros(d, s) \in Seq(Runs) /\ Zeros(0, s) = s
         /\ d # 0 => Zeros(d, s) # <<>> /\ Head(Zeros(d, s)).what = "zero"
         /\ \A e \in Runs : Append(Zeros(d, s), e) = Zeros(d, Append(s, e))
<1>1. Zeros(0, s) = s
  BY DEF Zeros
<1>2. CASE d = 0
  BY <1>2 DEF Zeros
<1>3. CASE d # 0
  <2> DEFINE r == Run("zero", d, 0)
  <2>1. r \in Runs /\ r.what = "zero"
    BY <1>3, ZeroRun
  <2>2. \A t : Zeros(d, t) = Cons(r, t)
    BY <1>3 DEF Zeros
  <2> HIDE DEF r
  <2>3. /\ Cons(r, s) \in Seq(Runs) /\ Cons(r, s) # <<>> /\ Head(Cons(r, s)) = r
        /\ \A e \in Runs : Append(Cons(r, s), e) = Cons(r, Append(s, e))
    BY <2>1, ConsIs, ConsParts, ConsAppend
  <2> QED
    BY <1>1, <2>1, <2>2, <2>3
<1> QED
  BY <1>1, <1>2, <1>3

LEMMA ZerosHead ==
  ASSUME NEW d \in Nat, d # 0, NEW s \in Seq(Runs)
  PROVE  Zeros(d, s) # <<>> /\ Head(Zeros(d, s)).what = "zero"
BY ZerosAre

\* The server takes zeros k bytes at a time.
LEMMA ZerosCut ==
  ASSUME NEW d \in Nat, NEW k \in Nat, 0 < k, k <= d, NEW s \in Seq(Runs)
  PROVE  Cut(Zeros(d, s), k) = Zeros(d - k, s)
<1> DEFINE r == Run("zero", d, 0)
<1>1. r \in Runs /\ r.n = d /\ (k < d => Rest(r, k) = Run("zero", d - k, 0))
  BY ZeroRun
<1>2. Zeros(d, s) = Cons(r, s)
  BY DEF Zeros
<1> HIDE DEF r
<1>3. CASE k = d
  <2>1. Cut(Cons(r, s), k) = s
    BY <1>1, <1>3, CutFirst
  <2> QED
    BY <1>2, <1>3, <2>1 DEF Zeros
<1>4. CASE k < d
  <2>1. Cut(Cons(r, s), k) = Cons(Rest(r, k), s)
    BY <1>1, <1>4, CutFirst
  <2>2. Zeros(d - k, s) = Cons(Run("zero", d - k, 0), s)
    BY <1>4 DEF Zeros
  <2> QED
    BY <1>1, <1>2, <1>4, <2>1, <2>2
<1> QED
  BY <1>3, <1>4

\* What the server reads of the zeros of an old command is no command.
LEMMA LeftoverCut ==
  ASSUME Leftover, up # <<>>, up' = Cut(up, 500)
  PROVE  Leftover' /\ Head(up).what \notin Ops
<1>1. PICK d \in {24, 524} : up = Zeros(d, <<>>)
  BY DEF Leftover, Zeros
<1>2. Head(up).what = "zero"
  <2> DEFINE e == <<>>
  <2>1. e \in Seq(Runs) /\ up = Zeros(d, e) /\ d \in Nat /\ d # 0
    BY <1>1, EmptyIs
  <2> HIDE DEF e
  <2>2. Head(Zeros(d, e)).what = "zero"
    BY <2>1, ZerosHead
  <2> QED
    BY <2>1, <2>2
<1>3. CASE d = 24
  <2> DEFINE r == Run("zero", 24, 0)
             e == <<>>
  <2>1. r \in Runs /\ r.n = 24 /\ up = Cons(r, e) /\ e \in Seq(Runs) /\ Bytes(e) = 0
    BY <1>1, <1>3, ZeroRun, EmptyIs, BytesOf DEF Zeros
  <2> HIDE DEF r, e
  <2>2. Bytes(up) = 24 /\ up \in Seq(Runs)
    BY <2>1, BytesOf, ConsIs
  <2>3. up' = Zeros(0, <<>>)
    BY <2>2, CutAll DEF Zeros
  <2> QED
    BY <1>2, <2>3 DEF Leftover, Ops
<1>4. CASE d = 524
  <2> DEFINE e == <<>>
  <2>1. e \in Seq(Runs)
    BY EmptyIs
  <2> HIDE DEF e
  <2>2. Cut(Zeros(524, e), 500) = Zeros(524 - 500, e)
    BY <2>1, ZerosCut
  <2>3. up' = Zeros(24, <<>>)
    BY <1>1, <1>4, <2>2 DEF e
  <2> QED
    BY <1>2, <2>3 DEF Leftover, Ops
<1> QED
  BY <1>1, <1>3, <1>4

\* What the server reads of a command is the command.
LEMMA OrderIs ==
  ASSUME op \in Ops, NEW s \in Seq(Runs)
  PROVE  /\ Order(s) \in Seq(Runs) /\ Order(s) # <<>> /\ Head(Order(s)).what = op
         /\ Cut(Order(s), 500) = Zeros(524, s)
         /\ \A e \in Runs : Append(Order(s), e) = Order(Append(s, e))
<1> DEFINE q == Run(op, 16, 0)
           r == Run("zero", 1008, 0)
<1>1. op \in Kinds
  BY KindsAre
<1>2. q \in Runs /\ q.what = op /\ q.n = 16
  BY <1>1, RunIs
<1>3. r \in Runs /\ r.n = 1008 /\ Rest(r, 484) = Run("zero", 524, 0)
  BY ZeroRun
<1>4. \A t : Order(t) = Cons(q, Cons(r, t))
  BY DEF Order
<1> HIDE DEF q, r
<1>5. Cons(r, s) \in Seq(Runs)
  BY <1>3, ConsIs
<1>6. Order(s) \in Seq(Runs) /\ Order(s) # <<>> /\ Head(Order(s)) = q
  BY <1>2, <1>4, <1>5, ConsIs, ConsParts
<1>7. Cut(Order(s), 500) = Zeros(524, s)
  <2>1. q.n < 500 /\ 500 < q.n + r.n /\ 500 - q.n = 484 /\ 500 \in Nat
    BY <1>2, <1>3
  <2>2. ASSUME NEW n \in Nat, q.n < n, n < q.n + r.n
        PROVE  Cut(Cons(q, Cons(r, s)), n) = Cons(Rest(r, n - q.n), s)
    <3>1. q \in Runs /\ r \in Runs
      BY <1>2, <1>3
    <3> QED
      BY <2>2, <3>1, CutSecond
  <2>3. Cut(Cons(q, Cons(r, s)), 500) = Cons(Rest(r, 484), s)
    BY <2>1, <2>2
  <2> QED
    BY <1>3, <1>4, <2>3 DEF Zeros
<1>8. ASSUME NEW e \in Runs
      PROVE  Append(Order(s), e) = Order(Append(s, e))
  <2>1. Append(Cons(q, Cons(r, s)), e) = Cons(q, Append(Cons(r, s), e))
    BY <1>2, <1>5, ConsAppend
  <2>2. Append(Cons(r, s), e) = Cons(r, Append(s, e))
    BY <1>3, ConsAppend
  <2> QED
    BY <1>4, <2>1, <2>2
<1> QED
  BY <1>2, <1>6, <1>7, <1>8

LEMMA NamesAre ==
  ASSUME NEW c \in Nat
  PROVE  /\ Names(c) \in Seq(Runs) /\ (c = 0 <=> Names(c) = <<>>)
         /\ Run("name", 1024, 0) \in Runs /\ Run("name", 1024, 0).n = 1024
         /\ c # 0 => Names(c) = Cons(Run("name", 1024, 0), Names(c - 1))
<1> DEFINE r == Run("name", 1024, 0)
<1>1. r \in Runs /\ r.n = 1024
  BY RunIs, KindsAre
<1>2. \A k \in Nat : /\ Names(k) \in Seq(Runs) /\ Len(Names(k)) = k
                     /\ \A i \in 1 .. k : Names(k)[i] = r
  BY <1>1 DEF Names
<1> HIDE DEF r
<1>3. ASSUME c # 0
      PROVE  Names(c) = Cons(r, Names(c - 1))
  <2>1. c - 1 \in Nat
    BY <1>3
  <2> DEFINE s == Names(c - 1)
  <2>2. s \in Seq(Runs) /\ Len(s) = c - 1 /\ \A i \in 1 .. c - 1 : s[i] = r
    BY <1>2, <2>1
  <2> HIDE DEF s
  <2> DEFINE t == Cons(r, s)
  <2>3. t \in Seq(Runs) /\ Len(t) = 1 + Len(s) /\ t[1] = r
        /\ \A i \in 1 .. Len(s) : t[i + 1] = s[i]
    <3>1. r \in Runs /\ s \in Seq(Runs)
      BY <1>1, <2>2
    <3> QED
      BY <3>1, ConsIs
  <2> HIDE DEF t
  <2>4. \A i \in 1 .. c : i # 1 => i - 1 \in 1 .. c - 1 /\ (i - 1) + 1 = i
    BY <1>3
  <2>5. \A i \in 1 .. c : t[i] = r
    BY <2>2, <2>3, <2>4
  <2>6. Names(c) \in Seq(Runs) /\ Len(Names(c)) = c /\ \A i \in 1 .. c : Names(c)[i] = r
    BY <1>2
  <2>7. Len(t) = c
    BY <1>3, <2>2, <2>3
  <2>8. Names(c) = t
    BY <2>3, <2>5, <2>6, <2>7
  <2> QED
    BY <2>8 DEF s, t
<1>4. Len(Names(c)) = c /\ Len(<<>>) = 0 /\ Names(c) \in Seq(Runs)
  BY <1>2
<1>5. c = 0 <=> Names(c) = <<>>
  BY <1>4
<1> QED
  BY <1>1, <1>3, <1>4, <1>5 DEF r


LEMMA CountIs ==
  ASSUME NEW c \in Counts
  PROVE  /\ c \in Nat /\ Names(c) \in Seq(Runs)
         /\ Run("count", 2, c) \in Runs
         /\ Run("count", 2, c).n = 2 /\ Run("count", 2, c).v = c
<1>1. c \in Nat /\ "count" \in Kinds
  BY SizesAre, KindsAre
<1>2. Names(c) \in Seq(Runs)
  BY <1>1, NamesAre
<1>3. /\ Run("count", 2, c) \in Runs
      /\ Run("count", 2, c).n = 2 /\ Run("count", 2, c).v = c
  BY <1>1, RunIs
<1> QED
  BY <1>1, <1>2, <1>3

\* A block of which n bytes of the content, at least the NUL, are still to be sent.
Block(n) == Run("data", 1024, Min({1024, n - 1}))

LEMMA BlockIs ==
  ASSUME NEW n \in Nat, n > 0
  PROVE  /\ Block(n) \in Runs /\ Block(n).n = 1024
         /\ Block(n).v = IF 1024 <= n - 1 THEN 1024 ELSE n - 1
<1>1. Min({1024, n - 1}) = IF 1024 <= n - 1 THEN 1024 ELSE n - 1
  BY MinOf
<1>2. Min({1024, n - 1}) \in Nat
  BY <1>1
<1> QED
  BY <1>1, <1>2, RunIs, KindsAre DEF Block

LEMMA SentIs ==
  ASSUME NEW left \in Nat, NEW k \in Nat, k = 0 \/ 1024 * (k - 1) < left
  PROVE  /\ Sent(left, k) \in Seq(Runs) /\ Len(Sent(left, k)) = k
         /\ \A i \in 1 .. k : Sent(left, k)[i] = Block(left - 1024 * (i - 1))
<1>1. ASSUME NEW i \in 1 .. k
      PROVE  left - 1024 * (i - 1) \in Nat /\ left - 1024 * (i - 1) > 0
  OBVIOUS
<1>2. Sent(left, k) = [i \in 1 .. k |-> Block(left - 1024 * (i - 1))]
  BY DEF Sent, Block
<1>3. \A i \in 1 .. k : Block(left - 1024 * (i - 1)) \in Runs
  BY <1>1, BlockIs
<1> QED
  BY <1>2, <1>3

LEMMA SentNone ==
  ASSUME NEW left
  PROVE  Sent(left, 0) = <<>>
BY DEF Sent

LEMMA SentAppend ==
  ASSUME NEW left \in Nat, NEW k \in Nat, NEW n \in Nat, n > 0,
         left <= 1024 * k + n, left >= 1024 * k + n
  PROVE  /\ Sent(left, k) \in Seq(Runs)
         /\ Append(Sent(left, k), Block(n)) = Sent(left, k + 1)
<1> DEFINE s == Sent(left, k)
           t == Sent(left, k + 1)
<1>1. left \in Nat /\ (k = 0 \/ 1024 * (k - 1) < left) /\ 1024 * ((k + 1) - 1) < left
      /\ left - 1024 * ((k + 1) - 1) = n
  OBVIOUS
<1>2. s \in Seq(Runs) /\ Len(s) = k /\ \A i \in 1 .. k : s[i] = Block(left - 1024 * (i - 1))
  BY <1>1, SentIs
<1>3. t \in Seq(Runs) /\ Len(t) = k + 1
      /\ \A i \in 1 .. k + 1 : t[i] = Block(left - 1024 * (i - 1))
  BY <1>1, SentIs
<1>4. Block(n) \in Runs
  BY BlockIs
<1> HIDE DEF s, t
<1> DEFINE a == Append(s, Block(n))
<1>5. a \in Seq(Runs) /\ Len(a) = k + 1 /\ a[k + 1] = Block(n) /\ \A i \in 1 .. k : a[i] = s[i]
  BY <1>2, <1>4
<1> HIDE DEF a
<1>6. t[k + 1] = Block(n)
  BY <1>1, <1>3
<1>7. \A i \in 1 .. k + 1 : i = k + 1 \/ i \in 1 .. k
  OBVIOUS
<1>8. \A i \in 1 .. k + 1 : a[i] = t[i]
  BY <1>2, <1>3, <1>5, <1>6, <1>7
<1>9. a = t
  BY <1>3, <1>5, <1>8
<1> QED
  BY <1>2, <1>9 DEF a, s, t

LEMMA SentCons ==
  ASSUME NEW left \in Nat, NEW k \in Nat, k # 0, 1024 * (k - 1) < left
  PROVE  /\ Sent(left - 1024, k - 1) \in Seq(Runs)
         /\ Block(left) \in Runs
         /\ Sent(left, k) = Cons(Block(left), Sent(left - 1024, k - 1))
<1> DEFINE s == Sent(left - 1024, k - 1)
           t == Sent(left, k)
<1>1. s \in Seq(Runs) /\ Len(s) = k - 1
      /\ \A i \in 1 .. k - 1 : s[i] = Block(left - 1024 * ((i + 1) - 1))
  <2>1. CASE k = 1
    <3>1. s = <<>>
      BY <2>1, SentNone
    <3> HIDE DEF s
    <3> QED
      BY <2>1, <3>1
  <2>2. CASE k # 1
    <3>1. left - 1024 \in Nat /\ k - 1 \in Nat /\ 1024 * ((k - 1) - 1) < left - 1024
      BY <2>2
    <3>2. s \in Seq(Runs) /\ Len(s) = k - 1
          /\ \A i \in 1 .. k - 1 : s[i] = Block((left - 1024) - 1024 * (i - 1))
      BY <3>1, SentIs
    <3>3. \A i \in 1 .. k - 1 : (left - 1024) - 1024 * (i - 1) = left - 1024 * ((i + 1) - 1)
      OBVIOUS
    <3> QED
      BY <3>2, <3>3
  <2> QED
    BY <2>1, <2>2
<1>2. t \in Seq(Runs) /\ Len(t) = k /\ \A i \in 1 .. k : t[i] = Block(left - 1024 * (i - 1))
  BY SentIs
<1>3. Block(left) \in Runs
  BY BlockIs
<1> HIDE DEF s, t
<1> DEFINE c == Cons(Block(left), s)
<1>4. c \in Seq(Runs) /\ Len(c) = 1 + Len(s) /\ c[1] = Block(left)
      /\ \A i \in 1 .. Len(s) : c[i + 1] = s[i]
  BY <1>1, <1>3, ConsIs
<1> HIDE DEF c
<1>5. t[1] = Block(left)
  <2>1. 1 \in 1 .. k /\ left - 1024 * (1 - 1) = left
    OBVIOUS
  <2> QED
    BY <1>2, <2>1
<1>6. ASSUME NEW i \in 1 .. k, i # 1
      PROVE  c[i] = t[i]
  <2>1. i - 1 \in 1 .. k - 1 /\ (i - 1) + 1 = i
    BY <1>6
  <2>2. c[i] = s[i - 1]
    BY <1>1, <1>4, <2>1
  <2>3. s[i - 1] = Block(left - 1024 * (i - 1))
    BY <1>1, <2>1
  <2> QED
    BY <1>2, <2>2, <2>3
<1>7. Len(c) = k
  BY <1>1, <1>4
<1>8. c = t
  BY <1>2, <1>4, <1>5, <1>6, <1>7
<1> QED
  BY <1>1, <1>3, <1>8 DEF c, s, t

\* A download is cut into pieces that are as long together as its content.
Piece(n) == Run("data", Min({Segment, n}), Min({Segment, n - 1}))

LEMMA PieceIs ==
  ASSUME NEW n \in Nat, n > 0
  PROVE  Piece(n) \in Runs /\ Piece(n).n = IF Segment <= n THEN Segment ELSE n
<1>1. Segment \in Nat /\ Segment > 0
  BY SizesAre
<1>2. /\ Min({Segment, n}) = IF Segment <= n THEN Segment ELSE n
      /\ Min({Segment, n - 1}) = IF Segment <= n - 1 THEN Segment ELSE n - 1
  BY <1>1, MinOf
<1>3. Min({Segment, n}) \in Nat /\ Min({Segment, n}) > 0 /\ Min({Segment, n - 1}) \in Nat
  BY <1>1, <1>2
<1> QED
  BY <1>2, <1>3, RunIs, KindsAre DEF Piece

LEMMA BlocksAre ==
  ASSUME NEW num \in Nat, num > 0
  PROVE  /\ Blocks(num, Segment) \in Seq(Runs)
         /\ num <= Segment => Blocks(num, Segment) = Cons(Piece(num), <<>>)
         /\ Segment < num =>
              Blocks(num, Segment) = Cons(Piece(num), Blocks(num - Segment, Segment))
<1> DEFINE g == Segment
           m(n) == (n + g - 1) \div g
           B(n) == Blocks(n, g)
<1>1. g \in Nat /\ g > 0
  BY SizesAre
<1> HIDE DEF g
<1>2. ASSUME NEW n \in Nat, n > 0
      PROVE  /\ m(n) \in Nat /\ g * m(n) < n + g /\ n <= g * m(n)
             /\ m(n) > 0
  <2>1. /\ (n + g - 1) \div g \in Nat
        /\ g * ((n + g - 1) \div g) <= n + g - 1
        /\ n + g - 1 < g * ((n + g - 1) \div g) + g
    BY <1>1, <1>2
  <2>2. m(n) # 0
    BY <1>1, <1>2, <2>1
  <2> QED
    BY <1>1, <1>2, <2>1, <2>2
<1>3. ASSUME NEW n \in Nat, n > 0
      PROVE  /\ B(n) \in Seq(Runs) /\ Len(B(n)) = m(n)
             /\ \A i \in 1 .. m(n) : B(n)[i] = Piece(n - g * (i - 1))
  <2>1. m(n) \in Nat /\ g * m(n) < n + g
    BY <1>2, <1>3
  <2>2. ASSUME NEW i \in 1 .. m(n)
        PROVE  n - g * (i - 1) \in Nat /\ n - g * (i - 1) > 0
    <3> DEFINE mn == m(n)
    <3>1. mn \in Nat /\ g * mn < n + g /\ i \in 1 .. mn
      BY <2>1
    <3> HIDE DEF mn
    <3>2. i <= mn /\ i \in Nat /\ i > 0
      BY <3>1
    <3>3. g * i <= g * mn
      BY <1>1, <3>1, <3>2
    <3>4. g * (i - 1) = g * i - g
      BY <1>1, <3>2
    <3>5. g * i \in Nat /\ g * mn \in Nat
      BY <1>1, <3>1, <3>2
    <3> QED
      BY <1>1, <3>1, <3>3, <3>4, <3>5
  <2>3. B(n) = [i \in 1 .. m(n) |-> Piece(n - g * (i - 1))]
    BY DEF Blocks, Piece, g
  <2>4. \A i \in 1 .. m(n) : Piece(n - g * (i - 1)) \in Runs
    BY <2>2, PieceIs
  <2> HIDE DEF m
  <2> QED
    BY <2>1, <2>3, <2>4
<1>4. ASSUME num <= g
      PROVE  m(num) = 1
  <2>1. g * m(num) < g + g
    BY <1>1, <1>2, <1>4
  <2> DEFINE mn == m(num)
  <2>2. mn \in Nat /\ mn > 0 /\ g * mn < g + g
    BY <1>2, <2>1
  <2> HIDE DEF mn
  <2>3. mn >= 2 => g * mn >= g * 2
    BY <1>1, <2>2
  <2>4. mn < 2
    BY <1>1, <2>2, <2>3
  <2>5. mn = 1
    BY <2>2, <2>4
  <2> QED
    BY <2>5 DEF mn
<1>5. ASSUME g < num
      PROVE  num - g \in Nat /\ num - g > 0 /\ m(num) = m(num - g) + 1
  <2>1. num - g \in Nat /\ num - g > 0
    BY <1>1, <1>5
  <2> DEFINE a == m(num)
             b == m(num - g)
  <2>2. /\ a \in Nat /\ g * a < num + g /\ num <= g * a
        /\ b \in Nat /\ g * b < (num - g) + g /\ num - g <= g * b
    BY <1>2, <2>1
  <2> HIDE DEF a, b
  <2>3. g * (b + 1) = g * b + g /\ g * (b + 2) = g * b + g + g /\ g * b \in Nat /\ g * a \in Nat
    BY <1>1, <2>2
  <2>4. ~(a < b + 1)
    <3> SUFFICES ASSUME a <= b
                 PROVE  FALSE
      BY <2>2
    <3>1. g * a <= g * b
      BY <1>1, <2>2
    <3> QED
      BY <1>1, <2>2, <2>3, <3>1
  <2>5. ~(a > b + 1)
    <3> SUFFICES ASSUME b + 2 <= a
                 PROVE  FALSE
      BY <2>2
    <3>1. g * (b + 2) <= g * a
      BY <1>1, <2>2
    <3> QED
      BY <1>1, <2>2, <2>3, <3>1
  <2>6. a = b + 1
    BY <2>2, <2>4, <2>5
  <2> QED
    BY <2>1, <2>6 DEF a, b
<1> HIDE DEF m, B
<1>6. B(num) \in Seq(Runs) /\ Len(B(num)) = m(num) /\ m(num) \in Nat /\ m(num) > 0
      /\ B(num)[1] = Piece(num) /\ Piece(num) \in Runs
  <2>1. m(num) \in Nat /\ m(num) > 0
    BY <1>2
  <2>2. 1 \in 1 .. m(num) /\ num - g * (1 - 1) = num
    BY <1>1, <2>1
  <2> QED
    BY <1>3, <2>1, <2>2, PieceIs
<1>7. ASSUME num <= g
      PROVE  B(num) = Cons(Piece(num), <<>>)
  <2> DEFINE p == Piece(num)
             e == <<>>
             c == Cons(p, e)
  <2>1. p \in Runs /\ e \in Seq(Runs) /\ Len(e) = 0
    BY <1>6, EmptyIs
  <2> HIDE DEF p, e
  <2>2. c \in Seq(Runs) /\ Len(c) = 1 + Len(e) /\ c[1] = p
    BY <2>1, ConsIs
  <2> HIDE DEF c
  <2>3. B(num) = c
    BY <1>4, <1>6, <1>7, <2>1, <2>2 DEF p
  <2> QED
    BY <2>3 DEF c, e, p
<1>8. ASSUME g < num
      PROVE  B(num) = Cons(Piece(num), B(num - g))
  <2> DEFINE k == m(num - g)
             s == B(num - g)
             p == Piece(num)
             c == Cons(p, s)
             t == B(num)
  <2>1. num - g \in Nat /\ num - g > 0 /\ m(num) = k + 1
    BY <1>5, <1>8
  <2>2. k \in Nat /\ s \in Seq(Runs) /\ Len(s) = k
        /\ \A i \in 1 .. k : s[i] = Piece((num - g) - g * (i - 1))
    BY <1>2, <1>3, <2>1
  <2>3. t \in Seq(Runs) /\ Len(t) = k + 1 /\ t[1] = p /\ p \in Runs
        /\ \A i \in 1 .. k + 1 : t[i] = Piece(num - g * (i - 1))
    BY <1>3, <1>6, <2>1
  <2> HIDE DEF k, s, t
  <2>4. c \in Seq(Runs) /\ Len(c) = 1 + Len(s) /\ c[1] = p
        /\ \A i \in 1 .. Len(s) : c[i + 1] = s[i]
    <3> HIDE DEF p
    <3> QED
      BY <2>2, <2>3, ConsIs
  <2> HIDE DEF c, p
  <2>5. ASSUME NEW i \in 1 .. k + 1, i # 1
        PROVE  c[i] = t[i]
    <3>1. i - 1 \in 1 .. k /\ (i - 1) + 1 = i /\ i \in Nat
      BY <2>2, <2>5
    <3>2. (num - g) - g * ((i - 1) - 1) = num - g * (i - 1)
      BY <1>1, <3>1
    <3>3. c[i] = s[i - 1] /\ s[i - 1] = Piece((num - g) - g * ((i - 1) - 1))
      BY <2>2, <2>4, <3>1
    <3> QED
      BY <2>3, <3>2, <3>3
  <2>6. Len(c) = k + 1
    BY <2>2, <2>4
  <2>7. c = t
    BY <2>3, <2>4, <2>5, <2>6
  <2> QED
    BY <2>7 DEF c, p, s, t
<1> QED
  BY <1>6, <1>7, <1>8 DEF B, g

LEMMA BlocksBytes ==
  \A num \in Nat : num > 0 =>
    Blocks(num, Segment) \in Seq(Runs) /\ Bytes(Blocks(num, Segment)) = num
<1> DEFINE S == {k \in Nat : \A num \in 1 .. k : Bytes(Blocks(num, Segment)) = num}
<1>1. Segment \in Nat /\ Segment > 0
  BY SizesAre
<1>2. 0 \in S
  OBVIOUS
<1>3. ASSUME NEW k \in Nat, k \in S
      PROVE  k + 1 \in S
  <2> SUFFICES ASSUME NEW num \in 1 .. k + 1
               PROVE  Bytes(Blocks(num, Segment)) = num
    OBVIOUS
  <2>1. num \in Nat /\ num > 0
    OBVIOUS
  <2> DEFINE p == Piece(num)
  <2>2. p \in Runs /\ p.n = IF Segment <= num THEN Segment ELSE num
    BY <2>1, PieceIs
  <2> HIDE DEF p
  <2>3. CASE num <= Segment
    <3> DEFINE e == <<>>
    <3>1. e \in Seq(Runs) /\ Bytes(e) = 0
      BY EmptyIs, BytesOf
    <3>2. Blocks(num, Segment) = Cons(p, e)
      BY <2>1, <2>3, BlocksAre DEF p
    <3> HIDE DEF e
    <3>3. Bytes(Cons(p, e)) = p.n + Bytes(e)
      BY <2>2, <3>1, BytesOf
    <3> QED
      BY <1>1, <2>1, <2>2, <2>3, <3>1, <3>2, <3>3
  <2>4. CASE Segment < num
    <3> DEFINE s == Blocks(num - Segment, Segment)
    <3>1. num - Segment \in Nat /\ num - Segment > 0 /\ num - Segment \in 1 .. k
      BY <1>1, <2>1, <2>4
    <3>2. s \in Seq(Runs) /\ Bytes(s) = num - Segment
      BY <1>3, <3>1, BlocksAre
    <3>3. Blocks(num, Segment) = Cons(p, s)
      BY <2>1, <2>4, BlocksAre DEF p
    <3> HIDE DEF s
    <3>4. Bytes(Cons(p, s)) = p.n + Bytes(s)
      BY <2>2, <3>2, BytesOf
    <3> QED
      BY <1>1, <2>1, <2>2, <2>4, <3>2, <3>3, <3>4
  <2> QED
    BY <1>1, <2>1, <2>3, <2>4
<1> HIDE DEF S
<1>4. \A k \in Nat : k \in S
  BY <1>2, <1>3, InductionSet
<1>5. ASSUME NEW num \in Nat, num > 0
      PROVE  Blocks(num, Segment) \in Seq(Runs) /\ Bytes(Blocks(num, Segment)) = num
  <2>1. num \in 1 .. num /\ num \in S
    BY <1>4, <1>5
  <2>2. Bytes(Blocks(num, Segment)) = num
    BY <2>1 DEF S
  <2> QED
    BY <1>5, <2>2, BlocksAre
<1> QED
  BY <1>5


-----------------------------------------------------------------------------
(* The steps, stage by stage *)

LEMMA ResultIs ==
  ASSUME NEW tag, NEW n
  PROVE  Result(tag, n).tag = tag /\ Result(tag, n).len = n
BY DEF Result

\* The users of the stages: which actions a stage allows.
LEMMA IdleSteps ==
  ASSUME Idle, Next
  PROVE  Issue \/ Serve
BY DEF Idle, Next, Client, Server, SendSize, SendBlock, ReadFlag, ReadCount, ReadName,
       ReadSize, Recv, ServeList, ServeDelete, ServeDownload, ServeQuit, ServeSize,
       ServeBlock, ServeUpdate

LEMMA IdleStep ==
  ASSUME Patient, WireTypes, Idle, Next
  PROVE  Stage'
<1>1. CASE Issue
  <2>1. up = <<>> /\ spc = "read" /\ down = <<>> /\ cpc = "idle"
    BY <1>1 DEF Issue, Idle
  <2>2. PICK o \in Ops, s \in Sizes :
          /\ op' = o /\ sz' = IF o = "update" THEN s ELSE 0
          /\ up' = up \o <<Run(o, 16, 0), Run("zero", 1008, 0)>>
          /\ cpc' = IF o = "update" THEN "size" ELSE "flag"
    BY <1>1 DEF Issue
  <2>3. up' = (Order(<<>>))'
    <3> DEFINE q == Run(o, 16, 0)
               r == Run("zero", 1008, 0)
               e == <<>>
    <3>1. q \in Runs /\ r \in Runs /\ e \in Seq(Runs)
      BY RunIs, KindsAre, EmptyIs
    <3>2. up' = <<q, r>>
      BY <2>1, <2>2
    <3>3. (Order(<<>>))' = Cons(q, Cons(r, e))
      BY <2>2 DEF Order
    <3> HIDE DEF q, r
    <3>4. <<q, r>> = <<q, r>> \o <<>>
      OBVIOUS
    <3> HIDE DEF e
    <3>5. <<q, r>> \o e = Cons(q, Cons(r, e))
      BY <3>1, ConsPair
    <3> QED
      BY <3>2, <3>3, <3>4, <3>5 DEF e
  <2>4. down' = <<>> /\ spc' = "read"
    BY <1>1, <2>1 DEF Issue, serverVars
  <2>5. CASE o = "update"
    <3>1. cpc' = "size" /\ op' = "update"
      BY <2>2, <2>5
    <3>2. Loading(<<>>)'
      BY <3>1 DEF Loading
    <3>3. Uploading'
      BY <2>3, <2>4, <3>1, <3>2, EmptyIs DEF Uploading, Behind
    <3> QED
      BY <3>3 DEF Stage
  <2>6. CASE o # "update"
    BY <2>2, <2>3, <2>4, <2>6 DEF Stage, Asked
  <2> QED
    BY <2>5, <2>6
<1>2. CASE Serve
  <2>1. up # <<>> /\ up' = Cut(up, 500) /\ UNCHANGED <<down, clientVars, x, text>>
    BY <1>2 DEF Serve
  <2>2. Leftover' /\ Head(up).what \notin Ops
    BY <2>1, LeftoverCut DEF Idle
  <2>3. UNCHANGED <<spc, said>>
    BY <1>2, <2>2 DEF Serve
  <2> QED
    BY <2>1, <2>2, <2>3 DEF Stage, Idle, Agreed, clientVars
<1> QED
  BY <1>1, <1>2, IdleSteps


LEMMA GoneStep ==
  ASSUME Gone, Next
  PROVE  FALSE
BY DEF Gone, Next, Issue, Client, Server, SendSize, SendBlock, ReadFlag, ReadCount, ReadName,
       ReadSize, Recv, Serve, ServeList, ServeDelete, ServeDownload, ServeQuit, ServeSize,
       ServeBlock, ServeUpdate

LEMMA AskedStep ==
  ASSUME WireTypes, Asked, Next
  PROVE  Stage'
<1>1. Serve
  BY DEF Asked, Next, Issue, Client, Server, SendSize, SendBlock, ReadFlag, ReadCount,
         ReadName, ReadSize, Recv, ServeList, ServeDelete, ServeDownload, ServeQuit,
         ServeSize, ServeBlock, ServeUpdate
<1>2. Head(up).what = op /\ Cut(up, 500) = Zeros(524, <<>>) /\ op \in Ops
  <2> DEFINE e == <<>>
  <2>1. op \in Ops /\ e \in Seq(Runs) /\ up = Order(e)
    BY EmptyIs DEF Asked, WireTypes, Numbers
  <2> HIDE DEF e
  <2>2. Head(Order(e)).what = op /\ Cut(Order(e), 500) = Zeros(524, e)
    BY <2>1, OrderIs
  <2> QED
    BY <2>1, <2>2 DEF e
<1>3. spc' = op /\ up' = Zeros(524, <<>>) /\ UNCHANGED <<down, clientVars>>
  BY <1>1, <1>2 DEF Serve
<1> QED
  BY <1>3 DEF Asked, Stage, Serving, clientVars, Zeros

LEMMA ReplyIs ==
  ASSUME NEW tag, NEW runs, NEW result, down = <<>>, Reply(tag, runs, result)
  PROVE  down' = <<Run("flag", 5, tag)>> \o runs /\ said' = result
<1>1. down' = <<>> \o <<Run("flag", 5, tag)>> \o runs /\ said' = result
  BY DEF Reply
<1>2. <<>> \o <<Run("flag", 5, tag)>> = <<Run("flag", 5, tag)>>
  OBVIOUS
<1> QED
  BY <1>1, <1>2

\* An answer, and what is left of its command.
LEMMA AnswerGiven ==
  ASSUME NEW tag \in Tags, NEW runs \in Seq(Runs), NEW result,
         down = <<>>, Reply(tag, runs, result), Answer(tag, runs, result),
         cpc = "flag", Leftover, up' = up, cpc' = cpc, op' = op, sz' = sz,
         spc' = IF op = "quit" THEN "closed" ELSE "read"
  PROVE  Stage'
<1>1. down' = Cons(Run("flag", 5, tag), runs) /\ said' = result
  BY ReplyIs DEF Cons
<1>2. Answer(tag, runs, said)'
  BY <1>1 DEF Answer
<1>3. Leftover'
  BY DEF Leftover
<1>4. Answering'
  BY <1>1, <1>2, <1>3 DEF Answering
<1> QED
  BY <1>4 DEF Stage

LEMMA ServingSteps ==
  ASSUME WireTypes, Serving, Next
  PROVE  /\ ServeList \/ ServeDelete \/ ServeDownload \/ ServeQuit
         /\ UNCHANGED <<up, cpc, op, sz>>
<1>1. cpc = "flag" /\ down = <<>> /\ spc \in {"list", "delete", "download", "quit"}
  BY DEF Serving, WireTypes, Numbers, Ops
<1>2. ServeList \/ ServeDelete \/ ServeDownload \/ ServeQuit
  BY <1>1 DEF Next, Issue, Client, Server, SendSize, SendBlock, ReadFlag, ReadCount,
     ReadName, ReadSize, Recv, Serve, ServeSize, ServeBlock, ServeUpdate
<1>3. UNCHANGED up /\ UNCHANGED clientVars
  BY <1>2 DEF ServeList, ServeDelete, ServeDownload, ServeQuit
<1> QED
  BY <1>2, <1>3 DEF clientVars

LEMMA ServingStep ==
  ASSUME FieldsTravel, WireTypes, Serving, Next
  PROVE  Stage'
<1>1. down = <<>> /\ cpc = "flag" /\ Leftover /\ UNCHANGED <<up, cpc, op, sz>>
  BY ServingSteps DEF Serving, Leftover
<1>2. CASE ServeList
  <2>1. op = "list" /\ spc' = "read"
    BY <1>2 DEF ServeList, Serving
  <2>2. PICK c \in Counts :
          Reply("0x01", <<Run("count", 2, c)>> \o [i \in 1 .. c |-> Run("name", 1024, 0)],
                Result("OK", c))
    BY <1>2 DEF ServeList
  <2> DEFINE runs == Cons(Run("count", 2, c), Names(c))
  <2>3. Reply("0x01", runs, Result("OK", c))
    BY <2>2 DEF Cons, Names
  <2>4. Run("count", 2, c) \in Runs /\ Names(c) \in Seq(Runs)
    BY CountIs
  <2>5. runs \in Seq(Runs)
    BY <2>4, ConsIs
  <2>6. Answer("0x01", runs, Result("OK", c))
    BY <2>1 DEF Answer
  <2> HIDE DEF runs
  <2>7. "0x01" \in Tags /\ spc' = IF op = "quit" THEN "closed" ELSE "read"
    BY <2>1 DEF Tags
  <2> QED
    BY <1>1, <2>3, <2>5, <2>6, <2>7, AnswerGiven
<1>3. CASE ServeDelete
  <2>1. op = "delete" /\ spc' = "read"
    BY <1>3 DEF ServeDelete, Serving
  <2>2. PICK tag \in Tags : \E result :
          Reply(tag, <<>>, result) /\ Answer(tag, <<>>, result)
    BY <1>3, <2>1 DEF ServeDelete, Answer, Tags
  <2> QED
    BY <1>1, <2>1, <2>2, EmptyIs, AnswerGiven
<1>4. CASE ServeDownload
  <2>1. op = "download" /\ spc' = "read"
    BY <1>4 DEF ServeDownload, Serving
  <2>2. CASE Reply("0xFF", <<>>, Result("SERROR", 0))
    <3>1. Answer("0xFF", <<>>, Result("SERROR", 0)) /\ "0xFF" \in Tags
      BY <2>1 DEF Answer, Tags
    <3> QED
      BY <1>1, <2>1, <2>2, <3>1, EmptyIs, AnswerGiven
  <2>3. ASSUME NEW s \in Sizes,
               Reply("0x07", <<SizeRun(s + 1)>> \o Blocks(s + 1, Segment), Result("OK", s))
        PROVE  Stage'
    <3> DEFINE runs == Cons(SizeRun(s + 1), Blocks(s + 1, Segment))
    <3>1. Reply("0x07", runs, Result("OK", s))
      BY <2>3 DEF Cons
    <3>2. SizeRun(s + 1) \in Runs /\ s + 1 \in Nat /\ s + 1 > 0
      BY SizesAre, SizeRunIs
    <3>3. Blocks(s + 1, Segment) \in Seq(Runs)
      BY <3>2, BlocksBytes
    <3>4. runs \in Seq(Runs)
      BY <3>2, <3>3, ConsIs
    <3>5. Answer("0x07", runs, Result("OK", s))
      BY <2>1 DEF Answer
    <3> HIDE DEF runs
    <3>6. "0x07" \in Tags /\ spc' = IF op = "quit" THEN "closed" ELSE "read"
      BY <2>1 DEF Tags
    <3> QED
      BY <1>1, <3>1, <3>4, <3>5, <3>6, AnswerGiven
  <2> QED
    BY <1>4, <2>2, <2>3 DEF ServeDownload
<1>5. CASE ServeQuit
  <2>1. op = "quit" /\ spc' = "closed" /\ Reply("0x09", <<>>, Result("OK", 0))
    BY <1>5 DEF ServeQuit, Serving
  <2>2. Answer("0x09", <<>>, Result("OK", 0)) /\ "0x09" \in Tags
    BY <2>1 DEF Answer, Tags
  <2> QED
    BY <1>1, <2>1, <2>2, EmptyIs, AnswerGiven
<1> QED
  BY <1>2, <1>3, <1>4, <1>5, ServingSteps

-----------------------------------------------------------------------------
(* The client reads its answer *)

LEMMA ConsCut ==
  ASSUME NEW r \in Runs, NEW s \in Seq(Runs)
  PROVE  /\ Head(Cons(r, s)) = r /\ Cons(r, s) # <<>>
         /\ \A n \in Nat : n = r.n => Cut(Cons(r, s), n) = s
BY ConsParts, CutFirst, RunBytes

LEMMA AnsweringSteps ==
  ASSUME Answering, Next
  PROVE  ReadFlag \/ Serve
BY DEF Answering, Next, Issue, Client, Server, SendSize, SendBlock, ReadCount,
       ReadName, ReadSize, Recv, ServeList, ServeDelete, ServeDownload, ServeQuit,
       ServeSize, ServeBlock, ServeUpdate

\* While the client reads, the server may read the zeros of the command.
LEMMA ServeZeros ==
  ASSUME Leftover, Serve
  PROVE  Leftover' /\ UNCHANGED <<down, clientVars, x, text, spc, said>>
<1>1. up # <<>> /\ up' = Cut(up, 500) /\ UNCHANGED <<down, clientVars, x, text>>
  BY DEF Serve
<1>2. Leftover' /\ Head(up).what \notin Ops
  BY <1>1, LeftoverCut
<1> QED
  BY <1>1, <1>2 DEF Serve


LEMMA FlagRead ==
  ASSUME WireTypes, Answering, ReadFlag
  PROVE  \E tag \in Tags : \E runs \in Seq(Runs) :
           /\ Answer(tag, runs, said) /\ down' = runs
           /\ UNCHANGED <<up, spc, said, op, sz, taken>>
           /\ IF tag = "0xFF" THEN cpc' = "idle" /\ heard' = Result("SERROR", 0)
              ELSE /\ cpc' = AfterFlag[op]
                   /\ heard' = Result("OK", IF op = "update" THEN sz ELSE 0)
<1>1. PICK tag \in Tags, runs \in Seq(Runs) :
        Answer(tag, runs, said) /\ down = Cons(Run("flag", 5, tag), runs)
  BY DEF Answering
<1> DEFINE r == Run("flag", 5, tag)
<1>2. r \in Runs /\ r.what = "flag" /\ r.n = 5 /\ r.v = tag
  BY RunIs, KindsAre
<1>3. down = Cons(r, runs)
  BY <1>1
<1> HIDE DEF r
<1>4. Head(down) = r /\ Cut(down, 5) = runs
  BY <1>1, <1>2, <1>3, ConsCut
<1>5. CASE tag = "0xFF"
  <2>1. op # "quit" /\ Expected[op] # "0xFF"
    BY <1>1, <1>5 DEF Answer, Expected
  <2>2. down' = runs /\ cpc' = "idle" /\ heard' = Result("SERROR", 0)
    BY <1>2, <1>4, <1>5, <2>1 DEF ReadFlag
  <2> QED
    BY <1>1, <1>5, <2>2 DEF ReadFlag, serverVars
<1>6. CASE tag # "0xFF"
  <2>1. tag = Expected[op]
    BY <1>1, <1>6 DEF Answer, Expected
  <2>2. down' = runs /\ cpc' = AfterFlag[op]
        /\ heard' = Result("OK", IF op = "update" THEN sz ELSE 0)
    BY <1>2, <1>4, <1>6, <2>1 DEF ReadFlag
  <2> QED
    BY <1>1, <1>6, <2>2 DEF ReadFlag, serverVars
<1> QED
  BY <1>5, <1>6

LEMMA AnsweringStep ==
  ASSUME WireTypes, Answering, Next
  PROVE  Stage'
<1>0. taken = 0
  BY DEF WireTypes, Numbers, Answering
<1>1. CASE ReadFlag
  <2>1. PICK tag \in Tags, runs \in Seq(Runs) :
          /\ Answer(tag, runs, said) /\ down' = runs
          /\ UNCHANGED <<up, spc, said, op, sz, taken>>
          /\ IF tag = "0xFF" THEN cpc' = "idle" /\ heard' = Result("SERROR", 0)
             ELSE /\ cpc' = AfterFlag[op]
                  /\ heard' = Result("OK", IF op = "update" THEN sz ELSE 0)
    BY <1>1, FlagRead
  <2>2. Leftover' /\ spc' = IF op' = "quit" THEN "closed" ELSE "read"
    BY <2>1 DEF Answering, Leftover
  <2>3. CASE tag = "0xFF"
    <3>1. op # "quit" /\ runs = <<>> /\ said = Result("SERROR", 0)
      BY <2>1, <2>3 DEF Answer
    <3> QED
      BY <2>1, <2>2, <2>3, <3>1 DEF Stage, Idle, Agreed
  <2>4. CASE tag = "0x01"
    <3>1. op = "list" /\ \E c \in Counts : /\ runs = Cons(Run("count", 2, c), Names(c))
                                           /\ said = Result("OK", c)
      BY <2>1, <2>4 DEF Answer
    <3>2. cpc' = "count" /\ heard' = Result("OK", 0)
      BY <2>1, <2>4, <3>1 DEF AfterFlag
    <3>3. Counting'
      BY <2>1, <2>2, <3>1, <3>2 DEF Counting
    <3> QED
      BY <3>3 DEF Stage
  <2>5. CASE tag = "0x07"
    <3>1. op = "download"
          /\ \E s \in Sizes : /\ runs = Cons(SizeRun(s + 1), Blocks(s + 1, Segment))
                              /\ said = Result("OK", s)
      BY <2>1, <2>5 DEF Answer
    <3>2. cpc' = "field" /\ heard' = Result("OK", 0)
      BY <2>1, <2>5, <3>1 DEF AfterFlag
    <3>3. Sizing'
      BY <1>0, <2>1, <2>2, <3>1, <3>2 DEF Sizing
    <3> QED
      BY <3>3 DEF Stage
  <2>6. CASE tag = "0x03"
    <3>1. op = "update" /\ runs = <<>>
          /\ \E n \in Nat : (sz < 1024 => n = sz) /\ said = Result("OK", n)
      BY <2>1, <2>6 DEF Answer
    <3>2. cpc' = "idle" /\ heard' = Result("OK", sz)
      BY <2>1, <2>6, <3>1 DEF AfterFlag
    <3>3. Agreed'
      BY <2>1, <3>1, <3>2, ResultIs DEF Agreed
    <3> QED
      BY <2>1, <2>2, <3>1, <3>2, <3>3 DEF Stage, Idle
  <2>7. CASE tag = "0x05"
    <3>1. op = "delete" /\ runs = <<>> /\ said = Result("OK", 0)
      BY <2>1, <2>7 DEF Answer
    <3>2. cpc' = "idle" /\ heard' = Result("OK", 0)
      BY <2>1, <2>7, <3>1 DEF AfterFlag
    <3> QED
      BY <2>1, <2>2, <3>1, <3>2 DEF Stage, Idle, Agreed
  <2>8. CASE tag = "0x09"
    <3>1. op = "quit" /\ runs = <<>>
      BY <2>1, <2>8 DEF Answer
    <3>2. cpc' = "gone"
      BY <2>1, <2>8, <3>1 DEF AfterFlag
    <3> QED
      BY <2>1, <2>2, <3>1, <3>2 DEF Stage, Gone
  <2> QED
    BY <2>3, <2>4, <2>5, <2>6, <2>7, <2>8 DEF Tags
<1>2. CASE Serve
  <2>1. Leftover' /\ UNCHANGED <<down, clientVars, x, text, spc, said>>
    BY <1>2, ServeZeros DEF Answering
  <2>2. PICK tag \in Tags, runs \in Seq(Runs) :
          Answer(tag, runs, said) /\ down = Cons(Run("flag", 5, tag), runs)
    BY DEF Answering
  <2>3. Answer(tag, runs, said)'
    BY <2>1, <2>2 DEF Answer, clientVars
  <2>4. Answering'
    BY <2>1, <2>2, <2>3 DEF Answering, clientVars
  <2> QED
    BY <2>4 DEF Stage
<1> QED
  BY <1>1, <1>2, AnsweringSteps

LEMMA CountingStep ==
  ASSUME WireTypes, Counting, Next
  PROVE  Stage' /\ cx' \in Nat
<1>1. ReadCount \/ Serve
  BY DEF Counting, Next, Issue, Client, Server, SendSize, SendBlock, ReadFlag,
         ReadName, ReadSize, Recv, ServeList, ServeDelete, ServeDownload, ServeQuit,
         ServeSize, ServeBlock, ServeUpdate
<1>2. PICK c \in Counts : /\ down = Cons(Run("count", 2, c), Names(c))
                          /\ said = Result("OK", c) /\ heard = Result("OK", 0)
  BY DEF Counting
<1> DEFINE r == Run("count", 2, c)
           s == Names(c)
<1>3. c \in Nat /\ s \in Seq(Runs) /\ r \in Runs /\ r.n = 2 /\ r.v = c /\ down = Cons(r, s)
  BY <1>2, CountIs
<1> HIDE DEF r, s
<1>4. CASE ReadCount
  <2>1. Head(down).v = c /\ Cut(down, 2) = s
    BY <1>3, ConsCut
  <2>2. down' = s /\ cx' = c /\ cpc' = (IF c = 0 THEN "idle" ELSE "names")
        /\ UNCHANGED <<up, op, sz, heard, spc, said>>
    BY <1>4, <2>1 DEF ReadCount, serverVars
  <2>3. Leftover' /\ spc' = "read" /\ op' = "list"
    BY <2>2 DEF Counting, Leftover
  <2>4. said.tag = "OK" /\ said.len = c /\ c - c = 0 /\ heard.tag = "OK" /\ heard.len = 0
    BY <1>2, <1>3, ResultIs
  <2>5. ASSUME c = 0
        PROVE  Stage'
    <3>1. s = <<>>
      BY <2>5, NamesAre DEF s
    <3> QED
      BY <2>2, <2>3, <2>4, <2>5, <3>1 DEF Stage, Idle, Agreed
  <2>6. ASSUME c # 0
        PROVE  Stage'
    <3>1. c > 0 /\ c <= c
      BY <1>3, <2>6
    <3>2. Naming'
      BY <1>2, <2>2, <2>3, <2>4, <2>6, <3>1 DEF Naming, s
    <3> QED
      BY <3>2 DEF Stage
  <2> QED
    BY <1>3, <2>2, <2>5, <2>6
<1>5. CASE Serve
  <2>1. Leftover' /\ UNCHANGED <<down, clientVars, x, text, spc, said>>
    BY <1>5, ServeZeros DEF Counting
  <2>2. Counting'
    BY <2>1 DEF Counting, clientVars
  <2> QED
    BY <2>1, <2>2 DEF Stage, clientVars, WireTypes, Numbers
<1> QED
  BY <1>1, <1>4, <1>5

LEMMA NamingStep ==
  ASSUME WireTypes, Naming, Next
  PROVE  Stage' /\ cx' \in Nat
<1>1. ReadName \/ Serve
  BY DEF Naming, Next, Issue, Client, Server, SendSize, SendBlock, ReadFlag,
         ReadCount, ReadSize, Recv, ServeList, ServeDelete, ServeDownload, ServeQuit,
         ServeSize, ServeBlock, ServeUpdate
<1>2. CASE ReadName
  <2>1. cx \in Nat /\ cx # 0 /\ cx - 1 \in Nat
    BY DEF WireTypes, Numbers, Naming
  <2> DEFINE r == Run("name", 1024, 0)
             s == Names(cx - 1)
  <2>2. r \in Runs /\ r.n = 1024 /\ s \in Seq(Runs) /\ down = Cons(r, s)
        /\ (cx - 1 = 0 => s = <<>>)
    BY <2>1, NamesAre DEF Naming
  <2> HIDE DEF r, s
  <2>3. Cut(down, 1024) = s
    BY <2>2, ConsCut
  <2>4. /\ down' = s /\ heard' = [heard EXCEPT !.len = @ + 1] /\ cx' = cx - 1
        /\ cpc' = (IF cx - 1 = 0 THEN "idle" ELSE "names")
        /\ UNCHANGED <<up, op, sz, spc, said>>
    BY <1>2, <2>3 DEF ReadName, serverVars
  <2>5. Leftover' /\ spc' = "read" /\ op' = "list" /\ said' = said
    BY <2>4 DEF Naming, Leftover
  <2>6. said.tag = "OK" /\ said.len \in Nat /\ cx <= said.len
    BY DEF WireTypes, Numbers, Naming, Results
  <2>7. heard' = Result("OK", said.len - (cx - 1))
    <3>1. heard = [tag |-> "OK", len |-> said.len - cx]
      BY DEF Naming, Result
    <3>2. said.len - (cx - 1) = (said.len - cx) + 1
      BY <2>1, <2>6
    <3> QED
      BY <2>4, <3>1, <3>2 DEF Result
  <2>8. ASSUME cx - 1 = 0
        PROVE  Stage'
    <3>1. heard'.tag = "OK" /\ heard'.len = said.len
      BY <2>6, <2>7, <2>8, ResultIs
    <3> QED
      BY <2>2, <2>4, <2>5, <2>6, <2>8, <3>1 DEF Stage, Idle, Agreed
  <2>9. ASSUME cx - 1 # 0
        PROVE  Stage'
    <3>1. cx - 1 > 0 /\ cx - 1 <= said.len
      BY <2>1, <2>6, <2>9
    <3>2. Naming'
      BY <2>4, <2>5, <2>6, <2>7, <2>9, <3>1 DEF Naming, s
    <3> QED
      BY <3>2 DEF Stage
  <2> QED
    BY <2>1, <2>4, <2>8, <2>9
<1>3. CASE Serve
  <2>1. Leftover' /\ UNCHANGED <<down, clientVars, x, text, spc, said>>
    BY <1>3, ServeZeros DEF Naming
  <2>2. Naming'
    BY <2>1 DEF Naming, clientVars
  <2> QED
    BY <2>1, <2>2 DEF Stage, clientVars, WireTypes, Numbers
<1> QED
  BY <1>1, <1>2, <1>3


LEMMA SizingStep ==
  ASSUME FieldsTravel, WireTypes, Sizing, Next
  PROVE  Stage' /\ cx' \in Nat
<1>1. ReadSize \/ Serve
  BY DEF Sizing, Next, Issue, Client, Server, SendSize, SendBlock, ReadFlag,
         ReadCount, ReadName, Recv, ServeList, ServeDelete, ServeDownload, ServeQuit,
         ServeSize, ServeBlock, ServeUpdate
<1>2. PICK n \in Sizes : /\ down = Cons(SizeRun(n + 1), Blocks(n + 1, Segment))
                         /\ said = Result("OK", n) /\ heard = Result("OK", 0)
  BY DEF Sizing
<1>3. CASE ReadSize
  <2> DEFINE r == SizeRun(n + 1)
             s == Blocks(n + 1, Segment)
  <2>1. r \in Runs /\ r.n = 4 /\ IsSize(r) /\ FieldOf(r) = n + 1 /\ n \in Nat
    BY SizeRunIs
  <2>2. s \in Seq(Runs) /\ Bytes(s) = n + 1
    BY <2>1, BlocksBytes
  <2>3. down = Cons(r, s)
    BY <1>2
  <2> HIDE DEF r, s
  <2>4. Head(down) = r /\ Cut(down, 4) = s
    BY <2>1, <2>2, <2>3, ConsCut
  <2>5. /\ down' = s /\ cx' = n + 1 /\ cpc' = "recv"
        /\ UNCHANGED <<up, op, taken, heard, spc, said>>
    BY <1>3, <2>1, <2>4 DEF ReadSize, serverVars
  <2>6. Leftover' /\ spc' = "read" /\ op' = "download" /\ taken' = 0
    BY <2>5 DEF Sizing, Leftover
  <2>7. n + 1 > 0 /\ n + 1 = 0 + (n + 1) /\ said'.tag = "OK" /\ said'.len = n
    BY <1>2, <2>1, <2>5, ResultIs
  <2>8. Bytes(down)' = n + 1
    BY <2>2, <2>5 DEF Bytes, Before
  <2>9. Fetching'
    BY <1>2, <2>2, <2>5, <2>6, <2>7, <2>8 DEF Fetching
  <2> QED
    BY <2>1, <2>5, <2>9 DEF Stage
<1>4. CASE Serve
  <2>1. Leftover' /\ UNCHANGED <<down, clientVars, x, text, spc, said>>
    BY <1>4, ServeZeros DEF Sizing
  <2>2. Sizing'
    BY <1>2, <2>1 DEF Sizing, clientVars
  <2> QED
    BY <2>1, <2>2 DEF Stage, clientVars, WireTypes, Numbers
<1> QED
  BY <1>1, <1>3, <1>4

\* A stream that is not empty begins with a run.
LEMMA HeadIs ==
  ASSUME NEW s \in Seq(Runs), s # <<>>
  PROVE  /\ Head(s) \in Runs /\ Tail(s) \in Seq(Runs) /\ s = Cons(Head(s), Tail(s))
         /\ Head(s).n \in Nat /\ Head(s).n > 0
         /\ Bytes(Tail(s)) \in Nat /\ Bytes(s) = Head(s).n + Bytes(Tail(s))
<1> DEFINE r == Head(s)
           t == Tail(s)
<1>1. r \in Runs /\ t \in Seq(Runs) /\ r = s[1] /\ Len(t) = Len(s) - 1 /\ Len(s) \in Nat
      /\ Len(s) # 0 /\ \A i \in 1 .. Len(t) : t[i] = s[i + 1]
  OBVIOUS
<1> HIDE DEF r, t
<1> DEFINE c == Cons(r, t)
<1>2. c \in Seq(Runs) /\ Len(c) = 1 + Len(t) /\ c[1] = r
      /\ \A i \in 1 .. Len(t) : c[i + 1] = t[i]
  BY <1>1, ConsIs
<1>3. Bytes(c) = r.n + Bytes(t) /\ Bytes(t) \in Nat /\ r.n \in Nat /\ r.n > 0
  BY <1>1, BytesOf, RunBytes
<1> HIDE DEF c
<1>4. \A i \in 1 .. Len(s) : i # 1 => i - 1 \in 1 .. Len(t) /\ i = (i - 1) + 1
  BY <1>1
<1>5. ASSUME NEW i \in 1 .. Len(s)
      PROVE  c[i] = s[i]
  <2>1. CASE i = 1
    BY <1>1, <1>2, <2>1
  <2>2. CASE i # 1
    <3>1. PICK j \in 1 .. Len(t) : i = j + 1
      BY <1>4, <2>2
    <3>2. c[j + 1] = t[j] /\ t[j] = s[j + 1]
      BY <1>1, <1>2
    <3> QED
      BY <3>1, <3>2
  <2> QED
    BY <2>1, <2>2
<1>6. Len(c) = Len(s)
  BY <1>1, <1>2
<1>7. c = s
  BY <1>2, <1>5, <1>6
<1> QED
  BY <1>1, <1>3, <1>7 DEF c, r, t

LEMMA FetchingStep ==
  ASSUME WireTypes, Fetching, Next
  PROVE  /\ Stage' /\ cx' \in Nat /\ last' \in Nat /\ taken' \in Nat /\ heard' \in Results
<1>1. Recv \/ Serve
  BY DEF Fetching, Next, Issue, Client, Server, SendSize, SendBlock, ReadFlag,
         ReadCount, ReadName, ReadSize, ServeList, ServeDelete, ServeDownload, ServeQuit,
         ServeSize, ServeBlock, ServeUpdate
<1>2. CASE Recv
  <2>1. /\ down \in Seq(Runs) /\ down # <<>> /\ cx \in Nat /\ cx > 0 /\ Bytes(down) = cx
        /\ taken \in Nat
    BY <1>2 DEF WireTypes, Numbers, Fetching, Recv
  <2> DEFINE r == Head(down)
             s == Tail(down)
  <2>2. /\ r \in Runs /\ s \in Seq(Runs) /\ down = Cons(r, s) /\ r.n \in Nat /\ r.n > 0
        /\ Bytes(s) \in Nat /\ cx = r.n + Bytes(s)
    BY <2>1, HeadIs
  <2>3. PICK n \in {Min({cx, r.n}), ReadLen(down, cx)} :
          /\ down' = Cut(down, n) /\ taken' = taken + n /\ cx' = cx - n /\ last' = n
    BY <1>2 DEF Recv
  <2> HIDE DEF r, s
  <2>4. Min({cx, r.n}) = r.n /\ ReadLen(down, cx) = cx
    <3>1. Min({cx, r.n}) = IF cx <= r.n THEN cx ELSE r.n
      BY <2>1, <2>2, MinOf
    <3>2. Min({cx, Bytes(down)}) = IF cx <= Bytes(down) THEN cx ELSE Bytes(down)
      BY <2>1, MinOf
    <3> QED
      BY <2>1, <2>2, <3>1, <3>2 DEF ReadLen
  <2>5. n \in Nat /\ n <= cx /\ down' \in Seq(Runs) /\ Bytes(down') = cx - n
    <3>1. CASE n = r.n
      <4>1. Cut(down, n) = s
        BY <2>2, <3>1, ConsCut
      <4> QED
        BY <2>1, <2>2, <2>3, <3>1, <4>1
    <3>2. CASE n = cx
      <4>1. Cut(down, n) = <<>>
        BY <2>1, <3>2, CutAll
      <4> QED
        BY <2>1, <2>3, <3>2, <4>1, BytesOf, EmptyIs
    <3> QED
      BY <2>3, <2>4, <3>1, <3>2
  <2>6. /\ UNCHANGED <<up, op, sz, spc, said>>
        /\ IF cx' = 0 THEN cpc' = "idle" /\ heard' = Result("OK", taken' - 1)
                      ELSE UNCHANGED <<cpc, heard>>
    BY <1>2 DEF Recv, serverVars
  <2>7. Leftover' /\ spc' = "read" /\ op' = "download" /\ said' = said
    BY <2>6 DEF Fetching, Leftover
  <2>8. /\ said.tag = "OK" /\ said.len \in Nat /\ said.len + 1 = taken + cx
        /\ heard = Result("OK", 0) /\ cpc = "recv"
    BY DEF WireTypes, Numbers, Fetching, Results
  <2>9. taken' + cx' = taken + cx /\ cx' \in Nat
    BY <2>1, <2>3, <2>5
  <2>10. ASSUME cx' = 0
         PROVE  Stage' /\ heard' \in Results
    <3>1. down' = <<>>
      BY <2>3, <2>5, <2>10, BytesOf
    <3>2. taken' - 1 = said.len
      BY <2>1, <2>3, <2>5, <2>8, <2>9, <2>10
    <3>3. heard' = Result("OK", said.len) /\ cpc' = "idle"
      BY <2>6, <2>10, <3>2
    <3>4. heard'.tag = "OK" /\ heard'.len = said.len
      BY <3>3, ResultIs
    <3> QED
      BY <2>7, <2>8, <3>1, <3>3, <2>8, <3>4 DEF Stage, Idle, Agreed, Results, Result
  <2>11. ASSUME cx' # 0
         PROVE  Stage' /\ heard' \in Results
    <3>1. cx' > 0 /\ Bytes(down)' = cx' /\ said'.len + 1 = taken' + cx'
      BY <2>3, <2>5, <2>7, <2>8, <2>9, <2>11 DEF Bytes, Before
    <3>2. Fetching'
      BY <2>6, <2>7, <2>8, <2>11, <3>1, <2>5 DEF Fetching
    <3> QED
      BY <2>6, <2>11, <3>2 DEF Stage, WireTypes, Numbers
  <2> QED
    BY <2>1, <2>3, <2>5, <2>9, <2>10, <2>11
<1>3. CASE Serve
  <2>1. Leftover' /\ UNCHANGED <<down, clientVars, x, text, spc, said>>
    BY <1>3, ServeZeros DEF Fetching
  <2>2. Fetching'
    BY <2>1 DEF Fetching, clientVars, Bytes, Before
  <2> QED
    BY <2>1, <2>2 DEF Stage, clientVars, WireTypes, Numbers
<1> QED
  BY <1>1, <1>2, <1>3


-----------------------------------------------------------------------------
(* An upload *)

\* What the client sends is behind what it has sent before.
LEMMA BlockSent ==
  ASSUME NEW left \in Nat, NEW k \in Nat, OnTheWay(left, k), toSend \in Nat, SendBlock
  PROVE  /\ Block(toSend) \in Runs /\ up' = Append(up, Block(toSend))
         /\ Sent(left, k) \in Seq(Runs)
         /\ Append(Sent(left, k), Block(toSend)) = Sent(left, k + 1)
         /\ OnTheWay(left, k + 1)' /\ cpc' \in {"send", "flag"}
         /\ UNCHANGED <<down, op, sz, spc, x, text>>
<1>1. toSend > 0 /\ left = 1024 * k + toSend /\ cpc = "send"
  BY DEF OnTheWay, SendBlock
<1>2. Block(toSend) \in Runs
  BY <1>1, BlockIs
<1>3. up' = Append(up, Block(toSend))
  BY DEF SendBlock, Block
<1>4. /\ Sent(left, k) \in Seq(Runs)
      /\ Append(Sent(left, k), Block(toSend)) = Sent(left, k + 1)
  <2>1. \A n \in Nat : n > 0 /\ left <= 1024 * k + n /\ left >= 1024 * k + n =>
          /\ Sent(left, k) \in Seq(Runs)
          /\ Append(Sent(left, k), Block(n)) = Sent(left, k + 1)
    BY SentAppend
  <2> QED
    BY <1>1, <2>1
<1>5. IF toSend > 1024 THEN toSend' = toSend - 1024 /\ cpc' = "send"
                       ELSE toSend' = 0 /\ cpc' = "flag"
  BY <1>1 DEF SendBlock
<1>6. OnTheWay(left, k + 1)'
  <2>1. CASE toSend > 1024
    <3>1. toSend' > 0 /\ left = 1024 * (k + 1) + toSend' /\ cpc' = "send"
      BY <1>1, <1>5, <2>1
    <3> QED
      BY <3>1 DEF OnTheWay
  <2>2. CASE ~(toSend > 1024)
    <3>1. 1024 * ((k + 1) - 1) < left /\ left <= 1024 * (k + 1) /\ cpc' = "flag"
      BY <1>1, <1>5, <2>2
    <3> QED
      BY <3>1 DEF OnTheWay
  <2> QED
    BY <2>1, <2>2
<1> QED
  BY <1>2, <1>3, <1>4, <1>5, <1>6 DEF SendBlock, serverVars

LEMMA BehindGrows ==
  ASSUME op \in Ops, NEW s \in Seq(Runs), NEW e \in Runs, Behind(s),
         up' = Append(up, e), UNCHANGED <<spc, op>>
  PROVE  Behind(Append(s, e))'
<1>1. CASE spc = "read" /\ up = Order(s)
  <2>1. up' = Order(Append(s, e))
    BY <1>1, OrderIs
  <2> QED
    BY <1>1, <2>1 DEF Behind, Order
<1>2. ASSUME spc = "update", NEW j \in 0 .. 131, up = Zeros(4 * j, s)
      PROVE  Behind(Append(s, e))'
  <2>1. up' = Zeros(4 * j, Append(s, e))
    <3>1. 4 * j \in Nat
      OBVIOUS
    <3> HIDE DEF Behind
    <3> QED
      BY <1>2, <3>1, ZerosAre
  <2> QED
    BY <1>2, <2>1 DEF Behind
<1> QED
  BY <1>1, <1>2 DEF Behind

LEMMA UploadingSteps ==
  ASSUME Uploading, Next
  PROVE  SendSize \/ SendBlock \/ Serve \/ ServeSize
BY DEF Uploading, Loading, OnTheWay, Behind, Next, Issue, Client, Server, ReadFlag, ReadCount,
       ReadName, ReadSize, Recv, ServeList, ServeDelete, ServeDownload, ServeQuit,
       ServeBlock, ServeUpdate

LEMMA SendSizeStep ==
  ASSUME FieldsTravel, WireTypes, Uploading, SendSize
  PROVE  Stage'
<1>1. op = "update" /\ op \in Ops /\ sz \in Sizes /\ sz \in Nat /\ down = <<>> /\ cpc = "size"
  BY SizesAre DEF WireTypes, Numbers, Uploading, SendSize
<1>2. PICK s \in Seq(Runs) : Loading(s) /\ Behind(s)
  BY DEF Uploading
<1>3. s = <<>>
  BY <1>1, <1>2 DEF Loading, OnTheWay
<1>0. PICK e \in Runs : e = SizeRun(sz + 1)
  BY <1>1, SizeRunIs
<1>4. up' = Append(up, e) /\ UNCHANGED <<down, spc, op, sz>>
      /\ toSend' = sz + 1 /\ cpc' = "send"
  BY <1>0, <1>1 DEF SendSize, serverVars
<1>5. Behind(Append(s, e))'
  BY <1>1, <1>2, <1>4, BehindGrows
<1>6. Append(s, e) = Cons(e, Sent(sz + 1, 0)) /\ Append(s, e) \in Seq(Runs)
  <2>1. Append(<<>>, e) = <<e>> \o <<>> /\ Append(<<>>, e) \in Seq(Runs)
    OBVIOUS
  <2>2. Cons(e, Sent(sz + 1, 0)) = <<e>> \o <<>>
    BY SentNone DEF Cons
  <2> QED
    BY <1>3, <2>1, <2>2
<1>7. OnTheWay(sz + 1, 0)'
  BY <1>1, <1>4 DEF OnTheWay
<1>8. (Append(s, e) = Cons(SizeRun(sz + 1), Sent(sz + 1, 0)))'
  BY <1>0, <1>4, <1>6
<1> DEFINE t == Append(s, e)
<1>9. t \in Seq(Runs) /\ Behind(t)' /\ Loading(t)'
  BY <1>5, <1>6, <1>7, <1>8 DEF Loading
<1> HIDE DEF t
<1>10. Uploading'
  BY <1>1, <1>4, <1>9 DEF Uploading
<1> QED
  BY <1>10 DEF Stage

LEMMA LoadingGrows ==
  ASSUME FieldsTravel, WireTypes, op = "update", SendBlock,
         NEW s \in Seq(Runs), Loading(s)
  PROVE  /\ Block(toSend) \in Runs /\ up' = Append(up, Block(toSend))
         /\ UNCHANGED <<down, op, sz, spc>>
         /\ \A t : t = Append(s, Block(toSend)) => t \in Seq(Runs) /\ Loading(t)'
<1>1. sz \in Sizes /\ sz \in Nat /\ sz + 1 \in Nat /\ toSend \in Nat /\ cpc = "send"
  BY SizesAre DEF WireTypes, Numbers, SendBlock
<1>2. PICK k \in Nat : OnTheWay(sz + 1, k) /\ s = Cons(SizeRun(sz + 1), Sent(sz + 1, k))
  BY <1>1 DEF Loading
<1>3. PICK left \in Nat : left = sz + 1
  BY <1>1
<1>4. /\ Block(toSend) \in Runs /\ up' = Append(up, Block(toSend))
      /\ Sent(left, k) \in Seq(Runs)
      /\ Append(Sent(left, k), Block(toSend)) = Sent(left, k + 1)
      /\ OnTheWay(left, k + 1)'
      /\ UNCHANGED <<down, op, sz, spc>>
  BY <1>1, <1>2, <1>3, BlockSent
<1>5. SizeRun(sz + 1) \in Runs
  BY <1>1, SizeRunIs
<1>6. Append(s, Block(toSend)) = Cons(SizeRun(sz + 1), Sent(sz + 1, k + 1))
  <2> DEFINE r == SizeRun(sz + 1)
             b == Block(toSend)
             u == Sent(left, k)
  <2>1. s = Cons(r, u) /\ r \in Runs /\ b \in Runs /\ u \in Seq(Runs)
        /\ Append(u, b) = Sent(left, k + 1)
    BY <1>2, <1>3, <1>4, <1>5
  <2> HIDE DEF r, b, u
  <2>2. Append(s, b) = Cons(r, Append(u, b))
    BY <2>1, ConsAppend
  <2> QED
    BY <1>3, <2>1, <2>2 DEF r, b
<1>7. (sz + 1 = left)' /\ (SizeRun(sz + 1))' = SizeRun(sz + 1) /\ k + 1 \in Nat
  BY <1>3, <1>4
<1>8. ASSUME NEW t, t = Append(s, Block(toSend))
      PROVE  t \in Seq(Runs) /\ Loading(t)'
  <2>1. t \in Seq(Runs)
    BY <1>4, <1>8
  <2>2. t = Cons((SizeRun(sz + 1))', Sent(left, k + 1))
    BY <1>3, <1>6, <1>7, <1>8
  <2>3. Loading(t)'
    BY <1>4, <1>7, <2>2 DEF Loading
  <2> QED
    BY <2>1, <2>3
<1> QED
  BY <1>4, <1>8

\* The server at the size, which it finds behind the zeros.
LEMMA SizeFound ==
  ASSUME FieldsTravel, WireTypes, Uploading, ServeSize
  PROVE  Stage' /\ x' \in Nat
<1>1. op = "update" /\ sz \in Sizes /\ sz \in Nat /\ down = <<>> /\ spc = "update" /\ text = 0
      /\ x \in Nat
  BY SizesAre DEF WireTypes, Numbers, Uploading, ServeSize
<1>2. PICK s \in Seq(Runs) : Loading(s) /\ Behind(s)
  BY DEF Uploading
<1>3. PICK j \in 0 .. 131 : up = Zeros(4 * j, s)
  BY <1>1, <1>2 DEF Behind
<1>4. /\ up # <<>> /\ up' = Cut(up, 4) /\ UNCHANGED <<down, op, sz, cpc, toSend, text>>
      /\ IF IsSize(Head(up)) THEN x' = FieldOf(Head(up)) /\ spc' = "body"
                             ELSE UNCHANGED <<x, spc>>
  BY DEF ServeSize, clientVars
<1>5. Loading(s)'
  BY <1>2, <1>4 DEF Loading, OnTheWay
<1>6. CASE j # 0
  <2>1. 4 * j \in Nat /\ 4 * j # 0 /\ 4 <= 4 * j /\ 4 * j - 4 = 4 * (j - 1) /\ j - 1 \in 0 .. 131
    BY <1>6
  <2>2. Head(up).what = "zero" /\ Cut(up, 4) = Zeros(4 * j - 4, s)
    BY <1>3, <2>1, ZerosHead, ZerosCut
  <2>3. up' = Zeros(4 * (j - 1), s) /\ spc' = "update"
    BY <1>1, <1>4, <2>1, <2>2 DEF IsSize
  <2>4. Behind(s)'
    BY <2>1, <2>3 DEF Behind
  <2>5. Uploading'
    BY <1>1, <1>4, <1>5, <2>4 DEF Uploading
  <2> QED
    BY <1>1, <1>4, <2>2, <2>5 DEF Stage, IsSize
<1>7. CASE j = 0
  <2>1. up = s
    BY <1>3, <1>7, ZerosAre
  <2>2. PICK k \in Nat : OnTheWay(sz + 1, k) /\ s = Cons(SizeRun(sz + 1), Sent(sz + 1, k))
    BY <1>2, <1>4, <2>1 DEF Loading
  <2>3. PICK left \in Nat : left = sz + 1
    BY <1>1
  <2>4. toSend \in Nat
    BY DEF WireTypes, Numbers
  <2>5. Sent(left, k) \in Seq(Runs)
    <3>1. k = 0 \/ 1024 * (k - 1) < left
      BY <2>2, <2>3, <2>4 DEF OnTheWay
    <3> QED
      BY <3>1, SentIs
  <2>6. /\ SizeRun(sz + 1) \in Runs /\ SizeRun(sz + 1).n = 4
        /\ IsSize(SizeRun(sz + 1)) /\ FieldOf(SizeRun(sz + 1)) = sz + 1
    BY <1>1, SizeRunIs
  <2> DEFINE r == SizeRun(sz + 1)
  <2>7. r \in Runs /\ r.n = 4 /\ IsSize(r) /\ FieldOf(r) = left /\ up = Cons(r, Sent(left, k))
    BY <2>1, <2>2, <2>3, <2>6
  <2> HIDE DEF r
  <2>8. Head(up) = r /\ Cut(up, 4) = Sent(left, k)
    BY <2>5, <2>7, ConsCut
  <2>9. up' = Sent(left, k) /\ x' = left /\ spc' = "body"
    BY <1>4, <2>7, <2>8
  <2>10. OnTheWay(left, k)'
    BY <1>4, <2>2, <2>3 DEF OnTheWay
  <2>11. Storing'
    BY <1>1, <1>4, <2>3, <2>9, <2>10 DEF Storing
  <2> QED
    BY <2>9, <2>11 DEF Stage
<1> QED
  BY <1>6, <1>7

LEMMA UploadingStep ==
  ASSUME FieldsTravel, WireTypes, Uploading, Next
  PROVE  Stage'
<1>1. CASE SendSize
  BY <1>1, SendSizeStep
<1>2. CASE SendBlock
  <2>1. op = "update" /\ op \in Ops /\ down = <<>>
    BY DEF Uploading, WireTypes, Numbers
  <2>2. PICK s \in Seq(Runs) : Loading(s) /\ Behind(s)
    BY DEF Uploading
  <2>3. PICK e : e = Block(toSend)
    OBVIOUS
  <2>4. PICK t : t = Append(s, e)
    OBVIOUS
  <2>5. /\ e \in Runs /\ up' = Append(up, e) /\ UNCHANGED <<down, op, sz, spc>>
        /\ t \in Seq(Runs) /\ Loading(t)'
    BY <1>2, <2>1, <2>2, <2>3, <2>4, LoadingGrows
  <2>6. Behind(t)'
    <3>1. Behind(Append(s, e))'
      BY <2>1, <2>2, <2>5, BehindGrows
    <3> QED
      BY <2>4, <3>1
  <2>7. Uploading'
    BY <2>1, <2>5, <2>6 DEF Uploading
  <2> QED
    BY <2>7 DEF Stage
<1>3. CASE Serve
  <2>1. op = "update" /\ op \in Ops /\ down = <<>> /\ spc = "read" /\ up' = Cut(up, 500)
        /\ UNCHANGED <<down, clientVars>>
    BY <1>3 DEF Uploading, WireTypes, Numbers, Serve
  <2>2. PICK s \in Seq(Runs) : Loading(s) /\ up = Order(s)
    BY <2>1 DEF Uploading, Behind
  <2>3. Head(up).what = op /\ up' = Zeros(524, s)
    BY <2>1, <2>2, OrderIs
  <2>4. spc' = "update"
    BY <1>3, <2>1, <2>3 DEF Serve
  <2>5. Behind(s)'
    <3>1. 524 = 4 * 131 /\ 131 \in 0 .. 131
      OBVIOUS
    <3> QED
      BY <2>3, <2>4, <3>1 DEF Behind
  <2>6. Loading(s)' /\ op' = "update" /\ down' = <<>>
    BY <2>1, <2>2 DEF Loading, OnTheWay, clientVars
  <2>7. Uploading'
    BY <2>5, <2>6 DEF Uploading
  <2> QED
    BY <2>7 DEF Stage
<1>4. CASE ServeSize
  BY <1>4, SizeFound
<1> QED
  BY <1>1, <1>2, <1>3, <1>4, UploadingSteps

LEMMA StoringSteps ==
  ASSUME Storing, Next
  PROVE  SendBlock \/ ServeBlock
BY DEF Storing, OnTheWay, Next, Issue, Client, Server, SendSize, ReadFlag, ReadCount,
       ReadName, ReadSize, Recv, Serve, ServeList, ServeDelete, ServeDownload, ServeQuit,
       ServeSize, ServeUpdate

\* What the server reads of a content: a block.
LEMMA BlockRead ==
  ASSUME NEW left \in Nat, NEW k \in Nat, OnTheWay(left, k), toSend \in Nat,
         up = Sent(left, k), up # <<>>
  PROVE  /\ k # 0 /\ left > 0 /\ ReadLen(up, 1024) = 1024
         /\ Cut(up, 1024) = Sent(left - 1024, k - 1)
         /\ TextIn(up, 1024) = IF 1024 <= left - 1 THEN 1024 ELSE left - 1
         /\ left <= 1024 => k = 1 /\ cpc = "flag"
         /\ left > 1024 => left - 1024 \in Nat /\ OnTheWay(left - 1024, k - 1)
<1>1. k # 0 /\ 1024 * (k - 1) < left
  BY SentNone DEF OnTheWay
<1> DEFINE s == Sent(left - 1024, k - 1)
           r == Block(left)
<1>2. s \in Seq(Runs) /\ r \in Runs /\ up = Cons(r, s)
  BY <1>1, SentCons
<1>3. r.n = 1024 /\ r.v = IF 1024 <= left - 1 THEN 1024 ELSE left - 1
  BY <1>1, BlockIs
<1> HIDE DEF r, s
<1>4. Head(up) = r /\ Cut(up, 1024) = s
  BY <1>2, <1>3, ConsCut
<1>5. ReadLen(up, 1024) = 1024
  <2>1. Bytes(up) = 1024 + Bytes(s) /\ Bytes(s) \in Nat
    BY <1>2, <1>3, BytesOf
  <2>2. Min({1024, Bytes(up)}) = IF 1024 <= Bytes(up) THEN 1024 ELSE Bytes(up)
    BY <2>1, MinOf
  <2> QED
    BY <2>1, <2>2 DEF ReadLen
<1>6. CASE left <= 1024
  <2>1. k = 1 /\ cpc = "flag"
    BY <1>1, <1>6 DEF OnTheWay
  <2>2. s = <<>>
    BY <2>1, SentNone DEF s
  <2>3. Len(up) = 1
    <3>1. Len(up) = 1 + Len(s)
      BY <1>2, ConsIs
    <3> QED
      BY <2>2, <3>1, EmptyIs
  <2>4. TextIn(up, 1024) = left - 1
    BY <1>1, <1>3, <1>4, <1>6, <2>3 DEF TextIn
  <2> QED
    BY <1>1, <1>4, <1>5, <1>6, <2>1, <2>4 DEF s
<1>7. CASE left > 1024
  <2>1. TextIn(up, 1024) = 1024
    BY <1>3, <1>4, <1>7 DEF TextIn
  <2>2. OnTheWay(left - 1024, k - 1)
    BY <1>1, <1>7 DEF OnTheWay
  <2> QED
    BY <1>1, <1>4, <1>5, <1>7, <2>1, <2>2 DEF s
<1> QED
  BY <1>6, <1>7

LEMMA StoringStep ==
  ASSUME WireTypes, Storing, Next
  PROVE  Stage'
<1>1. op = "update" /\ down = <<>> /\ spc = "body" /\ x \in Nat /\ x > 0 /\ toSend \in Nat
      /\ text \in Nat /\ sz \in Nat
  BY SizesAre DEF WireTypes, Numbers, Storing
<1>2. PICK k \in Nat : OnTheWay(x, k) /\ up = Sent(x, k)
  BY DEF Storing
<1>3. PICK left \in Nat : left = x
  BY <1>1
<1>4. CASE SendBlock
  <2>1. /\ up' = Sent(left, k + 1) /\ OnTheWay(left, k + 1)'
        /\ UNCHANGED <<down, op, sz, spc, x, text>>
    BY <1>1, <1>2, <1>3, <1>4, BlockSent
  <2>2. OnTheWay(x, k + 1)' /\ up' = (Sent(x, k + 1))' /\ k + 1 \in Nat
    BY <1>3, <2>1
  <2>3. Storing'
    BY <1>1, <2>1, <2>2 DEF Storing
  <2> QED
    BY <2>3 DEF Stage
<1>5. CASE ServeBlock
  <2>1. /\ k # 0 /\ left > 0 /\ ReadLen(up, 1024) = 1024
        /\ Cut(up, 1024) = Sent(left - 1024, k - 1)
        /\ TextIn(up, 1024) = IF 1024 <= left - 1 THEN 1024 ELSE left - 1
        /\ left <= 1024 => k = 1 /\ cpc = "flag"
        /\ left > 1024 => left - 1024 \in Nat /\ OnTheWay(left - 1024, k - 1)
    BY <1>1, <1>2, <1>3, <1>5, BlockRead DEF ServeBlock
  <2>2. /\ up' = Sent(left - 1024, k - 1)
        /\ \E p \in IF TextIn(up, 1024) = 1024 THEN {0, Pad} ELSE {0} :
             text' = text + TextIn(up, 1024) + p
        /\ x' = IF x > 1024 THEN x - 1024 ELSE 0
        /\ spc' = IF Complete(x, 1024) THEN "stored" ELSE "body"
        /\ UNCHANGED <<down, op, sz, cpc, toSend>>
    BY <1>5, <2>1 DEF ServeBlock, clientVars
  <2>3. CASE left <= 1024
    <3>1. spc' = "stored" /\ up' = <<>>
      BY <1>3, <2>1, <2>2, <2>3, SentNone DEF Complete
    <3>2. ASSUME sz < 1024
          PROVE  text' = sz
      <4>1. x = sz + 1 /\ text = 0
        BY <3>2 DEF Storing
      <4>2. TextIn(up, 1024) = sz /\ TextIn(up, 1024) # 1024
        BY <1>1, <1>3, <2>1, <3>2, <4>1
      <4> QED
        BY <1>1, <2>2, <4>1, <4>2
    <3>3. Stored'
      BY <1>1, <2>1, <2>2, <2>3, <3>1, <3>2 DEF Stored
    <3> QED
      BY <3>3 DEF Stage
  <2>4. CASE left > 1024
    <3>1. x' = left - 1024 /\ x' > 0 /\ spc' = "body"
      BY <1>3, <2>2, <2>4 DEF Complete
    <3>2. ~(sz < 1024)
      BY <1>1, <1>3, <2>4 DEF Storing
    <3>3. PICK m \in Nat : m = left - 1024
      BY <2>1, <2>4
    <3>4. OnTheWay(m, k - 1)'
      BY <2>1, <2>2, <2>4, <3>3 DEF OnTheWay
    <3>5. x' = m /\ up' = (Sent(x, k - 1))' /\ k - 1 \in Nat /\ OnTheWay(x, k - 1)'
      BY <2>1, <2>2, <3>1, <3>3, <3>4
    <3>6. Storing'
      BY <1>1, <2>2, <3>1, <3>2, <3>5 DEF Storing
    <3> QED
      BY <3>6 DEF Stage
  <2> QED
    BY <2>3, <2>4
<1> QED
  BY <1>4, <1>5, StoringSteps

LEMMA StoredStep ==
  ASSUME WireTypes, Stored, Next
  PROVE  Stage'
<1>1. ServeUpdate
  BY DEF Stored, Next, Issue, Client, Server, SendSize, SendBlock, ReadFlag, ReadCount,
         ReadName, ReadSize, Recv, Serve, ServeList, ServeDelete, ServeDownload, ServeQuit,
         ServeSize, ServeBlock
<1>2. op = "update" /\ spc' = "read" /\ UNCHANGED <<up, cpc, op, sz>>
  BY <1>1 DEF Stored, ServeUpdate, clientVars
<1>3. Leftover /\ cpc = "flag" /\ down = <<>> /\ text \in Nat /\ (sz < 1024 => text = sz)
  BY DEF Stored, Leftover, Zeros, WireTypes, Numbers
<1>4. spc' = IF op = "quit" THEN "closed" ELSE "read"
  BY <1>2
<1>5. CASE Reply("0x03", <<>>, Result("OK", text))
  <2>1. Answer("0x03", <<>>, Result("OK", text)) /\ "0x03" \in Tags
    BY <1>2, <1>3 DEF Answer, Tags
  <2> QED
    BY <1>2, <1>3, <1>4, <1>5, <2>1, EmptyIs, AnswerGiven
<1>6. CASE Reply("0xFF", <<>>, Result("SERROR", 0))
  <2>1. Answer("0xFF", <<>>, Result("SERROR", 0)) /\ "0xFF" \in Tags
    BY <1>2 DEF Answer, Tags
  <2> QED
    BY <1>2, <1>3, <1>4, <1>6, <2>1, EmptyIs, AnswerGiven
<1> QED
  BY <1>1, <1>5, <1>6 DEF ServeUpdate


-----------------------------------------------------------------------------
(* The invariant *)

\* A stage names what is on its way.
LEMMA AnswerTypes ==
  ASSUME NEW tag \in Tags, NEW runs \in Seq(Runs)
  PROVE  Cons(Run("flag", 5, tag), runs) \in Seq(Runs)
<1>1. Run("flag", 5, tag) \in Runs
  BY RunIs, KindsAre
<1> QED
  BY <1>1, ConsIs

LEMMA LeftoverTypes ==
  ASSUME Leftover
  PROVE  up \in Seq(Runs)
<1>1. \A d \in {0, 24, 524} : Zeros(d, <<>>) \in Seq(Runs)
  <2> DEFINE e == <<>>
  <2>1. e \in Seq(Runs)
    BY EmptyIs
  <2> HIDE DEF e
  <2>2. \A d \in {0, 24, 524} : Zeros(d, e) \in Seq(Runs)
    BY <2>1, ZerosAre
  <2> QED
    BY <2>2 DEF e
<1> QED
  BY <1>1 DEF Leftover

LEMMA StageTypes ==
  ASSUME FieldsTravel, Numbers, Stage
  PROVE  WireTypes
<1> SUFFICES up \in Seq(Runs) /\ down \in Seq(Runs)
  BY DEF WireTypes
<1>0. <<>> \in Seq(Runs)
  BY EmptyIs
<1>1. CASE Idle
  BY <1>0, <1>1, LeftoverTypes DEF Idle
<1>2. CASE Gone
  BY <1>0, <1>2, LeftoverTypes DEF Gone
<1>3. CASE Asked
  <2> DEFINE e == <<>>
  <2>1. op \in Ops /\ e \in Seq(Runs) /\ up = Order(e) /\ down = e
    BY <1>0, <1>3 DEF Asked, Numbers
  <2> HIDE DEF e
  <2>2. Order(e) \in Seq(Runs)
    BY <2>1, OrderIs
  <2> QED
    BY <2>1, <2>2
<1>4. CASE Serving
  BY <1>0, <1>4, LeftoverTypes DEF Serving, Leftover
<1>5. CASE Answering
  <2>1. PICK tag \in Tags, runs \in Seq(Runs) : down = Cons(Run("flag", 5, tag), runs)
    BY <1>5 DEF Answering
  <2> QED
    BY <1>5, <2>1, AnswerTypes, LeftoverTypes DEF Answering
<1>6. CASE Counting
  <2>1. PICK c \in Counts : down = Cons(Run("count", 2, c), Names(c))
    BY <1>6 DEF Counting
  <2> QED
    BY <1>6, <2>1, CountIs, ConsIs, LeftoverTypes DEF Counting
<1>7. CASE Naming
  <2>1. cx \in Nat /\ down = Names(cx)
    BY <1>7 DEF Naming, Numbers
  <2>2. \A c \in Nat : c # 0 => c - 1 \in Nat
    OBVIOUS
  <2> QED
    BY <1>7, <2>1, NamesAre, LeftoverTypes DEF Naming
<1>8. CASE Sizing
  <2>1. PICK s \in Sizes : down = Cons(SizeRun(s + 1), Blocks(s + 1, Segment))
    BY <1>8 DEF Sizing
  <2>2. SizeRun(s + 1) \in Runs /\ s + 1 \in Nat /\ s + 1 > 0
    BY SizesAre, SizeRunIs
  <2>3. Blocks(s + 1, Segment) \in Seq(Runs)
    BY <2>2, BlocksBytes
  <2> QED
    BY <1>8, <2>1, <2>2, <2>3, ConsIs, LeftoverTypes DEF Sizing
<1>9. CASE Fetching
  BY <1>9, LeftoverTypes DEF Fetching
<1>10. CASE Uploading
  <2>1. op = "update" /\ op \in Ops /\ down = <<>>
    BY <1>10 DEF Uploading, Numbers
  <2>2. PICK s \in Seq(Runs) : Behind(s)
    BY <1>10 DEF Uploading
  <2>3. up \in Seq(Runs)
    <3>1. Order(s) \in Seq(Runs)
      BY <2>1, OrderIs
    <3>2. \A j \in 0 .. 131 : 4 * j \in Nat
      OBVIOUS
    <3>3. \A d \in Nat : Zeros(d, s) \in Seq(Runs)
      BY ZerosAre
    <3> QED
      BY <2>2, <3>1, <3>2, <3>3 DEF Behind
  <2> QED
    BY <1>0, <2>1, <2>3
<1>11. CASE Storing
  <2>1. PICK k \in Nat : OnTheWay(x, k) /\ up = Sent(x, k)
    BY <1>11 DEF Storing
  <2>2. x \in Nat /\ toSend \in Nat
    BY DEF Numbers
  <2>3. k = 0 \/ 1024 * (k - 1) < x
    BY <2>1, <2>2 DEF OnTheWay
  <2> QED
    BY <1>0, <1>11, <2>1, <2>2, <2>3, SentIs DEF Storing
<1>12. CASE Stored
  BY <1>0, <1>12 DEF Stored
<1> QED
  BY <1>1, <1>2, <1>3, <1>4, <1>5, <1>6, <1>7, <1>8, <1>9, <1>10, <1>11, <1>12 DEF Stage

LEMMA StageStep ==
  ASSUME Patient, FieldsTravel, WireTypes, Stage, Next
  PROVE  Stage'
<1>1. CASE Idle
  BY <1>1, IdleStep
<1>2. CASE Gone
  BY <1>2, GoneStep
<1>3. CASE Asked
  BY <1>3, AskedStep
<1>4. CASE Serving
  BY <1>4, ServingStep
<1>5. CASE Answering
  BY <1>5, AnsweringStep
<1>6. CASE Counting
  BY <1>6, CountingStep
<1>7. CASE Naming
  BY <1>7, NamingStep
<1>8. CASE Sizing
  BY <1>8, SizingStep
<1>9. CASE Fetching
  BY <1>9, FetchingStep
<1>10. CASE Uploading
  BY <1>10, UploadingStep
<1>11. CASE Storing
  BY <1>11, StoringStep
<1>12. CASE Stored
  BY <1>12, StoredStep
<1> QED
  BY <1>1, <1>2, <1>3, <1>4, <1>5, <1>6, <1>7, <1>8, <1>9, <1>10, <1>11, <1>12 DEF Stage

\* Which stage a call of one of the two belongs to.
LEMMA StageOf ==
  ASSUME Numbers, Stage
  PROVE  /\ cpc = "count" => Counting
         /\ cpc = "names" => Naming
         /\ cpc = "field" => Sizing
         /\ cpc = "recv" => Fetching
         /\ spc = "update" /\ up # <<>> /\ IsSize(Head(up)) => Uploading
         /\ spc = "stored" => Stored
         /\ spc = "body" => Storing
<1>1. op \in Ops /\ (op # "update" => Zeros(524, <<>>) # <<>> /\ ~IsSize(Head(Zeros(524, <<>>))))
  <2> DEFINE e == <<>>
  <2>1. e \in Seq(Runs)
    BY EmptyIs
  <2> HIDE DEF e
  <2>2. Zeros(524, e) # <<>> /\ Head(Zeros(524, e)).what = "zero"
    BY <2>1, ZerosHead
  <2> QED
    BY <2>2 DEF e, IsSize, Numbers
<1>2. Serving => spc \in Ops \ {"update"} /\ cpc = "flag"
  BY <1>1 DEF Serving, Ops
<1>3. Uploading => cpc \in {"size", "send", "flag"} /\ spc \in {"read", "update"}
  BY DEF Uploading, Loading, OnTheWay, Behind
<1>4. Storing => cpc \in {"send", "flag"} /\ spc = "body"
  BY DEF Storing, OnTheWay
<1>5. Answering => cpc = "flag" /\ spc \in {"read", "closed"}
  BY DEF Answering
<1>6. /\ Idle => cpc = "idle" /\ spc = "read"
      /\ Gone => cpc = "gone" /\ spc = "closed"
      /\ Asked => cpc = "flag" /\ spc = "read"
      /\ Counting => cpc = "count" /\ spc = "read"
      /\ Naming => cpc = "names" /\ spc = "read"
      /\ Sizing => cpc = "field" /\ spc = "read"
      /\ Fetching => cpc = "recv" /\ spc = "read"
      /\ Stored => cpc = "flag" /\ spc = "stored"
  BY DEF Idle, Gone, Asked, Counting, Naming, Sizing, Fetching, Stored
<1>7. Serving => spc # "update" /\ spc # "stored" /\ spc # "body" /\ cpc = "flag"
  BY <1>2 DEF Ops
<1> QED
  BY <1>3, <1>4, <1>5, <1>6, <1>7 DEF Stage

LEMMA ResultsAre ==
  ASSUME NEW tag \in {"none", "OK", "SERROR"}, NEW n \in Nat
  PROVE  Result(tag, n) \in Results
BY DEF Result, Results

LEMMA ReplySaid ==
  ASSUME NEW tag, NEW runs, NEW result \in Results, Reply(tag, runs, result)
  PROVE  said' \in Results
BY DEF Reply

\* Of a step of the server, what is the client's stays.
LEMMA NumbersServer ==
  ASSUME FieldsTravel, WireTypes, Stage, Server
  PROVE  Numbers'
<1> USE DEF WireTypes, Numbers, clientVars
<1>1. CASE Serve
  <2>1. text = 0 /\ said' \in Results
    BY <1>1, ResultsAre DEF Serve, Nothing, Result
  <2> QED
    BY <1>1, <2>1 DEF Serve
<1>2. CASE ServeList
  <2>1. PICK c \in Counts : said' = Result("OK", c)
    BY <1>2 DEF ServeList, Reply
  <2>2. said' \in Results /\ text = 0
    BY <1>2, <2>1, ResultsAre, SizesAre DEF ServeList, Ops
  <2> QED
    BY <1>2, <2>2 DEF ServeList
<1>3. CASE ServeDelete
  <2>1. said' \in Results /\ text = 0
    BY <1>3, ResultsAre DEF ServeDelete, Reply
  <2> QED
    BY <1>3, <2>1 DEF ServeDelete
<1>4. CASE ServeDownload
  <2>1. said' \in Results /\ text = 0
    BY <1>4, ResultsAre, SizesAre DEF ServeDownload, Reply
  <2> QED
    BY <1>4, <2>1 DEF ServeDownload
<1>5. CASE ServeQuit
  <2>1. said' \in Results /\ text = 0
    BY <1>5, ResultsAre DEF ServeQuit, Reply
  <2> QED
    BY <1>5, <2>1 DEF ServeQuit
<1>6. CASE ServeSize
  <2>1. x' \in Nat
    <3>1. CASE IsSize(Head(up))
      <4>1. Uploading
        BY <1>6, <3>1, StageOf DEF ServeSize
      <4> QED
        BY <1>6, <4>1, SizeFound
    <3>2. CASE ~IsSize(Head(up))
      BY <1>6, <3>2 DEF ServeSize
    <3> QED
      BY <3>1, <3>2
  <2>2. text = 0
    BY <1>6 DEF ServeSize
  <2> QED
    BY <1>6, <2>1, <2>2 DEF ServeSize
<1>7. CASE ServeBlock
  <2>1. x \in Nat /\ text \in Nat /\ toSend \in Nat /\ Pad \in Nat
    BY WireAssumption
  <2>2. spc = "body" /\ up # <<>>
    BY <1>7 DEF ServeBlock
  <2>3. PICK k \in Nat : OnTheWay(x, k) /\ up = Sent(x, k)
    BY <2>2, StageOf DEF Storing
  <2>4. /\ ReadLen(up, 1024) = 1024 /\ x > 0
        /\ TextIn(up, 1024) = IF 1024 <= x - 1 THEN 1024 ELSE x - 1
    BY <2>1, <2>2, <2>3, BlockRead
  <2>5. TextIn(up, 1024) \in Nat
    BY <2>1, <2>4
  <2>6. /\ \E p \in {0, Pad} : text' = text + TextIn(up, 1024) + p
        /\ x' = IF x > 1024 THEN x - 1024 ELSE 0
        /\ spc' \in {"stored", "body"}
    BY <1>7, <2>4 DEF ServeBlock
  <2>7. text' \in Nat /\ x' \in Nat
    BY <2>1, <2>5, <2>6
  <2> QED
    BY <1>7, <2>6, <2>7 DEF ServeBlock
<1>8. CASE ServeUpdate
  <2>1. said' \in Results
    BY <1>8, ResultsAre DEF ServeUpdate, Reply
  <2> QED
    BY <1>8, <2>1 DEF ServeUpdate
<1> QED
  BY <1>1, <1>2, <1>3, <1>4, <1>5, <1>6, <1>7, <1>8 DEF Server

LEMMA NumbersClient ==
  ASSUME FieldsTravel, WireTypes, Stage, Issue \/ Client
  PROVE  Numbers'
<1> USE DEF WireTypes, Numbers, serverVars
<1>1. CASE Issue
  <2>1. heard' \in Results
    BY <1>1, ResultsAre DEF Issue, Nothing, Result
  <2>2. op' \in Ops /\ sz' \in Sizes \cup {0} /\ (op' = "update" => sz' \in Sizes)
    BY <1>1 DEF Issue
  <2> QED
    BY <1>1, <2>1, <2>2 DEF Issue
<1>2. CASE SendSize
  <2>1. toSend' \in Nat /\ cpc' = "send" /\ taken = 0
    BY <1>2, SizesAre DEF SendSize
  <2> QED
    BY <1>2, <2>1 DEF SendSize
<1>3. CASE SendBlock
  <2>1. toSend' \in Nat /\ taken = 0
    BY <1>3 DEF SendBlock
  <2> QED
    BY <1>3, <2>1 DEF SendBlock
<1>4. CASE ReadFlag
  <2>1. Result("OK", IF op = "update" THEN sz ELSE 0) \in Results
        /\ Result("SERROR", 0) \in Results
    BY ResultsAre, SizesAre
  <2>2. heard' \in Results /\ taken = 0
    BY <1>4, <2>1 DEF ReadFlag
  <2> QED
    BY <1>4, <2>2 DEF ReadFlag
<1>5. CASE ReadCount
  <2>1. cx' \in Nat
    BY <1>5, StageOf, CountingStep DEF ReadCount, Next, Client
  <2>2. cpc' \in {"idle", "names"}
    BY <1>5 DEF ReadCount
  <2> QED
    BY <1>5, <2>1, <2>2 DEF ReadCount
<1>6. CASE ReadName
  <2>1. cx' \in Nat
    BY <1>6, StageOf, NamingStep DEF ReadName, Next, Client
  <2>2. cpc' \in {"idle", "names"} /\ heard' = [heard EXCEPT !.len = @ + 1]
    BY <1>6 DEF ReadName
  <2>3. heard' \in Results
    <3>1. heard \in Results
      OBVIOUS
    <3>2. heard.tag \in {"none", "OK", "SERROR"} /\ heard.len + 1 \in Nat
      BY <3>1 DEF Results
    <3>3. heard' = [tag |-> heard.tag, len |-> heard.len + 1]
      BY <2>2, <3>1 DEF Results
    <3> QED
      BY <3>2, <3>3 DEF Results
  <2> QED
    BY <1>6, <2>1, <2>2, <2>3 DEF ReadName
<1>7. CASE ReadSize
  <2>1. cx' \in Nat
    BY <1>7, StageOf, SizingStep DEF ReadSize, Next, Client
  <2>2. cpc' \in {"field", "recv"}
    BY <1>7 DEF ReadSize
  <2> QED
    BY <1>7, <2>1, <2>2 DEF ReadSize
<1>8. CASE Recv
  <2>1. cx' \in Nat /\ last' \in Nat /\ taken' \in Nat /\ heard' \in Results
    BY <1>8, StageOf, FetchingStep DEF Recv, Next, Client
  <2>2. cpc' \in {"idle", "recv"} /\ inPlace' \in BOOLEAN
    BY <1>8 DEF Recv
  <2> QED
    BY <1>8, <2>1, <2>2 DEF Recv
<1> QED
  BY <1>1, <1>2, <1>3, <1>4, <1>5, <1>6, <1>7, <1>8 DEF Client

LEMMA InvInit ==
  ASSUME Init
  PROVE  WireInv
<1>1. Numbers
  BY ResultsAre DEF Init, Numbers, Ops, Nothing, Result
<1>2. Idle
  BY DEF Init, Idle, Leftover, Zeros, Agreed
<1> QED
  BY <1>1, <1>2 DEF WireInv, Stage, Init

LEMMA InvStep ==
  ASSUME Patient, FieldsTravel, WireInv, [Next]_vars
  PROVE  WireInv'
<1>1. WireTypes /\ Numbers /\ Stage
  BY StageTypes DEF WireInv
<1>2. CASE Next
  <2>1. Numbers'
    BY <1>1, <1>2, NumbersClient, NumbersServer DEF Next
  <2>2. Stage'
    BY <1>1, <1>2, StageStep
  <2> QED
    BY <2>1, <2>2 DEF WireInv
<1>3. CASE UNCHANGED vars
  <2>1. /\ up' = up /\ down' = down /\ cpc' = cpc /\ op' = op /\ sz' = sz
        /\ toSend' = toSend /\ cx' = cx /\ last' = last /\ taken' = taken
        /\ inPlace' = inPlace /\ heard' = heard
        /\ spc' = spc /\ x' = x /\ text' = text /\ said' = said
    BY <1>3 DEF vars, clientVars, serverVars
  <2>2. Numbers'
    BY <1>1, <2>1 DEF Numbers
  <2>3. Stage'
    <3>1. \A s : Behind(s) => Behind(s)'
      BY <2>1 DEF Behind, Order, Zeros
    <3>2. /\ \A left, k : OnTheWay(left, k) => OnTheWay(left, k)'
          /\ \A s : Loading(s) => Loading(s)'
      BY <2>1 DEF Loading, OnTheWay
    <3>3. Leftover => Leftover'
      BY <2>1 DEF Leftover
    <3>4. \A tag, runs : Answer(tag, runs, said) => Answer(tag, runs, said)'
      BY <2>1 DEF Answer
    <3>5. /\ Idle => Idle'
          /\ Gone => Gone'
          /\ Asked => Asked'
          /\ Serving => Serving'
          /\ Answering => Answering'
      BY <2>1, <3>3, <3>4 DEF Idle, Agreed, Gone, Asked, Order, Serving, Answering
    <3>6. /\ Counting => Counting'
          /\ Naming => Naming'
          /\ Sizing => Sizing'
      BY <2>1, <3>3 DEF Counting, Naming, Sizing
    <3>7. Fetching => Fetching'
      BY <2>1, <3>3 DEF Fetching, Bytes, Before
    <3>8. Uploading => Uploading'
      BY <2>1, <3>1, <3>2 DEF Uploading
    <3>9. Storing => Storing'
      BY <2>1, <3>2 DEF Storing
    <3>10. Stored => Stored'
      BY <2>1 DEF Stored
    <3> QED
      BY <1>1, <3>5, <3>6, <3>7, <3>8, <3>9, <3>10 DEF Stage
  <2> QED
    BY <2>2, <2>3 DEF WireInv
<1> QED
  BY <1>2, <1>3

LEMMA WireInvHolds ==
  Patient /\ FieldsTravel /\ Spec => []WireInv
<1> SUFFICES ASSUME Patient, FieldsTravel
             PROVE  Spec => []WireInv
  OBVIOUS
<1>1. Init => WireInv
  BY InvInit
<1>2. WireInv /\ [Next]_vars => WireInv'
  BY InvStep
<1> QED
  BY <1>1, <1>2, PTL DEF Spec

-----------------------------------------------------------------------------
(* What the invariant gives *)

\* Each side stands at one of its calls, with counters that no message ever makes
\* negative, if the user types and every size arrives (update(), download()).
THEOREM WireTyped == Patient /\ FieldsTravel /\ Spec => []TypeOK
<1> SUFFICES ASSUME Patient, FieldsTravel
             PROVE  Spec => []TypeOK
  OBVIOUS
<1>1. WireInv => TypeOK
  <2> SUFFICES ASSUME WireInv
               PROVE  TypeOK
    OBVIOUS
  <2>1. WireTypes /\ Numbers /\ Stage
    BY StageTypes DEF WireInv
  <2>2. \A s \in {up, down} : \A i \in DOMAIN s : s[i].n > 0
    <3>1. \A s \in Seq(Runs) : \A i \in DOMAIN s : s[i] \in Runs
      OBVIOUS
    <3> QED
      BY <2>1, <3>1, RunBytes DEF WireTypes
  <2>3. /\ cpc \in Waiting \cup {"idle", "size", "send", "gone"}
        /\ spc \in Ops \cup {"read", "body", "stored", "closed"}
    <3>1. op \in Ops
      BY <2>1 DEF Numbers
    <3>2. \A s : Loading(s) => cpc \in {"size", "send", "flag"}
      BY DEF Loading, OnTheWay
    <3>3. \A k : OnTheWay(x, k) => cpc \in {"send", "flag"}
      BY DEF OnTheWay
    <3> QED
      BY <2>1, <3>1, <3>2, <3>3 DEF Stage, Waiting, Ops, Idle, Gone, Asked, Serving,
         Answering, Counting, Naming, Sizing, Fetching, Uploading, Behind, Storing, Stored
  <2> QED
    BY <2>1, <2>2, <2>3 DEF TypeOK, Numbers
<1>2. Spec => []WireInv
  BY WireInvHolds
<1> QED
  BY <1>1, <1>2, PTL

\* Client and server never both wait for the other with nothing on its way:
\* whatever read() has cut off, what is left ends the call that waits.
THEOREM NeverStalls == Patient /\ FieldsTravel /\ Spec => []NoStall
<1> SUFFICES ASSUME Patient, FieldsTravel
             PROVE  Spec => []NoStall
  OBVIOUS
<1>1. WireInv => NoStall
  <2> SUFFICES ASSUME WireInv, cpc \in Waiting,
                      spc \in {"read", "update", "body"}, up = <<>>, down = <<>>
               PROVE  FALSE
    BY DEF NoStall
  <2>1. WireTypes /\ Numbers /\ Stage /\ op \in Ops
    BY StageTypes DEF WireInv, Numbers
  <2> DEFINE e == <<>>
  <2>2. e \in Seq(Runs) /\ up = e /\ down = e
    BY EmptyIs
  <2>3. \A r \in Runs : \A s \in Seq(Runs) : Cons(r, s) # e
    BY ConsParts
  <2> HIDE DEF e
  <2>4. \A s \in Seq(Runs) : Order(s) # e /\ \A d \in Nat : Zeros(d, s) = e => s = e
    <3>1. \A s \in Seq(Runs) : Order(s) # e
      BY <2>1, OrderIs DEF e
    <3>2. \A s \in Seq(Runs) : \A d \in Nat : Zeros(d, s) = e => s = e
      BY ZerosAre DEF e
    <3> QED
      BY <3>1, <3>2
  <2>5. CASE Asked
    BY <2>2, <2>4, <2>5 DEF Asked, e
  <2>6. CASE Answering
    <3>1. PICK tag \in Tags, runs \in Seq(Runs) : down = Cons(Run("flag", 5, tag), runs)
      BY <2>6 DEF Answering
    <3> QED
      BY <2>2, <2>3, <3>1, RunIs, KindsAre
  <2>7. CASE Counting
    BY <2>2, <2>3, <2>7, CountIs DEF Counting
  <2>8. CASE Naming
    <3>1. cx \in Nat /\ cx # 0 /\ cx - 1 \in Nat
      BY <2>1, <2>8 DEF Naming, Numbers
    <3> QED
      BY <2>2, <2>3, <2>8, <3>1, NamesAre DEF Naming
  <2>9. CASE Sizing
    <3>1. PICK s \in Sizes : down = Cons(SizeRun(s + 1), Blocks(s + 1, Segment))
      BY <2>9 DEF Sizing
    <3>2. SizeRun(s + 1) \in Runs /\ s + 1 \in Nat /\ s + 1 > 0
      BY SizesAre, SizeRunIs
    <3>3. Blocks(s + 1, Segment) \in Seq(Runs)
      BY <3>2, BlocksBytes
    <3> QED
      BY <2>2, <2>3, <3>1, <3>2, <3>3
  <2>10. CASE Fetching
    BY <2>1, <2>10, BytesOf DEF Fetching, Numbers
  <2>11. CASE Uploading
    <3>1. PICK s \in Seq(Runs) : Loading(s) /\ Behind(s)
      BY <2>11 DEF Uploading
    <3>2. s = e
      <4>1. \A j \in 0 .. 131 : 4 * j \in Nat
        OBVIOUS
      <4> QED
        BY <2>2, <2>4, <3>1, <4>1 DEF Behind
    <3>3. PICK k \in Nat :
            OnTheWay(sz + 1, k) /\ s = Cons(SizeRun(sz + 1), Sent(sz + 1, k))
      BY <3>1 DEF Loading, Waiting
    <3>4. sz \in Sizes /\ sz \in Nat /\ toSend \in Nat
      BY <2>1, <2>11, SizesAre DEF Uploading, Numbers
    <3>5. k = 0 \/ 1024 * (k - 1) < sz + 1
      BY <3>3, <3>4 DEF OnTheWay
    <3>6. Sent(sz + 1, k) \in Seq(Runs)
      BY <3>4, <3>5, SentIs
    <3>7. SizeRun(sz + 1) \in Runs
      BY <3>4, SizeRunIs
    <3> QED
      BY <2>3, <3>2, <3>3, <3>6, <3>7
  <2>12. CASE Storing
    <3>1. PICK k \in Nat : OnTheWay(x, k) /\ up = Sent(x, k)
      BY <2>12 DEF Storing
    <3>2. x \in Nat /\ x > 0 /\ toSend \in Nat
      BY <2>1, <2>12 DEF Storing, Numbers
    <3>3. cpc = "flag" /\ 1024 * (k - 1) < x /\ x <= 1024 * k
      BY <3>1 DEF OnTheWay, Waiting
    <3>4. k # 0 /\ 1024 * (k - 1) < x
      BY <3>2, <3>3
    <3>5. Len(up) = k
      BY <3>1, <3>2, <3>4, SentIs
    <3> QED
      BY <3>4, <3>5, EmptyIs
  <2>13. ~Idle /\ ~Gone /\ ~Serving /\ ~Stored
    BY <2>1 DEF Idle, Gone, Serving, Stored, Waiting, Ops
  <2> QED
    BY <2>1, <2>5, <2>6, <2>7, <2>8, <2>9, <2>10, <2>11, <2>12, <2>13 DEF Stage
<1>2. Spec => []WireInv
  BY WireInvHolds
<1> QED
  BY <1>1, <1>2, PTL


\* Asked for a command, a user stands at Idle.
LEMMA IdleOf ==
  ASSUME FieldsTravel, WireInv, cpc = "idle"
  PROVE  Idle
<1>1. \A s : Loading(s) => cpc # "idle"
  BY DEF Loading, OnTheWay
<1>2. \A k : OnTheWay(x, k) => cpc # "idle"
  BY DEF OnTheWay
<1>3. Stage
  BY DEF WireInv
<1> QED
  BY <1>1, <1>2, <1>3 DEF Stage, Gone, Asked, Serving, Answering, Counting, Naming, Sizing,
     Fetching, Uploading, Storing, Stored

\* The next command finds nothing before it but zeros of the last one, that the
\* server drops: no byte of an old content, size or answer is taken for a new one.
THEOREM StaysAligned == Patient /\ FieldsTravel /\ Spec => []Aligned
<1> SUFFICES ASSUME Patient, FieldsTravel
             PROVE  Spec => []Aligned
  OBVIOUS
<1>1. WireInv => Aligned
  <2> SUFFICES ASSUME WireInv, cpc = "idle"
               PROVE  down = <<>> /\ \A i \in DOMAIN up : up[i].what = "zero"
    BY DEF Aligned
  <2>1. down = <<>> /\ Leftover
    BY IdleOf DEF Idle
  <2>2. PICK d \in {0, 24, 524} : up = Zeros(d, <<>>)
    BY <2>1 DEF Leftover
  <2>3. CASE d = 0
    BY <2>1, <2>2, <2>3 DEF Zeros
  <2>4. CASE d # 0
    <3> DEFINE r == Run("zero", d, 0)
               e == <<>>
    <3>1. d \in Nat /\ r \in Runs /\ r.what = "zero" /\ e \in Seq(Runs) /\ Len(e) = 0
          /\ up = Cons(r, e)
      BY <2>2, <2>4, ZeroRun, EmptyIs DEF Zeros
    <3> HIDE DEF r, e
    <3>2. up \in Seq(Runs) /\ Len(up) = 1 + Len(e) /\ up[1] = r
      <4>1. r \in Runs /\ e \in Seq(Runs)
        BY <3>1
      <4>2. Cons(r, e) \in Seq(Runs) /\ Len(Cons(r, e)) = 1 + Len(e) /\ Cons(r, e)[1] = r
        BY <4>1, ConsIs
      <4> QED
        BY <3>1, <4>2
    <3>3. \A i \in DOMAIN up : i = 1
      BY <3>1, <3>2
    <3> QED
      BY <2>1, <3>1, <3>2, <3>3
  <2> QED
    BY <2>3, <2>4
<1>2. Spec => []WireInv
  BY WireInvHolds
<1> QED
  BY <1>1, <1>2, PTL

\* What client.c prints for a command is what the server did for that command:
\* the result, the number of names, the length of a content below one buffer.
THEOREM ResultsArrive == Patient /\ FieldsTravel /\ Spec => []Faithful
<1> SUFFICES ASSUME Patient, FieldsTravel
             PROVE  Spec => []Faithful
  OBVIOUS
<1>1. WireInv => Faithful
  BY IdleOf DEF Faithful, Idle, Agreed
<1>2. Spec => []WireInv
  BY WireInvHolds
<1> QED
  BY <1>1, <1>2, PTL

\* A file below one buffer is stored as long as it is: update() finds its size behind
\* the zeros of the command and strcat() stops at the NUL the client has sent with it.
THEOREM UploadsWhole == Patient /\ FieldsTravel /\ Spec => []UploadWhole
<1> SUFFICES ASSUME Patient, FieldsTravel
             PROVE  Spec => []UploadWhole
  OBVIOUS
<1>1. WireInv => UploadWhole
  BY StageOf DEF WireInv, UploadWhole, Stored
<1>2. Spec => []WireInv
  BY WireInvHolds
<1> QED
  BY <1>1, <1>2, PTL
=============================================================================
