--------------------------- MODULE SlotTableProofs ---------------------------
(***************************************************************************)
(* Theorems about SlotTable, for any number of slots (the code has 50),    *)
(* descriptors and connections.                                            *)
(***************************************************************************)
EXTENDS SlotTable, WellFoundedInduction, TLAPS

LEMMA Numbers ==
  /\ Slots \in Nat /\ Slots > 1 /\ MaxAccepts \in Nat
  /\ \A d \in Fd : d \in Nat /\ d > 2
  BY SlotAssumption

LEMMA LeastExists ==
  ASSUME NEW S \in SUBSET Nat, S # {}
  PROVE  \E n \in S : \A m \in S : n <= m
<1> DEFINE R == {ss \in Nat \X Nat : ss[1] < ss[2]}
<1>1. IsWellFoundedOn(R, Nat)
  <2>1. R = OpToRel(<, Nat)
    BY DEF OpToRel
  <2> QED
    BY <2>1, NatLessThanWellFounded
<1>2. \A m, n \in Nat : <<m, n>> \in R <=> m < n
  OBVIOUS
<1> HIDE DEF R
<1>3. PICK n \in S : \A m \in S : ~ (<<m, n>> \in R)
  BY <1>1, WFMin
<1>4. ASSUME NEW m \in S
      PROVE  n <= m
  <2>1. m \in Nat /\ n \in Nat /\ ~ (m < n)
    BY <1>2, <1>3
  <2> QED
    BY <2>1
<1> QED
  BY <1>3, <1>4

\* accept() returns an unused descriptor or -1.
LEMMA NewFdType ==
  /\ NewFd \in Unused \cup {NoFd}
  /\ NoFd \notin Fd /\ Unused \subseteq Fd
<1>1. Unused \subseteq Fd /\ Fd \subseteq Nat
  BY SlotAssumption DEF Unused
<1>2. CASE Unused # {}
  <2>1. \E n \in Unused : \A m \in Unused : n <= m
    BY <1>1, <1>2, LeastExists
  <2>2. Min(Unused) \in Unused
    BY <2>1 DEF Min
  <2> QED
    BY <1>1, <1>2, <2>2 DEF NewFd, NoFd
<1> QED
  BY <1>1, <1>2 DEF NewFd, NoFd

-----------------------------------------------------------------------------
(* The types *)

\* The types are inductive together with where the counter may stand while main()
\* joins.
TypeInv == TypeOK /\ (main = "accept" => i \in Slot) /\ (main = "join" => i \in 0 .. 1)

LEMMA TypeStep ==
  ASSUME TypeInv, Next
  PROVE  TypeInv'
<1> USE Numbers DEF Call, Slot, Nobody
<1>0. NewFd \in Fd \cup {NoFd}
  BY NewFdType
<1>1. ASSUME Accept
      PROVE  TypeInv'
  <2> DEFINE k == made + 1
  <2>1. k \in Call /\ k \in 0 .. MaxAccepts /\ i \in Slot
    BY <1>1 DEF Accept, TypeInv, TypeOK
  <2>2. /\ made' = k /\ i' \in Slot /\ main' \in {"accept", "join"}
        /\ main' = "join" => i' = 0
    BY <1>1, <2>1 DEF Accept, TypeInv, TypeOK, Wraps
  <2>3. /\ arrayInteger' \in [Slot -> Fd \cup {0, NoFd}]
        /\ tid' \in [Slot -> 0 .. MaxAccepts]
    BY <1>0, <1>1, <2>1 DEF Accept, TypeInv, TypeOK
  <2>4. open' \in [Fd -> 0 .. MaxAccepts]
    BY <1>1, <2>1 DEF Accept, TypeInv, TypeOK
  <2>5. /\ thread' \in [Call -> {"none", "born", "started", "read", "handler", "spin", "ended"}]
        /\ fd' \in [Call -> Slot]
    BY <1>1, <2>1 DEF Accept, TypeInv, TypeOK
  <2>6. UNCHANGED <<detached, newSocket, reply>>
    BY <1>1 DEF Accept
  <2>7. TypeOK'
    BY <2>1, <2>2, <2>3, <2>4, <2>5, <2>6 DEF TypeInv, TypeOK
  <2> QED
    BY <2>2, <2>7 DEF TypeInv
<1>2. ASSUME Die
      PROVE  TypeInv'
  BY <1>2 DEF Die, threadVars, TypeInv, TypeOK
<1>3. CASE Join
  <2>1. i = 0
    BY <1>3 DEF Join, Joins, TypeInv, TypeOK
  <2> QED
    BY <1>3, <2>1 DEF Join, threadVars, TypeInv, TypeOK
<1>4. CASE JoinEnd
  BY <1>4 DEF JoinEnd, threadVars, TypeInv, TypeOK
<1>5. ASSUME NEW k \in Call, NetThread(k)
      PROVE  TypeInv'
  <2>1. CASE Start(k)
    BY <2>1 DEF Start, Detach, loopVars, TypeInv, TypeOK
  <2>2. CASE CopySocket(k)
    <3>1. arrayInteger[fd[k]] \in Fd \cup {0, NoFd}
      BY DEF TypeInv, TypeOK
    <3> QED
      BY <2>2, <3>1 DEF CopySocket, loopVars, TypeInv, TypeOK
  <2>3. CASE Command(k)
    <3>1. arrayInteger[fd[k]] \in Fd \cup {0, NoFd}
      BY DEF TypeInv, TypeOK
    <3> QED
      BY <2>3, <3>1 DEF Command, loopVars, TypeInv, TypeOK
  <2>4. CASE Answer(k) \/ Spin(k)
    BY <2>4 DEF Answer, Spin, loopVars, TypeInv, TypeOK
  <2>5. CASE End(k)
    <3>1. Close(k) \in [Fd -> 0 .. MaxAccepts]
      BY DEF Close, TypeInv, TypeOK
    <3> QED
      BY <2>5, <3>1 DEF End, loopVars, TypeInv, TypeOK
  <2>6. CASE AnswerExits(k) \/ EndKills(k)
    BY <1>2, <2>6 DEF AnswerExits, EndKills
  <2> QED
    BY <1>5, <2>1, <2>2, <2>3, <2>4, <2>5, <2>6 DEF NetThread
<1> QED
  BY <1>1, <1>2, <1>3, <1>4, <1>5 DEF Next, Loop, AcceptExits, JoinCrash

LEMMA TypeInvariant ==
  /\ Init => TypeInv
  /\ TypeInv /\ [Next]_vars => TypeInv'
<1>1. Init => TypeInv
  BY Numbers DEF Init, TypeInv, TypeOK, Slot, Call, Nobody
<1>2. TypeInv /\ [Next]_vars => TypeInv'
  <2> SUFFICES ASSUME TypeInv, [Next]_vars
               PROVE  TypeInv'
    OBVIOUS
  <2>1. CASE UNCHANGED vars
    BY <2>1 DEF vars, loopVars, threadVars, TypeInv, TypeOK
  <2> QED
    BY <2>1, TypeStep
<1> QED
  BY <1>1, <1>2

\* The slot counter never leaves the two arrays, and what is in them is a descriptor,
\* 0 or -1, whatever the clients do.
THEOREM SlotsTyped == Spec => []TypeOK
<1>1. TypeInv => TypeOK
  BY DEF TypeInv
<1> QED
  BY <1>1, TypeInvariant, PTL DEF Spec

-----------------------------------------------------------------------------
(* Threads and descriptors *)

Unstarted(k) == thread[k] \in {"born", "started"}

\* No thread has still to read slot s.
Released(s) == \A k \in Call : Unstarted(k) => fd[k] # s

\* How old the thread of slot s is at least: those before the counter belong to
\* this round, the others to the one before.
Aged(s) ==
  tid[s] = Nobody \/ tid[s] <= made + s + 1 - (IF s < i THEN i ELSE i + Slots)

\* While main() joins, the counter is counted over.
AgedAll(s) == tid[s] = Nobody \/ tid[s] <= made + s + 1 - Slots

PairInv ==
  /\ TypeInv
  /\ OwnSocket
  /\ \A k \in Call : thread[k] = "none" <=> k > made
  /\ \A k \in Call : Unstarted(k) => tid[fd[k]] = k
  /\ main = "accept" => \A s \in Slot : Aged(s)
  /\ main = "join" => Released(0) /\ \A s \in Slot : AgedAll(s)

\* What Prompt says of the call that comes next.
LEMMA Oldest ==
  ASSUME PairInv, NEW s \in Slot, NEW k \in Int, tid[s] = Nobody \/ tid[s] <= k,
         \A l \in 1 .. k : Started(l)
  PROVE  Released(s)
<1> SUFFICES ASSUME NEW l \in Call, Unstarted(l), fd[l] = s
             PROVE  FALSE
  BY DEF Released
<1>1. tid[s] = l
  BY DEF PairInv
<1>2. l # Nobody /\ l \in Nat /\ l >= 1
  BY Numbers DEF Call, Nobody
<1>3. l \in 1 .. k
  BY <1>1, <1>2
<1> QED
  BY <1>3 DEF Started, Unstarted

LEMMA AcceptPairs ==
  ASSUME PairInv, TypeInv', Prompt, Accept
  PROVE  PairInv'
<1> USE Numbers DEF Call, Slot, Nobody
<1> DEFINE k == made + 1
           d == NewFd
<1>1. /\ k \in Call /\ i \in Slot /\ made \in Nat /\ i \in Nat /\ tid \in [Slot -> Nat]
      /\ \A l \in 1 .. k - (Slots - 1) : Started(l)
      /\ made' = k
      /\ arrayInteger' = [arrayInteger EXCEPT ![i] = d]
      /\ open' = [e \in Fd |-> IF e = d THEN k ELSE open[e]]
      /\ tid' = [tid EXCEPT ![i] = k]
      /\ thread' = [thread EXCEPT ![k] = "born"]
      /\ fd' = [fd EXCEPT ![k] = i]
      /\ UNCHANGED newSocket
  BY DEF Accept, PairInv, TypeInv, TypeOK
<1>2. /\ \A s \in Slot : Aged(s) /\ s \in Nat /\ tid[s] \in Nat
      /\ \A l \in Call : thread[l] = "none" <=> l > made
      /\ \A l \in Call : Unstarted(l) => tid[fd[l]] = l /\ fd[l] \in Slot
      /\ OwnSocket
      /\ open \in [Fd -> Nat] /\ arrayInteger = [s \in Slot |-> arrayInteger[s]]
      /\ thread = [l \in Call |-> thread[l]] /\ fd = [l \in Call |-> fd[l]]
  <2>1. \A s \in Slot : Aged(s) /\ s \in Nat /\ tid[s] \in Nat
    <3>1. \A s \in Slot : Aged(s)
      BY DEF Accept, PairInv
    <3>2. \A s \in Slot : s \in Nat /\ tid[s] \in Nat
      BY <1>1
    <3> QED
      BY <3>1, <3>2
  <2>2. \A l \in Call : Unstarted(l) => tid[fd[l]] = l /\ fd[l] \in Slot
    <3>1. \A l \in Call : fd[l] \in Slot
      BY DEF PairInv, TypeInv, TypeOK
    <3> QED
      BY <3>1 DEF PairInv
  <2>3. open \in [Fd -> Nat]
    BY DEF PairInv, TypeInv, TypeOK
  <2>4. /\ arrayInteger = [s \in Slot |-> arrayInteger[s]]
        /\ thread = [l \in Call |-> thread[l]] /\ fd = [l \in Call |-> fd[l]]
    BY DEF PairInv, TypeInv, TypeOK
  <2>5. OwnSocket /\ \A l \in Call : thread[l] = "none" <=> l > made
    BY DEF PairInv
  <2> QED
    BY <2>1, <2>2, <2>3, <2>4, <2>5
<1>3. thread[k] = "none"
  BY <1>1, <1>2
<1>4. Released(i)
  <2>1. tid[i] = Nobody \/ tid[i] <= k - Slots
    BY <1>1, <1>2 DEF Aged
  <2>2. \A l \in 1 .. k - Slots : Started(l)
    BY <1>1
  <2>3. k - Slots \in Int
    BY <1>1
  <2> QED
    BY <1>1, <2>1, <2>2, <2>3, Oldest
<1> HIDE DEF d
<1>5. (\A l \in Call : thread[l] = "none" <=> l > made)'
  BY <1>1, <1>2
<1>6. (\A l \in Call : Unstarted(l) => tid[fd[l]] = l)'
  <2> SUFFICES ASSUME NEW l \in Call, Unstarted(l)'
               PROVE  tid'[fd'[l]] = l
    OBVIOUS
  <2>1. CASE l = k
    BY <1>1, <1>2, <2>1
  <2>2. CASE l # k
    <3>1. Unstarted(l) /\ fd'[l] = fd[l]
      BY <1>1, <1>2, <2>2 DEF Unstarted
    <3>2. fd[l] # i
      BY <1>4, <3>1 DEF Released
    <3> QED
      BY <1>1, <1>2, <3>1, <3>2
  <2> QED
    BY <2>1, <2>2
<1>7. (main = "accept" => \A s \in Slot : Aged(s))'
  <2> SUFFICES ASSUME main' = "accept", NEW s \in Slot
               PROVE  Aged(s)'
    OBVIOUS
  <2>1. i' = i + 1
    BY DEF Accept
  <2>2. CASE s = i
    BY <1>1, <2>1, <2>2 DEF Aged
  <2>3. CASE s # i
    <3>1. Aged(s) /\ tid'[s] = tid[s] /\ s \in Nat /\ tid[s] \in Nat
      BY <1>1, <1>2, <2>3
    <3>2. s < i + 1 <=> s < i
      BY <1>1, <2>3, <3>1
    <3> QED
      BY <1>1, <2>1, <3>1, <3>2 DEF Aged
  <2> QED
    BY <2>2, <2>3
<1>8. ASSUME main' = "join"
      PROVE  Released(0)' /\ \A s \in Slot : AgedAll(s)'
  <2>1. i = Slots - 1
    BY <1>1, <1>8 DEF Accept, Wraps
  <2>2. \A s \in Slot : AgedAll(s)'
    <3> SUFFICES ASSUME NEW s \in Slot
                 PROVE  AgedAll(s)'
      OBVIOUS
    <3>1. CASE s = i
      BY <1>1, <2>1, <3>1 DEF AgedAll
    <3>2. CASE s # i
      <4>1. Aged(s) /\ tid'[s] = tid[s] /\ s \in Nat /\ tid[s] \in Nat
        BY <1>1, <1>2, <3>2
      <4>2. s < i
        BY <2>1, <3>2
      <4>3. tid[s] = Nobody \/ tid[s] <= made + s + 1 - i
        BY <4>1, <4>2 DEF Aged
      <4>4. made + s + 1 - i = made' + s + 1 - Slots
        BY <1>1, <2>1, <4>1
      <4> QED
        BY <4>1, <4>3, <4>4 DEF AgedAll
    <3> QED
      BY <3>1, <3>2
  <2>3. Released(0)
    <3>1. 0 \in Slot /\ 0 < i
      BY <2>1
    <3>2. tid[0] = Nobody \/ tid[0] <= k - (Slots - 1)
      BY <1>1, <1>2, <2>1, <3>1 DEF Aged
    <3>3. k - (Slots - 1) \in Int
      BY <1>1
    <3> QED
      BY <1>1, <3>1, <3>2, <3>3, Oldest
  <2>4. Released(0)'
    <3> SUFFICES ASSUME NEW l \in Call, Unstarted(l)'
                 PROVE  fd'[l] # 0
      BY DEF Released
    <3>1. CASE l = k
      BY <1>1, <1>2, <2>1, <3>1
    <3>2. CASE l # k
      <4>1. Unstarted(l) /\ fd'[l] = fd[l]
        BY <1>1, <1>2, <3>2 DEF Unstarted
      <4> QED
        BY <2>3, <4>1 DEF Released
    <3> QED
      BY <3>1, <3>2
  <2> QED
    BY <2>2, <2>4
<1>9. OwnSocket'
  <2> SUFFICES ASSUME NEW e \in Fd, NEW l \in Call
               PROVE  Has(l, e)' <=> open'[e] = l
    BY DEF OwnSocket
  <2>1. Has(l, e) <=> open[e] = l
    BY <1>2 DEF OwnSocket
  <2>2. e = d => open[e] = Nobody
    BY NewFdType DEF Unused, d
  <2>3. CASE l = k
    <3>1. ~ Has(l, e)
      BY <1>3, <2>3 DEF Has
    <3>2. Has(l, e)' <=> e = d
      BY <1>1, <1>2, <2>3 DEF Has
    <3> QED
      BY <1>1, <2>1, <2>3, <3>1, <3>2
  <2>4. CASE l # k
    <3>1. thread'[l] = thread[l] /\ fd'[l] = fd[l] /\ newSocket' = newSocket
      BY <1>1, <1>2, <2>4
    <3>2. Unstarted(l) => arrayInteger'[fd[l]] = arrayInteger[fd[l]]
      BY <1>1, <1>2, <1>4 DEF Released
    <3>3. Has(l, e)' <=> Has(l, e)
      BY <3>1, <3>2 DEF Has, Unstarted
    <3>4. open'[e] = l <=> open[e] = l
      BY <1>1, <2>2, <2>4
    <3> QED
      BY <2>1, <3>3, <3>4
  <2> QED
    BY <2>3, <2>4
<1> QED
  BY <1>5, <1>6, <1>7, <1>8, <1>9 DEF PairInv

\* Steps of the loop that accept nothing.
LEMMA LoopPairs ==
  ASSUME PairInv, TypeInv', Die \/ Join \/ JoinEnd
  PROVE  PairInv'
<1> USE Numbers DEF Call, Slot, Nobody
<1>1. CASE Die
  BY <1>1 DEF Die, threadVars, PairInv, OwnSocket, Has, Unstarted
<1>2. CASE Join
  <2>1. i = 0 /\ 0 \in Slot
    BY <1>2 DEF Join, Joins, PairInv, TypeInv, TypeOK
  <2>2. Released(0)
    BY <1>2 DEF Join, PairInv
  <2>3. /\ arrayInteger' = [arrayInteger EXCEPT ![0] = 0]
        /\ UNCHANGED <<main, made, tid, open, thread, fd, newSocket>>
    BY <1>2, <2>1 DEF Join, threadVars
  <2>4. OwnSocket'
    <3> SUFFICES ASSUME NEW e \in Fd, NEW l \in Call
                 PROVE  Has(l, e)' <=> open'[e] = l
      BY DEF OwnSocket
    <3>1. Unstarted(l) => arrayInteger'[fd[l]] = arrayInteger[fd[l]]
      BY <2>2, <2>3 DEF Released, PairInv, TypeInv, TypeOK
    <3>2. Has(l, e)' <=> Has(l, e)
      BY <2>3, <3>1 DEF Has, Unstarted
    <3> QED
      BY <2>3, <3>2 DEF PairInv, OwnSocket
  <2>5. Released(0)' /\ \A s \in Slot : AgedAll(s)'
    BY <1>2, <2>2, <2>3 DEF Join, PairInv, Released, Unstarted, AgedAll
  <2> QED
    BY <1>2, <2>3, <2>4, <2>5 DEF Join, PairInv, Unstarted
<1>3. CASE JoinEnd
  <2>1. /\ i' = 0 /\ main = "join"
        /\ UNCHANGED <<made, tid, arrayInteger, open, thread, fd, newSocket>>
    BY <1>3 DEF JoinEnd, threadVars
  <2>2. \A s \in Slot : Aged(s)'
    BY <2>1 DEF PairInv, Aged, AgedAll
  <2>3. main' # "join"
    BY <1>3 DEF JoinEnd
  <2> QED
    BY <2>1, <2>2, <2>3 DEF PairInv, OwnSocket, Has, Unstarted
<1> QED
  BY <1>1, <1>2, <1>3

\* A step of a thread.
LEMMA ThreadPairs ==
  ASSUME PairInv, TypeInv', NEW k \in Call, NetThread(k)
  PROVE  PairInv'
<1> USE DEF loopVars
<1>1. CASE AnswerExits(k) \/ EndKills(k)
  BY <1>1, LoopPairs DEF AnswerExits, EndKills
<1>2. CASE ~ (AnswerExits(k) \/ EndKills(k))
  <2>1. /\ UNCHANGED <<main, i, made, tid, arrayInteger, fd>>
        /\ \A l \in Call : l # k => thread'[l] = thread[l] /\ newSocket'[l] = newSocket[l]
        /\ thread[k] # "none" /\ thread'[k] # "none"
        /\ Unstarted(k)' => Unstarted(k)
    BY <1>2 DEF NetThread, Start, CopySocket, Command, Answer, End, Spin, Unstarted,
                PairInv, TypeInv, TypeOK
  <2>2. \A l \in Call : Unstarted(l)' => Unstarted(l)
    BY <2>1 DEF Unstarted
  <2>3. (main = "join" => Released(0) /\ \A s \in Slot : AgedAll(s))'
    BY <2>1, <2>2 DEF PairInv, Released, AgedAll
  <2>4. (main = "accept" => \A s \in Slot : Aged(s))'
    BY <2>1 DEF PairInv, Aged
  <2>5. (\A l \in Call : Unstarted(l) => tid[fd[l]] = l)'
    BY <2>1, <2>2 DEF PairInv
  <2>6. (\A l \in Call : thread[l] = "none" <=> l > made)'
    BY <2>1 DEF PairInv
  <2>7. OwnSocket'
    <3> SUFFICES ASSUME NEW e \in Fd, NEW l \in Call
                 PROVE  Has(l, e)' <=> open'[e] = l
      BY DEF OwnSocket
    <3>1. (Has(l, e) <=> open[e] = l) /\ (Has(k, e) <=> open[e] = k)
      BY DEF PairInv, OwnSocket
    <3>2. l # k => (Has(l, e)' <=> Has(l, e))
      BY <2>1 DEF Has
    <3>3. CASE End(k)
      <4>1. open'[e] = IF e = newSocket[k] THEN Nobody ELSE open[e]
        BY <3>3 DEF End, Close
      <4>2. ~ Has(k, e)' /\ (Has(k, e) <=> newSocket[k] = e)
        BY <3>3 DEF End, Has, PairInv, TypeInv, TypeOK
      <4>3. l # Nobody /\ k # Nobody
        BY Numbers DEF Call, Nobody
      <4> QED
        BY <3>1, <3>2, <4>1, <4>2, <4>3
    <3>4. CASE CopySocket(k)
      <4>1. Has(k, e)' <=> Has(k, e)
        BY <3>4 DEF CopySocket, Has, PairInv, TypeInv, TypeOK
      <4> QED
        BY <3>1, <3>2, <3>4, <4>1 DEF CopySocket
    <3>5. CASE Start(k) \/ Command(k) \/ Answer(k) \/ Spin(k)
      <4>1. (Has(k, e)' <=> Has(k, e)) /\ UNCHANGED open
        BY <3>5 DEF Start, Command, Answer, Spin, Has, PairInv, TypeInv, TypeOK
      <4> QED
        BY <3>1, <3>2, <4>1
    <3> QED
      BY <1>2, <3>3, <3>4, <3>5 DEF NetThread
  <2> QED
    BY <2>3, <2>4, <2>5, <2>6, <2>7 DEF PairInv
<1> QED
  BY <1>1, <1>2

LEMMA InitPairs ==
  ASSUME Init
  PROVE  PairInv
<1>1. TypeInv
  BY TypeInvariant
<1>2. OwnSocket
  BY Numbers DEF Init, OwnSocket, Has, Call, Nobody
<1>3. \A k \in Call : k > 0
  BY Numbers DEF Call
<1> QED
  BY <1>1, <1>2, <1>3 DEF Init, PairInv, Unstarted, Aged

LEMMA StepPairs ==
  ASSUME PairInv, [Next]_vars, Prompt
  PROVE  PairInv'
<1>1. TypeInv'
  BY TypeInvariant DEF PairInv
<1>2. CASE UNCHANGED vars
  BY <1>1, <1>2 DEF vars, loopVars, threadVars, PairInv, OwnSocket, Has, Unstarted,
                    Released, Aged, AgedAll
<1> QED
  BY <1>1, <1>2, AcceptPairs, LoopPairs, ThreadPairs
     DEF Next, Loop, AcceptExits, JoinCrash

\* With threads that start in time, open descriptors and the threads that use them
\* belong together one to one, however often the loop comes round: no thread reads
\* from another's client, and none closes another's descriptor.
THEOREM SocketsOwned == Prompt /\ Spec => []OwnSocket
<1> SUFFICES ASSUME Prompt
             PROVE  Spec => []OwnSocket
  OBVIOUS
<1>1. Init => PairInv
  BY InitPairs
<1>2. PairInv /\ [Next]_vars => PairInv'
  BY StepPairs
<1>3. PairInv => OwnSocket
  BY DEF PairInv
<1> QED
  BY <1>1, <1>2, <1>3, PTL DEF Spec

-----------------------------------------------------------------------------
(* Handlers answer their own clients *)

Serving(k) == thread[k] \in {"read", "handler"}

\* The slots are taken in turn: as many calls at least have come since the call
\* k as the counter has gone on from its slot, a round more where it has not
\* passed it again.
Since(k, place) == k + place <= made + 1 + fd[k]

TurnInv ==
  /\ main = "accept" =>
       \A k \in Call : thread[k] # "none" =>
         Since(k, IF fd[k] < i THEN i ELSE i + Slots)
  /\ main = "join" => \A k \in Call : thread[k] # "none" => Since(k, Slots)

\* Until the loop comes round to it, a slot holds what its thread has copied or
\* will copy.
KeepInv ==
  /\ \A k \in Call : Unstarted(k) => arrayInteger[fd[k]] # 0
  /\ \A k \in Call : Serving(k) => newSocket[k] # 0
  /\ \A k \in Call : thread[k] = "handler" => newSocket[k] # NoFd
  /\ \A k \in Call : Serving(k) /\ ~ComeRound(k) => arrayInteger[fd[k]] = newSocket[k]
  /\ \A k \in Call : thread[k] = "handler" /\ ~ComeRound(k) => reply[k] = newSocket[k]

AnswerInv == PairInv /\ TurnInv /\ KeepInv

\* accept() writes slot i: the calls before it that had this slot have been come
\* round to, and the others keep what their slots hold.
LEMMA AcceptAnswers ==
  ASSUME AnswerInv, PairInv', Prompt, Accept
  PROVE  AnswerInv'
<1> USE Numbers DEF Call, Slot, Nobody
<1> DEFINE k == made + 1
           d == NewFd
<1>1. /\ k \in Call /\ i \in Slot /\ made \in Nat /\ i \in Nat
      /\ made' = k
      /\ arrayInteger' = [arrayInteger EXCEPT ![i] = d]
      /\ thread' = [thread EXCEPT ![k] = "born"]
      /\ fd' = [fd EXCEPT ![k] = i]
      /\ UNCHANGED <<newSocket, reply>>
  BY DEF Accept, AnswerInv, PairInv, TypeInv, TypeOK
<1>2. /\ \A l \in Call : thread[l] = "none" <=> l > made
      /\ \A l \in Call : fd[l] \in Slot /\ fd[l] \in Nat
      /\ arrayInteger = [s \in Slot |-> arrayInteger[s]]
      /\ thread = [l \in Call |-> thread[l]] /\ fd = [l \in Call |-> fd[l]]
  BY DEF AnswerInv, PairInv, TypeInv, TypeOK
<1>3. d \in Fd \cup {NoFd} /\ d # 0
  BY NewFdType DEF NoFd
<1> HIDE DEF d
<1>4. ASSUME NEW l \in Call, l # k
      PROVE  thread'[l] = thread[l] /\ fd'[l] = fd[l]
  BY <1>1, <1>2, <1>4
<1>5. thread'[k] = "born" /\ fd'[k] = i
  BY <1>1, <1>2
<1>6. ASSUME NEW l \in Call, l # k, thread[l] # "none"
      PROVE  Since(l, IF fd[l] < i THEN i ELSE i + Slots)
  BY <1>6 DEF Accept, AnswerInv, TurnInv
<1>7. TurnInv'
  <2>1. ASSUME main' = "accept", NEW l \in Call, thread'[l] # "none"
        PROVE  Since(l, IF fd[l] < i THEN i ELSE i + Slots)'
    <3>1. i' = i + 1
      BY <2>1 DEF Accept
    <3>2. CASE l = k
      BY <1>1, <1>5, <3>1, <3>2 DEF Since
    <3>3. CASE l # k
      <4>1. Since(l, IF fd[l] < i THEN i ELSE i + Slots)
        BY <1>4, <1>6, <2>1, <3>3
      <4>2. fd'[l] = fd[l] /\ fd[l] \in Nat
        BY <1>2, <1>4, <3>3
      <4> QED
        BY <1>1, <3>1, <4>1, <4>2 DEF Since
    <3> QED
      BY <3>2, <3>3
  <2>2. ASSUME main' = "join", NEW l \in Call, thread'[l] # "none"
        PROVE  Since(l, Slots)'
    <3>1. i = Slots - 1
      BY <1>1, <2>2 DEF Accept, Wraps
    <3>2. CASE l = k
      BY <1>1, <1>5, <3>1, <3>2 DEF Since
    <3>3. CASE l # k
      <4>1. Since(l, IF fd[l] < i THEN i ELSE i + Slots)
        BY <1>4, <1>6, <2>2, <3>3
      <4>2. fd'[l] = fd[l] /\ fd[l] \in Nat
        BY <1>2, <1>4, <3>3
      <4> QED
        BY <1>1, <3>1, <4>1, <4>2 DEF Since
    <3> QED
      BY <3>2, <3>3
  <2> QED
    BY <2>1, <2>2 DEF TurnInv
<1>8. ASSUME NEW l \in Call, l # k, thread[l] # "none", ~ ComeRound(l)'
      PROVE  ~ ComeRound(l) /\ arrayInteger'[fd'[l]] = arrayInteger[fd[l]]
  <2>1. ~ ComeRound(l)
    BY <1>1, <1>2, <1>4, <1>8 DEF ComeRound
  <2>2. fd[l] # i
    <3> SUFFICES ASSUME fd[l] = i
                 PROVE  FALSE
      OBVIOUS
    <3>1. Since(l, i + Slots)
      BY <1>1, <1>6, <1>8
    <3> QED
      BY <1>1, <1>8, <3>1 DEF Since, ComeRound
  <2> QED
    BY <1>1, <1>2, <1>4, <1>8, <2>1, <2>2
<1>9. ASSUME NEW l \in Call, l # k, Unstarted(l)'
      PROVE  arrayInteger'[fd'[l]] # 0
  <2>1. Unstarted(l) /\ fd'[l] = fd[l]
    BY <1>4, <1>9 DEF Unstarted
  <2>2. arrayInteger[fd[l]] # 0
    BY <2>1 DEF AnswerInv, KeepInv
  <2> QED
    BY <1>1, <1>2, <1>3, <2>1, <2>2
<1>10. KeepInv'
  <2>1. ASSUME NEW l \in Call, Unstarted(l)'
        PROVE  arrayInteger'[fd'[l]] # 0
    <3>1. CASE l = k
      BY <1>1, <1>2, <1>3, <1>5, <3>1
    <3> QED
      BY <1>9, <2>1, <3>1
  <2>2. ASSUME NEW l \in Call, Serving(l)'
        PROVE  /\ newSocket'[l] # 0
               /\ thread'[l] = "handler" => newSocket'[l] # NoFd
               /\ ~ ComeRound(l)' => arrayInteger'[fd'[l]] = newSocket'[l]
               /\ thread'[l] = "handler" /\ ~ ComeRound(l)' => reply'[l] = newSocket'[l]
    <3>1. l # k /\ thread[l] # "none" /\ Serving(l) /\ thread'[l] = thread[l]
      BY <1>4, <1>5, <2>2 DEF Serving
    <3>2. newSocket' = newSocket /\ reply' = reply
      BY <1>1
    <3>3. ~ ComeRound(l)' => ~ ComeRound(l) /\ arrayInteger'[fd'[l]] = arrayInteger[fd[l]]
      BY <1>8, <3>1
    <3> QED
      BY <3>1, <3>2, <3>3 DEF AnswerInv, KeepInv
  <2> QED
    BY <2>1, <2>2 DEF KeepInv, Serving
<1> QED
  BY <1>7, <1>10 DEF AnswerInv

LEMMA LoopAnswers ==
  ASSUME AnswerInv, PairInv', Die \/ Join \/ JoinEnd
  PROVE  AnswerInv'
<1> USE Numbers DEF Call, Slot, Nobody
<1>1. CASE Die
  <2>1. main' = "dead" /\ UNCHANGED <<i, made, arrayInteger, thread, fd, newSocket, reply>>
    BY <1>1 DEF Die, threadVars
  <2>2. TurnInv'
    BY <2>1 DEF TurnInv
  <2>3. KeepInv'
    BY <2>1 DEF AnswerInv, KeepInv, Unstarted, Serving, ComeRound
  <2> QED
    BY <2>2, <2>3 DEF AnswerInv
<1>2. CASE Join
  <2>1. i = 0 /\ 0 \in Slot /\ main = "join"
    BY <1>2 DEF Join, Joins, AnswerInv, PairInv, TypeInv, TypeOK
  <2>2. Released(0)
    BY <2>1 DEF AnswerInv, PairInv
  <2>3. /\ arrayInteger' = [arrayInteger EXCEPT ![0] = 0]
        /\ UNCHANGED <<main, made, thread, fd, newSocket, reply>>
    BY <1>2, <2>1 DEF Join, threadVars
  <2>4. TurnInv'
    BY <2>1, <2>3 DEF AnswerInv, TurnInv, Since
  <2>5. ASSUME NEW l \in Call, Serving(l), ~ ComeRound(l)
        PROVE  arrayInteger'[fd[l]] = arrayInteger[fd[l]]
    <3>1. Since(l, Slots)
      BY <2>1, <2>5 DEF AnswerInv, TurnInv, Serving
    <3>2. made \in Nat /\ fd[l] \in Slot
      BY DEF AnswerInv, PairInv, TypeInv, TypeOK
    <3>3. fd[l] # 0
      BY <2>5, <3>1, <3>2 DEF Since, ComeRound
    <3> QED
      BY <2>3, <3>2, <3>3 DEF AnswerInv, PairInv, TypeInv, TypeOK
  <2>6. ASSUME NEW l \in Call, Unstarted(l)
        PROVE  arrayInteger'[fd[l]] # 0
    <3>1. fd[l] # 0 /\ fd[l] \in Slot /\ arrayInteger[fd[l]] # 0
      BY <2>2, <2>6 DEF Released, AnswerInv, KeepInv, PairInv, TypeInv, TypeOK
    <3> QED
      BY <2>3, <3>1 DEF AnswerInv, PairInv, TypeInv, TypeOK
  <2>7. KeepInv'
    BY <2>3, <2>5, <2>6 DEF AnswerInv, KeepInv, Unstarted, Serving, ComeRound
  <2> QED
    BY <2>4, <2>7 DEF AnswerInv
<1>3. CASE JoinEnd
  <2>1. /\ i' = 0 /\ main = "join" /\ main' = "accept"
        /\ UNCHANGED <<made, arrayInteger, thread, fd, newSocket, reply>>
    BY <1>3 DEF JoinEnd, threadVars
  <2>2. TurnInv'
    <3> SUFFICES ASSUME NEW l \in Call, thread[l] # "none"
                 PROVE  Since(l, IF fd[l] < i THEN i ELSE i + Slots)'
      BY <2>1 DEF TurnInv
    <3>1. Since(l, Slots) /\ fd[l] \in Slot
      BY <2>1 DEF AnswerInv, TurnInv, PairInv, TypeInv, TypeOK
    <3> QED
      BY <2>1, <3>1 DEF Since
  <2>3. KeepInv'
    BY <2>1 DEF AnswerInv, KeepInv, Unstarted, Serving, ComeRound
  <2> QED
    BY <2>2, <2>3 DEF AnswerInv
<1> QED
  BY <1>1, <1>2, <1>3

LEMMA ThreadAnswers ==
  ASSUME AnswerInv, PairInv', NEW k \in Call, NetThread(k)
  PROVE  AnswerInv'
<1> USE DEF loopVars
<1>1. CASE AnswerExits(k) \/ EndKills(k)
  BY <1>1, LoopAnswers DEF AnswerExits, EndKills
<1>2. CASE ~ (AnswerExits(k) \/ EndKills(k))
  <2>1. /\ UNCHANGED <<main, i, made, arrayInteger, fd>>
        /\ \A l \in Call : l # k => /\ thread'[l] = thread[l]
                                    /\ newSocket'[l] = newSocket[l]
                                    /\ reply'[l] = reply[l]
        /\ thread[k] # "none"
    BY <1>2 DEF NetThread, Start, CopySocket, Command, Answer, End, Spin,
                AnswerInv, PairInv, TypeInv, TypeOK
  <2>2. TurnInv'
    BY <2>1 DEF AnswerInv, TurnInv, Since
  <2>3. \A l \in Call : ComeRound(l)' <=> ComeRound(l)
    BY <2>1 DEF ComeRound
  <2>4. ASSUME NEW l \in Call
        PROVE  /\ Unstarted(l)' => arrayInteger'[fd'[l]] # 0
               /\ Serving(l)' => newSocket'[l] # 0
               /\ thread'[l] = "handler" => newSocket'[l] # NoFd
               /\ Serving(l)' /\ ~ ComeRound(l)' => arrayInteger'[fd'[l]] = newSocket'[l]
               /\ thread'[l] = "handler" /\ ~ ComeRound(l)' => reply'[l] = newSocket'[l]
    <3>1. CASE l # k
      BY <2>1, <2>3, <3>1 DEF AnswerInv, KeepInv, Unstarted, Serving
    <3>2. CASE l = k /\ Start(k)
      BY <2>1, <3>2 DEF Start, AnswerInv, KeepInv, Unstarted, Serving, PairInv, TypeInv, TypeOK
    <3>3. CASE l = k /\ CopySocket(k)
      BY <2>1, <3>3 DEF CopySocket, AnswerInv, KeepInv, Unstarted, Serving, PairInv, TypeInv, TypeOK
    <3>4. CASE l = k /\ Command(k)
      BY <2>1, <2>3, <3>4 DEF Command, AnswerInv, KeepInv, Unstarted, Serving, PairInv, TypeInv, TypeOK
    <3>5. CASE l = k /\ Answer(k)
      BY <2>1, <2>3, <3>5 DEF Answer, AnswerInv, KeepInv, Unstarted, Serving, PairInv, TypeInv, TypeOK
    <3>6. CASE l = k /\ (End(k) \/ Spin(k))
      BY <2>1, <3>6 DEF End, Spin, Unstarted, Serving, AnswerInv, PairInv, TypeInv, TypeOK
    <3> QED
      BY <1>2, <3>1, <3>2, <3>3, <3>4, <3>5, <3>6 DEF NetThread
  <2>5. KeepInv'
    BY <2>4 DEF KeepInv
  <2> QED
    BY <2>2, <2>5 DEF AnswerInv
<1> QED
  BY <1>1, <1>2

\* With threads that start in time a handler answers the client its thread reads
\* from, until the loop comes round to its slot: for the code's 50 slots, until the
\* 50th connection after its own, and the 49th for slot 0, which main() clears.
\* From then on it may answer another client, and nothing is said here.
THEOREM AnswersOwned == Prompt /\ Spec => []AnswersOwn
<1> SUFFICES ASSUME Prompt
             PROVE  Spec => []AnswersOwn
  OBVIOUS
<1>1. Init => AnswerInv
  <2> SUFFICES ASSUME Init
               PROVE  AnswerInv
    OBVIOUS
  <2>1. PairInv
    BY InitPairs
  <2> QED
    BY <2>1 DEF Init, AnswerInv, TurnInv, KeepInv, Unstarted, Serving
<1>2. AnswerInv /\ [Next]_vars => AnswerInv'
  <2> SUFFICES ASSUME AnswerInv, [Next]_vars
               PROVE  AnswerInv'
    OBVIOUS
  <2>1. PairInv'
    BY StepPairs DEF AnswerInv
  <2>2. CASE UNCHANGED vars
    BY <2>1, <2>2 DEF vars, loopVars, threadVars, AnswerInv, TurnInv, KeepInv, Since,
                      Unstarted, Serving, ComeRound
  <2> QED
    BY <2>1, <2>2, AcceptAnswers, LoopAnswers, ThreadAnswers
       DEF Next, Loop, AcceptExits, JoinCrash
<1>3. AnswerInv => AnswersOwn
  <2> SUFFICES ASSUME AnswerInv, NEW k \in Call, thread[k] = "handler", ~ ComeRound(k)
               PROVE  reply[k] = newSocket[k] /\ \E d \in Fd : d = reply[k] /\ open[d] = k
    BY DEF AnswersOwn
  <2>1. reply[k] = newSocket[k] /\ newSocket[k] \in Fd
    BY DEF AnswerInv, KeepInv, Serving, PairInv, TypeInv, TypeOK
  <2>2. open[newSocket[k]] = k
    BY <2>1 DEF AnswerInv, PairInv, OwnSocket, Has
  <2> QED
    BY <2>1, <2>2
<1> QED
  BY <1>1, <1>2, <1>3, PTL DEF Spec
=============================================================================
