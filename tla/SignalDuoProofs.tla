--------------------------- MODULE SignalDuoProofs ---------------------------
(***************************************************************************)
(* Theorems about SignalDuo, for any set of lines and any number of them.  *)
(***************************************************************************)
EXTENDS SignalDuo, SqueueProofs

-----------------------------------------------------------------------------
(* counter and the buffer keep step in a step that is paced: a signal is sent  *)
(* in time, and none is delivered between the test of the queues and            *)
(* counter = 0.  That every step is paced, for lines typed in turn, is shown at *)
(* the end, from the arbitration of the two peers.                              *)

Paced ==
  /\ \A p \in Peer : SendBit(p) => InTime(Other(p), SignalOf(Head(todo[p])))
  /\ \A p \in Peer : Deliver(p) => pc[p] # "reset"

Queued(p) == Len(buffer[p].order)

\* The shapes the argument needs.
Shapes ==
  /\ pc \in [Peer -> {"top", "input", "check", "reset", "send"}]
  /\ pend \in [Peer -> SUBSET Signal]
  /\ frame = [p \in Peer |-> frame[p]]
  /\ counter \in [Peer -> Nat]
  /\ buffer = [p \in Peer |-> buffer[p]]
  /\ \A p \in Peer : GoodSqueue(buffer[p], Bit)

\* At most one call of the handler is open, and what is pending meanwhile is at
\* most the signal it handles: nothing can interrupt it.
Single(p) ==
  /\ \A s, r \in pend[p] : s = r
  /\ frame[p] = <<>> \/ \E fr \in Frame : frame[p] = <<fr>> /\ pend[p] \subseteq {fr.sig}

\* What the counter n says of a buffer of len bits at each place of the handler.
Agrees(fr, n, len) ==
  /\ fr.at = "add" => n = len /\ n < 8 /\ fr.temp = <<>>
  /\ fr.at = "count" => n + 1 = len /\ n < 8 /\ fr.temp = <<>>
  /\ fr.at = "take" => n = 0 /\ len + Len(fr.temp) = 8

Counts(p) ==
  /\ frame[p] = <<>> => counter[p] = Queued(p) /\ counter[p] < 8
  /\ \A fr \in Frame : frame[p] = <<fr>> => Agrees(fr, counter[p], Queued(p))

\* The main loop sets counter to 0 only when it is 0.
Resets(p) == pc[p] = "reset" => frame[p] = <<>> /\ counter[p] = 0

InStepInv == Shapes /\ \A p \in Peer : Single(p) /\ Counts(p) /\ Resets(p)

LEMMA InStepMeans ==
  ASSUME InStepInv
  PROVE  InStep
<1> SUFFICES ASSUME NEW p \in Peer
             PROVE  /\ Len(frame[p]) <= 1
                    /\ frame[p] = <<>> =>
                         counter[p] = Len(Values(buffer[p])) /\ counter[p] < 8
                    /\ Running(p, "take") =>
                         Len(Last(frame[p]).temp) + Len(Values(buffer[p])) = 8
  BY DEF InStep
<1>1. Len(frame[p]) <= 1
  <2>1. CASE frame[p] = <<>>
    BY <2>1
  <2>2. ASSUME NEW fr \in Frame, frame[p] = <<fr>>
        PROVE  Len(frame[p]) <= 1
    BY <2>2
  <2> QED
    BY <2>1, <2>2 DEF InStepInv, Single
<1>2. Len(Values(buffer[p])) = Queued(p)
  BY ValuesType DEF InStepInv, Shapes, Queued
<1>3. ASSUME Running(p, "take")
      PROVE  Len(Last(frame[p]).temp) + Queued(p) = 8
  <2>1. PICK fr \in Frame : frame[p] = <<fr>>
    BY <1>3 DEF InStepInv, Single, Running
  <2>2. Last(frame[p]) = fr
    BY <2>1 DEF Last
  <2>3. fr.at = "take" /\ Agrees(fr, counter[p], Queued(p))
    BY <1>3, <2>1, <2>2 DEF InStepInv, Counts, Running
  <2>4. Queued(p) \in Nat /\ Len(fr.temp) \in Nat
    BY OrderType DEF InStepInv, Shapes, Queued, Frame
  <2> QED
    BY <2>2, <2>3, <2>4 DEF Agrees
<1> QED
  BY <1>1, <1>2, <1>3 DEF InStepInv, Counts

LEMMA Others ==
  ASSUME NEW p \in Peer
  PROVE  Other(p) \in Peer /\ Other(p) # p
<1>1. \E q \in Peer : q # p
  BY DuoAssumption
<1> QED
  BY <1>1 DEF Other

LEMMA NewFrame ==
  ASSUME NEW sig \in Signal
  PROVE  [sig |-> sig, at |-> "add", temp |-> <<>>] \in Frame
<1>1. <<>> \in Seq(Bit)
  OBVIOUS
<1> QED
  BY <1>1 DEF Frame

\* A step that leaves a peer alone.
LEMMA Kept ==
  ASSUME NEW r \in Peer, Single(r), Counts(r), Resets(r),
         frame'[r] = frame[r], pend'[r] = pend[r], pc'[r] = pc[r],
         counter'[r] = counter[r], buffer'[r] = buffer[r]
  PROVE  Single(r)' /\ Counts(r)' /\ Resets(r)'
<1>1. Single(r)'
  BY DEF Single
<1>2. Counts(r)'
  BY DEF Counts, Queued
<1>3. Resets(r)'
  BY DEF Resets
<1> QED
  BY <1>1, <1>2, <1>3

\* A handler that runs alone: what its steps do to the stack.
LEMMA OneFrame ==
  ASSUME Shapes, NEW p \in Peer, Single(p), frame[p] # <<>>
  PROVE  \E fr \in Frame :
           /\ frame[p] = <<fr>> /\ Last(frame[p]) = fr /\ Len(frame[p]) = 1
           /\ pend[p] \subseteq {fr.sig}
           /\ Front(frame[p]) = <<>>
           /\ \A place : [frame[p] EXCEPT ![1].at = place] = <<[fr EXCEPT !.at = place]>>
           /\ \A x : [frame[p] EXCEPT ![1].temp = x] = <<[fr EXCEPT !.temp = x]>>
<1>1. PICK fr \in Frame : frame[p] = <<fr>> /\ pend[p] \subseteq {fr.sig}
  BY DEF Single
<1>2. Len(<<fr>>) = 1 /\ <<fr>>[1] = fr /\ DOMAIN <<fr>> = 1 .. 1
  OBVIOUS
<1>3. Last(<<fr>>) = fr /\ Front(<<fr>>) = <<>>
  BY <1>2 DEF Last, Front
<1>4. \A place : [<<fr>> EXCEPT ![1].at = place] = <<[fr EXCEPT !.at = place]>>
  OBVIOUS
<1>5. \A x : [<<fr>> EXCEPT ![1].temp = x] = <<[fr EXCEPT !.temp = x]>>
  OBVIOUS
<1> QED
  BY <1>1, <1>2, <1>3, <1>4, <1>5

\* Steps that leave the stack, the counter and the buffer alone.
LEMMA MainInStep ==
  ASSUME InStepInv, Paced, NEW p \in Peer, Main(p) \/ Type(p)
  PROVE  InStepInv'
<1> USE DEF main, recv, At
<1>1. CASE Reset(p)
  <2>1. counter[p] = 0 /\ pc[p] = "reset"
    BY <1>1 DEF InStepInv, Resets, Reset
  <2>2. counter' = counter
    BY <1>1, <2>1 DEF InStepInv, Shapes, Reset
  <2>3. Shapes' /\ \A r \in Peer : Single(r)' /\ Counts(r)'
    BY <1>1, <2>2 DEF InStepInv, Shapes, Single, Counts, Queued, Reset
  <2>4. \A r \in Peer : Resets(r)'
    BY <1>1, <2>2 DEF InStepInv, Shapes, Resets, Reset
  <2> QED
    BY <2>3, <2>4 DEF InStepInv
<1>2. CASE Check(p)
  <2>1. frame[p] = <<>> /\ counter[p] = Queued(p)
    BY <1>2 DEF InStepInv, Counts, Check
  <2>2. isEmpty(buffer[p]) => counter[p] = 0
    BY <2>1, EmptyMeans DEF InStepInv, Shapes, Queued
  <2>3. Shapes' /\ \A r \in Peer : Single(r)' /\ Counts(r)'
    BY <1>2 DEF InStepInv, Shapes, Single, Counts, Queued, Check
  <2>4. \A r \in Peer : Resets(r)'
    BY <1>2, <2>1, <2>2 DEF InStepInv, Shapes, Resets, Check, Idle
  <2> QED
    BY <2>3, <2>4 DEF InStepInv
<1>3. CASE SendBit(p)
  <2> DEFINE q == Other(p)
             sig == SignalOf(Head(todo[p]))
  <2>1. q \in Peer /\ sig \in Signal
    BY Others DEF SignalOf, Signal
  <2>2. pend' = [pend EXCEPT ![q] = pend[q] \cup {sig}]
    BY <1>3 DEF SendBit
  <2>3. pend[q] = {} /\ \A i \in DOMAIN frame[q] : frame[q][i].sig = sig
    BY <1>3 DEF Paced, InTime
  <2> HIDE DEF q, sig
  <2>4. Shapes'
    <3>1. pend' \in [Peer -> SUBSET Signal]
      BY <2>1, <2>2 DEF InStepInv, Shapes
    <3> QED
      BY <1>3, <3>1 DEF InStepInv, Shapes, SendBit
  <2>5. \A fr : frame[q] = <<fr>> => fr.sig = sig
    <3> SUFFICES ASSUME NEW fr, frame[q] = <<fr>>
                 PROVE  fr.sig = sig
      OBVIOUS
    <3>1. 1 \in DOMAIN frame[q] /\ frame[q][1] = fr
      OBVIOUS
    <3> QED
      BY <2>3, <3>1
  <2>6. Single(q)'
    <3>1. pend'[q] = {sig}
      BY <2>1, <2>2, <2>3 DEF InStepInv, Shapes
    <3>2. frame' = frame
      BY <1>3 DEF SendBit
    <3> QED
      BY <2>1, <2>5, <3>1, <3>2 DEF InStepInv, Single
  <2>7. \A r \in Peer : r # q => Single(r)'
    BY <1>3, <2>2 DEF InStepInv, Shapes, Single, SendBit
  <2>8. \A r \in Peer : Counts(r)' /\ Resets(r)'
    BY <1>3 DEF InStepInv, Counts, Resets, Queued, SendBit
  <2> QED
    BY <2>4, <2>6, <2>7, <2>8 DEF InStepInv
<1>4. CASE Top(p) \/ Type(p) \/ SendOver(p)
  <2>1. Shapes' /\ \A r \in Peer : Single(r)' /\ Counts(r)'
    <3>1. UNCHANGED <<pend, frame, recv>>
      BY <1>4 DEF Top, Type, SendOver
    <3>2. pc' \in [Peer -> {"top", "input", "check", "reset", "send"}]
      BY <1>4 DEF InStepInv, Shapes, Top, Type, SendOver
    <3> QED
      BY <3>1, <3>2 DEF InStepInv, Shapes, Single, Counts, Queued
  <2>2. \A r \in Peer : Resets(r)'
    BY <1>4 DEF InStepInv, Shapes, Resets, Top, Type, SendOver
  <2> QED
    BY <2>1, <2>2 DEF InStepInv
<1> QED
  BY <1>1, <1>2, <1>3, <1>4 DEF Main

\* A signal is delivered to a main loop only: what is pending while a handler runs
\* is the signal it blocks.
LEMMA DeliverInStep ==
  ASSUME InStepInv, Paced, NEW p \in Peer, Deliver(p)
  PROVE  InStepInv'
<1> USE DEF main, recv
<1>1. PICK sig \in pend[p] :
        /\ ~Blocked(p, sig)
        /\ pend' = [pend EXCEPT ![p] = pend[p] \ {sig}]
        /\ frame' = [frame EXCEPT ![p] =
                       Append(frame[p], [sig |-> sig, at |-> "add", temp |-> <<>>])]
  BY DEF Deliver
<1> DEFINE fr == [sig |-> sig, at |-> "add", temp |-> <<>>]
<1>2. sig \in Signal /\ fr \in Frame
  BY NewFrame DEF InStepInv, Shapes
<1>3. frame[p] = <<>>
  <2> SUFFICES ASSUME frame[p] # <<>>
               PROVE  FALSE
    OBVIOUS
  <2>1. PICK g \in Frame : frame[p] = <<g>> /\ pend[p] \subseteq {g.sig}
    BY DEF InStepInv, Single
  <2>2. 1 \in DOMAIN frame[p] /\ frame[p][1].sig = sig
    BY <2>1
  <2> QED
    BY <1>1, <2>2 DEF Blocked
<1>4. fr.at = "add" /\ fr.sig = sig /\ fr.temp = <<>>
  OBVIOUS
<1> HIDE DEF fr
<1>5. frame' = [frame EXCEPT ![p] = <<fr>>]
  BY <1>1, <1>3 DEF fr
<1>6. UNCHANGED <<pc, counter, buffer>> /\ pc[p] # "reset"
  BY DEF Deliver, Paced
<1>7. frame'[p] = <<fr>> /\ pend'[p] = {}
  BY <1>1, <1>5 DEF InStepInv, Shapes, Single
<1>8. Shapes'
  BY <1>1, <1>5, <1>6 DEF InStepInv, Shapes
<1>9. Single(p)' /\ Counts(p)' /\ Resets(p)'
  <2>1. Single(p)'
    BY <1>2, <1>7 DEF Single
  <2>2. \A g : <<fr>> = <<g>> => g = fr
    OBVIOUS
  <2>3. <<fr>> # <<>>
    OBVIOUS
  <2>4. Counts(p)'
    <3>1. Agrees(fr, counter'[p], Queued(p)')
      BY <1>3, <1>4, <1>6 DEF InStepInv, Counts, Queued, Agrees
    <3> QED
      BY <1>7, <2>2, <2>3, <3>1 DEF Counts
  <2>5. Resets(p)'
    BY <1>6 DEF Resets
  <2> QED
    BY <2>1, <2>4, <2>5
<1>10. \A r \in Peer : r # p => Single(r)' /\ Counts(r)' /\ Resets(r)'
  <2> SUFFICES ASSUME NEW r \in Peer, r # p
               PROVE  Single(r)' /\ Counts(r)' /\ Resets(r)'
    OBVIOUS
  <2>1. frame'[r] = frame[r] /\ pend'[r] = pend[r]
    BY <1>1, <1>5 DEF InStepInv, Shapes
  <2> QED
    BY <1>6, <2>1, Kept DEF InStepInv
<1> QED
  BY <1>8, <1>9, <1>10 DEF InStepInv

\* The steps of the handler, which runs alone.
LEMMA HandlerInStep ==
  ASSUME InStepInv, NEW p \in Peer, Handler(p)
  PROVE  InStepInv'
<1> USE DEF main, recv
<1>1. frame[p] # <<>> /\ UNCHANGED <<pc, pend>>
  BY DEF Handler, Add, Count, Take, Finish, Running
<1>2. Shapes /\ Single(p)
  BY DEF InStepInv
<1>3. PICK fr \in Frame :
        /\ frame[p] = <<fr>> /\ Last(frame[p]) = fr /\ Len(frame[p]) = 1
        /\ pend[p] \subseteq {fr.sig}
        /\ Front(frame[p]) = <<>>
        /\ \A place : [frame[p] EXCEPT ![1].at = place] = <<[fr EXCEPT !.at = place]>>
        /\ \A x : [frame[p] EXCEPT ![1].temp = x] = <<[fr EXCEPT !.temp = x]>>
  BY <1>1, <1>2, OneFrame
<1>4. /\ fr.sig \in Signal /\ fr.temp \in Seq(Bit) /\ Len(fr.temp) \in Nat
      /\ pc[p] # "reset" /\ GoodSqueue(buffer[p], Bit)
      /\ counter[p] \in Nat /\ Queued(p) \in Nat
  BY <1>1, <1>2, OrderType DEF InStepInv, Resets, Shapes, Frame, Queued
<1>5. Agrees(fr, counter[p], Queued(p))
  BY <1>3 DEF InStepInv, Counts
\* The other peer, and what is left to show of this one.
<1> DEFINE Fits(f, n, len) ==
             \/ f = <<>> /\ n = len /\ n < 8
             \/ \E g \in Frame : f = <<g>> /\ g.sig = fr.sig /\ Agrees(g, n, len)
<1>6. ASSUME NEW b, NEW n \in Nat, NEW f,
             GoodSqueue(b, Bit),
             buffer' = [buffer EXCEPT ![p] = b],
             counter' = [counter EXCEPT ![p] = n],
             frame' = [frame EXCEPT ![p] = f],
             Fits(f, n, Len(b.order))
      PROVE  InStepInv'
  <2>1. buffer'[p] = b /\ counter'[p] = n /\ frame'[p] = f
    BY <1>2, <1>6 DEF Shapes
  <2>2. Shapes'
    BY <1>1, <1>2, <1>6 DEF Shapes
  <2>3. \A r \in Peer : r # p => Single(r)' /\ Counts(r)' /\ Resets(r)'
    <3> SUFFICES ASSUME NEW r \in Peer, r # p
                 PROVE  Single(r)' /\ Counts(r)' /\ Resets(r)'
      OBVIOUS
    <3>1. frame'[r] = frame[r] /\ buffer'[r] = buffer[r] /\ counter'[r] = counter[r]
      BY <1>2, <1>6 DEF Shapes
    <3> QED
      BY <1>1, <3>1, Kept DEF InStepInv
  <2>4. Single(p)'
    BY <1>1, <1>2, <1>3, <1>6, <2>1 DEF Single
  <2>5. \A g, h : <<g>> = <<h>> => g = h
    OBVIOUS
  <2>6. \A g : <<g>> # <<>>
    OBVIOUS
  <2>7. Counts(p)'
    BY <1>6, <2>1, <2>5, <2>6 DEF Counts, Queued
  <2>8. Resets(p)'
    BY <1>1, <1>4 DEF Resets
  <2> QED
    BY <2>2, <2>3, <2>4, <2>7, <2>8 DEF InStepInv
<1>f. ASSUME NEW g \in Frame, NEW n, NEW len, g.sig = fr.sig, Agrees(g, n, len)
      PROVE  Fits(<<g>>, n, len)
  BY <1>f
<1>e. ASSUME NEW n, n < 8
      PROVE  Fits(<<>>, n, n)
  BY <1>e
<1> HIDE DEF Fits
<1>7. CASE Add(p)
  <2> DEFINE v == BitOf(fr.sig)
             b == addBack(buffer[p], v)
             g == [fr EXCEPT !.at = "count"]
  <2>1. v \in Bit /\ fr.at = "add"
    BY <1>3, <1>7 DEF BitOf, Bit, Add, Running
  <2>2. GoodSqueue(b, Bit) /\ Values(b) = Append(Values(buffer[p]), v)
    BY <1>4, <2>1, AddBackLinked
  <2>3. Len(b.order) = Queued(p) + 1
    <3>1. Values(buffer[p]) \in Seq(Bit) /\ Len(Values(buffer[p])) = Queued(p)
      BY <1>4, ValuesType DEF Queued
    <3>2. Len(Values(b)) = Len(b.order)
      BY <2>2, ValuesType
    <3> QED
      BY <2>1, <2>2, <3>1, <3>2
  <2>4. g \in Frame /\ g.at = "count" /\ g.sig = fr.sig /\ g.temp = fr.temp
    BY DEF Frame
  <2>5. /\ buffer' = [buffer EXCEPT ![p] = b]
        /\ frame' = [frame EXCEPT ![p] = <<g>>]
        /\ counter' = [counter EXCEPT ![p] = counter[p]]
    BY <1>2, <1>3, <1>7 DEF Add, GoOn, Shapes
  <2> HIDE DEF b, g, v
  <2>6. Agrees(g, counter[p], Len(b.order))
    BY <1>4, <1>5, <2>1, <2>3, <2>4 DEF Agrees
  <2>7. Fits(<<g>>, counter[p], Len(b.order))
    BY <1>f, <2>4, <2>6
  <2> QED
    BY <1>4, <1>6, <2>2, <2>5, <2>7
<1>8. CASE Count(p)
  <2> DEFINE n == counter[p] + 1
             g == [fr EXCEPT !.at = "take"]
  <2>1. fr.at = "count" /\ n = Queued(p) /\ n \in 1 .. 8
    BY <1>3, <1>4, <1>5, <1>8 DEF Count, Running, Agrees
  <2>2. Full(n) <=> n = 8
    BY <2>1 DEF Full
  <2>3. buffer' = [buffer EXCEPT ![p] = buffer[p]]
    BY <1>2, <1>8 DEF Count, Shapes
  <2>4. CASE n = 8
    <3>1. g \in Frame /\ g.at = "take" /\ g.sig = fr.sig /\ g.temp = fr.temp
      BY DEF Frame
    <3>2. frame' = [frame EXCEPT ![p] = <<g>>] /\ counter' = [counter EXCEPT ![p] = 0]
      <4>1. GoOn(p, "take") /\ counter' = [counter EXCEPT ![p] = Debit(n)]
        BY <1>8, <2>2, <2>4 DEF Count
      <4>2. frame' = [frame EXCEPT ![p] = [frame[p] EXCEPT ![1].at = "take"]]
        BY <1>3, <4>1 DEF GoOn
      <4>3. Debit(n) = 0
        BY <2>4 DEF Debit
      <4> QED
        BY <1>3, <4>1, <4>2, <4>3
    <3>3. Agrees(g, 0, Len(buffer[p].order))
      <4>1. fr.temp = <<>> /\ Len(fr.temp) = 0
        BY <1>5, <2>1 DEF Agrees
      <4>2. Len(buffer[p].order) = 8
        BY <2>1, <2>4 DEF Queued
      <4> HIDE DEF g
      <4> QED
        BY <3>1, <4>1, <4>2 DEF Agrees
    <3> HIDE DEF g, n
    <3>4. Fits(<<g>>, 0, Len(buffer[p].order))
      BY <1>f, <3>1, <3>3
    <3> QED
      BY <1>4, <1>6, <2>3, <3>2, <3>4
  <2>5. CASE n # 8
    <3>1. frame' = [frame EXCEPT ![p] = <<>>] /\ counter' = [counter EXCEPT ![p] = n]
      BY <1>3, <1>8, <2>2, <2>5 DEF Count, Return
    <3>2. n \in Nat /\ n < 8 /\ n = Len(buffer[p].order)
      BY <2>1, <2>5 DEF Queued
    <3>3. Fits(<<>>, n, Len(buffer[p].order))
      BY <1>e, <3>2
    <3> HIDE DEF n
    <3> QED
      BY <1>4, <1>6, <2>3, <3>1, <3>2, <3>3
  <2> QED
    BY <2>4, <2>5
<1>9. CASE Take(p)
  <2> DEFINE b == leaveFront(buffer[p])
             x == peekFront(buffer[p])
             g == [fr EXCEPT !.temp = Append(fr.temp, x)]
  <2>1. fr.at = "take" /\ ~isEmpty(buffer[p])
    BY <1>3, <1>9 DEF Take, Running, Aborted
  <2>2. GoodSqueue(b, Bit) /\ x \in Bit /\ Values(b) = Tail(Values(buffer[p]))
    BY <1>4, <2>1, LeaveFrontLinked, PeekFront
  <2>3. Len(b.order) + 1 = Queued(p) /\ Len(b.order) \in Nat
    <3>1. Values(buffer[p]) \in Seq(Bit) /\ Len(Values(buffer[p])) = Queued(p)
      BY <1>4, ValuesType DEF Queued
    <3>2. Len(Values(b)) = Len(b.order) /\ Len(b.order) \in Nat
      BY <2>2, ValuesType, OrderType
    <3>3. Values(buffer[p]) # <<>>
      BY <1>4, <2>1, EmptyMeans
    <3> QED
      BY <2>2, <3>1, <3>2, <3>3
  <2>4. Append(fr.temp, x) \in Seq(Bit) /\ Len(Append(fr.temp, x)) = Len(fr.temp) + 1
    BY <1>4, <2>2
  <2>5. g \in Frame /\ g.at = "take" /\ g.sig = fr.sig /\ Len(g.temp) = Len(fr.temp) + 1
    BY <2>1, <2>4 DEF Frame
  <2>6. /\ buffer' = [buffer EXCEPT ![p] = b]
        /\ frame' = [frame EXCEPT ![p] = <<g>>]
        /\ counter' = [counter EXCEPT ![p] = counter[p]]
    <3>1. frame' = [frame EXCEPT ![p] = [frame[p] EXCEPT ![1].temp = Append(fr.temp, x)]]
      BY <1>3, <1>9 DEF Take, Shapes
    <3> QED
      BY <1>2, <1>3, <1>9, <3>1 DEF Take, Shapes
  <2> HIDE DEF b, x, g
  <2>7. Agrees(g, counter[p], Len(b.order))
    <3>1. counter[p] = 0 /\ Queued(p) + Len(fr.temp) = 8
      BY <1>5, <2>1 DEF Agrees
    <3>2. Len(b.order) + Len(g.temp) = 8
      <4>1. \A l, m, k, o \in Nat : o + k = 8 /\ l + 1 = o /\ m = k + 1 => l + m = 8
        OBVIOUS
      <4>2. Len(fr.temp) \in Nat /\ Len(g.temp) \in Nat /\ Queued(p) \in Nat
        BY <1>4, <2>5
      <4> QED
        BY <2>3, <2>5, <3>1, <4>1, <4>2
    <3> QED
      BY <2>5, <3>1, <3>2 DEF Agrees
  <2>8. Fits(<<g>>, counter[p], Len(b.order))
    BY <1>f, <2>5, <2>7
  <2> QED
    BY <1>4, <1>6, <2>2, <2>6, <2>8
<1>10. CASE Finish(p)
  <2>1. fr.at = "take" /\ Len(fr.temp) = 8 /\ counter[p] = 0 /\ Queued(p) = 0
    BY <1>3, <1>4, <1>5, <1>10 DEF Finish, Running, Agrees
  <2>2. frame' = [frame EXCEPT ![p] = <<>>] /\ counter' = [counter EXCEPT ![p] = 0]
    BY <1>2, <1>3, <1>10, <2>1 DEF Finish, Return, Shapes
  <2>3. buffer' = [buffer EXCEPT ![p] = initSqueue] \/ buffer' = [buffer EXCEPT ![p] = buffer[p]]
    BY <1>2, <1>10 DEF Finish, nuke, Shapes
  <2>4. GoodSqueue(initSqueue, Bit) /\ Len(initSqueue.order) = 0
    BY InitSqueue DEF initSqueue
  <2>5. Len(buffer[p].order) = 0
    BY <2>1 DEF Queued
  <2>6. Fits(<<>>, 0, Len(initSqueue.order)) /\ Fits(<<>>, 0, Len(buffer[p].order))
    BY <1>e, <2>4, <2>5
  <2>7. PICK b : /\ buffer' = [buffer EXCEPT ![p] = b]
                 /\ GoodSqueue(b, Bit) /\ Fits(<<>>, 0, Len(b.order))
    BY <1>4, <2>3, <2>4, <2>6
  <2> QED
    BY <1>6, <2>2, <2>7
<1> QED
  BY <1>7, <1>8, <1>9, <1>10 DEF Handler

LEMMA InStepInit ==
  ASSUME Init
  PROVE  InStepInv
<1>1. GoodSqueue(initSqueue, Bit) /\ Len(initSqueue.order) = 0
  BY InitSqueue DEF initSqueue
<1>2. Shapes
  BY <1>1 DEF Init, Shapes
<1>3. \A g : <<g>> # <<>>
  OBVIOUS
<1> SUFFICES ASSUME NEW p \in Peer
             PROVE  Single(p) /\ Counts(p) /\ Resets(p)
  BY <1>2 DEF InStepInv
<1>4. /\ frame[p] = <<>> /\ pend[p] = {} /\ counter[p] = 0
      /\ buffer[p] = initSqueue /\ pc[p] = "top"
  BY DEF Init
<1>5. Single(p) /\ Resets(p)
  BY <1>4 DEF Single, Resets
<1>6. Counts(p)
  BY <1>1, <1>3, <1>4 DEF Counts, Queued
<1> QED
  BY <1>5, <1>6

LEMMA InStepStep ==
  ASSUME InStepInv, Paced, [Next]_vars
  PROVE  InStepInv'
<1>1. CASE UNCHANGED vars
  BY <1>1 DEF vars, main, recv, InStepInv, Shapes, Single, Counts, Resets, Queued
<1> QED
  BY <1>1, MainInStep, DeliverInStep, HandlerInStep DEF Next

-----------------------------------------------------------------------------
(* The bits of characters. *)

Char == 1 .. 255

LEMMA CharBits ==
  \A c \in Char : convert(c) \in Seq(Bit) /\ Len(convert(c)) = 8
<1> SUFFICES ASSUME NEW c \in Char
             PROVE  convert(c) \in Seq(Bit) /\ Len(convert(c)) = 8
  OBVIOUS
<1>1. c \in 0 .. 255
  BY DEF Char
<1> QED
  BY <1>1, ConvertBack, ZenonT(60)

LEMMA CharBack ==
  \A c \in Char : convertBack(convert(c)) = c /\ (AllOnes(convert(c)) <=> c = 255)
<1> SUFFICES ASSUME NEW c \in Char
             PROVE  convertBack(convert(c)) = c /\ (AllOnes(convert(c)) <=> c = 255)
  OBVIOUS
<1>1. c \in 0 .. 255
  BY DEF Char
<1> QED
  BY <1>1, ConvertBack, ZenonT(60)

LEMMA BitsGlue ==
  \A a, b, d \in Seq(Bit) : (a \o b) \o d = a \o (b \o d)
<1> SUFFICES ASSUME NEW a \in Seq(Bit), NEW b \in Seq(Bit), NEW d \in Seq(Bit)
             PROVE  (a \o b) \o d = a \o (b \o d)
  OBVIOUS
<1> QED
  BY ConcatAssociative

LEMMA BitsType ==
  ASSUME NEW w \in Seq(Char)
  PROVE  Bits(w) \in Seq(Bit) /\ Len(Bits(w)) = 8 * Len(w)
<1>1. Len(w) \in Nat /\ 8 * Len(w) \in Nat
  OBVIOUS
<1>2. \A k \in 1 .. 8 * Len(w) :
        1 + (k - 1) \div 8 \in 1 .. Len(w) /\ 1 + ((k - 1) % 8) \in 1 .. 8
  BY <1>1
<1>3. \A i \in 1 .. Len(w) : \A j \in 1 .. 8 : convert(w[i])[j] \in Bit
  <2> SUFFICES ASSUME NEW i \in 1 .. Len(w)
               PROVE  \A j \in 1 .. 8 : convert(w[i])[j] \in Bit
    OBVIOUS
  <2>1. PICK c : c = w[i]
    OBVIOUS
  <2>2. c \in Char
    BY <2>1
  <2>3. convert(c) \in Seq(Bit) /\ Len(convert(c)) = 8
    BY <2>2, CharBits
  <2> QED
    BY <2>1, <2>3
<1> QED
  BY <1>1, <1>2, <1>3 DEF Bits

LEMMA BitsConcat ==
  ASSUME NEW w \in Seq(Char), NEW v \in Seq(Char)
  PROVE  Bits(w \o v) = Bits(w) \o Bits(v)
<1>1. PICK n \in Nat, m \in Nat, u \in Seq(Char) :
        /\ n = Len(w) /\ m = Len(v) /\ u = w \o v /\ Len(u) = n + m
        /\ \A i \in 1 .. n : u[i] = w[i]
        /\ \A i \in 1 .. m : u[n + i] = v[i]
  <2>1. /\ w \o v \in Seq(Char) /\ Len(w) \in Nat /\ Len(v) \in Nat
        /\ Len(w \o v) = Len(w) + Len(v)
        /\ \A i \in 1 .. Len(w) : (w \o v)[i] = w[i]
        /\ \A i \in 1 .. Len(v) : (w \o v)[Len(w) + i] = v[i]
    OBVIOUS
  <2> WITNESS Len(w) \in Nat, Len(v) \in Nat, w \o v \in Seq(Char)
  <2> QED
    BY <2>1
<1>2. PICK x, y, z : x = Bits(w) /\ y = Bits(v) /\ z = Bits(u)
  OBVIOUS
<1>3. /\ x \in Seq(Bit) /\ y \in Seq(Bit) /\ z \in Seq(Bit)
      /\ Len(x) = 8 * n /\ Len(y) = 8 * m /\ Len(z) = 8 * (n + m)
  BY <1>1, <1>2, BitsType
<1>4. ASSUME NEW k \in 1 .. 8 * n
      PROVE  z[k] = x[k]
  <2>1. k \in 1 .. 8 * (n + m) /\ 1 + (k - 1) \div 8 \in 1 .. n
    OBVIOUS
  <2>2. u[1 + (k - 1) \div 8] = w[1 + (k - 1) \div 8]
    BY <1>1, <2>1
  <2>3. z[k] = convert(u[1 + (k - 1) \div 8])[1 + ((k - 1) % 8)]
    BY <1>1, <1>2, <2>1 DEF Bits
  <2>4. x[k] = convert(w[1 + (k - 1) \div 8])[1 + ((k - 1) % 8)]
    BY <1>1, <1>2 DEF Bits
  <2> QED
    BY <2>2, <2>3, <2>4
<1>5. ASSUME NEW k \in 1 .. 8 * m
      PROVE  z[8 * n + k] = y[k]
  <2>1. PICK j \in Nat : j = k - 1
    OBVIOUS
  <2>2. /\ 8 * n + k \in 1 .. 8 * (n + m) /\ (8 * n + k) - 1 = 8 * n + j
        /\ 1 + j \div 8 \in 1 .. m
    BY <2>1
  <2>3. (8 * n + j) \div 8 = n + j \div 8 /\ (8 * n + j) % 8 = j % 8
    BY EightSteps
  <2>4. n + (1 + j \div 8) = 1 + (n + j \div 8)
    OBVIOUS
  <2>5. u[1 + (n + j \div 8)] = v[1 + j \div 8]
    BY <1>1, <2>2, <2>4
  <2>6. z[8 * n + k] = convert(u[1 + (8 * n + j) \div 8])[1 + ((8 * n + j) % 8)]
    BY <1>1, <1>2, <2>2 DEF Bits
  <2>7. y[k] = convert(v[1 + j \div 8])[1 + (j % 8)]
    BY <1>1, <1>2, <2>1 DEF Bits
  <2> QED
    BY <2>3, <2>5, <2>6, <2>7
<1>6. Len(z) = Len(x) + Len(y)
  BY <1>3
<1>7. /\ \A k \in 1 .. Len(x) : z[k] = x[k]
      /\ \A k \in 1 .. Len(y) : z[Len(x) + k] = y[k]
  BY <1>3, <1>4, <1>5
<1>8. x \o y = z
  BY <1>3, <1>6, <1>7, ConcatIs
<1> QED
  BY <1>1, <1>2, <1>8

LEMMA BitsOne ==
  ASSUME NEW c \in Char
  PROVE  Bits(<<c>>) = convert(c)
<1>1. \A k \in 1 .. 8 : 1 + (k - 1) \div 8 = 1 /\ 1 + ((k - 1) % 8) = k
  OBVIOUS
<1>2. Len(<<c>>) = 1 /\ <<c>>[1] = c /\ 8 * 1 = 8
  OBVIOUS
<1>3. Bits(<<c>>) = [k \in 1 .. 8 |-> convert(c)[k]]
  BY <1>1, <1>2 DEF Bits
<1>4. DOMAIN convert(c) = 1 .. 8 /\ convert(c) = [k \in DOMAIN convert(c) |-> convert(c)[k]]
  BY DEF convert
<1> QED
  BY <1>3, <1>4

LEMMA EndMarkBits == EndMark = Bits(<<255>>)
<1>1. convert(255) = [i \in 1 .. 8 |-> convert(255)[i]]
  BY DEF convert
<1>2. 255 \in 0 .. 255 /\ 255 \in Char
  BY DEF Char
<1>3. AllOnes(convert(255))
  BY <1>2, ConvertBack
<1>4. \A i \in 1 .. 8 : convert(255)[i] = 1
  BY <1>3 DEF AllOnes
<1> QED
  BY <1>1, <1>2, <1>4, BitsOne DEF EndMark

-----------------------------------------------------------------------------
(* The reader: what it makes of a line character by character, and of lines. *)

Reader == [said : Seq(Seq(Char)), open : Seq(Char)]

Walks(f, r, w) ==
  /\ f[0] = r
  /\ \A i \in 1 .. Len(w) : f[i] = Heard(f[i - 1], w[i])

LEMMA HeardType ==
  ASSUME NEW r \in Reader, NEW c \in Char
  PROVE  Heard(r, c) \in Reader
<1>1. r.said \in Seq(Seq(Char)) /\ r.open \in Seq(Char)
  BY DEF Reader
<1>2. Append(r.said, r.open) \in Seq(Seq(Char)) /\ Append(r.open, c) \in Seq(Char)
  BY <1>1
<1>3. <<>> \in Seq(Char)
  OBVIOUS
<1> QED
  BY <1>1, <1>2, <1>3 DEF Heard, Reader

LEMMA WalkExists ==
  ASSUME NEW r \in Reader, NEW w \in Seq(Char)
  PROVE  \E f \in [0 .. Len(w) -> Reader] : Walks(f, r, w)
<1> DEFINE n == Len(w)
           g == [x \in (1 .. n) \X Reader |-> Heard(x[2], w[x[1]])]
<1>1. n \in Nat /\ \A i \in 1 .. n : w[i] \in Char
  OBVIOUS
<1>2. \A i \in 1 .. n : \A a \in Reader : g[<<i, a>>] = Heard(a, w[i])
  OBVIOUS
<1>3. g \in [(1 .. n) \X Reader -> Reader]
  <2>1. \A x \in (1 .. n) \X Reader : x[1] \in 1 .. n /\ x[2] \in Reader
    OBVIOUS
  <2>2. \A x \in (1 .. n) \X Reader : Heard(x[2], w[x[1]]) \in Reader
    BY <1>1, <2>1, HeardType
  <2> QED
    BY <2>2
<1> HIDE DEF g, n
<1>4. PICK f \in [0 .. n -> Reader] : Computes(f, n, r, g)
  BY <1>1, <1>3, LoopExists
<1>5. \A i \in 1 .. n : i - 1 \in 0 .. n
  BY <1>1
<1>6. \A i \in 1 .. n : f[i] = Heard(f[i - 1], w[i])
  BY <1>2, <1>4, <1>5 DEF Computes
<1>7. f[0] = r
  BY <1>4 DEF Computes
<1> QED
  BY <1>4, <1>6, <1>7 DEF Walks, n

LEMMA WalkUnique ==
  ASSUME NEW r, NEW w \in Seq(Char), NEW e, NEW f, Walks(e, r, w), Walks(f, r, w)
  PROVE  e[Len(w)] = f[Len(w)]
<1> DEFINE S == {k \in Nat : k <= Len(w) => e[k] = f[k]}
<1>1. 0 \in S
  BY DEF Walks
<1>2. ASSUME NEW k \in Nat, k \in S
      PROVE  k + 1 \in S
  <2> SUFFICES ASSUME k + 1 <= Len(w)
               PROVE  e[k + 1] = f[k + 1]
    OBVIOUS
  <2>1. k <= Len(w) /\ k + 1 \in 1 .. Len(w) /\ (k + 1) - 1 = k
    OBVIOUS
  <2> QED
    BY <1>2, <2>1 DEF Walks
<1>3. \A k \in Nat : k \in S
  <2> HIDE DEF S
  <2> QED
    BY <1>1, <1>2, InductionSet
<1> QED
  BY <1>3

LEMMA HearingWalk ==
  ASSUME NEW r \in Reader, NEW w \in Seq(Char), NEW f, Walks(f, r, w)
  PROVE  Hearing(r, w) = f[Len(w)]
<1> DEFINE n == Len(w)
           go(a) == [i \in 0 .. n |-> IF i = 0 THEN r ELSE Heard(a[i - 1], w[i])]
           at == CHOOSE a : a = go(a)
<1>1. n \in Nat
  OBVIOUS
<1>2. Hearing(r, w) = at[n]
  BY DEF Hearing
<1>3. at = go(at)
  <2>1. PICK e \in [0 .. n -> Reader] : Walks(e, r, w)
    BY WalkExists
  <2>2. \A i \in 0 .. n : e[i] = IF i = 0 THEN r ELSE Heard(e[i - 1], w[i])
    <3>1. \A i \in 0 .. n : i # 0 => i \in 1 .. n
      BY <1>1
    <3> QED
      BY <2>1, <3>1 DEF Walks
  <2>3. e = go(e)
    BY <2>2
  <2> HIDE DEF go
  <2> QED
    BY <2>3
<1> HIDE DEF at
<1>4. Walks(at, r, w)
  <2>1. \A i \in 0 .. n : at[i] = IF i = 0 THEN r ELSE Heard(at[i - 1], w[i])
    BY <1>3
  <2>2. \A i \in 1 .. n : i \in 0 .. n /\ i # 0
    BY <1>1
  <2>3. 0 \in 0 .. n
    BY <1>1
  <2> QED
    BY <2>1, <2>2, <2>3 DEF Walks
<1> QED
  BY <1>2, <1>4, WalkUnique

LEMMA HearingType ==
  ASSUME NEW r \in Reader, NEW w \in Seq(Char)
  PROVE  Hearing(r, w) \in Reader
<1>1. PICK f \in [0 .. Len(w) -> Reader] : Walks(f, r, w)
  BY WalkExists
<1>2. Len(w) \in 0 .. Len(w)
  OBVIOUS
<1> QED
  BY <1>1, <1>2, HearingWalk

LEMMA HearingNone ==
  ASSUME NEW r \in Reader
  PROVE  Hearing(r, <<>>) = r
<1> DEFINE f == [i \in 0 .. 0 |-> r]
<1>1. <<>> \in Seq(Char) /\ Len(<<>>) = 0 /\ f[0] = r /\ \A i \in 1 .. 0 : FALSE
  OBVIOUS
<1> HIDE DEF f
<1>2. Walks(f, r, <<>>)
  BY <1>1 DEF Walks
<1> QED
  BY <1>1, <1>2, HearingWalk

LEMMA HearingOne ==
  ASSUME NEW r \in Reader, NEW c \in Char
  PROVE  Hearing(r, <<c>>) = Heard(r, c)
<1> DEFINE f == [i \in 0 .. 1 |-> IF i = 0 THEN r ELSE Heard(r, c)]
<1>1. /\ <<c>> \in Seq(Char) /\ Len(<<c>>) = 1 /\ <<c>>[1] = c
      /\ f[0] = r /\ f[1] = Heard(r, c) /\ \A i \in 1 .. 1 : i = 1 /\ i - 1 = 0
  OBVIOUS
<1> HIDE DEF f
<1>2. Walks(f, r, <<c>>)
  BY <1>1 DEF Walks
<1> QED
  BY <1>1, <1>2, HearingWalk

LEMMA HearingConcat ==
  ASSUME NEW r \in Reader, NEW w \in Seq(Char), NEW v \in Seq(Char)
  PROVE  Hearing(r, w \o v) = Hearing(Hearing(r, w), v)
<1>1. PICK n \in Nat, m \in Nat, u \in Seq(Char) :
        /\ n = Len(w) /\ m = Len(v) /\ u = w \o v /\ Len(u) = n + m
        /\ \A i \in 1 .. n : u[i] = w[i]
        /\ \A i \in 1 .. m : u[n + i] = v[i]
  <2>1. /\ w \o v \in Seq(Char) /\ Len(w) \in Nat /\ Len(v) \in Nat
        /\ Len(w \o v) = Len(w) + Len(v)
        /\ \A i \in 1 .. Len(w) : (w \o v)[i] = w[i]
        /\ \A i \in 1 .. Len(v) : (w \o v)[Len(w) + i] = v[i]
    OBVIOUS
  <2> WITNESS Len(w) \in Nat, Len(v) \in Nat, w \o v \in Seq(Char)
  <2> QED
    BY <2>1
<1>2. PICK s \in Reader : s = Hearing(r, w)
  BY HearingType
<1>3. PICK e \in [0 .. n -> Reader] : Walks(e, r, w)
  BY <1>1, WalkExists
<1>4. PICK f \in [0 .. m -> Reader] : Walks(f, s, v)
  BY <1>1, WalkExists
<1>5. e[n] = s /\ f[0] = s
  BY <1>1, <1>2, <1>3, <1>4, HearingWalk DEF Walks
<1> DEFINE h == [i \in 0 .. n + m |-> IF i <= n THEN e[i] ELSE f[i - n]]
<1>6. /\ \A i \in 0 .. n : h[i] = e[i]
      /\ \A i \in 0 .. m : h[n + i] = f[i]
  <2>1. \A i \in 0 .. n : i \in 0 .. n + m /\ i <= n
    OBVIOUS
  <2>2. \A i \in 0 .. m :
          /\ n + i \in 0 .. n + m /\ (n + i) - n = i
          /\ i # 0 => ~(n + i <= n)
          /\ i = 0 => n + i = n /\ n + i <= n
    OBVIOUS
  <2>3. \A i \in 0 .. m : i # 0 => h[n + i] = f[i]
    BY <2>2
  <2>4. \A i \in 0 .. m : i = 0 => h[n + i] = f[i]
    <3>1. \A i \in 0 .. m : i = 0 => h[n + i] = e[n]
      BY <2>2
    <3> QED
      BY <1>5, <3>1
  <2> QED
    BY <2>1, <2>3, <2>4
<1> HIDE DEF h
<1>7. \A i \in 1 .. n + m : h[i] = Heard(h[i - 1], u[i])
  <2> SUFFICES ASSUME NEW i \in 1 .. n + m
               PROVE  h[i] = Heard(h[i - 1], u[i])
    OBVIOUS
  <2>1. CASE i \in 1 .. n
    <3>1. i \in 0 .. n /\ i - 1 \in 0 .. n
      BY <2>1
    <3>2. e[i] = Heard(e[i - 1], w[i])
      BY <1>1, <1>3, <2>1 DEF Walks
    <3> QED
      BY <1>1, <1>6, <2>1, <3>1, <3>2
  <2>2. CASE i \notin 1 .. n
    <3>1. PICK j \in 1 .. m : i = n + j
      <4>1. i - n \in 1 .. m /\ i = n + (i - n)
        BY <2>2
      <4> QED
        BY <4>1
    <3>2. j \in 0 .. m /\ j - 1 \in 0 .. m /\ i - 1 = n + (j - 1)
      BY <3>1
    <3>3. f[j] = Heard(f[j - 1], v[j])
      BY <1>1, <1>4 DEF Walks
    <3> QED
      BY <1>1, <1>6, <3>1, <3>2, <3>3
  <2> QED
    BY <2>1, <2>2
<1>8. Walks(h, r, u)
  <2>1. h[0] = r
    BY <1>3, <1>6 DEF Walks
  <2> QED
    BY <1>1, <1>7, <2>1 DEF Walks
<1>9. Hearing(r, u) = h[n + m] /\ Hearing(s, v) = f[m]
  <2>1. Hearing(r, u) = h[Len(u)]
    BY <1>8, HearingWalk
  <2>2. Hearing(s, v) = f[Len(v)]
    BY <1>4, HearingWalk
  <2> QED
    BY <1>1, <2>1, <2>2
<1>10. h[n + m] = f[m]
  BY <1>6
<1> QED
  BY <1>1, <1>2, <1>9, <1>10

\* What a reader has made of the beginning stands, whatever follows.
LEMMA HearingGrows ==
  ASSUME NEW r \in Reader, NEW w \in Seq(Char)
  PROVE  IsPrefix(r.said, Hearing(r, w).said)
<1>1. PICK f \in [0 .. Len(w) -> Reader] : Walks(f, r, w)
  BY WalkExists
<1> DEFINE S == {k \in Nat : k <= Len(w) => IsPrefix(r.said, f[k].said)}
<1>2. r.said \in Seq(Seq(Char))
  BY DEF Reader
<1>3. 0 \in S
  BY <1>1, <1>2, PrefixSelf DEF Walks
<1>4. ASSUME NEW k \in Nat, k \in S
      PROVE  k + 1 \in S
  <2> SUFFICES ASSUME k + 1 <= Len(w)
               PROVE  IsPrefix(r.said, f[k + 1].said)
    OBVIOUS
  <2>1. k <= Len(w) /\ k + 1 \in 1 .. Len(w) /\ (k + 1) - 1 = k /\ k \in 0 .. Len(w)
    OBVIOUS
  <2>2. PICK a \in Reader : a = f[k]
    BY <2>1
  <2>3. f[k + 1] = Heard(a, w[k + 1])
    BY <1>1, <2>1, <2>2 DEF Walks
  <2>4. IsPrefix(r.said, a.said) /\ a.said \in Seq(Seq(Char)) /\ a.open \in Seq(Char)
    BY <1>4, <2>1, <2>2 DEF Reader
  <2>5. IsPrefix(r.said, Append(a.said, a.open))
    BY <1>2, <2>4, PrefixAppend
  <2>6. \/ Heard(a, w[k + 1]).said = a.said
        \/ Heard(a, w[k + 1]).said = Append(a.said, a.open)
    BY DEF Heard
  <2> QED
    BY <2>3, <2>4, <2>5, <2>6
<1>5. \A k \in Nat : k \in S
  <2> HIDE DEF S
  <2> QED
    BY <1>3, <1>4, InductionSet
<1>6. Len(w) \in Nat /\ Len(w) <= Len(w)
  OBVIOUS
<1>7. IsPrefix(r.said, f[Len(w)].said)
  BY <1>5, <1>6
<1> QED
  BY <1>1, <1>7, HearingWalk

-----------------------------------------------------------------------------
(* Lines, one after another.  Between two lines nothing is open. *)

Settles == [said : Seq(Seq(Char)), open : {<<>>}]

LEMMA SettlesReader == Settles \subseteq Reader
<1>1. {<<>>} \subseteq Seq(Char)
  OBVIOUS
<1> QED
  BY <1>1 DEF Settles, Reader

LEMMA EndSettles ==
  ASSUME NEW r \in Reader
  PROVE  Heard(r, 255) \in Settles
<1>1. r.said \in Seq(Seq(Char)) /\ r.open \in Seq(Char)
  BY DEF Reader
<1>2. Append(r.said, r.open) \in Seq(Seq(Char))
  BY <1>1
<1> QED
  BY <1>1, <1>2 DEF Heard, Settles

LEMMA EndAgain ==
  ASSUME NEW r \in Settles
  PROVE  Heard(r, 255) = r
  BY DEF Heard, Settles

LEMMA LineSettles ==
  ASSUME NEW r \in Settles, NEW w \in Seq(Char)
  PROVE  Heard(Hearing(r, w), 255) \in Settles
  BY SettlesReader, HearingType, EndSettles

Logs(f, lines) ==
  /\ f[0] = Blank
  /\ \A i \in 1 .. Len(lines) : f[i] = Heard(Hearing(f[i - 1], lines[i]), 255)

LEMMA LogsExists ==
  ASSUME NEW lines \in Seq(Seq(Char))
  PROVE  \E f \in [0 .. Len(lines) -> Settles] : Logs(f, lines)
<1> DEFINE n == Len(lines)
           g == [x \in (1 .. n) \X Settles |-> Heard(Hearing(x[2], lines[x[1]]), 255)]
<1>1. n \in Nat /\ \A i \in 1 .. n : lines[i] \in Seq(Char)
  OBVIOUS
<1>2. \A i \in 1 .. n : \A a \in Settles :
        g[<<i, a>>] = Heard(Hearing(a, lines[i]), 255)
  OBVIOUS
<1>3. g \in [(1 .. n) \X Settles -> Settles]
  <2>1. \A x \in (1 .. n) \X Settles : x[1] \in 1 .. n /\ x[2] \in Settles
    OBVIOUS
  <2>2. \A x \in (1 .. n) \X Settles :
          Heard(Hearing(x[2], lines[x[1]]), 255) \in Settles
    BY <1>1, <2>1, LineSettles
  <2> QED
    BY <2>2
<1>4. Blank \in Settles
  <2>1. <<>> \in Seq(Seq(Char))
    OBVIOUS
  <2> QED
    BY <2>1 DEF Blank, Settles
<1> HIDE DEF g, n
<1>5. PICK f \in [0 .. n -> Settles] : Computes(f, n, Blank, g)
  BY <1>1, <1>3, <1>4, LoopExists
<1>6. \A i \in 1 .. n : i - 1 \in 0 .. n
  BY <1>1
<1>7. \A i \in 1 .. n : f[i] = Heard(Hearing(f[i - 1], lines[i]), 255)
  BY <1>2, <1>5, <1>6, ZenonT(60) DEF Computes
<1>8. f[0] = Blank
  BY <1>5 DEF Computes
<1> QED
  BY <1>5, <1>7, <1>8 DEF Logs, n

LEMMA LogsUnique ==
  ASSUME NEW lines \in Seq(Seq(Char)), NEW e, NEW f, Logs(e, lines), Logs(f, lines)
  PROVE  e[Len(lines)] = f[Len(lines)]
<1> DEFINE S == {k \in Nat : k <= Len(lines) => e[k] = f[k]}
<1>1. 0 \in S
  BY DEF Logs
<1>2. ASSUME NEW k \in Nat, k \in S
      PROVE  k + 1 \in S
  <2> SUFFICES ASSUME k + 1 <= Len(lines)
               PROVE  e[k + 1] = f[k + 1]
    OBVIOUS
  <2>1. k <= Len(lines) /\ k + 1 \in 1 .. Len(lines) /\ (k + 1) - 1 = k
    OBVIOUS
  <2> QED
    BY <1>2, <2>1 DEF Logs
<1>3. \A k \in Nat : k \in S
  <2> HIDE DEF S
  <2> QED
    BY <1>1, <1>2, InductionSet
<1> QED
  BY <1>3

LEMMA LogIs ==
  ASSUME NEW lines \in Seq(Seq(Char)), NEW f, Logs(f, lines)
  PROVE  Log(lines) = f[Len(lines)]
<1> DEFINE n == Len(lines)
           go(a) == [i \in 0 .. n |->
                       IF i = 0 THEN Blank ELSE Heard(Hearing(a[i - 1], lines[i]), 255)]
           at == CHOOSE a : a = go(a)
<1>1. n \in Nat
  OBVIOUS
<1>2. Log(lines) = at[n]
  BY DEF Log
<1>3. at = go(at)
  <2>1. PICK e \in [0 .. n -> Settles] : Logs(e, lines)
    BY LogsExists
  <2>2. \A i \in 0 .. n :
          e[i] = IF i = 0 THEN Blank ELSE Heard(Hearing(e[i - 1], lines[i]), 255)
    <3>1. \A i \in 0 .. n : i # 0 => i \in 1 .. n
      BY <1>1
    <3> QED
      BY <2>1, <3>1 DEF Logs
  <2>3. e = go(e)
    BY <2>2
  <2> HIDE DEF go
  <2> QED
    BY <2>3
<1> HIDE DEF at
<1>4. Logs(at, lines)
  <2>1. \A i \in 0 .. n :
          at[i] = IF i = 0 THEN Blank ELSE Heard(Hearing(at[i - 1], lines[i]), 255)
    BY <1>3
  <2>2. \A i \in 1 .. n : i \in 0 .. n /\ i # 0
    BY <1>1
  <2>3. 0 \in 0 .. n
    BY <1>1
  <2> QED
    BY <2>1, <2>2, <2>3 DEF Logs
<1> QED
  BY <1>2, <1>4, LogsUnique

LEMMA LogType ==
  ASSUME NEW lines \in Seq(Seq(Char))
  PROVE  Log(lines) \in Settles
<1>1. PICK f \in [0 .. Len(lines) -> Settles] : Logs(f, lines)
  BY LogsExists
<1>2. Len(lines) \in 0 .. Len(lines)
  OBVIOUS
<1> QED
  BY <1>1, <1>2, LogIs

LEMMA LogNone == Log(<<>>) = Blank
<1> DEFINE f == [i \in 0 .. 0 |-> Blank]
<1>1. <<>> \in Seq(Seq(Char)) /\ Len(<<>>) = 0 /\ f[0] = Blank /\ \A i \in 1 .. 0 : FALSE
  OBVIOUS
<1> HIDE DEF f
<1>2. Logs(f, <<>>)
  BY <1>1 DEF Logs
<1> QED
  BY <1>1, <1>2, LogIs

LEMMA LogAppend ==
  ASSUME NEW lines \in Seq(Seq(Char)), NEW w \in Seq(Char)
  PROVE  Log(Append(lines, w)) = Heard(Hearing(Log(lines), w), 255)
<1>1. PICK n \in Nat, all \in Seq(Seq(Char)) :
        /\ n = Len(lines) /\ all = Append(lines, w) /\ Len(all) = n + 1
        /\ \A i \in 1 .. n : all[i] = lines[i]
        /\ all[n + 1] = w
  <2>1. /\ Append(lines, w) \in Seq(Seq(Char)) /\ Len(lines) \in Nat
        /\ Len(Append(lines, w)) = Len(lines) + 1
        /\ \A i \in 1 .. Len(lines) : Append(lines, w)[i] = lines[i]
        /\ Append(lines, w)[Len(lines) + 1] = w
    OBVIOUS
  <2> WITNESS Len(lines) \in Nat, Append(lines, w) \in Seq(Seq(Char))
  <2> QED
    BY <2>1
<1>2. PICK f \in [0 .. n -> Settles] : Logs(f, lines)
  BY <1>1, LogsExists
<1>3. Log(lines) = f[n]
  BY <1>1, <1>2, LogIs
<1> DEFINE h == [i \in 0 .. n + 1 |->
                   IF i = n + 1 THEN Heard(Hearing(f[n], w), 255) ELSE f[i]]
<1>4. /\ \A i \in 0 .. n : h[i] = f[i]
      /\ h[n + 1] = Heard(Hearing(f[n], w), 255)
  OBVIOUS
<1> HIDE DEF h
<1>5. \A i \in 1 .. n + 1 : h[i] = Heard(Hearing(h[i - 1], all[i]), 255)
  <2> SUFFICES ASSUME NEW i \in 1 .. n + 1
               PROVE  h[i] = Heard(Hearing(h[i - 1], all[i]), 255)
    OBVIOUS
  <2>1. CASE i = n + 1
    <3>1. i - 1 = n /\ n \in 0 .. n
      BY <2>1
    <3> QED
      BY <1>1, <1>4, <2>1, <3>1
  <2>2. CASE i # n + 1
    <3>1. i \in 1 .. n /\ i \in 0 .. n /\ i - 1 \in 0 .. n
      BY <2>2
    <3> QED
      BY <1>1, <1>2, <1>4, <3>1 DEF Logs
  <2> QED
    BY <2>1, <2>2
<1>6. Logs(h, all)
  <2>1. h[0] = Blank
    BY <1>2, <1>4 DEF Logs
  <2> QED
    BY <1>1, <1>5, <2>1 DEF Logs
<1>7. Log(all) = h[n + 1]
  <2>1. Log(all) = h[Len(all)]
    BY <1>6, LogIs
  <2> QED
    BY <1>1, <2>1
<1> QED
  BY <1>1, <1>3, <1>4, <1>7

-----------------------------------------------------------------------------
(* Types. *)

TypeInv ==
  /\ TypeOK
  /\ buffer = [p \in Peer |-> buffer[p]]
  /\ message = [p \in Peer |-> message[p]]
  /\ \A p \in Peer : GoodSqueue(buffer[p], Bit) /\ GoodSqueue(message[p], 0 .. 255)

\* The last call on the stack.
LEMMA TopFrame ==
  ASSUME NEW s \in Seq(Frame), s # <<>>
  PROVE  /\ Last(s) \in Frame /\ Last(s) = s[Len(s)]
         /\ Front(s) \in Seq(Frame)
         /\ \A place \in {"count", "take"} :
              [s EXCEPT ![Len(s)].at = place] \in Seq(Frame)
         /\ \A x \in Seq(Bit) : [s EXCEPT ![Len(s)].temp = x] \in Seq(Frame)
<1>1. Len(s) \in 1 .. Len(s) /\ Len(s) > 0 /\ s[Len(s)] \in Frame
  OBVIOUS
<1>2. Last(s) = s[Len(s)]
  BY DEF Last
<1>3. Front(s) \in Seq(Frame)
  BY <1>1, ButLast DEF Front
<1>4. ASSUME NEW place \in {"count", "take"}
      PROVE  [s EXCEPT ![Len(s)].at = place] \in Seq(Frame)
  <2>1. [s[Len(s)] EXCEPT !.at = place] \in Frame
    BY <1>1 DEF Frame
  <2> QED
    BY <1>1, <2>1, ExceptSeq
<1>5. ASSUME NEW x \in Seq(Bit)
      PROVE  [s EXCEPT ![Len(s)].temp = x] \in Seq(Frame)
  <2>1. [s[Len(s)] EXCEPT !.temp = x] \in Frame
    BY <1>1 DEF Frame
  <2> QED
    BY <1>1, <2>1, ExceptSeq
<1> QED
  BY <1>1, <1>2, <1>3, <1>4, <1>5

LEMMA SendType ==
  ASSUME NEW w \in Seq(Char)
  PROVE  BitsOf(w) \in Seq(Bit)
<1>1. EndMark \in Seq(Bit)
  <2>1. EndMark \in [1 .. 8 -> Bit]
    BY DEF EndMark, Bit
  <2> QED
    BY <2>1, EightLong
<1>2. Bits(w) \in Seq(Bit)
  BY BitsType
<1> QED
  BY <1>1, <1>2 DEF BitsOf

LEMMA InputType == Lines \cup {<<>>} \subseteq Seq(Char)
<1>1. <<>> \in Seq(Char)
  OBVIOUS
<1> QED
  BY <1>1, DuoAssumption DEF Char

\* The steps of the main loop, of the user and of the system.
LEMMA MainType ==
  ASSUME TypeInv, NEW p \in Peer, Main(p) \/ Type(p) \/ Deliver(p)
  PROVE  TypeInv'
<1> USE DEF main, recv, TypeInv, TypeOK
<1>1. CASE Top(p) \/ Check(p) \/ SendOver(p)
  <2>1. /\ pc' \in [Peer -> {"top", "input", "check", "reset", "send"}]
        /\ input' \in [Peer -> Lines \cup {<<>>}]
    BY <1>1, ZenonT(30) DEF Top, Check, SendOver
  <2>2. UNCHANGED <<todo, pend, woken, frame, recv, typed>>
    BY <1>1 DEF Top, Check, SendOver
  <2> QED
    BY <2>1, <2>2
<1>2. CASE Type(p)
  <2>1. /\ pc' \in [Peer -> {"top", "input", "check", "reset", "send"}]
        /\ input' \in [Peer -> Lines \cup {<<>>}]
    BY <1>2 DEF Type
  <2>2. typed' \in [Peer -> Seq(Lines)]
    <3>1. PICK line \in Lines : typed' = [typed EXCEPT ![p] = Append(typed[p], line)]
      BY <1>2 DEF Type
    <3>2. Append(typed[p], line) \in Seq(Lines)
      OBVIOUS
    <3> QED
      BY <3>1, <3>2
  <2>3. UNCHANGED <<todo, pend, woken, frame, recv>>
    BY <1>2 DEF Type
  <2> QED
    BY <2>1, <2>2, <2>3
<1>3. CASE Reset(p)
  <2>1. input[p] \in Seq(Char)
    BY InputType
  <2>2. BitsOf(input[p]) \in Seq(Bit)
    BY <2>1, SendType
  <2>3. /\ todo' \in [Peer -> Seq(Bit)]
        /\ counter' \in [Peer -> 0 .. 7]
        /\ pc' \in [Peer -> {"top", "input", "check", "reset", "send"}]
    BY <1>3, <2>2 DEF Reset
  <2>4. UNCHANGED <<input, pend, woken, frame, buffer, message, printed, typed>>
    BY <1>3 DEF Reset
  <2> QED
    BY <2>3, <2>4
<1>4. CASE SendBit(p)
  <2> DEFINE q == Other(p)
             sig == SignalOf(Head(todo[p]))
  <2>1. q \in Peer /\ sig \in Signal
    BY Others DEF SignalOf, Signal
  <2>2. pend' = [pend EXCEPT ![q] = pend[q] \cup {sig}] /\ todo[p] # <<>>
    BY <1>4 DEF SendBit
  <2> HIDE DEF q, sig
  <2>3. pend' \in [Peer -> SUBSET Signal]
    BY <2>1, <2>2
  <2>4. Tail(todo[p]) \in Seq(Bit)
    BY <2>2
  <2>5. todo' \in [Peer -> Seq(Bit)] /\ woken' \in [Peer -> BOOLEAN]
    BY <1>4, <2>4 DEF SendBit
  <2>6. UNCHANGED <<pc, input, frame, recv, typed>>
    BY <1>4 DEF SendBit
  <2> QED
    BY <2>3, <2>5, <2>6
<1>5. CASE Deliver(p)
  <2>1. PICK sig \in pend[p] :
          /\ pend' = [pend EXCEPT ![p] = pend[p] \ {sig}]
          /\ frame' = [frame EXCEPT ![p] =
                         Append(frame[p], [sig |-> sig, at |-> "add", temp |-> <<>>])]
    BY <1>5 DEF Deliver
  <2>2. [sig |-> sig, at |-> "add", temp |-> <<>>] \in Frame
    BY NewFrame
  <2>3. Append(frame[p], [sig |-> sig, at |-> "add", temp |-> <<>>]) \in Seq(Frame)
    BY <2>2
  <2>4. /\ frame' \in [Peer -> Seq(Frame)] /\ pend' \in [Peer -> SUBSET Signal]
        /\ woken' \in [Peer -> BOOLEAN]
    BY <1>5, <2>1, <2>3 DEF Deliver
  <2>5. UNCHANGED <<main, recv, typed>>
    BY <1>5 DEF Deliver
  <2> QED
    BY <2>4, <2>5
<1> QED
  BY <1>1, <1>2, <1>3, <1>4, <1>5 DEF Main

\* The steps of a handler, on whichever frame.
LEMMA HandlerType ==
  ASSUME TypeInv, NEW p \in Peer, Handler(p)
  PROVE  TypeInv'
<1> USE DEF main, recv, TypeInv, TypeOK
<1>1. frame[p] \in Seq(Frame) /\ frame[p] # <<>>
  BY DEF Handler, Add, Count, Take, Finish, Running
<1>2. PICK fr \in Frame : fr = Last(frame[p])
  BY <1>1, TopFrame
<1>3. /\ Front(frame[p]) \in Seq(Frame)
      /\ \A place \in {"count", "take"} :
           [frame[p] EXCEPT ![Len(frame[p])].at = place] \in Seq(Frame)
      /\ \A x \in Seq(Bit) :
           [frame[p] EXCEPT ![Len(frame[p])].temp = x] \in Seq(Frame)
  BY <1>1, TopFrame
<1>4. fr.sig \in Signal /\ fr.temp \in Seq(Bit)
  BY DEF Frame
<1>5. ASSUME NEW place \in {"count", "take"}, GoOn(p, place)
      PROVE  frame' \in [Peer -> Seq(Frame)]
  BY <1>3, <1>5 DEF GoOn
<1>6. ASSUME Return(p)
      PROVE  frame' \in [Peer -> Seq(Frame)]
  BY <1>3, <1>6 DEF Return
<1>7. UNCHANGED <<main, pend, woken, typed>>
  BY DEF Handler, Add, Count, Take, Finish
<1>8. CASE Add(p)
  <2>1. PICK b : b = addBack(buffer[p], BitOf(fr.sig))
    OBVIOUS
  <2>2. BitOf(fr.sig) \in Bit
    BY DEF BitOf, Bit
  <2>3. GoodSqueue(b, Bit)
    BY <2>1, <2>2, AddBackLinked
  <2>4. buffer' = [buffer EXCEPT ![p] = b]
    BY <1>2, <1>8, <2>1 DEF Add
  <2>5. IsQueue(b, Bit)
    BY <2>3 DEF GoodSqueue
  <2>6. UNCHANGED <<message, counter, printed>> /\ frame' \in [Peer -> Seq(Frame)]
    BY <1>5, <1>8 DEF Add
  <2> QED
    BY ZenonT(30), <1>7, <2>3, <2>4, <2>5, <2>6
<1>9. CASE Count(p)
  <2>1. PICK n \in 1 .. 8 : n = counter[p] + 1
    <3>1. counter[p] \in 0 .. 7
      OBVIOUS
    <3>2. \A k \in 0 .. 7 : k + 1 \in 1 .. 8
      OBVIOUS
    <3> QED
      BY <3>1, <3>2
  <2>2. Full(n) <=> n = 8
    BY DEF Full
  <2>3. /\ counter' = [counter EXCEPT ![p] = IF n = 8 THEN Debit(n) ELSE n]
        /\ frame' \in [Peer -> Seq(Frame)]
    BY <1>5, <1>6, <1>9, <2>1, <2>2 DEF Count
  <2>4. counter' \in [Peer -> 0 .. 7]
    BY <2>3 DEF Debit
  <2>5. UNCHANGED <<buffer, message, printed>>
    BY <1>9 DEF Count
  <2> QED
    BY <1>7, <2>3, <2>4, <2>5
<1>10. CASE Take(p)
  <2>1. PICK b, x : b = leaveFront(buffer[p]) /\ x = peekFront(buffer[p])
    OBVIOUS
  <2>2. ~isEmpty(buffer[p])
    BY <1>10 DEF Take, Running, Aborted
  <2>3. GoodSqueue(b, Bit) /\ x \in Bit
    BY <2>1, <2>2, LeaveFrontLinked, PeekFront
  <2>4. IsQueue(b, Bit)
    BY <2>3 DEF GoodSqueue
  <2>5. Append(fr.temp, x) \in Seq(Bit)
    BY <1>4, <2>3
  <2>6. frame' = [frame EXCEPT ![p] =
                    [frame[p] EXCEPT ![Len(frame[p])].temp = Append(fr.temp, x)]]
    <3>1. frame' = [frame EXCEPT ![p] =
                      [frame[p] EXCEPT ![Len(frame[p])].temp =
                         Append(frame[p][Len(frame[p])].temp, x)]]
      BY <1>10, <2>1 DEF Take
    <3>2. fr = frame[p][Len(frame[p])]
      BY <1>1, <1>2, TopFrame
    <3> QED
      BY <3>1, <3>2
  <2>7. frame' \in [Peer -> Seq(Frame)]
    BY <1>3, <2>5, <2>6
  <2>8. buffer' = [buffer EXCEPT ![p] = b] /\ UNCHANGED <<message, counter, printed>>
    BY <1>10, <2>1 DEF Take
  <2> QED
    BY ZenonT(30), <1>7, <2>3, <2>4, <2>7, <2>8
<1>11. CASE Finish(p)
  <2>1. PICK c, line : c = convertBack(fr.temp) /\ line = print(message[p])
    OBVIOUS
  <2>2. c \in 0 .. 255 /\ line \in Seq(0 .. 255)
    <3>1. Len(fr.temp) = 8
      BY <1>2, <1>11 DEF Finish
    <3>2. line = Values(message[p])
      BY <2>1, PrintIsValues
    <3>3. line \in Seq(0 .. 255)
      BY <3>2, ValuesType
    <3>4. c \in 0 .. 255
      BY <1>4, <2>1, <3>1, SumType
    <3> QED
      BY <3>3, <3>4
  <2>3. frame' \in [Peer -> Seq(Frame)] /\ UNCHANGED counter
    BY <1>6, <1>11 DEF Finish
  <2>4. PICK m : m = addBack(message[p], c)
    OBVIOUS
  <2>5. GoodSqueue(m, 0 .. 255)
    BY <2>2, <2>4, AddBackLinked
  <2>6. GoodSqueue(initSqueue, Bit) /\ GoodSqueue(initSqueue, 0 .. 255)
    BY InitSqueue
  <2>7. /\ IsQueue(m, 0 .. 255) /\ IsQueue(initSqueue, Bit) /\ IsQueue(initSqueue, 0 .. 255)
    BY <2>5, <2>6 DEF GoodSqueue
  <2>8. CASE AllOnes(fr.temp)
    <3>1. /\ buffer' = [buffer EXCEPT ![p] = initSqueue]
          /\ message' = [message EXCEPT ![p] = initSqueue]
          /\ printed' = [printed EXCEPT ![p] =
                           IF line = <<>> THEN printed[p] ELSE Append(printed[p], line)]
      BY <1>2, <1>11, <2>1, <2>8 DEF Finish, nuke
    <3>2. printed' \in [Peer -> Seq(Seq(0 .. 255))]
      <4>1. Append(printed[p], line) \in Seq(Seq(0 .. 255))
        BY <2>2
      <4> QED
        BY <3>1, <4>1
    <3> QED
      BY ZenonT(30), <1>7, <2>3, <2>6, <2>7, <3>1, <3>2
  <2>9. CASE ~AllOnes(fr.temp)
    <3>1. /\ message' = [message EXCEPT ![p] = m]
          /\ UNCHANGED <<buffer, printed>>
      BY <1>2, <1>11, <2>1, <2>4, <2>9 DEF Finish
    <3> QED
      BY ZenonT(30), <1>7, <2>3, <2>5, <2>7, <3>1
  <2> QED
    BY <2>8, <2>9
<1> QED
  BY <1>8, <1>9, <1>10, <1>11 DEF Handler

LEMMA TypeInit ==
  ASSUME Init
  PROVE  TypeInv
<1>1. GoodSqueue(initSqueue, Bit) /\ GoodSqueue(initSqueue, 0 .. 255)
  BY InitSqueue
<1>2. IsQueue(initSqueue, Bit) /\ IsQueue(initSqueue, 0 .. 255)
  BY <1>1 DEF GoodSqueue
<1>3. /\ <<>> \in Seq(Bit) /\ <<>> \in Seq(Frame) /\ <<>> \in Seq(Lines)
      /\ <<>> \in Seq(Seq(0 .. 255))
  OBVIOUS
<1> QED
  BY <1>1, <1>2, <1>3 DEF Init, TypeInv, TypeOK

LEMMA TypeStep ==
  ASSUME TypeInv, [Next]_vars
  PROVE  TypeInv'
<1>1. CASE UNCHANGED vars
  BY <1>1 DEF vars, main, recv, TypeInv, TypeOK
<1> QED
  BY <1>1, MainType, HandlerType DEF Next

\* Every variable keeps its type and counter stays below 8, in every order of the
\* module's steps.  (That the handler finds eight bits is CounterInStep.)
THEOREM Typed == Spec => []TypeOK
<1>1. Init => TypeInv
  BY TypeInit
<1>2. TypeInv /\ [Next]_vars => TypeInv'
  BY TypeStep
<1>3. TypeInv => TypeOK
  BY DEF TypeInv
<1> QED
  BY <1>1, <1>2, <1>3, PTL DEF Spec

-----------------------------------------------------------------------------
(* What is on its way to a peer: the bits the handler has taken out, those in  *)
(* the buffer, the one being added, the one pending, and those still to be     *)
(* sent.  They are always the bits of whole characters, the last of them an    *)
(* end mark; and who hears them after what the peer has heard so far has heard *)
(* every line sent.                                                            *)

Held(q) == IF frame[q] = <<>> THEN <<>> ELSE frame[q][1].temp

Adding(q) ==
  IF frame[q] # <<>> /\ frame[q][1].at = "add" THEN <<BitOf(frame[q][1].sig)>> ELSE <<>>

Coming(q) == IF pend[q] = {} THEN <<>> ELSE <<BitOf(CHOOSE sig \in pend[q] : TRUE)>>

Air(q) == Held(q) \o Values(buffer[q]) \o Adding(q) \o Coming(q) \o todo[Other(q)]

\* The lines a user typed, without one that waits to be sent.
Unsent(p) == input[p] # <<>> /\ pc[p] # "send"
Sent(p) == IF Unsent(p) THEN Front(typed[p]) ELSE typed[p]

Hears(q) == [said |-> printed[q], open |-> Values(message[q])]

\* The line on its way has no end mark but the one that ends it.
EndOnly(X) == \A i \in 1 .. Len(X) - 1 : X[i] # 255
Plain(q) == pc[Other(q)] = "send" /\ ~Marked(input[Other(q)])

Brings(q, X) ==
  /\ Air(q) = Bits(X)
  /\ Plain(q) => EndOnly(X)
  /\ X # <<>> => X[Len(X)] = 255
  /\ X = <<>> => Values(message[q]) = <<>>
  /\ Hearing(Hears(q), X) = Log(Sent(Other(q)))

StreamInv(q) == Hears(q) \in Reader /\ \E X \in Seq(Char) : Brings(q, X)

\* What the main loop has in hand.
LineInv(p) ==
  /\ pc[p] # "send" => todo[p] = <<>>
  /\ pc[p] = "input" => input[p] = <<>>
  /\ input[p] # <<>> => typed[p] # <<>> /\ Last(typed[p]) = input[p]

StreamsInv ==
  /\ TypeInv /\ InStepInv
  /\ \A p \in Peer : LineInv(p) /\ StreamInv(p)

LEMMA SamePlain ==
  ASSUME \A r \in Peer : pc'[r] = "send" => pc[r] = "send" /\ input'[r] = input[r]
  PROVE  \A q \in Peer : Plain(q)' => Plain(q)
<1> SUFFICES ASSUME NEW q \in Peer, Plain(q)'
             PROVE  Plain(q)
  OBVIOUS
<1>1. PICK p \in Peer : p = Other(q)
  BY Others
<1>2. Other(q)' = Other(q)
  BY DEF Other
<1>3. pc'[p] = "send" /\ ~Marked(input'[p])
  BY <1>1, <1>2 DEF Plain, Marked
<1>4. pc[p] = "send" /\ input'[p] = input[p]
  BY <1>3
<1> QED
  BY <1>1, <1>3, <1>4 DEF Plain

LEMMA SameStream ==
  ASSUME NEW q \in Peer, StreamInv(q), Plain(q)' => Plain(q),
         Air(q)' = Air(q), printed'[q] = printed[q], message'[q] = message[q],
         Log(Sent(Other(q)))' = Log(Sent(Other(q)))
  PROVE  StreamInv(q)'
<1>1. PICK X \in Seq(Char) : Brings(q, X)
  BY DEF StreamInv
<1>2. Hears(q)' = Hears(q)
  BY DEF Hears
<1>3. Brings(q, X)'
  BY <1>1, <1>2 DEF Brings
<1> QED
  BY <1>2, <1>3 DEF StreamInv

LEMMA AirType ==
  ASSUME StreamsInv, NEW q \in Peer
  PROVE  /\ Held(q) \in Seq(Bit) /\ Values(buffer[q]) \in Seq(Bit)
         /\ Adding(q) \in Seq(Bit) /\ Coming(q) \in Seq(Bit)
         /\ todo[Other(q)] \in Seq(Bit) /\ Air(q) \in Seq(Bit)
<1>1. <<>> \in Seq(Bit) /\ \A sig : <<BitOf(sig)>> \in Seq(Bit)
  BY DEF BitOf, Bit
<1>2. Held(q) \in Seq(Bit)
  <2>1. CASE frame[q] = <<>>
    BY <1>1, <2>1 DEF Held
  <2>2. CASE frame[q] # <<>>
    <3>1. frame[q] \in Seq(Frame) /\ 1 \in DOMAIN frame[q]
      BY <2>2 DEF StreamsInv, TypeInv, TypeOK
    <3>2. frame[q][1] \in Frame
      BY <3>1
    <3> QED
      BY <2>2, <3>2 DEF Held, Frame
  <2> QED
    BY <2>1, <2>2
<1>3. Values(buffer[q]) \in Seq(Bit)
  BY ValuesType DEF StreamsInv, TypeInv
<1>4. Adding(q) \in Seq(Bit) /\ Coming(q) \in Seq(Bit)
  BY <1>1 DEF Adding, Coming
<1>5. todo[Other(q)] \in Seq(Bit)
  BY Others DEF StreamsInv, TypeInv, TypeOK
<1> QED
  BY <1>2, <1>3, <1>4, <1>5 DEF Air

LEMMA Moves ==
  ASSUME NEW S, NEW h \in Seq(S), NEW b \in Seq(S), NEW v \in S
  PROVE  /\ <<>> \o b = b /\ b \o <<>> = b
         /\ (b \o <<>>) \o <<v>> = (b \o <<v>>) \o <<>>
         /\ (h \o b) \o <<v>> = (h \o Append(b, v)) \o <<>>
         /\ b # <<>> => h \o b = Append(h, b[1]) \o Tail(b)
         /\ b # <<>> => (h \o <<>>) \o b = (h \o <<b[1]>>) \o Tail(b)
<1>1. <<>> \o b = b /\ b \o <<>> = b /\ h \o <<>> = h
  BY ConcatEmptySeq
<1>2. b \o <<v>> \in Seq(S) /\ b \o <<v>> = Append(b, v)
  OBVIOUS
<1>3. (b \o <<v>>) \o <<>> = b \o <<v>>
  BY <1>2, ConcatEmptySeq
<1>4. <<v>> \in Seq(S)
  OBVIOUS
<1>5. (h \o b) \o <<v>> = h \o (b \o <<v>>)
  BY <1>4, ConcatAssociative
<1>6. (h \o (b \o <<v>>)) \o <<>> = h \o (b \o <<v>>)
  <2>1. h \o (b \o <<v>>) \in Seq(S)
    BY <1>2
  <2> QED
    BY <2>1, ConcatEmptySeq
<1>7. ASSUME b # <<>>
      PROVE  h \o b = (h \o <<b[1]>>) \o Tail(b) /\ Append(h, b[1]) = h \o <<b[1]>>
  <2>1. b[1] \in S /\ Tail(b) \in Seq(S) /\ <<b[1]>> \in Seq(S)
    BY <1>7
  <2>2. b = <<b[1]>> \o Tail(b)
    BY <1>7, <2>1
  <2>3. (h \o <<b[1]>>) \o Tail(b) = h \o (<<b[1]>> \o Tail(b))
    BY <2>1, ConcatAssociative
  <2>4. Append(h, b[1]) = h \o <<b[1]>>
    BY <2>1
  <2> QED
    BY <2>2, <2>3, <2>4
<1> QED
  BY <1>1, <1>2, <1>3, <1>5, <1>6, <1>7

\* The last line typed is the line that is out.
LEMMA LastTyped ==
  ASSUME NEW S, NEW s \in Seq(S), s # <<>>
  PROVE  Front(s) \in Seq(S) /\ Last(s) \in S /\ Append(Front(s), Last(s)) = s
<1>1. Len(s) > 0 /\ Len(s) \in Nat /\ s[Len(s)] \in S
  OBVIOUS
<1>2. PICK f \in Seq(S) : /\ f = SubSeq(s, 1, Len(s) - 1) /\ Len(f) = Len(s) - 1
                          /\ \A i \in 1 .. Len(s) - 1 : f[i] = s[i]
  BY <1>1, ButLast
<1>3. PICK g \in Seq(S) : /\ g = Append(f, s[Len(s)]) /\ Len(g) = Len(s)
                          /\ \A i \in 1 .. Len(s) - 1 : g[i] = s[i]
                          /\ g[Len(s)] = s[Len(s)]
  <2>1. Append(f, s[Len(s)]) \in Seq(S)
    BY <1>1
  <2>2. Len(Append(f, s[Len(s)])) = Len(s)
    BY <1>1, <1>2
  <2>3. \A i \in 1 .. Len(f) : Append(f, s[Len(s)])[i] = f[i]
    OBVIOUS
  <2>4. Append(f, s[Len(s)])[Len(f) + 1] = s[Len(s)]
    OBVIOUS
  <2>5. Len(f) + 1 = Len(s)
    BY <1>1, <1>2
  <2> QED
    BY <1>2, <2>1, <2>2, <2>3, <2>4, <2>5
<1>4. g = s
  <2>1. \A i \in 1 .. Len(s) : i = Len(s) \/ i \in 1 .. Len(s) - 1
    BY <1>1
  <2>2. \A i \in 1 .. Len(s) : g[i] = s[i]
    BY <1>3, <2>1
  <2> QED
    BY <1>3, <2>2
<1> QED
  BY <1>1, <1>2, <1>3, <1>4 DEF Front, Last

LEMMA FrontOfAppend ==
  ASSUME NEW S, NEW s \in Seq(S), NEW x \in S
  PROVE  Front(Append(s, x)) = s /\ Last(Append(s, x)) = x /\ Append(s, x) # <<>>
<1>1. PICK n \in Nat, t \in Seq(S) :
        /\ n = Len(s) /\ t = Append(s, x) /\ Len(t) = n + 1 /\ t[n + 1] = x
        /\ \A i \in 1 .. n : t[i] = s[i]
  <2>1. /\ Len(s) \in Nat /\ Append(s, x) \in Seq(S)
        /\ Len(Append(s, x)) = Len(s) + 1 /\ Append(s, x)[Len(s) + 1] = x
        /\ \A i \in 1 .. Len(s) : Append(s, x)[i] = s[i]
    BY AppendProperties, LenProperties
  <2> WITNESS Len(s) \in Nat, Append(s, x) \in Seq(S)
  <2> QED
    BY <2>1
<1>2. Len(t) > 0 /\ Len(t) - 1 = n
  BY <1>1
<1>3. PICK f \in Seq(S) : f = SubSeq(t, 1, n) /\ Len(f) = n /\ \A i \in 1 .. n : f[i] = t[i]
  BY <1>2, ButLast
<1>4. f = s
  BY <1>1, <1>3
<1>5. Front(t) = f /\ Last(t) = t[n + 1]
  BY <1>1, <1>2, <1>3 DEF Front, Last
<1> QED
  BY <1>1, <1>2, <1>4, <1>5

LEMMA SentType ==
  ASSUME TypeInv, NEW p \in Peer, LineInv(p)
  PROVE  /\ typed[p] \in Seq(Seq(Char)) /\ Sent(p) \in Seq(Seq(Char))
         /\ input[p] \in Seq(Char)
         /\ Unsent(p) => Append(Sent(p), input[p]) = typed[p]
<1>1. Lines \subseteq Seq(Char)
  BY InputType
<1>2. input[p] \in Seq(Char)
  BY InputType DEF TypeInv, TypeOK
<1>3. typed[p] \in Seq(Lines)
  BY DEF TypeInv, TypeOK
<1>4. typed[p] \in Seq(Seq(Char))
  BY <1>1, <1>3, SeqMonotonic
<1>5. CASE Unsent(p)
  <2>1. typed[p] # <<>> /\ Last(typed[p]) = input[p] /\ Sent(p) = Front(typed[p])
    BY <1>5 DEF LineInv, Unsent, Sent
  <2> QED
    BY <1>2, <1>4, <2>1, LastTyped
<1>6. CASE ~Unsent(p)
  BY <1>2, <1>4, <1>6 DEF Sent
<1> QED
  BY <1>5, <1>6

\* The steps of the main loop that send nothing.
LEMMA QuietStream ==
  ASSUME StreamsInv, NEW p \in Peer, Top(p) \/ Check(p) \/ SendOver(p) \/ Type(p)
  PROVE  \A q \in Peer : LineInv(q)' /\ StreamInv(q)'
<1> USE DEF main, recv, At
<1>1. UNCHANGED <<todo, pend, frame, recv>>
  BY DEF Top, Check, SendOver, Type
<1>2. TypeInv /\ LineInv(p)
  BY DEF StreamsInv
<1>3. \A q \in Peer : Air(q)' = Air(q)
  BY <1>1 DEF Air, Held, Adding, Coming
<1>4. \A r \in Peer : r # p =>
        pc'[r] = pc[r] /\ input'[r] = input[r] /\ typed'[r] = typed[r]
  BY <1>2 DEF TypeInv, TypeOK, Top, Check, SendOver, Type
<1>a. \A q \in Peer : Plain(q)' => Plain(q)
  <2>1. pc'[p] # "send"
    BY <1>2 DEF TypeInv, TypeOK, Top, Check, SendOver, Type
  <2> QED
    BY <1>4, <2>1, SamePlain
<1>5. CASE Top(p) \/ Check(p) \/ SendOver(p)
  <2>1. /\ typed' = typed
        /\ pc'[p] \in {"top", "input", "check", "reset"}
        /\ \/ pc[p] # "send" /\ input'[p] = input[p]
           \/ pc[p] = "send" /\ input'[p] = <<>>
        /\ pc'[p] = "input" => input'[p] = <<>>
        /\ todo[p] = <<>>
    BY <1>2, <1>5 DEF TypeInv, TypeOK, LineInv, Top, Check, SendOver
  <2>2. Sent(p)' = Sent(p)
    BY <2>1 DEF Sent, Unsent
  <2>3. LineInv(p)'
    BY <1>1, <1>2, <2>1 DEF LineInv
  <2> QED
    <3>1. \A r \in Peer : Sent(r)' = Sent(r)
      BY <1>4, <2>2 DEF Sent, Unsent
    <3>2. \A r \in Peer : LineInv(r)'
      BY <1>1, <1>4, <2>3 DEF LineInv, StreamsInv
    <3> QED
      BY <1>1, <1>3, <1>a, <3>1, <3>2, Others, SameStream DEF StreamsInv
<1>6. CASE Type(p)
  <2>1. PICK line \in Lines :
          input'[p] = line /\ typed'[p] = Append(typed[p], line) /\ pc'[p] = "check"
    BY <1>2, <1>6 DEF TypeInv, TypeOK, Type
  <2>2. pc[p] = "input" /\ input[p] = <<>> /\ todo[p] = <<>>
    BY <1>2, <1>6 DEF LineInv, Type
  <2>3. line \in Seq(Char) /\ typed[p] \in Seq(Seq(Char)) /\ Sent(p) = typed[p]
    BY <1>2, <2>2, InputType, SentType DEF Sent, Unsent
  <2>4. /\ Front(typed'[p]) = typed[p] /\ Last(typed'[p]) = line /\ typed'[p] # <<>>
    BY <2>1, <2>3, FrontOfAppend
  <2>5. LineInv(p)'
    BY <1>1, <2>1, <2>2, <2>4 DEF LineInv
  <2>6. Log(Sent(p)') = Log(Sent(p))
    <3>1. CASE line # <<>>
      <4>1. Sent(p)' = Front(typed'[p])
        BY <2>1, <3>1 DEF Sent, Unsent
      <4> QED
        BY <2>3, <2>4, <4>1
    <3>2. CASE line = <<>>
      <4>1. Sent(p)' = Append(typed[p], <<>>)
        BY <2>1, <3>2 DEF Sent, Unsent
      <4>2. Log(typed[p]) \in Settles /\ Log(typed[p]) \in Reader
        BY <2>3, LogType, SettlesReader
      <4>3. <<>> \in Seq(Char)
        OBVIOUS
      <4>4. Log(Append(typed[p], <<>>)) = Heard(Hearing(Log(typed[p]), <<>>), 255)
        BY <2>3, <4>3, LogAppend, ZenonT(60)
      <4> QED
        BY <2>3, <4>1, <4>2, <4>4, HearingNone, EndAgain
    <3> QED
      BY <3>1, <3>2
  <2>7. \A r \in Peer : Log(Sent(r)') = Log(Sent(r))
    <3>1. \A r \in Peer : r # p => Sent(r)' = Sent(r)
      BY <1>4 DEF Sent, Unsent
    <3> QED
      BY <2>6, <3>1
  <2>8. \A r \in Peer : LineInv(r)'
    BY <1>1, <1>4, <2>5 DEF LineInv, StreamsInv
  <2>9. \A r \in Peer : Log(Sent(r))' = Log(Sent(r))
    BY <2>7
  <2> QED
    BY <1>1, <1>3, <1>a, <2>8, <2>9, Others, SameStream DEF StreamsInv
<1> QED
  BY <1>5, <1>6

LEMMA TwoPeers ==
  ASSUME NEW p \in Peer
  PROVE  /\ Other(Other(p)) = p
         /\ \A q \in Peer : q # p => q = Other(p)
<1>1. PICK a, b \in Peer : a # b /\ Peer = {a, b}
  BY DuoAssumption
<1>2. Other(p) \in Peer /\ Other(p) # p /\ Other(Other(p)) \in Peer
      /\ Other(Other(p)) # Other(p)
  BY Others
<1> QED
  BY <1>1, <1>2

LEMMA BitOfSignal ==
  ASSUME NEW v \in Bit
  PROVE  BitOf(SignalOf(v)) = v
  BY DEF BitOf, SignalOf, Bit

LEMMA TheOne == \A x : (CHOOSE y \in {x} : TRUE) = x
  OBVIOUS

\* A bit that is sent is one the peer has pending.
LEMMA SendStream ==
  ASSUME StreamsInv, Paced, NEW p \in Peer, SendBit(p)
  PROVE  \A q \in Peer : LineInv(q)' /\ StreamInv(q)'
<1> USE DEF main, recv, At
<1>1. PICK q \in Peer : q = Other(p) /\ q # p /\ Other(q) = p
                        /\ \A r \in Peer : r # q => r = p
  <2>1. Other(p) \in Peer /\ Other(p) # p /\ Other(Other(p)) = p
    BY Others, TwoPeers
  <2> QED
    BY <2>1, TwoPeers
<1>2. /\ pc[p] = "send" /\ todo[p] # <<>>
      /\ UNCHANGED <<pc, input, frame, recv, typed>>
  BY DEF SendBit
<1>3. PICK sig \in Signal : sig = SignalOf(Head(todo[p]))
  BY DEF SignalOf, Signal
<1>4. pend[q] = {} /\ pend' = [pend EXCEPT ![q] = pend[q] \cup {sig}]
  BY <1>1, <1>3 DEF SendBit, InTime, Paced
<1>5. todo' = [todo EXCEPT ![p] = Tail(todo[p])]
  BY DEF SendBit
<1>6. pend \in [Peer -> SUBSET Signal] /\ todo \in [Peer -> Seq(Bit)]
  BY DEF StreamsInv, TypeInv, TypeOK
<1>7. pend'[q] = {sig} /\ pend'[p] = pend[p] /\ todo'[p] = Tail(todo[p]) /\ todo'[q] = todo[q]
  BY <1>1, <1>4, <1>5, <1>6
<1>8. todo[p][1] \in Bit /\ BitOf(sig) = todo[p][1]
  <2>1. todo[p][1] \in Bit /\ Head(todo[p]) = todo[p][1]
    BY <1>2, <1>6
  <2> QED
    BY <1>3, <2>1, BitOfSignal
<1>9. Coming(q) = <<>> /\ Coming(q)' = <<todo[p][1]>>
  <2>1. (CHOOSE x \in pend'[q] : TRUE) = sig /\ pend'[q] # {}
    BY <1>7, TheOne
  <2> QED
    BY <1>4, <1>8, <2>1 DEF Coming
<1>10. Air(q)' = Air(q)
  <2>1. PICK h : h = Held(q) \o Values(buffer[q]) \o Adding(q)
    OBVIOUS
  <2>2. h \in Seq(Bit)
    BY <2>1, AirType
  <2>3. Air(q) = (h \o <<>>) \o todo[p]
    BY <1>1, <1>9, <2>1 DEF Air
  <2>4. Air(q)' = (h \o <<todo[p][1]>>) \o Tail(todo[p])
    <3>1. h = Held(q)' \o Values(buffer[q])' \o Adding(q)'
      BY <1>2, <2>1 DEF Held, Adding
    <3>2. Other(q)' = Other(q)
      BY DEF Other
    <3> QED
      BY <1>1, <1>7, <1>9, <3>1, <3>2 DEF Air
  <2> QED
    BY <1>2, <1>6, <1>8, <2>2, <2>3, <2>4, Moves
<1>11. Air(p)' = Air(p)
  BY <1>1, <1>2, <1>7 DEF Air, Held, Adding, Coming
<1>12. \A r \in Peer : Sent(r)' = Sent(r)
  BY <1>2 DEF Sent, Unsent
<1>13. \A r \in Peer : LineInv(r)'
  <2>1. \A r \in Peer : r # p => todo'[r] = todo[r]
    BY <1>5, <1>6
  <2> QED
    BY <1>2, <2>1 DEF LineInv, StreamsInv
<1>14. \A r \in Peer : Air(r)' = Air(r)
  BY <1>1, <1>10, <1>11
<1>15. \A r \in Peer : Plain(r)' => Plain(r)
  BY <1>2, SamePlain
<1> QED
  BY <1>2, <1>12, <1>13, <1>14, <1>15, Others, SameStream DEF StreamsInv

LEMMA LenOfConcat ==
  ASSUME NEW S, NEW a \in Seq(S), NEW b \in Seq(S)
  PROVE  Len(a \o b) = Len(a) + Len(b)
  OBVIOUS

LEMMA LastOfConcat ==
  ASSUME NEW S, NEW a \in Seq(S), NEW b \in Seq(S), Len(b) > 0
  PROVE  Len(a \o b) > 0 /\ (a \o b)[Len(a \o b)] = b[Len(b)]
<1>1. PICK n \in Nat, m \in Nat : n = Len(a) /\ m = Len(b)
  BY LenProperties
<1>2. Len(a \o b) = n + m /\ m \in 1 .. m
  BY <1>1, ConcatProperties
<1>3. \A i \in 1 .. m : (a \o b)[n + i] = b[i]
  BY <1>1
<1> QED
  BY <1>1, <1>2, <1>3

\* send() begins: the bits of the line and of its end join what is on its way.
LEMMA ResetStream ==
  ASSUME StreamsInv, NEW p \in Peer, Reset(p), Air(Other(p)) = <<>>
  PROVE  \A q \in Peer : LineInv(q)' /\ StreamInv(q)'
<1> USE DEF main, recv, At
<1>1. PICK q \in Peer : q = Other(p) /\ q # p /\ Other(q) = p
                        /\ \A r \in Peer : r # q => r = p
  <2>1. Other(p) \in Peer /\ Other(p) # p /\ Other(Other(p)) = p
    BY Others, TwoPeers
  <2> QED
    BY <2>1, TwoPeers
<1>2. TypeInv /\ LineInv(p) /\ StreamInv(q) /\ StreamInv(p)
  BY DEF StreamsInv
<1>3. /\ pc[p] = "reset" /\ pc'[p] = "send"
      /\ todo[p] = <<>> /\ todo'[p] = BitsOf(input[p])
      /\ \A r \in Peer : r # p => pc'[r] = pc[r] /\ todo'[r] = todo[r]
      /\ UNCHANGED <<input, pend, frame, buffer, message, printed, typed>>
  BY <1>2 DEF TypeInv, TypeOK, LineInv, Reset
<1>4. \A r \in Peer : LineInv(r)'
  BY <1>3 DEF LineInv, StreamsInv
<1>5. StreamInv(p)'
  <2>1. Other(p)' = Other(p) /\ todo'[q] = todo[q] /\ pc'[q] = pc[q]
    BY <1>1, <1>3 DEF Other
  <2>2. Held(p)' = Held(p) /\ Adding(p)' = Adding(p) /\ Coming(p)' = Coming(p)
    BY <1>3 DEF Held, Adding, Coming
  <2>3. Air(p)' = Air(p)
    BY <1>1, <1>3, <2>1, <2>2 DEF Air
  <2>4. Sent(q)' = Sent(q)
    BY <1>3, <2>1 DEF Sent, Unsent
  <2>5. Log(Sent(Other(p)))' = Log(Sent(Other(p)))
    BY <1>1, <2>1, <2>4
  <2>6. Plain(p)' => Plain(p)
    BY <1>1, <1>3, <2>1 DEF Plain
  <2> QED
    BY <1>2, <1>3, <2>3, <2>5, <2>6, SameStream
<1>6. PICK X \in Seq(Char) : Brings(q, X)
  BY <1>2 DEF StreamInv
<1>7. PICK w \in Seq(Char) : w = input[p]
  BY <1>2, SentType
<1> DEFINE z == <<255>>
<1>8. z \in Seq(Char) /\ Len(z) = 1 /\ z[1] = 255 /\ 255 \in Char
  <2>1. 255 \in Char
    BY DEF Char
  <2> QED
    BY <2>1
<1>z. z = <<255>>
  OBVIOUS
<1> HIDE DEF z
<1>9. PICK u \in Seq(Char), Y \in Seq(Char) : u = w \o z /\ Y = X \o u
  <2>1. \A a, b \in Seq(Char) : a \o b \in Seq(Char)
    OBVIOUS
  <2> QED
    BY <1>8, <2>1
<1>10. Air(q)' = Bits(Y)
  <2>1. PICK h : h = Held(q) \o Values(buffer[q]) \o Adding(q) \o Coming(q)
    OBVIOUS
  <2>2. h \in Seq(Bit)
    BY <2>1, AirType DEF StreamsInv
  <2>3. Air(q) = h
    <3>1. Air(q) = h \o <<>>
      BY <1>1, <1>3, <2>1 DEF Air
    <3> QED
      BY <2>2, <3>1, ConcatEmptySeq
  <2>4. Air(q)' = h \o BitsOf(w)
    <3>1. /\ Held(q)' = Held(q) /\ Values(buffer[q])' = Values(buffer[q])
          /\ Adding(q)' = Adding(q) /\ Coming(q)' = Coming(q)
      BY <1>3 DEF Held, Adding, Coming
    <3>2. Other(q)' = Other(q) /\ todo'[p] = BitsOf(w)
      BY <1>3, <1>7 DEF Other
    <3> QED
      BY <1>1, <2>1, <3>1, <3>2 DEF Air
  <2>5. BitsOf(w) = Bits(u)
    <3>1. Bits(u) = Bits(w) \o Bits(z)
      BY <1>8, <1>9, BitsConcat
    <3> QED
      BY <1>z, <3>1, EndMarkBits DEF BitsOf
  <2>6. h = Bits(X)
    BY <1>6, <2>3 DEF Brings
  <2>7. Bits(Y) = Bits(X) \o Bits(u)
    BY <1>9, BitsConcat
  <2> QED
    BY <2>4, <2>5, <2>6, <2>7
<1>11. Y # <<>> /\ Y[Len(Y)] = 255
  <2>1. Len(z) > 0 /\ z[Len(z)] = 255 /\ z \in Seq(Char)
    BY <1>8
  <2>2. Len(w \o z) > 0 /\ (w \o z)[Len(w \o z)] = z[Len(z)]
    BY <2>1, LastOfConcat
  <2>3. Len(u) > 0 /\ u[Len(u)] = 255
    BY <1>9, <2>1, <2>2
  <2>4. Len(X \o u) > 0 /\ (X \o u)[Len(X \o u)] = u[Len(u)]
    BY <2>3, LastOfConcat
  <2>5. Len(Y) > 0 /\ Y[Len(Y)] = 255
    BY <1>9, <2>3, <2>4
  <2> QED
    BY <2>5
<1>12. Hears(q)' = Hears(q) /\ Hears(q) \in Reader
  BY <1>2, <1>3 DEF Hears, StreamInv
<1>13. Hearing(Hears(q), Y) = Log(Sent(p)')
  <2>1. PICK L : L = Log(Sent(p)) /\ L \in Settles /\ L \in Reader
    BY <1>2, LogType, SentType, SettlesReader
  <2>2. Hearing(Hears(q), X) = L
    BY <1>1, <1>6, <2>1 DEF Brings
  <2>3. Hearing(Hears(q), Y) = Heard(Hearing(L, w), 255)
    <3>2. Hearing(Hears(q), Y) = Hearing(L, u)
      BY <1>9, <1>12, <2>2, HearingConcat
    <3>3. Hearing(L, u) = Hearing(Hearing(L, w), z)
      BY <1>8, <1>9, <2>1, HearingConcat
    <3>4. Hearing(L, w) \in Reader
      BY <2>1, HearingType
    <3>5. Hearing(Hearing(L, w), z) = Heard(Hearing(L, w), 255)
      BY <1>8, <1>z, <3>4, HearingOne
    <3> QED
      BY <3>2, <3>3, <3>5
  <2>4. Sent(p)' = typed[p]
    BY <1>3 DEF Sent, Unsent
  <2>5. CASE w # <<>>
    <3>1. Append(Sent(p), w) = typed[p] /\ Sent(p) \in Seq(Seq(Char))
      BY <1>2, <1>3, <1>7, <2>5, SentType DEF Unsent
    <3>2. Log(Append(Sent(p), w)) = Heard(Hearing(Log(Sent(p)), w), 255)
      BY <3>1, LogAppend, ZenonT(60)
    <3> QED
      BY <2>1, <2>3, <2>4, <3>1, <3>2
  <2>6. CASE w = <<>>
    <3>1. Sent(p) = typed[p]
      BY <1>7, <2>6 DEF Sent, Unsent
    <3> QED
      BY <2>1, <2>3, <2>4, <2>6, <3>1, HearingNone, EndAgain
  <2> QED
    BY <2>5, <2>6
<1>a. Plain(q)' => EndOnly(Y)
  <2> SUFFICES ASSUME Plain(q)', NEW i \in 1 .. Len(Y) - 1
               PROVE  Y[i] # 255
    BY DEF EndOnly
  <2>1. Len(X) = 0
    <3>1. Bits(X) = <<>>
      BY <1>1, <1>6 DEF Brings
    <3>2. Len(Bits(X)) = 8 * Len(X) /\ Len(X) \in Nat
      BY BitsType
    <3> QED
      BY <3>1, <3>2
  <2>2. Y = w \o z
    <3>1. X = <<>>
      BY <2>1
    <3> QED
      BY <1>9, <3>1, ConcatEmptySeq
  <2>3. i \in 1 .. Len(w) /\ Y[i] = w[i]
    <3>1. Len(Y) = Len(w) + 1
      <4>1. w \in Seq(Char) /\ z \in Seq(Char) /\ Len(z) = 1
        BY <1>8
      <4>2. Len(w \o z) = Len(w) + Len(z)
        BY <4>1, LenOfConcat
      <4> QED
        BY <2>2, <4>1, <4>2
    <3>2. i \in 1 .. Len(w)
      BY <3>1
    <3> QED
      BY <1>7, <1>8, <2>2, <3>2
  <2>4. ~Marked(w)
    <3>1. Other(q)' = Other(q) /\ input'[p] = w
      BY <1>3, <1>7 DEF Other
    <3> QED
      BY <1>1, <3>1 DEF Plain, Marked
  <2> QED
    BY <2>3, <2>4 DEF Marked
<1>14. StreamInv(q)'
  <2>1. Other(q)' = Other(q)
    BY DEF Other
  <2>2. Brings(q, Y)'
    BY <1>1, <1>10, <1>11, <1>12, <1>13, <1>a, <2>1 DEF Brings
  <2> QED
    BY <1>12, <2>2 DEF StreamInv
<1> QED
  BY <1>1, <1>4, <1>5, <1>14

\* A signal that is delivered is the bit being added.
LEMMA DeliverStream ==
  ASSUME StreamsInv, NEW p \in Peer, Deliver(p)
  PROVE  \A q \in Peer : LineInv(q)' /\ StreamInv(q)'
<1> USE DEF main, recv
<1>1. TypeInv /\ StreamInv(p) /\ Single(p)
  BY DEF StreamsInv, InStepInv
<1>2. UNCHANGED <<pc, input, todo, buffer, message, printed, typed>>
  BY DEF Deliver
<1>3. PICK sig \in pend[p] :
        /\ ~Blocked(p, sig)
        /\ pend' = [pend EXCEPT ![p] = pend[p] \ {sig}]
        /\ frame' = [frame EXCEPT ![p] =
                       Append(frame[p], [sig |-> sig, at |-> "add", temp |-> <<>>])]
  BY DEF Deliver
<1>4. frame[p] = <<>> /\ pend[p] = {sig}
  <2>1. ASSUME frame[p] # <<>>
        PROVE  FALSE
    <3>1. PICK g \in Frame : frame[p] = <<g>> /\ pend[p] \subseteq {g.sig}
      BY <1>1, <2>1 DEF Single
    <3>2. 1 \in DOMAIN frame[p] /\ frame[p][1].sig = sig
      BY <3>1
    <3> QED
      BY <1>3, <3>2 DEF Blocked
  <2> QED
    BY <1>1, <2>1 DEF Single
<1>5. PICK fr : /\ fr = [sig |-> sig, at |-> "add", temp |-> <<>>]
                /\ fr.sig = sig /\ fr.at = "add" /\ fr.temp = <<>>
  <2> DEFINE g == [sig |-> sig, at |-> "add", temp |-> <<>>]
  <2>1. g.sig = sig /\ g.at = "add" /\ g.temp = <<>>
    OBVIOUS
  <2> QED
    BY <2>1, Zenon
<1>6. frame'[p] = <<fr>> /\ pend'[p] = {}
  BY <1>1, <1>3, <1>4, <1>5 DEF TypeInv, TypeOK
<1>7. <<fr>> # <<>> /\ <<fr>>[1] = fr
  OBVIOUS
<1>8. /\ Held(p) = <<>> /\ Adding(p) = <<>> /\ Coming(p) = <<BitOf(sig)>>
      /\ Held(p)' = <<>> /\ Adding(p)' = <<BitOf(sig)>> /\ Coming(p)' = <<>>
  <2>1. (CHOOSE x \in pend[p] : TRUE) = sig /\ pend[p] # {}
    BY <1>4, TheOne
  <2> QED
    BY <1>4, <1>5, <1>6, <1>7, <2>1 DEF Held, Adding, Coming
<1>9. Air(p)' = Air(p)
  <2>1. PICK h : h = <<>> \o Values(buffer[p])
    OBVIOUS
  <2>2. h \in Seq(Bit) /\ BitOf(sig) \in Bit
    <3>1. <<>> \o Values(buffer[p]) \in Seq(Bit)
      BY <1>8, AirType
    <3> QED
      BY <2>1, <3>1 DEF BitOf, Bit
  <2>3. (h \o <<>>) \o <<BitOf(sig)>> = (h \o <<BitOf(sig)>>) \o <<>>
    BY <2>2, Moves
  <2>4. Air(p) = (h \o <<>>) \o <<BitOf(sig)>> \o todo[Other(p)]
    BY <1>8, <2>1 DEF Air
  <2>5. Air(p)' = (h \o <<BitOf(sig)>>) \o <<>> \o todo[Other(p)]
    BY <1>2, <1>8, <2>1 DEF Air, Other
  <2> QED
    BY <2>3, <2>4, <2>5
<1>10. \A r \in Peer : r # p => Air(r)' = Air(r)
  <2>1. \A r \in Peer : r # p => frame'[r] = frame[r] /\ pend'[r] = pend[r]
    BY <1>1, <1>3 DEF TypeInv, TypeOK
  <2>2. ASSUME NEW r \in Peer, r # p
        PROVE  Held(r)' = Held(r) /\ Adding(r)' = Adding(r) /\ Coming(r)' = Coming(r)
    <3>1. frame'[r] = frame[r] /\ pend'[r] = pend[r]
      BY <2>1, <2>2
    <3> QED
      BY <3>1 DEF Held, Adding, Coming
  <2>3. \A r \in Peer : Other(r)' = Other(r)
    BY DEF Other
  <2> QED
    BY <1>2, <2>2, <2>3 DEF Air
<1>11. \A r \in Peer : Air(r)' = Air(r) /\ Sent(r)' = Sent(r) /\ LineInv(r)'
  BY <1>2, <1>9, <1>10 DEF Sent, Unsent, LineInv, StreamsInv
<1>12. \A r \in Peer : Plain(r)' => Plain(r)
  BY <1>2, SamePlain
<1> QED
  BY <1>2, <1>11, <1>12, Others, SameStream DEF StreamsInv

LEMMA EqualHeads ==
  ASSUME NEW S, NEW a \in Seq(S), NEW b \in Seq(S), NEW c \in Seq(S), NEW d \in Seq(S),
         Len(a) = Len(b), a \o c = b \o d
  PROVE  a = b /\ c = d
<1>1. \A i \in 1 .. Len(a) : (a \o c)[i] = a[i]
  OBVIOUS
<1>2. \A i \in 1 .. Len(b) : (b \o d)[i] = b[i]
  OBVIOUS
<1>3. \A i \in 1 .. Len(a) : a[i] = b[i]
  BY <1>1, <1>2
<1>4. a = b
  BY <1>3
<1>5. \A s, x, y \in Seq(S) : s \o x = s \o y => x = y
  BY ConcatSimplifications
<1> QED
  BY <1>4, <1>5

\* A character and its bits come off the front of what is on its way together.
LEMMA FirstChar ==
  ASSUME NEW X \in Seq(Char), NEW h \in Seq(Bit), NEW t \in Seq(Bit),
         Len(h) = 8, h \o t = Bits(X)
  PROVE  /\ X # <<>> /\ X[1] \in Char /\ Tail(X) \in Seq(Char)
         /\ h = convert(X[1]) /\ t = Bits(Tail(X))
         /\ X = <<X[1]>> \o Tail(X)
         /\ Tail(X) # <<>> => Tail(X)[Len(Tail(X))] = X[Len(X)]
         /\ Tail(X) = <<>> => X[Len(X)] = X[1]
<1>1. Len(h \o t) = 8 + Len(t) /\ Len(t) \in Nat /\ Len(Bits(X)) = 8 * Len(X)
  <2>1. \A a, b \in Seq(Bit) : Len(a \o b) = Len(a) + Len(b) /\ Len(b) \in Nat
    OBVIOUS
  <2>2. Len(h \o t) = Len(h) + Len(t) /\ Len(t) \in Nat
    BY <2>1
  <2> QED
    BY <2>2, BitsType
<1>2. X # <<>> /\ Len(X) \in Nat \ {0}
  <2>1. Len(X) # 0
    BY <1>1
  <2> QED
    BY <2>1
<1>3. PICK c \in Char, Y \in Seq(Char) : c = X[1] /\ Y = Tail(X)
  <2>1. X[1] \in Char /\ Tail(X) \in Seq(Char)
    BY <1>2, HeadTailProperties
  <2> QED
    BY <2>1, Zenon
<1>4. X = <<c>> \o Y
  BY <1>2, <1>3
<1>5. <<c>> \in Seq(Char)
  OBVIOUS
<1>6. Bits(X) = convert(c) \o Bits(Y)
  <2>1. Bits(X) = Bits(<<c>>) \o Bits(Y)
    BY <1>4, <1>5, BitsConcat
  <2> QED
    BY <2>1, BitsOne
<1>7. PICK b \in Seq(Bit), z \in Seq(Bit) : b = convert(c) /\ z = Bits(Y) /\ Len(b) = 8
  <2>2. convert(c) \in Seq(Bit) /\ Len(convert(c)) = 8
    BY CharBits
  <2>3. Bits(Y) \in Seq(Bit)
    BY BitsType
  <2> QED
    BY <2>2, <2>3, Zenon
<1>8. h \o t = b \o z
  BY <1>6, <1>7
<1>9. h = b /\ t = z
  <2>1. Len(h) = Len(b)
    BY <1>7
  <2> QED
    BY <1>8, <2>1, EqualHeads
<1>11. /\ Len(Y) = Len(X) - 1
       /\ \A i \in 1 .. Len(Y) : Y[i] = X[i + 1]
  BY <1>2, <1>3, HeadTailProperties
<1>12. Y # <<>> => Y[Len(Y)] = X[Len(X)]
  <2> SUFFICES ASSUME Y # <<>>
               PROVE  Y[Len(Y)] = X[Len(X)]
    OBVIOUS
  <2>1. Len(Y) \in 1 .. Len(Y) /\ Len(Y) + 1 = Len(X)
    BY <1>2, <1>11
  <2> QED
    BY <1>11, <2>1
<1>13. Y = <<>> => X[Len(X)] = X[1]
  <2>1. Y = <<>> => Len(X) = 1
    BY <1>2, <1>11
  <2> QED
    BY <2>1
<1> QED
  BY <1>2, <1>3, <1>4, <1>7, <1>9, <1>12, <1>13

LEMMA TailEndOnly ==
  ASSUME NEW X \in Seq(Char), X # <<>>, EndOnly(X)
  PROVE  EndOnly(Tail(X))
<1>1. Len(Tail(X)) = Len(X) - 1 /\ Len(X) \in Nat
  OBVIOUS
<1>2. \A i \in 1 .. Len(X) - 1 : Tail(X)[i] = X[i + 1]
  OBVIOUS
<1> QED
  BY <1>1, <1>2 DEF EndOnly

\* The eight bits h are the first character of X, and the bits t the rest of it.
PickedUp(h, t, X) ==
  \E c \in Char, Y \in Seq(Char) :
    /\ c = X[1] /\ Y = Tail(X) /\ X # <<>>
    /\ h = convert(c) /\ t = Bits(Y) /\ X = <<c>> \o Y
    /\ Y # <<>> => Y[Len(Y)] = X[Len(X)]
    /\ Y = <<>> => X[Len(X)] = c

\* What the handler has taken when it has all eight bits.
LEMMA TakenChar ==
  ASSUME StreamsInv, NEW p \in Peer, Finish(p),
         NEW fr \in Frame, frame[p] = <<fr>>, Last(frame[p]) = fr,
         NEW X \in Seq(Char), Brings(p, X)
  PROVE  /\ fr.at = "take" /\ Values(buffer[p]) = <<>>
         /\ PickedUp(fr.temp, Coming(p) \o todo[Other(p)], X)
<1>1. /\ fr.temp \in Seq(Bit) /\ GoodSqueue(buffer[p], Bit)
      /\ Agrees(fr, counter[p], Queued(p))
  BY DEF StreamsInv, InStepInv, Frame, Shapes, Counts
<1>2. fr.at = "take" /\ Len(fr.temp) = 8 /\ Queued(p) = 0
  <2>1. fr.at = "take" /\ Len(fr.temp) = 8
    BY DEF Finish, Running
  <2>2. Queued(p) + Len(fr.temp) = 8 /\ Queued(p) \in Nat
    BY <1>1, <2>1, OrderType DEF Agrees, Queued
  <2> QED
    BY <2>1, <2>2
<1>3. Values(buffer[p]) = <<>>
  <2>1. Values(buffer[p]) \in Seq(Bit) /\ Len(Values(buffer[p])) = 0
    BY <1>1, <1>2, ValuesType DEF Queued
  <2> QED
    BY <2>1
<1>4. Coming(p) \in Seq(Bit) /\ todo[Other(p)] \in Seq(Bit)
  BY AirType
<1>5. PICK t \in Seq(Bit) : t = Coming(p) \o todo[Other(p)]
  <2>1. Coming(p) \o todo[Other(p)] \in Seq(Bit)
    BY <1>4
  <2> QED
    BY <2>1
<1>6. fr.temp \o t = Bits(X)
  <2>1. Held(p) = fr.temp /\ Adding(p) = <<>>
    <3>1. <<fr>> # <<>> /\ <<fr>>[1] = fr
      OBVIOUS
    <3> QED
      BY <1>2, <3>1 DEF Held, Adding
  <2>2. Air(p) = fr.temp \o <<>> \o <<>> \o Coming(p) \o todo[Other(p)]
    BY <1>3, <2>1 DEF Air
  <2>3. fr.temp \o <<>> = fr.temp
    BY <1>1, ConcatEmptySeq
  <2>4. (fr.temp \o Coming(p)) \o todo[Other(p)] = fr.temp \o t
    BY <1>1, <1>4, <1>5, BitsGlue
  <2> QED
    BY <2>2, <2>3, <2>4 DEF Brings
<1>7. /\ X # <<>> /\ X[1] \in Char /\ Tail(X) \in Seq(Char)
      /\ fr.temp = convert(X[1]) /\ t = Bits(Tail(X))
      /\ X = <<X[1]>> \o Tail(X)
      /\ Tail(X) # <<>> => Tail(X)[Len(Tail(X))] = X[Len(X)]
      /\ Tail(X) = <<>> => X[Len(X)] = X[1]
  BY <1>1, <1>2, <1>6, FirstChar
<1> QED
  BY <1>2, <1>3, <1>5, <1>7 DEF PickedUp

\* The handler: the bits move from one place to the next, until eight of them make
\* a character.
LEMMA HandlerStream ==
  ASSUME StreamsInv, NEW p \in Peer, Handler(p)
  PROVE  \A q \in Peer : LineInv(q)' /\ StreamInv(q)'
<1> USE DEF main, recv
<1>1. TypeInv /\ StreamInv(p) /\ Single(p) /\ Counts(p) /\ Shapes
  BY DEF StreamsInv, InStepInv
<1>2. /\ frame[p] # <<>>
      /\ UNCHANGED <<pc, input, todo, pend, typed>>
  BY DEF Handler, Add, Count, Take, Finish, Running
<1>3. PICK fr \in Frame :
        /\ frame[p] = <<fr>> /\ Last(frame[p]) = fr /\ Len(frame[p]) = 1
        /\ pend[p] \subseteq {fr.sig}
        /\ Front(frame[p]) = <<>>
        /\ \A place : [frame[p] EXCEPT ![1].at = place] = <<[fr EXCEPT !.at = place]>>
        /\ \A x : [frame[p] EXCEPT ![1].temp = x] = <<[fr EXCEPT !.temp = x]>>
  BY <1>1, <1>2, OneFrame
<1>4. /\ fr.sig \in Signal /\ fr.temp \in Seq(Bit) /\ fr.at \in {"add", "count", "take"}
      /\ GoodSqueue(buffer[p], Bit) /\ Agrees(fr, counter[p], Queued(p))
      /\ counter[p] \in Nat
  BY <1>1, <1>3 DEF Frame, Shapes, Counts
<1>5. <<fr>> # <<>> /\ <<fr>>[1] = fr
  OBVIOUS
<1>6. /\ Held(p) = fr.temp
      /\ Adding(p) = IF fr.at = "add" THEN <<BitOf(fr.sig)>> ELSE <<>>
  BY <1>3, <1>5 DEF Held, Adding
<1>7. Coming(p)' = Coming(p) /\ todo'[Other(p)] = todo[Other(p)] /\ Other(p)' = Other(p)
  BY <1>2 DEF Coming, Other
<1>a. \A r \in Peer : Plain(r)' => Plain(r)
  BY <1>2, SamePlain
\* The other peer, and what has to be shown of this one.
<1>8. ASSUME StreamInv(p)',
             \A r \in Peer : r # p =>
               /\ frame'[r] = frame[r] /\ buffer'[r] = buffer[r]
               /\ message'[r] = message[r] /\ printed'[r] = printed[r]
      PROVE  \A q \in Peer : LineInv(q)' /\ StreamInv(q)'
  <2> SUFFICES ASSUME NEW r \in Peer
               PROVE  LineInv(r)' /\ StreamInv(r)'
    OBVIOUS
  <2>1. LineInv(r)'
    BY <1>2 DEF LineInv, StreamsInv
  <2>2. CASE r # p
    <3>1. frame'[r] = frame[r] /\ buffer'[r] = buffer[r] /\ pend'[r] = pend[r]
      BY <1>2, <1>8, <2>2
    <3>2. Held(r)' = Held(r) /\ Adding(r)' = Adding(r) /\ Coming(r)' = Coming(r)
      BY <3>1 DEF Held, Adding, Coming
    <3>3. Air(r)' = Air(r)
      BY <1>2, <3>1, <3>2 DEF Air, Other
    <3>4. Log(Sent(Other(r)))' = Log(Sent(Other(r)))
      BY <1>2 DEF Sent, Unsent, Other
    <3> QED
      BY <1>8, <1>a, <2>1, <2>2, <3>3, <3>4, SameStream DEF StreamsInv
  <2> QED
    BY <1>8, <2>1, <2>2
<1>9. ASSUME Air(p)' = Air(p), printed'[p] = printed[p], message'[p] = message[p]
      PROVE  StreamInv(p)'
  <2>1. Log(Sent(Other(p)))' = Log(Sent(Other(p)))
    BY <1>2 DEF Sent, Unsent, Other
  <2> QED
    BY <1>1, <1>9, <1>a, <2>1, SameStream
<1>10. CASE Add(p)
  <2> DEFINE v == BitOf(fr.sig)
             g == [fr EXCEPT !.at = "count"]
             B == Values(buffer[p])
  <2>1. v \in Bit /\ fr.at = "add" /\ B \in Seq(Bit)
    BY <1>3, <1>4, <1>10, ValuesType DEF BitOf, Bit, Add, Running
  <2>2. Values(addBack(buffer[p], v)) = Append(B, v)
    BY <1>4, <2>1, AddBackLinked
  <2>3. /\ buffer' = [buffer EXCEPT ![p] = addBack(buffer[p], v)]
        /\ frame' = [frame EXCEPT ![p] = <<g>>]
        /\ UNCHANGED <<message, printed>>
    BY <1>1, <1>3, <1>10 DEF Add, GoOn, Shapes
  <2>4. g.at = "count" /\ g.temp = fr.temp /\ <<g>> # <<>> /\ <<g>>[1] = g
    BY <1>4 DEF Frame
  <2>5. frame'[p] = <<g>> /\ buffer'[p] = addBack(buffer[p], v)
    BY <1>1, <2>3 DEF Shapes
  <2> HIDE DEF g, v
  <2>6. Held(p)' = fr.temp /\ Adding(p)' = <<>> /\ Adding(p) = <<v>>
    BY <1>6, <2>1, <2>4, <2>5 DEF Held, Adding, v
  <2>7. Values(buffer[p])' = Append(B, v)
    BY <2>2, <2>5
  <2> HIDE DEF B
  <2>8. (fr.temp \o B) \o <<v>> = (fr.temp \o Append(B, v)) \o <<>>
    BY <1>4, <2>1, Moves, ZenonT(60)
  <2>9. Air(p) = (fr.temp \o B) \o <<v>> \o Coming(p) \o todo[Other(p)]
    BY <1>6, <2>6 DEF Air, B
  <2>10. Air(p)' = (fr.temp \o Append(B, v)) \o <<>> \o Coming(p) \o todo[Other(p)]
    BY <1>7, <2>6, <2>7 DEF Air
  <2>11. \A r \in Peer : r # p => frame'[r] = frame[r] /\ buffer'[r] = buffer[r]
    BY <1>1, <2>3 DEF Shapes
  <2> QED
    BY <1>8, <1>9, <2>3, <2>8, <2>9, <2>10, <2>11
<1>11. CASE Count(p)
  <2>1. fr.at = "count" /\ fr.temp = <<>> /\ UNCHANGED <<buffer, message, printed>>
    BY <1>3, <1>4, <1>11 DEF Count, Running, Agrees
  <2> DEFINE g == [fr EXCEPT !.at = "take"]
  <2>2. frame' = [frame EXCEPT ![p] = <<g>>] \/ frame' = [frame EXCEPT ![p] = <<>>]
    <3>1. GoOn(p, "take") \/ Return(p)
      BY <1>11 DEF Count
    <3> QED
      BY <1>3, <3>1 DEF GoOn, Return
  <2>3. g.at = "take" /\ g.temp = fr.temp /\ <<g>> # <<>> /\ <<g>>[1] = g
    BY <1>4 DEF Frame
  <2> HIDE DEF g
  <2>4. frame'[p] = <<g>> \/ frame'[p] = <<>>
    BY <1>1, <2>2 DEF Shapes
  <2>5. /\ Held(p)' = <<>> /\ Adding(p)' = <<>>
        /\ Held(p) = <<>> /\ Adding(p) = <<>>
    BY <1>6, <2>1, <2>3, <2>4 DEF Held, Adding
  <2>6. Air(p)' = Air(p)
    BY <1>7, <2>1, <2>5 DEF Air
  <2>7. \A r \in Peer : r # p => frame'[r] = frame[r]
    BY <1>1, <2>2 DEF Shapes
  <2> QED
    BY <1>8, <1>9, <2>1, <2>6, <2>7
<1>12. CASE Take(p)
  <2> DEFINE B == Values(buffer[p])
             x == peekFront(buffer[p])
             g == [fr EXCEPT !.temp = Append(fr.temp, x)]
  <2>1. fr.at = "take" /\ ~isEmpty(buffer[p]) /\ B \in Seq(Bit)
    BY <1>3, <1>4, <1>12, ValuesType DEF Take, Running, Aborted
  <2>2. /\ B # <<>> /\ x = B[1] /\ x \in Bit
        /\ Values(leaveFront(buffer[p])) = Tail(B)
    BY <1>4, <2>1, LeaveFrontLinked, PeekFront, EmptyMeans
  <2>3. /\ buffer' = [buffer EXCEPT ![p] = leaveFront(buffer[p])]
        /\ frame' = [frame EXCEPT ![p] = <<g>>]
        /\ UNCHANGED <<message, printed>>
    <3>1. frame' = [frame EXCEPT ![p] = [frame[p] EXCEPT ![1].temp = Append(fr.temp, x)]]
      BY <1>3, <1>12 DEF Take, Shapes
    <3> QED
      BY <1>1, <1>3, <1>12, <3>1 DEF Take, Shapes
  <2>4. g.at = "take" /\ g.temp = Append(fr.temp, x) /\ <<g>> # <<>> /\ <<g>>[1] = g
    BY <1>4, <2>1 DEF Frame
  <2>5. frame'[p] = <<g>> /\ buffer'[p] = leaveFront(buffer[p])
    BY <1>1, <2>3 DEF Shapes
  <2> HIDE DEF g, x
  <2>6. Held(p)' = Append(fr.temp, x) /\ Adding(p)' = <<>> /\ Adding(p) = <<>>
    BY <1>6, <2>1, <2>4, <2>5 DEF Held, Adding
  <2>7. Values(buffer[p])' = Tail(B)
    BY <2>2, <2>5
  <2> HIDE DEF B
  <2>8. fr.temp \o B = Append(fr.temp, x) \o Tail(B)
    <3>1. fr.temp \o B = Append(fr.temp, B[1]) \o Tail(B)
      BY <1>4, <2>1, <2>2, Moves
    <3> QED
      BY <2>2, <3>1
  <2>9. Air(p) = (fr.temp \o B) \o <<>> \o Coming(p) \o todo[Other(p)]
    BY <1>6, <2>6 DEF Air, B
  <2>10. Air(p)' = (Append(fr.temp, x) \o Tail(B)) \o <<>> \o Coming(p) \o todo[Other(p)]
    BY <1>7, <2>6, <2>7 DEF Air
  <2>11. \A r \in Peer : r # p => frame'[r] = frame[r] /\ buffer'[r] = buffer[r]
    BY <1>1, <2>3 DEF Shapes
  <2> QED
    BY <1>8, <1>9, <2>3, <2>8, <2>9, <2>10, <2>11
<1>13. CASE Finish(p)
  <2> DEFINE H == Hears(p)
  <2>1. PICK X \in Seq(Char) : Brings(p, X)
    BY <1>1 DEF StreamInv
  <2>2. /\ fr.at = "take" /\ Values(buffer[p]) = <<>>
        /\ PickedUp(fr.temp, Coming(p) \o todo[Other(p)], X)
    BY <1>3, <1>13, <2>1, TakenChar
  <2>4. PICK t : t = Coming(p) \o todo[Other(p)]
    OBVIOUS
  <2>6. PICK c \in Char, Y \in Seq(Char) :
          /\ c = X[1] /\ Y = Tail(X) /\ X # <<>>
          /\ fr.temp = convert(c) /\ t = Bits(Y) /\ X = <<c>> \o Y
          /\ Y # <<>> => Y[Len(Y)] = X[Len(X)]
          /\ Y = <<>> => X[Len(X)] = c
    BY <2>2, <2>4 DEF PickedUp
  <2>7. convertBack(fr.temp) = c /\ (AllOnes(fr.temp) <=> c = 255)
    <3>1. convertBack(convert(c)) = c /\ (AllOnes(convert(c)) <=> c = 255)
      BY CharBack
    <3> QED
      BY <2>6, <3>1
  <2>8. H \in Reader /\ H.said = printed[p] /\ H.open = Values(message[p])
    BY <1>1 DEF StreamInv, Hears
  <2>9. frame' = [frame EXCEPT ![p] = <<>>]
    BY <1>3, <1>13 DEF Finish, Return
  <2>10. frame'[p] = <<>> /\ \A r \in Peer : r # p => frame'[r] = frame[r]
    BY <1>1, <2>9 DEF Shapes
  <2>11. GoodSqueue(message[p], 0 .. 255) /\ print(message[p]) = Values(message[p])
    BY <1>1, PrintIsValues DEF TypeInv
  <2>12. Values(initSqueue) = <<>>
    BY InitSqueue
  <2>13. /\ Hears(p)' = Heard(H, c)
         /\ Values(buffer[p])' = <<>>
         /\ \A r \in Peer : r # p =>
              /\ buffer'[r] = buffer[r] /\ message'[r] = message[r]
              /\ printed'[r] = printed[r]
    <3> DEFINE line == print(message[p])
    <3>1. CASE c = 255
      <4>1. /\ buffer' = [buffer EXCEPT ![p] = initSqueue]
            /\ message' = [message EXCEPT ![p] = initSqueue]
            /\ printed' = [printed EXCEPT ![p] =
                             IF line = <<>> THEN printed[p] ELSE Append(printed[p], line)]
        BY <1>3, <1>13, <2>7, <3>1 DEF Finish, nuke
      <4> HIDE DEF line
      <4>2. /\ buffer'[p] = initSqueue /\ message'[p] = initSqueue
            /\ printed'[p] = IF line = <<>> THEN printed[p] ELSE Append(printed[p], line)
            /\ \A r \in Peer : r # p =>
                 /\ buffer'[r] = buffer[r] /\ message'[r] = message[r]
                 /\ printed'[r] = printed[r]
        BY <1>1, <4>1 DEF TypeInv, TypeOK
      <4>3. line = H.open
        BY <2>8, <2>11 DEF line
      <4>4. Hears(p)' = Heard(H, c)
        BY <2>8, <2>12, <3>1, <4>2, <4>3 DEF Hears, Heard
      <4> QED
        BY <2>12, <4>2, <4>4
    <3>2. CASE c # 255
      <4>1. /\ message' = [message EXCEPT ![p] = addBack(message[p], c)]
            /\ UNCHANGED <<buffer, printed>>
        BY <1>3, <1>13, <2>7, <3>2 DEF Finish
      <4>2. /\ message'[p] = addBack(message[p], c)
            /\ \A r \in Peer : r # p => message'[r] = message[r]
        BY <1>1, <4>1 DEF TypeInv, TypeOK
      <4>3. Values(message[p])' = Append(H.open, c)
        <5>1. c \in 0 .. 255
          BY DEF Char
        <5>2. Values(addBack(message[p], c)) = Append(Values(message[p]), c)
          BY <2>11, <5>1, AddBackLinked, ZenonT(30)
        <5> QED
          BY <2>8, <4>2, <5>2
      <4>4. Hears(p)' = Heard(H, c)
        BY <2>8, <3>2, <4>1, <4>3 DEF Hears, Heard
      <4> QED
        BY <2>2, <4>1, <4>2, <4>4
    <3> QED
      BY <3>1, <3>2
  <2>14. Air(p)' = Bits(Y)
    <3>1. Held(p)' = <<>> /\ Adding(p)' = <<>>
      BY <2>10 DEF Held, Adding
    <3>2. Air(p)' = <<>> \o <<>> \o <<>> \o Coming(p) \o todo[Other(p)]
      BY <1>7, <2>13, <3>1 DEF Air
    <3>3. <<>> \o <<>> = <<>>
      OBVIOUS
    <3>4. <<>> \o Coming(p) = Coming(p)
      BY AirType, ConcatEmptySeq
    <3> QED
      BY <2>4, <2>6, <3>2, <3>3, <3>4
  <2>15. Y = <<>> => Values(message[p])' = <<>>
    <3>1. Y = <<>> => c = 255
      BY <2>1, <2>6 DEF Brings
    <3>2. c = 255 => Heard(H, c).open = <<>>
      BY DEF Heard
    <3>3. Hears(p)'.open = Values(message[p])'
      BY DEF Hears
    <3> QED
      BY <2>13, <3>1, <3>2, <3>3
  <2>16. Hearing(Heard(H, c), Y) = Log(Sent(Other(p)))
    <3>1. Hearing(H, X) = Log(Sent(Other(p)))
      BY <2>1 DEF Brings
    <3>2. <<c>> \in Seq(Char)
      OBVIOUS
    <3> HIDE DEF H
    <3>3. Hearing(H, <<c>> \o Y) = Hearing(Hearing(H, <<c>>), Y)
      BY <2>8, <3>2, HearingConcat
    <3>4. Hearing(H, <<c>>) = Heard(H, c)
      BY <2>8, HearingOne
    <3> QED
      BY <2>6, <3>1, <3>3, <3>4
  <2>17. Heard(H, c) \in Reader
    BY <2>8, HeardType
  <2>18. Brings(p, Y)'
    <3>1. Log(Sent(Other(p)))' = Log(Sent(Other(p)))
      BY <1>2 DEF Sent, Unsent, Other
    <3>2. Y # <<>> => Y[Len(Y)] = 255
      BY <2>1, <2>6 DEF Brings
    <3>3. Plain(p)' => EndOnly(Y)
      BY <1>a, <2>1, <2>6, TailEndOnly DEF Brings
    <3> QED
      BY <2>13, <2>14, <2>15, <2>16, <3>1, <3>2, <3>3 DEF Brings
  <2>19. StreamInv(p)'
    BY <2>13, <2>17, <2>18 DEF StreamInv
  <2> QED
    BY <1>8, <2>10, <2>13, <2>19
<1> QED
  BY <1>10, <1>11, <1>12, <1>13 DEF Handler

LEMMA StreamsStep ==
  ASSUME StreamsInv, Paced, [Next]_vars,
         \A p \in Peer : Reset(p) => Air(Other(p)) = <<>>
  PROVE  StreamsInv'
<1>1. TypeInv'
  BY TypeStep DEF StreamsInv
<1>2. InStepInv'
  BY InStepStep DEF StreamsInv
<1>3. \A q \in Peer : LineInv(q)' /\ StreamInv(q)'
  <2>1. CASE UNCHANGED vars
    <3>1. \A q \in Peer : Air(q)' = Air(q) /\ Sent(q)' = Sent(q) /\ LineInv(q)'
      BY <2>1 DEF vars, main, recv, Air, Held, Adding, Coming, Other, Sent, Unsent, LineInv,
                  StreamsInv
    <3>2. \A q \in Peer : Plain(q)' => Plain(q)
      BY <2>1, SamePlain DEF vars, main
    <3> QED
      BY <2>1, <3>1, <3>2, Others, SameStream DEF vars, recv, StreamsInv
  <2>2. ASSUME NEW p \in Peer, Main(p) \/ Type(p) \/ Deliver(p) \/ Handler(p)
        PROVE  \A q \in Peer : LineInv(q)' /\ StreamInv(q)'
    BY <2>2, QuietStream, SendStream, ResetStream, DeliverStream, HandlerStream DEF Main
  <2> QED
    BY <2>1, <2>2 DEF Next
<1> QED
  BY <1>1, <1>2, <1>3 DEF StreamsInv

LEMMA StreamsInit ==
  ASSUME Init
  PROVE  StreamsInv
<1>1. Values(initSqueue) = <<>>
  BY InitSqueue
<1>2. TypeInv
  BY TypeInit
<1>3. InStepInv
  BY InStepInit
<1>4. ASSUME NEW p \in Peer
      PROVE  LineInv(p) /\ StreamInv(p)
  <2>1. /\ pc[p] = "top" /\ input[p] = <<>> /\ todo[p] = <<>>
        /\ frame[p] = <<>> /\ pend[p] = {} /\ buffer[p] = initSqueue
        /\ message[p] = initSqueue /\ printed[p] = <<>>
    BY DEF Init
  <2>2. todo[Other(p)] = <<>> /\ Sent(Other(p)) = <<>>
    BY Others DEF Init, Sent, Unsent
  <2>3. Air(p) = <<>>
    <3>1. Air(p) = <<>> \o <<>> \o <<>> \o <<>> \o <<>>
      BY <1>1, <2>1, <2>2 DEF Air, Held, Adding, Coming
    <3> QED
      BY <3>1
  <2>4. <<>> \in Seq(Char) /\ Bits(<<>>) = <<>>
    <3> DEFINE none == <<>>
    <3>1. none \in Seq(Char) /\ Len(none) = 0 /\ 8 * 0 = 0
      OBVIOUS
    <3> HIDE DEF none
    <3>2. Bits(none) \in Seq(Bit) /\ Len(Bits(none)) = 0
      BY <3>1, BitsType
    <3>3. Bits(none) = <<>>
      BY <3>2
    <3> QED
      BY <3>1, <3>3 DEF none
  <2>5. Hears(p) = Blank /\ Blank \in Reader /\ Log(<<>>) = Blank
    <3>1. <<>> \in Seq(Seq(Char))
      OBVIOUS
    <3>2. Blank \in Reader
      BY <2>4, <3>1 DEF Blank, Reader
    <3> QED
      BY <1>1, <2>1, <3>2, LogNone DEF Hears, Blank
  <2>6. Hearing(Hears(p), <<>>) = Log(Sent(Other(p)))
    BY <2>2, <2>5, HearingNone
  <2>7. Brings(p, <<>>)
    <3>1. EndOnly(<<>>)
      BY DEF EndOnly
    <3> QED
      BY <1>1, <2>1, <2>3, <2>4, <2>6, <3>1 DEF Brings
  <2> QED
    BY <2>1, <2>4, <2>5, <2>7 DEF LineInv, StreamInv
<1> QED
  BY <1>2, <1>3, <1>4 DEF StreamsInv

-----------------------------------------------------------------------------
(* The arbitration: of the two peers at most one sends, or is about to.       *)

\* Something that is meant for peer q, or left of it, is at q.
Busy(q) == pend[q] # {} \/ frame[q] # <<>> \/ ~Idle(q)

\* p sends to q, or q has not done with what p sent.
Speaks(p, q) == pc[p] = "reset" \/ todo[p] # <<>> \/ Busy(q)

\* The next test of the queues lets p send.
Ready(p) ==
  /\ frame[p] = <<>> /\ Idle(p)
  /\ pc[p] = "check" \/ (pc[p] = "top" /\ input[p] # <<>>)

Acts(p, q) == Speaks(p, q) \/ Ready(p)

\* A peer acts alone; it does not come near the test of the queues before the other
\* has done with its line; it sends a line with an end mark inside only to a peer
\* that waits for its user; and no pause of a line is cut short.
Arb(p, q) ==
  /\ Acts(p, q) => ~Acts(q, p)
  /\ Busy(q) => pc[p] \in {"send", "input"} \/ (pc[p] = "top" /\ input[p] = <<>>)
  /\ Marked(input[p]) => pc[q] = "input"
  /\ woken[p] /\ todo[p] # <<>> => pend[q] = {} /\ frame[q] = <<>>

ArbInv == \A p, q \in Peer : p # q => Arb(p, q)

TurnsInv == StreamsInv /\ ArbInv

LEMMA BothPeers ==
  ASSUME NEW p \in Peer, NEW q \in Peer, p # q
  PROVE  Other(p) = q /\ Other(q) = p /\ \A r \in Peer : r = p \/ r = q
  BY Others, TwoPeers

\* Two peers are all there are.
LEMMA ArbTwo ==
  ASSUME NEW p \in Peer, \A q \in Peer : q # p => Arb(p, q)' /\ Arb(q, p)'
  PROVE  ArbInv'
<1> SUFFICES ASSUME NEW r \in Peer, NEW q \in Peer, r # q
             PROVE  Arb(r, q)'
  BY DEF ArbInv
<1>1. r = p \/ q = p
  BY BothPeers
<1> QED
  BY <1>1

\* What a guard finds while the invariant holds.
LEMMA PacedHere ==
  ASSUME TurnsInv
  PROVE  Paced
<1>1. ASSUME NEW p \in Peer, SendBit(p)
      PROVE  InTime(Other(p), SignalOf(Head(todo[p])))
  <2>1. PICK q \in Peer : q = Other(p) /\ q # p
    BY Others
  <2>2. todo[p] # <<>> /\ (woken[p] \/ InTime(q, SignalOf(Head(todo[p]))))
    BY <1>1, <2>1 DEF SendBit
  <2>3. CASE woken[p]
    <3>1. pend[q] = {} /\ frame[q] = <<>>
      BY <2>1, <2>2, <2>3 DEF TurnsInv, ArbInv, Arb
    <3>2. DOMAIN <<>> = {}
      OBVIOUS
    <3> QED
      BY <2>1, <3>1, <3>2 DEF InTime
  <2> QED
    BY <2>1, <2>2, <2>3
<1>2. ASSUME NEW p \in Peer, Deliver(p)
      PROVE  pc[p] # "reset"
  <2>1. PICK q \in Peer : q = Other(p) /\ q # p
    BY Others
  <2>2. pend[p] # {}
    BY <1>2 DEF Deliver
  <2>3. Acts(q, p) /\ Arb(q, p)
    BY <2>1, <2>2 DEF TurnsInv, ArbInv, Acts, Speaks, Busy
  <2> QED
    BY <2>3 DEF Arb, Acts, Speaks
<1> QED
  BY <1>1, <1>2 DEF Paced

\* When a peer begins to send, nothing it sent before is still on its way.
LEMMA ResetAir ==
  ASSUME TurnsInv, NEW p \in Peer, pc[p] = "reset"
  PROVE  Air(Other(p)) = <<>>
<1>1. PICK q \in Peer : q = Other(p) /\ q # p /\ Other(q) = p
  BY Others, TwoPeers
<1>2. ~Busy(q)
  BY <1>1 DEF TurnsInv, ArbInv, Arb
<1>3. pend[q] = {} /\ frame[q] = <<>> /\ isEmpty(buffer[q])
  BY <1>2 DEF Busy, Idle
<1>4. Values(buffer[q]) = <<>>
  BY <1>3, EmptyMeans DEF TurnsInv, StreamsInv, TypeInv
<1>5. todo[p] = <<>>
  BY DEF TurnsInv, StreamsInv, LineInv
<1>6. Air(q) = <<>> \o <<>> \o <<>> \o <<>> \o <<>>
  BY <1>1, <1>3, <1>4, <1>5 DEF Air, Held, Adding, Coming
<1> QED
  BY <1>1, <1>6

LEMMA TopArb ==
  ASSUME TurnsInv, NEW p \in Peer, Top(p) \/ Check(p)
  PROVE  ArbInv'
<1> SUFFICES ASSUME NEW q \in Peer, q # p
             PROVE  Arb(p, q)' /\ Arb(q, p)'
  BY ArbTwo
<1> USE DEF main, recv, At
<1>1. /\ frame[p] = <<>>
      /\ UNCHANGED <<input, todo, pend, woken, frame>>
      /\ \A r \in Peer : Idle(r)' = Idle(r)
      /\ \A r \in Peer : Marked(input[r])' = Marked(input[r])
  BY DEF Top, Check, Idle, Marked
<1>2. /\ pc'[q] = pc[q]
      /\ \/ pc[p] = "top" /\ pc'[p] = IF input[p] = <<>> /\ Idle(p) THEN "input" ELSE "check"
         \/ pc[p] = "check" /\ pc'[p] = IF Idle(p) THEN "reset" ELSE "top"
  BY DEF TurnsInv, StreamsInv, TypeInv, TypeOK, Top, Check
<1>3. Arb(p, q) /\ Arb(q, p)
  BY DEF TurnsInv, ArbInv
<1>4. Busy(p)' = Busy(p) /\ Busy(q)' = Busy(q)
  BY <1>1 DEF Busy
<1>5. Ready(q)' = Ready(q)
  BY <1>1, <1>2 DEF Ready
<1>6. Busy(p) \/ Idle(p)
  BY DEF Busy
<1>7. pc'[p] = "reset" => Ready(p)
  BY <1>1, <1>2 DEF Ready
<1>8. Ready(p)' => Ready(p)
  BY <1>1, <1>2 DEF Ready
<1>9. Arb(p, q)'
  BY <1>1, <1>2, <1>3, <1>4, <1>5, <1>6, <1>7, <1>8 DEF Arb, Acts, Speaks
<1>10. Arb(q, p)'
  BY <1>1, <1>2, <1>3, <1>4, <1>5, <1>6, <1>7, <1>8 DEF Arb, Acts, Speaks
<1> QED
  BY <1>9, <1>10

LEMMA SendArb ==
  ASSUME TurnsInv, NEW p \in Peer, Reset(p) \/ SendBit(p) \/ SendOver(p)
  PROVE  ArbInv'
<1> SUFFICES ASSUME NEW q \in Peer, q # p
             PROVE  Arb(p, q)' /\ Arb(q, p)'
  BY ArbTwo
<1> USE DEF main, recv, At
<1>1. /\ frame[p] = <<>> /\ UNCHANGED frame
      /\ \A r \in Peer : Idle(r)' = Idle(r)
  BY DEF Reset, SendBit, SendOver, Idle
<1>2. /\ pc'[q] = pc[q] /\ todo'[q] = todo[q] /\ pend'[p] = pend[p]
      /\ input'[q] = input[q] /\ woken'[q] = woken[q]
      /\ Marked(input[q])' = Marked(input[q])
  BY BothPeers DEF TurnsInv, StreamsInv, TypeInv, TypeOK, Reset, SendBit, SendOver, Marked
<1>3. Arb(p, q) /\ Arb(q, p)
  BY DEF TurnsInv, ArbInv
<1>4. Busy(p)' = Busy(p) /\ Ready(q)' = Ready(q)
  BY <1>1, <1>2 DEF Busy, Ready
<1>5. CASE Reset(p)
  <2>1. /\ pc[p] = "reset" /\ pc'[p] = "send" /\ pend' = pend /\ input' = input
        /\ woken' = woken /\ Marked(input[p])' = Marked(input[p])
    BY <1>5 DEF TurnsInv, StreamsInv, TypeInv, TypeOK, Reset, Marked
  <2>2. Busy(q)' = Busy(q) /\ ~Busy(q)
    BY <1>1, <1>3, <2>1 DEF Arb, Busy
  <2>3. ~Ready(p)'
    BY <2>1 DEF Ready
  <2>4. Speaks(p, q) /\ ~Acts(q, p) /\ Acts(q, p)' = Acts(q, p)
    BY <1>2, <1>3, <1>4, <2>1 DEF Speaks, Acts, Arb
  <2>5. Arb(p, q)'
    BY <1>1, <1>2, <1>3, <2>1, <2>2, <2>3, <2>4 DEF Arb, Busy
  <2>6. Arb(q, p)'
    BY <1>1, <1>2, <1>3, <1>4, <2>1, <2>4 DEF Arb
  <2> QED
    BY <2>5, <2>6
<1>6. CASE SendBit(p)
  <2>1. /\ pc[p] = "send" /\ pc' = pc /\ todo[p] # <<>> /\ input' = input
        /\ ~woken'[p] /\ Marked(input[p])' = Marked(input[p])
    BY <1>6 DEF TurnsInv, StreamsInv, TypeInv, TypeOK, SendBit, Marked
  <2>2. Speaks(p, q) /\ ~Acts(q, p) /\ Acts(q, p)' = Acts(q, p)
    BY <1>2, <1>3, <1>4, <2>1 DEF Speaks, Acts, Arb
  <2>3. Arb(p, q)'
    BY <1>1, <1>2, <1>3, <2>1, <2>2 DEF Arb
  <2>4. todo[q] = <<>>
    BY <2>2 DEF Acts, Speaks
  <2>5. Arb(q, p)'
    BY <1>1, <1>2, <1>3, <1>4, <2>1, <2>2, <2>4 DEF Arb
  <2> QED
    BY <2>3, <2>5
<1>7. CASE SendOver(p)
  <2>1. /\ pc[p] = "send" /\ pc'[p] = "top" /\ todo' = todo /\ todo[p] = <<>>
        /\ pend' = pend /\ woken' = woken /\ input'[p] = <<>>
    BY <1>7 DEF TurnsInv, StreamsInv, TypeInv, TypeOK, SendOver
  <2>2. ~Marked(input[p])' /\ ~Ready(p)' /\ Busy(q)' = Busy(q)
    BY <1>1, <2>1 DEF Marked, Ready, Busy
  <2>3. Acts(q, p)' = Acts(q, p)
    BY <1>2, <1>4, <2>1 DEF Acts, Speaks
  <2>4. Acts(p, q)' => Acts(p, q)
    BY <2>1, <2>2 DEF Acts, Speaks
  <2>5. Arb(p, q)'
    BY <1>1, <1>3, <2>1, <2>2, <2>3, <2>4 DEF Arb
  <2>6. Arb(q, p)'
    BY <1>1, <1>2, <1>3, <1>4, <2>1, <2>3, <2>4 DEF Arb
  <2> QED
    BY <2>5, <2>6
<1> QED
  BY <1>5, <1>6, <1>7

LEMMA TypeArb ==
  ASSUME TurnsInv, Turns, NEW p \in Peer, Type(p)
  PROVE  ArbInv'
<1> SUFFICES ASSUME NEW q \in Peer, q # p
             PROVE  Arb(p, q)' /\ Arb(q, p)'
  BY ArbTwo
<1> USE DEF main, recv, At
<1>0. Other(p) = q
  BY BothPeers
<1>1. /\ UNCHANGED <<todo, pend, woken, frame>>
      /\ \A r \in Peer : Idle(r)' = Idle(r)
  BY DEF Type, Idle
<1>2. PICK line \in Lines : InTurn(p, line) /\ input'[p] = line
  BY DEF TurnsInv, StreamsInv, TypeInv, TypeOK, Type
<1>3. /\ pc[p] = "input" /\ frame[p] = <<>> /\ pc'[p] = "check" /\ pc'[q] = pc[q]
      /\ input'[q] = input[q] /\ Marked(input[q])' = Marked(input[q])
      /\ Marked(input[p])' = Marked(line)
  BY <1>2 DEF TurnsInv, StreamsInv, TypeInv, TypeOK, Type, Marked
<1>4. Arb(p, q) /\ Arb(q, p) /\ todo[p] = <<>> /\ (pc[q] # "send" => todo[q] = <<>>)
  BY <1>3 DEF TurnsInv, ArbInv, StreamsInv, LineInv
<1>5. Busy(p)' = Busy(p) /\ Busy(q)' = Busy(q) /\ Ready(q)' = Ready(q)
  BY <1>1, <1>3 DEF Busy, Ready
<1>6. (Acts(q, p)' <=> Acts(q, p)) /\ (Speaks(p, q)' <=> Busy(q))
  <2>1. Speaks(q, p)' <=> Speaks(q, p)
    BY <1>1, <1>3, <1>5 DEF Speaks
  <2>2. Speaks(p, q)' <=> Busy(q)
    BY <1>1, <1>3, <1>4, <1>5 DEF Speaks
  <2> QED
    BY <1>5, <2>1, <2>2 DEF Acts
<1>7. ~Busy(q) /\ (Ready(p)' => ~Acts(q, p)) /\ (Marked(line) => pc[q] = "input")
      /\ ~Marked(input[q])
  <2>1. CASE Silent(p) /\ (Marked(line) => pc[q] = "input")
    <3>1. /\ pc[q] \in {"top", "input"} /\ input[q] = <<>>
          /\ ~Busy(p) /\ ~Busy(q)
      BY <1>0, <2>1 DEF Silent, Busy
    <3>2. ~Marked(input[q])
      BY <3>1 DEF Marked
    <3>3. ~Acts(q, p)
      BY <1>4, <3>1 DEF Acts, Speaks, Ready
    <3> QED
      BY <2>1, <3>1, <3>2, <3>3
  <2>2. CASE Receiving(p) /\ ~Marked(line)
    <3>1. ~Idle(p) /\ Busy(p) /\ ~Marked(input[q])
      BY <1>0, <2>2 DEF Receiving, Busy
    <3>2. ~Ready(p)'
      BY <1>1, <3>1 DEF Ready
    <3>3. ~Busy(q)
      BY <1>4, <3>1 DEF Arb, Acts, Speaks
    <3> QED
      BY <2>2, <3>1, <3>2, <3>3
  <2> QED
    BY <1>0, <1>2, <2>1, <2>2 DEF InTurn
<1>8. Arb(p, q)'
  BY <1>1, <1>3, <1>4, <1>5, <1>6, <1>7 DEF Arb, Acts
<1>9. Arb(q, p)'
  BY <1>1, <1>3, <1>4, <1>5, <1>6, <1>7 DEF Arb, Acts
<1> QED
  BY <1>8, <1>9

LEMMA DeliverArb ==
  ASSUME TurnsInv, NEW p \in Peer, Deliver(p)
  PROVE  ArbInv'
<1> SUFFICES ASSUME NEW q \in Peer, q # p
             PROVE  Arb(p, q)' /\ Arb(q, p)'
  BY ArbTwo
<1> USE DEF main, recv
<1>1. /\ UNCHANGED <<pc, input, todo>> /\ pend[p] # {}
      /\ \A r \in Peer : Idle(r)' = Idle(r)
      /\ \A r \in Peer : Marked(input[r])' = Marked(input[r])
  BY DEF Deliver, Idle, Marked
<1>2. pend'[q] = pend[q] /\ frame'[q] = frame[q] /\ woken'[q] = woken[q]
  BY DEF TurnsInv, StreamsInv, TypeInv, TypeOK, Deliver
<1>3. frame'[p] # <<>>
  <2>1. PICK fr : frame' = [frame EXCEPT ![p] = Append(frame[p], fr)]
    BY DEF Deliver
  <2>2. frame'[p] = Append(frame[p], fr) /\ frame[p] \in Seq(Frame)
    BY <2>1 DEF TurnsInv, StreamsInv, TypeInv, TypeOK
  <2>3. Len(Append(frame[p], fr)) = Len(frame[p]) + 1 /\ Len(frame[p]) \in Nat
    BY <2>2
  <2> QED
    BY <2>2, <2>3
<1>4. Arb(p, q) /\ Arb(q, p)
  BY DEF TurnsInv, ArbInv
<1>5. Busy(p) /\ Busy(p)' /\ Busy(q)' = Busy(q) /\ Ready(q)' = Ready(q) /\ ~Ready(p)'
  BY <1>1, <1>2, <1>3 DEF Busy, Ready
<1>6. Acts(q, p) /\ ~Acts(p, q) /\ ~Acts(p, q)'
  BY <1>1, <1>4, <1>5 DEF Acts, Speaks, Arb
<1>7. todo[p] = <<>> /\ ~(woken[q] /\ todo[q] # <<>>)
  BY <1>1, <1>4, <1>6 DEF Arb, Acts, Speaks
<1>8. Arb(p, q)'
  BY <1>1, <1>2, <1>4, <1>5, <1>6, <1>7 DEF Arb
<1>9. Arb(q, p)'
  BY <1>1, <1>2, <1>4, <1>5, <1>6, <1>7 DEF Arb
<1> QED
  BY <1>8, <1>9

\* A handler that ends a line it has been sent has its last signal, unless the line has
\* an end mark inside; then its peer waits for its user.
LEMMA LastMark ==
  ASSUME TurnsInv, NEW p \in Peer, NEW q \in Peer, q # p, Finish(p),
         AllOnes(Last(frame[p]).temp)
  PROVE  pc[p] = "input" \/ (pend[p] = {} /\ todo[q] = <<>>)
<1>1. Other(p) = q /\ Arb(q, p)
  BY BothPeers DEF TurnsInv, ArbInv
<1>2. StreamsInv /\ Single(p) /\ frame[p] # <<>>
  BY DEF TurnsInv, StreamsInv, InStepInv, Finish, Running
<1>3. PICK fr \in Frame : frame[p] = <<fr>> /\ Last(frame[p]) = fr
  BY <1>2, OneFrame DEF StreamsInv, InStepInv
<1>4. PICK X \in Seq(Char) : Brings(p, X)
  BY <1>2 DEF StreamsInv, StreamInv
<1>5. PickedUp(fr.temp, Coming(p) \o todo[q], X)
  BY <1>1, <1>2, <1>3, <1>4, TakenChar
<1>6. PICK c \in Char, Y \in Seq(Char) :
        /\ c = X[1] /\ Y = Tail(X) /\ X # <<>>
        /\ fr.temp = convert(c) /\ Coming(p) \o todo[q] = Bits(Y)
  BY <1>5 DEF PickedUp
<1>7. c = 255
  BY <1>3, <1>6, CharBack
<1>8. Coming(p) \in Seq(Bit) /\ todo[q] \in Seq(Bit)
  BY <1>1, <1>2, AirType
<1>9. Len(Coming(p)) + Len(todo[q]) = 8 * Len(Y) /\ Len(Y) \in Nat
  <2>1. Len(Bits(Y)) = 8 * Len(Y) /\ Len(Y) \in Nat
    BY BitsType
  <2>2. Len(Coming(p) \o todo[q]) = Len(Coming(p)) + Len(todo[q])
    BY <1>8
  <2> QED
    BY <1>6, <2>1, <2>2
<1>10. Len(Coming(p)) \in Nat /\ Len(todo[q]) \in Nat /\ Len(Coming(p)) <= 1
       /\ (pend[p] # {} => Len(Coming(p)) = 1)
  <2>1. \A x : Len(<<x>>) = 1
    OBVIOUS
  <2>2. Len(<<>>) = 0
    OBVIOUS
  <2> QED
    BY <1>8, <2>1, <2>2 DEF Coming
<1>11. ASSUME Len(Y) = 0
       PROVE  pend[p] = {} /\ todo[q] = <<>>
  <2>1. Len(Coming(p)) = 0 /\ Len(todo[q]) = 0
    BY <1>9, <1>10, <1>11
  <2> QED
    BY <1>8, <1>10, <2>1
<1>12. CASE Marked(input[q])
  BY <1>1, <1>12 DEF Arb
<1>13. CASE ~Marked(input[q]) /\ pc[q] = "send"
  <2>1. EndOnly(X)
    BY <1>1, <1>4, <1>13 DEF Brings, Plain
  <2>2. Len(Y) = Len(X) - 1 /\ Len(X) \in Nat
    BY <1>6
  <2>3. Len(Y) = 0
    <3> SUFFICES ASSUME Len(Y) # 0
                 PROVE  FALSE
      OBVIOUS
    <3>1. 1 \in 1 .. Len(X) - 1
      BY <1>9, <2>2
    <3>2. X[1] # 255
      BY <2>1, <3>1 DEF EndOnly
    <3> QED
      BY <1>6, <1>7, <3>2
  <2> QED
    BY <1>11, <2>3
<1>14. CASE pc[q] # "send"
  <2>1. todo[q] = <<>>
    BY <1>14 DEF TurnsInv, StreamsInv, LineInv
  <2>2. Len(todo[q]) = 0
    BY <2>1
  <2>3. Len(Y) = 0
    BY <1>9, <1>10, <2>2
  <2> QED
    BY <1>11, <2>3
<1> QED
  BY <1>12, <1>13, <1>14

\* What a step of the handler leaves: the call is still open, or the queues are not
\* empty, or the line was over.
LEMMA HandlerLeaves ==
  ASSUME TurnsInv, NEW p \in Peer, NEW q \in Peer, q # p, Handler(p)
  PROVE  \/ frame'[p] # <<>>
         \/ ~Idle(p)'
         \/ pc[p] = "input"
         \/ pend[p] = {} /\ todo[q] = <<>>
<1>1. Shapes /\ TypeInv /\ Single(p) /\ Counts(p) /\ frame[p] # <<>>
  BY DEF TurnsInv, StreamsInv, InStepInv, Handler, Add, Count, Take, Finish, Running
<1>2. PICK fr \in Frame :
        /\ frame[p] = <<fr>> /\ Last(frame[p]) = fr /\ Len(frame[p]) = 1
        /\ Front(frame[p]) = <<>>
        /\ \A place : [frame[p] EXCEPT ![1].at = place] = <<[fr EXCEPT !.at = place]>>
        /\ \A x : [frame[p] EXCEPT ![1].temp = x] = <<[fr EXCEPT !.temp = x]>>
  BY <1>1, OneFrame
<1>3. \A x : <<x>> # <<>>
  OBVIOUS
<1>4. CASE Add(p) \/ Take(p)
  <2>1. \E g : frame' = [frame EXCEPT ![p] = <<g>>]
    <3>1. CASE Add(p)
      <4>1. frame' = [frame EXCEPT ![p] = [frame[p] EXCEPT ![1].at = "count"]]
        BY <1>2, <3>1 DEF Add, GoOn
      <4>2. frame' = [frame EXCEPT ![p] = <<[fr EXCEPT !.at = "count"]>>]
        BY <1>2, <4>1
      <4> QED
        BY <4>2
    <3>2. CASE Take(p)
      <4>1. PICK x : x = Append(fr.temp, peekFront(buffer[p]))
        OBVIOUS
      <4>2. frame' = [frame EXCEPT ![p] = [frame[p] EXCEPT ![1].temp = x]]
        BY <1>2, <3>2, <4>1 DEF Take
      <4>3. frame' = [frame EXCEPT ![p] = <<[fr EXCEPT !.temp = x]>>]
        BY <1>2, <4>2
      <4> QED
        BY <4>3
    <3> QED
      BY <1>4, <3>1, <3>2
  <2> QED
    BY <1>1, <1>3, <2>1 DEF Shapes
<1>5. CASE Count(p)
  <2>1. GoOn(p, "take") \/ Return(p)
    BY <1>5 DEF Count
  <2>2. fr.at = "count" /\ buffer' = buffer
    BY <1>2, <1>5 DEF Count, Running
  <2>3. counter[p] + 1 = Queued(p) /\ counter[p] \in Nat
    BY <1>1, <1>2, <2>2 DEF Counts, Agrees, Shapes
  <2>4. ~isEmpty(buffer[p])
    <3>1. GoodSqueue(buffer[p], Bit)
      BY <1>1 DEF Shapes
    <3> QED
      BY <2>3, <3>1, EmptyMeans DEF Queued
  <2> QED
    BY <2>2, <2>4 DEF Idle
<1>6. CASE Finish(p)
  <2>1. CASE AllOnes(Last(frame[p]).temp)
    BY <1>6, <2>1, LastMark
  <2>2. CASE ~AllOnes(Last(frame[p]).temp)
    <3> DEFINE c == convertBack(fr.temp)
    <3>1. message' = [message EXCEPT ![p] = addBack(message[p], c)]
      BY <1>2, <1>6, <2>2 DEF Finish
    <3>2. GoodSqueue(message[p], 0 .. 255) /\ c \in 0 .. 255
      <4>1. fr.temp \in Seq(Bit) /\ Len(fr.temp) = 8
        BY <1>2, <1>6 DEF Finish, Frame
      <4> QED
        BY <1>1, <4>1, SumType DEF TypeInv
    <3> HIDE DEF c
    <3>3. message'[p] = addBack(message[p], c)
      BY <1>1, <3>1 DEF TypeInv
    <3>4. /\ GoodSqueue(addBack(message[p], c), 0 .. 255)
          /\ Values(addBack(message[p], c)) = Append(Values(message[p]), c)
      BY <3>2, AddBackLinked, ZenonT(30)
    <3>5. Values(message[p]) \in Seq(0 .. 255)
      BY <3>2, ValuesType
    <3>6. Append(Values(message[p]), c) # <<>>
      BY <3>5
    <3>7. ~isEmpty(message'[p])
      BY <3>3, <3>4, <3>6, EmptyMeans
    <3> QED
      BY <3>7 DEF Idle
  <2> QED
    BY <2>1, <2>2
<1> QED
  BY <1>4, <1>5, <1>6 DEF Handler

LEMMA HandlerArb ==
  ASSUME TurnsInv, NEW p \in Peer, Handler(p)
  PROVE  ArbInv'
<1> SUFFICES ASSUME NEW q \in Peer, q # p
             PROVE  Arb(p, q)' /\ Arb(q, p)'
  BY ArbTwo
<1> USE DEF main, recv
<1>1. /\ UNCHANGED <<pc, input, todo, pend, woken>> /\ frame[p] # <<>>
      /\ \A r \in Peer : Marked(input[r])' = Marked(input[r])
  BY DEF Handler, Add, Count, Take, Finish, Running, Marked
<1>2. frame'[q] = frame[q] /\ Idle(q)' = Idle(q)
  BY DEF TurnsInv, StreamsInv, TypeInv, TypeOK, Handler, Add, Count, Take, Finish, GoOn,
         Return, Idle
<1>3. Arb(p, q) /\ Arb(q, p)
  BY DEF TurnsInv, ArbInv
<1>4. Busy(p) /\ Acts(q, p) /\ ~Acts(p, q)
  BY <1>1, <1>3 DEF Busy, Acts, Speaks, Arb
<1>5. Busy(q)' = Busy(q) /\ Ready(q)' = Ready(q) /\ Speaks(p, q)' = Speaks(p, q)
  BY <1>1, <1>2 DEF Busy, Ready, Speaks
<1>6. ~Ready(q) /\ pc[q] # "reset"
  BY <1>3, <1>4 DEF Arb, Ready
<1>7. Ready(p)' => ~Acts(q, p)'
  <2> SUFFICES ASSUME Ready(p)'
               PROVE  ~Acts(q, p)'
    OBVIOUS
  <2>1. frame'[p] = <<>> /\ Idle(p)' /\ pc[p] # "input"
    BY <1>1 DEF Ready
  <2>2. pend[p] = {} /\ todo[q] = <<>>
    BY <2>1, HandlerLeaves
  <2>3. ~Busy(p)'
    BY <1>1, <2>1, <2>2 DEF Busy
  <2> QED
    BY <1>1, <1>5, <1>6, <2>2, <2>3 DEF Acts, Speaks
<1>8. Acts(p, q)' => Ready(p)'
  BY <1>4, <1>5 DEF Acts
<1>9. Arb(p, q)'
  BY <1>1, <1>2, <1>3, <1>5, <1>7, <1>8 DEF Arb
<1>10. Arb(q, p)'
  BY <1>1, <1>2, <1>3, <1>4, <1>7, <1>8 DEF Arb
<1> QED
  BY <1>9, <1>10

LEMMA TurnsInit ==
  ASSUME Init
  PROVE  TurnsInv
<1>1. \A p \in Peer : ~Busy(p) /\ ~Ready(p) /\ ~Marked(input[p])
  <2> SUFFICES ASSUME NEW p \in Peer
               PROVE  ~Busy(p) /\ ~Ready(p) /\ ~Marked(input[p])
    OBVIOUS
  <2>1. isEmpty(initSqueue)
    BY InitSqueue, EmptyMeans
  <2>2. /\ pc[p] = "top" /\ input[p] = <<>> /\ pend[p] = {} /\ frame[p] = <<>>
        /\ buffer[p] = initSqueue /\ message[p] = initSqueue
    BY DEF Init
  <2>3. ~Marked(<<>>)
    BY DEF Marked
  <2> QED
    BY <2>1, <2>2, <2>3 DEF Busy, Ready, Idle
<1>2. \A p \in Peer : pc[p] = "top" /\ todo[p] = <<>>
  BY DEF Init
<1>3. ArbInv
  BY <1>1, <1>2 DEF ArbInv, Arb, Acts, Speaks
<1> QED
  BY <1>3, StreamsInit DEF TurnsInv

LEMMA TurnsStep ==
  ASSUME TurnsInv, Turns, [Next]_vars
  PROVE  TurnsInv'
<1>1. StreamsInv'
  <2>1. \A p \in Peer : Reset(p) => Air(Other(p)) = <<>>
    BY ResetAir DEF Reset, At
  <2> QED
    BY <2>1, PacedHere, StreamsStep DEF TurnsInv
<1>2. ArbInv'
  <2>1. CASE UNCHANGED vars
    BY <2>1 DEF vars, main, recv, TurnsInv, ArbInv, Arb, Acts, Speaks, Ready, Busy, Idle,
                Marked
  <2>2. ASSUME NEW p \in Peer, Main(p) \/ Type(p) \/ Deliver(p) \/ Handler(p)
        PROVE  ArbInv'
    BY <2>2, TopArb, SendArb, TypeArb, DeliverArb, HandlerArb DEF Main
  <2> QED
    BY <2>1, <2>2 DEF Next
<1> QED
  BY <1>1, <1>2 DEF TurnsInv

LEMMA TurnsInvariant == Turns /\ Spec => []TurnsInv
<1> SUFFICES ASSUME Turns
             PROVE  Spec => []TurnsInv
  OBVIOUS
<1>1. Init => TurnsInv
  BY TurnsInit
<1>2. TurnsInv /\ [Next]_vars => TurnsInv'
  BY TurnsStep
<1> QED
  BY <1>1, <1>2, PTL DEF Spec

-----------------------------------------------------------------------------
(* What follows for lines typed in turn. *)

\* The test of the queues keeps the peers apart: no handler is ever interrupted by
\* another, counter is at every return to the main loop the number of bits in the
\* buffer, and the loop of the handler finds the eight bits it takes; whatever the
\* lines and however many there are.
THEOREM CounterInStep == Turns /\ Spec => []InStep
<1>1. TurnsInv => InStep
  BY InStepMeans DEF TurnsInv, StreamsInv
<1> QED
  BY <1>1, TurnsInvariant, PTL

\* A line and its end are characters like any others.
LEMMA LineHeard ==
  ASSUME NEW r \in Reader, NEW w \in Seq(Char)
  PROVE  \E u \in Seq(Char) : Hearing(r, u) = Heard(Hearing(r, w), 255)
<1> DEFINE z == <<255>>
<1>1. z \in Seq(Char) /\ 255 \in Char
  BY DEF Char
<1>2. Hearing(r, w) \in Reader
  BY HearingType
<1>3. Hearing(Hearing(r, w), z) = Heard(Hearing(r, w), 255)
  BY <1>1, <1>2, HearingOne
<1> HIDE DEF z
<1>4. Hearing(r, w \o z) = Hearing(Hearing(r, w), z) /\ w \o z \in Seq(Char)
  BY <1>1, HearingConcat
<1> QED
  BY <1>3, <1>4

\* A peer prints nothing but what the other user typed, piece for piece and character
\* for character, whoever types how many lines of whatever length in turn.
THEOREM PrintedAsTyped == Turns /\ Spec => []Faithful
<1>1. StreamsInv => Faithful
  <2> SUFFICES ASSUME StreamsInv, NEW q \in Peer
               PROVE  IsPrefix(printed[q], Said(typed[Other(q)]))
    BY DEF Faithful
  <2>1. PICK p \in Peer : p = Other(q)
    BY Others
  <2>2. PICK X \in Seq(Char) : Brings(q, X)
    BY DEF StreamsInv, StreamInv
  <2>3. Hears(q) \in Reader /\ Hears(q).said = printed[q]
    BY DEF StreamsInv, StreamInv, Hears
  <2>4. IsPrefix(printed[q], Log(Sent(p)).said)
    <3>1. Hearing(Hears(q), X) = Log(Sent(p))
      BY <2>1, <2>2 DEF Brings
    <3> QED
      BY <2>3, <3>1, HearingGrows
  <2>5. CASE ~Unsent(p)
    BY <2>1, <2>4, <2>5 DEF Sent, Said
  <2>6. CASE Unsent(p)
    <3>1. /\ Append(Sent(p), input[p]) = typed[p]
          /\ Sent(p) \in Seq(Seq(Char)) /\ input[p] \in Seq(Char)
      BY <2>6, SentType DEF StreamsInv
    <3>2. PICK a, b, c : /\ a = Log(Sent(p)) /\ b = Hearing(a, input[p])
                         /\ c = Log(typed[p])
      OBVIOUS
    <3>3. a \in Reader /\ c = Heard(b, 255)
      <4>1. a \in Reader
        BY <3>1, <3>2, LogType, SettlesReader
      <4>2. Log(Append(Sent(p), input[p])) = Heard(Hearing(Log(Sent(p)), input[p]), 255)
        BY <3>1, LogAppend
      <4> QED
        BY <3>1, <3>2, <4>1, <4>2
    <3>4. PICK u \in Seq(Char) : Hearing(a, u) = c
      <4>1. \E u \in Seq(Char) : Hearing(a, u) = Heard(Hearing(a, input[p]), 255)
        BY <3>1, <3>3, LineHeard
      <4> QED
        BY <3>2, <3>3, <4>1
    <3>5. Hearing(Hears(q), X) = a
      BY <2>1, <2>2, <3>2 DEF Brings
    <3>6. Hearing(Hears(q), X \o u) = c
      BY <2>3, <3>4, <3>5, HearingConcat
    <3>7. X \o u \in Seq(Char)
      OBVIOUS
    <3>8. IsPrefix(printed[q], c.said)
      BY <2>3, <3>6, <3>7, HearingGrows
    <3> QED
      BY <2>1, <3>2, <3>8 DEF Said
  <2> QED
    BY <2>5, <2>6
<1>2. TurnsInv => Faithful
  BY <1>1 DEF TurnsInv
<1> QED
  BY <1>2, TurnsInvariant, PTL

\* A peer to which nothing is being sent any more has nothing left of a line in its
\* queues, so that its own user can go on; for lines typed in turn.
THEOREM NothingLeft == Turns /\ Spec => []Settled
<1>1. StreamsInv => Settled
  <2> SUFFICES ASSUME StreamsInv, NEW q \in Peer,
                      todo[Other(q)] = <<>>, pend[q] = {}, frame[q] = <<>>
               PROVE  Idle(q)
    BY DEF Settled
  <2>1. PICK X \in Seq(Char) : Brings(q, X)
    BY DEF StreamsInv, StreamInv
  <2>2. /\ GoodSqueue(buffer[q], Bit) /\ GoodSqueue(message[q], 0 .. 255)
        /\ Queued(q) \in Nat /\ Queued(q) < 8
    BY OrderType DEF StreamsInv, TypeInv, InStepInv, Counts, Queued
  <2>3. PICK B \in Seq(Bit) : B = Values(buffer[q]) /\ Len(B) < 8
    <3>1. Values(buffer[q]) \in Seq(Bit) /\ Len(Values(buffer[q])) < 8
      BY <2>2, ValuesType DEF Queued
    <3> QED
      BY <3>1, Zenon
  <2>4. Air(q) = B
    <3>1. Air(q) = <<>> \o B \o <<>> \o <<>> \o <<>>
      BY <2>3 DEF Air, Held, Adding, Coming
    <3>2. <<>> \o B = B /\ B \o <<>> = B
      BY ConcatEmptySeq
    <3> QED
      BY <3>1, <3>2
  <2>5. Len(X) = 0
    <3>1. Len(Bits(X)) = 8 * Len(X) /\ Len(X) \in Nat
      BY BitsType
    <3>2. Bits(X) = B
      BY <2>1, <2>4 DEF Brings
    <3> QED
      BY <2>3, <3>1, <3>2
  <2>6. X = <<>> /\ Len(B) = 0
    <3>1. Len(Bits(X)) = 8 * Len(X)
      BY BitsType
    <3>2. Bits(X) = B
      BY <2>1, <2>4 DEF Brings
    <3> QED
      BY <2>5, <3>1, <3>2
  <2>7. Values(message[q]) = <<>> /\ Values(buffer[q]) = <<>>
    BY <2>1, <2>3, <2>6 DEF Brings
  <2> QED
    BY <2>2, <2>7, EmptyMeans DEF Idle
<1>2. TurnsInv => Settled
  BY <1>1 DEF TurnsInv
<1> QED
  BY <1>2, TurnsInvariant, PTL

=============================================================================
