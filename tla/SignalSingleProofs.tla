-------------------------- MODULE SignalSingleProofs --------------------------
(***************************************************************************)
(* Theorems about the one-signal messenger: for any durations, any         *)
(* lateness below a bound, any lines of 7-bit characters and any number of *)
(* them.                                                                   *)
(*                                                                         *)
(* For a peer that receives, Other of it is the sender.  What the sender   *)
(* has signalled and the receiver has not yet put in its buffer is told    *)
(* apart by half, pend and age.                                            *)
(***************************************************************************)
EXTENDS SignalSingle, SqueueProofs

\* How late sleeps and signals may be for the bits to be told apart, and for a pause to
\* outlast the gap between two signals.  With the program's durations (5, 45, 50, 10 and
\* 100 ms) it says that Over + Delay < 5 ms.
Punctual ==
  /\ Delay < Pair /\ Pair + Over + Delay < Short
  /\ Short + Delay <= Rest /\ Short + Delay <= Slot
  /\ Rest + Over + Delay < Pause /\ Slot + Over + Delay < Pause

-----------------------------------------------------------------------------
(* What is so at a peer whatever the clock does. *)

\* counter runs one behind the buffer, and a line ends with both empty.
Local(q) ==
  IF buffer[q] = <<>>
    THEN age[q] = Unseen /\ counter[q] = 0 /\ message[q] = <<>>
    ELSE age[q] # Unseen /\ counter[q] = Len(buffer[q]) - 1

Control(p) ==
  /\ pc[p] # "send" => todo[p] = <<>>
  /\ half[p] => todo[p] # <<>>
  /\ pc[p] = "input" => input[p] = <<>>
  /\ pc[p] \in {"top", "check", "input"} => rem[p] <= 0

-----------------------------------------------------------------------------
(* The link from Other(q) to q. *)

\* A line is on its way to q.
Flying(q) == todo[Other(q)] # <<>> \/ pend[q] # Clear

\* The bits of the line, those signalled, those received.
Sending(q) == BitsOf(input[Other(q)])
Sent(q) == Len(Sending(q)) - Len(todo[Other(q)])
Got(q) == 8 * Len(message[q]) + Len(buffer[q])

Early(q) == age[q] # Unseen /\ age[q] < Short

\* The bit received last is a 1 that will be a 0.
Open(q) ==
  IF half[Other(q)] THEN pend[q] = Clear ELSE pend[q] # Clear /\ Early(q)

Rests(q) ==
  ~Flying(q) => buffer[q] = <<>>

Suffix(q) ==
  todo[Other(q)] # <<>> \/ pend[q] # Clear =>
  /\ pc[Other(q)] = "send"
  /\ Len(todo[Other(q)]) <= Len(Sending(q))
  /\ \A i \in 1 .. Len(todo[Other(q)]) : todo[Other(q)][i] = Sending(q)[Sent(q) + i]
  /\ half[Other(q)] => todo[Other(q)][1] = 0
  /\ pend[q] # Clear /\ ~half[Other(q)] => Sent(q) >= 1 /\ Sending(q)[Sent(q)] = IF Early(q) THEN 0 ELSE 1

Count(q) ==
  Flying(q) =>
    IF half[Other(q)]
      THEN Got(q) = Sent(q) + (IF pend[q] = Clear THEN 1 ELSE 0)
      ELSE Got(q) = Sent(q) - (IF pend[q] # Clear /\ ~Early(q) THEN 1 ELSE 0)

Contents(q) ==
  Flying(q) =>
    /\ Len(message[q]) <= Len(input[Other(q)])
    /\ \A i \in 1 .. Len(message[q]) : message[q][i] = input[Other(q)][i]
    /\ \A i \in 1 .. Len(buffer[q]) :
         buffer[q][i] = IF i = Len(buffer[q]) /\ Open(q) THEN 1
                        ELSE Sending(q)[8 * Len(message[q]) + i]

Timing(q) ==
  LET p == Other(q) IN
  Flying(q) =>
    /\ rem[p] + Over + Delay < Pause
    /\ half[p] => rem[p] <= Pair
    /\ pend[q] # Clear => pend[q] < rem[p]
    /\ pend[q] # Clear /\ ~half[p] => pend[q] + Short <= rem[p]
    /\ pend[q] # Clear /\ half[p] => ~Early(q)
    /\ pend[q] = Clear /\ half[p] => age[q] # Unseen /\ age[q] + rem[p] <= Pair
    /\ pend[q] = Clear /\ ~half[p] /\ Early(q) => Short <= age[q] + rem[p]
    /\ pend[q] # Clear /\ ~half[p] /\ Early(q) => age[q] + pend[q] < Short

Link(q) == Rests(q) /\ Suffix(q) /\ Count(q) /\ Contents(q) /\ Timing(q)

-----------------------------------------------------------------------------
(* Who may send. *)

Wants(p) == pc[p] = "check" \/ (pc[p] # "send" /\ input[p] # <<>>)
Active(p) == todo[p] # <<>> \/ (Wants(p) /\ Idle(p))
Behind(p) == Len(printed[Other(p)]) < Len(typed[p])

Arbitration(p) ==
  /\ Active(p) => ~Active(Other(p))
  /\ todo[p] # <<>> => pend[p] = Clear
  /\ pend[p] # Clear => pend[Other(p)] = Clear

\* A signal ends the pause, so that the loop has tested the queues long before the
\* next one comes.
Wakes(q) ==
  age[q] # Unseen =>
    /\ pc[q] = "send" => rem[q] <= 0
    /\ rem[q] <= 0 /\ (pc[q] \in {"top", "pause", "send"} \/ (pc[q] = "check" /\ ~Behind(q)))
         => age[q] + rem[q] <= 0
    /\ pc[q] = "pause" /\ rem[q] > 0 =>
         IF pend[q] # Clear THEN pend[q] < rem[q]
                            ELSE rem[Other(q)] + Over + Delay < rem[q]

-----------------------------------------------------------------------------
(* What has been printed. *)

\* The line in input[] has not been printed.
Pending(p) ==
  input[p] # <<>> /\ (pc[p] # "send" \/ todo[p] # <<>> \/ pend[Other(p)] # Clear)

Printing(p) ==
  /\ Len(printed[Other(p)]) <= Len(typed[p])
  /\ input[p] # <<>> /\ pc[p] # "send" => Behind(p)
  /\ pc[p] = "check" /\ ~Behind(p) => ~Idle(p)
  /\ Flying(Other(p)) => Behind(p)
  /\ Said(typed[p]) = IF Pending(p) THEN Append(Said(printed[Other(p)]), input[p])
                                    ELSE Said(printed[Other(p)])

SingleInv ==
  \A p \in Peer : Local(p) /\ Control(p) /\ Link(p) /\ Arbitration(p) /\ Wakes(p) /\ Printing(p)

-----------------------------------------------------------------------------
(* The two peers, the durations, the bits of a line. *)

LEMMA Others ==
  ASSUME NEW p \in Peer
  PROVE  /\ Other(p) \in Peer /\ Other(p) # p /\ Other(Other(p)) = p
         /\ \A q \in Peer : q = p \/ q = Other(p)
<1>1. PICK a, b \in Peer : a # b /\ Peer = {a, b}
  BY PeerAssumption
<1>2. \A r \in Peer : \E q \in Peer : q # r
  BY <1>1
<1>3. \A r \in Peer : Other(r) \in Peer /\ Other(r) # r
  BY <1>2 DEF Other
<1> QED
  BY <1>1, <1>3

LEMMA Durations ==
  /\ Pair \in Nat /\ Rest \in Nat /\ Slot \in Nat /\ Short \in Nat /\ Pause \in Nat
  /\ Pair > 0 /\ Rest > 0 /\ Slot > 0 /\ Short > 0 /\ Pause > 0
  /\ Over \in Nat /\ Delay \in Nat
  /\ Pair <= Pause /\ Rest <= Pause /\ Slot <= Pause
BY TimeAssumption

Char == 0 .. 127

LEMMA CharBits ==
  ASSUME NEW c \in Char
  PROVE  /\ convert(c) \in Seq(Bit) /\ Len(convert(c)) = 8
         /\ convertBack(convert(c)) = c /\ ~AllOnes(convert(c))
<1>1. c \in 0 .. 255 /\ c # 255
  BY DEF Char
<1> QED
  BY <1>1, ConvertBack, ZenonT(60)

LEMMA LineBits ==
  ASSUME NEW w \in Seq(Char)
  PROVE  /\ Bits(w) \in Seq(Bit) /\ Len(Bits(w)) = 8 * Len(w)
         /\ \A m \in 0 .. Len(w) - 1 : \A i \in 1 .. 8 :
              Bits(w)[8 * m + i] = convert(w[m + 1])[i]
<1>1. Len(w) \in Nat /\ 8 * Len(w) \in Nat
  OBVIOUS
<1>2. \A k \in 1 .. 8 * Len(w) :
        1 + (k - 1) \div 8 \in 1 .. Len(w) /\ 1 + ((k - 1) % 8) \in 1 .. 8
  BY <1>1
<1>3. \A i \in 1 .. Len(w) : \A j \in 1 .. 8 : convert(w[i])[j] \in Bit
  <2> SUFFICES ASSUME NEW i \in 1 .. Len(w)
               PROVE  \A j \in 1 .. 8 : convert(w[i])[j] \in Bit
    OBVIOUS
  <2>1. PICK c \in Char : c = w[i]
    OBVIOUS
  <2>2. convert(c) \in Seq(Bit) /\ Len(convert(c)) = 8
    BY CharBits
  <2> QED
    BY <2>1, <2>2
<1>4. Bits(w) \in Seq(Bit) /\ Len(Bits(w)) = 8 * Len(w)
  BY <1>1, <1>2, <1>3 DEF Bits
<1>5. ASSUME NEW m \in 0 .. Len(w) - 1, NEW i \in 1 .. 8
      PROVE  Bits(w)[8 * m + i] = convert(w[m + 1])[i]
  <2>1. m \in Nat /\ i - 1 \in Nat /\ 8 * m + i \in 1 .. 8 * Len(w)
    BY <1>1
  <2>2. (8 * m + i) - 1 = 8 * m + (i - 1) /\ (i - 1) \div 8 = 0 /\ (i - 1) % 8 = i - 1
    BY <2>1
  <2>3. (8 * m + (i - 1)) \div 8 = m + (i - 1) \div 8 /\ (8 * m + (i - 1)) % 8 = (i - 1) % 8
    BY <2>1, EightSteps
  <2>4. Bits(w)[8 * m + i] = convert(w[1 + (8 * m + (i - 1)) \div 8])[1 + ((8 * m + (i - 1)) % 8)]
    BY <2>1, <2>2 DEF Bits
  <2>5. 1 + (m + 0) = m + 1 /\ 1 + (i - 1) = i
    BY <2>1
  <2> QED
    BY <2>2, <2>3, <2>4, <2>5
<1> QED
  BY <1>4, <1>5

\* The bits of a line and of its end.
LEMMA BitsAre ==
  ASSUME NEW w \in Seq(Char)
  PROVE  /\ BitsOf(w) \in Seq(Bit) /\ Len(BitsOf(w)) = 8 * Len(w) + 9
         /\ \A m \in 0 .. Len(w) - 1 : \A i \in 1 .. 8 :
              BitsOf(w)[8 * m + i] = convert(w[m + 1])[i]
         /\ \A i \in 1 .. 9 : BitsOf(w)[8 * Len(w) + i] = 1
<1>1. EndMark \in Seq(Bit) /\ Len(EndMark) = 9 /\ \A i \in 1 .. 9 : EndMark[i] = 1
  BY DEF EndMark, Bit
<1>2. PICK b \in Seq(Bit), n \in Nat :
        /\ b = Bits(w) /\ n = Len(w) /\ Len(b) = 8 * n
        /\ \A m \in 0 .. n - 1 : \A i \in 1 .. 8 : b[8 * m + i] = convert(w[m + 1])[i]
  BY LineBits
<1>3. /\ b \o EndMark \in Seq(Bit) /\ Len(b \o EndMark) = 8 * n + 9
      /\ \A i \in 1 .. 8 * n : (b \o EndMark)[i] = b[i]
      /\ \A i \in 1 .. 9 : (b \o EndMark)[8 * n + i] = 1
  <2>1. PICK e \in Seq(Bit) : e = EndMark /\ Len(e) = 9 /\ \A i \in 1 .. 9 : e[i] = 1
    BY <1>1
  <2>2. /\ b \o e \in Seq(Bit) /\ Len(b \o e) = Len(b) + Len(e)
        /\ \A i \in 1 .. Len(b) : (b \o e)[i] = b[i]
        /\ \A i \in 1 .. Len(e) : (b \o e)[Len(b) + i] = e[i]
    OBVIOUS
  <2>3. PICK x \in Seq(Bit) : x = b \o e
    BY <2>2
  <2>4. /\ Len(x) = 8 * n + 9
        /\ \A i \in 1 .. 8 * n : x[i] = b[i]
        /\ \A i \in 1 .. 9 : x[8 * n + i] = 1
    <3>1. Len(x) = 8 * n + 9
      BY <1>2, <2>1, <2>2, <2>3
    <3>2. ASSUME NEW i \in 1 .. 8 * n
          PROVE  x[i] = b[i]
      BY <1>2, <2>2, <2>3
    <3>3. ASSUME NEW i \in 1 .. 9
          PROVE  x[8 * n + i] = 1
      <4>1. i \in 1 .. Len(e) /\ e[i] = 1
        BY <2>1
      <4>2. x[Len(b) + i] = 1
        BY <2>2, <2>3, <4>1
      <4> QED
        BY <1>2, <4>2
    <3> QED
      BY <3>1, <3>2, <3>3
  <2> QED
    BY <2>1, <2>3, <2>4
<1>4. \A m \in 0 .. n - 1 : \A i \in 1 .. 8 : 8 * m + i \in 1 .. 8 * n
  OBVIOUS
<1> QED
  BY <1>2, <1>3, <1>4 DEF BitsOf

\* Eight bits received of a line are those of its next character, or eight of the
\* nine 1s that end it.
LEMMA FullCharacter ==
  ASSUME NEW w \in Seq(Char), NEW m \in 0 .. Len(w), NEW b \in Seq(Bit), Len(b) >= 8,
         \A i \in 1 .. 8 : b[i] = BitsOf(w)[8 * m + i]
  PROVE  IF m = Len(w) THEN AllOnes(b)
                       ELSE ~AllOnes(b) /\ convertBack(b) = w[m + 1]
<1>1. CASE m = Len(w)
  <2>1. \A i \in 1 .. 8 : i \in 1 .. 9
    OBVIOUS
  <2>2. \A i \in 1 .. 9 : BitsOf(w)[8 * m + i] = 1
    BY <1>1, BitsAre
  <2>3. ASSUME NEW i \in 1 .. 8
        PROVE  b[i] = 1
    <3>1. i \in 1 .. 9
      OBVIOUS
    <3>2. BitsOf(w)[8 * m + i] = 1
      BY <2>2, <3>1
    <3>3. b[i] = BitsOf(w)[8 * m + i]
      OBVIOUS
    <3> QED
      BY <3>2, <3>3
  <2> QED
    BY <1>1, <2>3 DEF AllOnes
<1>2. CASE m # Len(w)
  <2>1. m \in 0 .. Len(w) - 1 /\ m + 1 \in 1 .. Len(w)
    BY <1>2
  <2>2. PICK c \in Char : c = w[m + 1]
    BY <2>1, ElementOfSeq
  <2>3. \A i \in 1 .. 8 : b[i] = convert(c)[i]
    BY <2>1, <2>2, BitsAre
  <2>4. WeightSum(b, Weight) = WeightSum(convert(c), Weight) /\ (AllOnes(b) <=> AllOnes(convert(c)))
    <3>1. PICK d : d = convert(c)
      OBVIOUS
    <3>2. /\ b[1] = d[1] /\ b[2] = d[2] /\ b[3] = d[3] /\ b[4] = d[4]
          /\ b[5] = d[5] /\ b[6] = d[6] /\ b[7] = d[7] /\ b[8] = d[8]
      BY <2>3, <3>1
    <3>3. WeightSum(b, Weight) = WeightSum(d, Weight)
      BY <3>2 DEF WeightSum
    <3>4. \A i \in 1 .. 8 : b[i] = d[i]
      BY <2>3, <3>1
    <3>5. AllOnes(b) <=> AllOnes(d)
      <4>1. ASSUME NEW i \in 1 .. 8
            PROVE  b[i] = 1 <=> d[i] = 1
        BY <3>4
      <4> QED
        BY <4>1 DEF AllOnes
    <3> QED
      BY <3>1, <3>3, <3>5
  <2> QED
    BY <1>2, <2>2, <2>4, CharBits DEF convertBack
<1> QED
  BY <1>1, <1>2

LEMMA LineType ==
  ASSUME TypeOK, NEW p \in Peer
  PROVE  input[p] \in Seq(Char) /\ Lines \subseteq Seq(Char)
<1>1. Lines \subseteq Seq(Char) /\ <<>> \in Seq(Char)
  BY LineAssumption DEF Char
<1>2. input[p] \in Lines \cup {<<>>}
  BY DEF TypeOK
<1> QED
  BY <1>1, <1>2

-----------------------------------------------------------------------------
(* What a handler does: it makes a 0 of the last bit, adds a 1, takes a    *)
(* character out, or ends the line.                                        *)

Taken(q) ==
  /\ pend[q] # Clear
  /\ pend' = [pend EXCEPT ![q] = Clear]
  /\ rem' = [rem EXCEPT ![q] = IF @ > 0 THEN 0 ELSE @]
  /\ UNCHANGED <<pc, input, todo, half, typed>>

MakesZero(q) ==
  /\ Early(q)
  /\ buffer' = [buffer EXCEPT ![q] = Append(Front(@), 0)]
  /\ age' = [age EXCEPT ![q] = 0]
  /\ UNCHANGED <<counter, message, printed>>

AddsOne(q) ==
  /\ ~Early(q)
  /\ age[q] # Unseen => counter[q] < 7
  /\ buffer' = [buffer EXCEPT ![q] = Append(@, 1)]
  /\ counter' = [counter EXCEPT ![q] = IF age[q] = Unseen THEN @ ELSE @ + 1]
  /\ age' = [age EXCEPT ![q] = 0]
  /\ UNCHANGED <<message, printed>>

Fills(q) ==
  /\ ~Early(q) /\ age[q] # Unseen /\ Len(buffer[q]) = 8
  /\ counter' = [counter EXCEPT ![q] = 0]

TakesChar(q) ==
  /\ Fills(q) /\ ~AllOnes(buffer[q])
  /\ buffer' = [buffer EXCEPT ![q] = <<1>>]
  /\ message' = [message EXCEPT ![q] = Append(@, convertBack(buffer[q]))]
  /\ age' = [age EXCEPT ![q] = 0]
  /\ UNCHANGED printed

EndsLine(q) ==
  /\ Fills(q) /\ AllOnes(buffer[q])
  /\ buffer' = [buffer EXCEPT ![q] = <<>>]
  /\ message' = [message EXCEPT ![q] = <<>>]
  /\ age' = [age EXCEPT ![q] = Unseen]
  /\ printed' = [printed EXCEPT ![q] = Append(@, message[q])]

LEMMA AddBit ==
  ASSUME NEW b \in Seq(Bit), NEW x \in Bit
  PROVE  /\ Append(b, x) \in Seq(Bit) /\ Len(Append(b, x)) = Len(b) + 1
         /\ Append(b, x)[Len(b) + 1] = x /\ Append(b, x) # <<>>
         /\ \A i \in 1 .. Len(b) : Append(b, x)[i] = b[i]
OBVIOUS

LEMMA NineBits ==
  ASSUME NEW b \in Seq(Bit), Len(b) = 8
  PROVE  /\ SubSeq(Append(b, 1), 1, 8) = b
         /\ SubSeq(Append(b, 1), 9, Len(Append(b, 1))) = <<1>>
<1>1. 1 \in Bit
  BY DEF Bit
<1>2. PICK d \in Seq(Bit) : d = Append(b, 1)
  BY <1>1, AddBit
<1>8. /\ Len(d) = Len(b) + 1 /\ d[Len(b) + 1] = 1
      /\ \A i \in 1 .. Len(b) : d[i] = b[i]
  BY <1>1, <1>2, AddBit
<1>3. Len(d) = 9 /\ Len(b) + 1 = 9
  BY <1>8
<1>4. d[9] = 1
  BY <1>3, <1>8
<1>5. \A i \in 1 .. 8 : d[i] = b[i]
  BY <1>8
<1>6. SubSeq(d, 1, 8) = b
  BY <1>3, <1>5
<1>7. SubSeq(d, 9, 9) = <<1>>
  <2>1. SubSeq(d, 9, 9) = [i \in 1 .. 1 |-> d[i + 8]]
    BY <1>3
  <2>2. \A i \in 1 .. 1 : d[i + 8] = 1
    BY <1>4
  <2>3. [i \in 1 .. 1 |-> d[i + 8]] = [i \in 1 .. 1 |-> 1]
    BY <2>2
  <2>4. [i \in 1 .. 1 |-> 1] = <<1>>
    OBVIOUS
  <2> QED
    BY <2>1, <2>3, <2>4
<1> QED
  BY <1>2, <1>3, <1>6, <1>7

LEMMA HandleIs ==
  ASSUME TypeOK, NEW q \in Peer, Local(q), Handle(q)
  PROVE  Taken(q) /\ (MakesZero(q) \/ AddsOne(q) \/ TakesChar(q) \/ EndsLine(q))
<1>1. /\ buffer[q] \in Seq(Bit) /\ counter[q] \in 0 .. 7 /\ age[q] \in {Unseen} \cup 0 .. Short
      /\ message[q] \in Seq(0 .. 255) /\ counter \in [Peer -> 0 .. 7]
  BY DEF TypeOK
<1>2. Taken(q)
  BY DEF Handle, Taken, main
<1>3. Early(q) <=> age[q] # Unseen /\ Close(q)
  BY DEF Early, Close
<1>4. CASE Early(q)
  <2>1. Marked(q) = Append(Front(buffer[q]), 0) /\ Counted(q) = counter[q]
    BY <1>3, <1>4 DEF Marked, Counted
  <2>2. MakesZero(q)
    BY <1>1, <1>4, <2>1 DEF Handle, MakesZero
  <2> QED
    BY <1>2, <2>2
<1>5. CASE age[q] = Unseen
  <2>1. Marked(q) = Append(buffer[q], 1) /\ Counted(q) = counter[q] /\ ~Early(q)
    BY <1>3, <1>5 DEF Marked, Counted
  <2>2. AddsOne(q)
    BY <1>1, <1>5, <2>1 DEF Handle, AddsOne
  <2> QED
    BY <1>2, <2>2
<1>6. CASE ~Early(q) /\ age[q] # Unseen
  <2>1. Marked(q) = Append(buffer[q], 1) /\ Counted(q) = counter[q] + 1
    BY <1>3, <1>6 DEF Marked, Counted
  <2>2. CASE counter[q] < 7
    <3>1. AddsOne(q)
      BY <1>1, <1>6, <2>1, <2>2 DEF Handle, AddsOne
    <3> QED
      BY <1>2, <3>1
  <2>3. CASE counter[q] = 7
    <3>1. Len(buffer[q]) = 8
      BY <1>1, <1>6, <2>3, Len(buffer[q]) \in Nat DEF Local
    <3>2. /\ SubSeq(Marked(q), 1, 8) = buffer[q]
          /\ SubSeq(Marked(q), 9, Len(Marked(q))) = <<1>>
      BY <1>1, <2>1, <3>1, NineBits
    <3>3. ~(Counted(q) <= 7) /\ Debit(Counted(q)) = 0
      BY <2>1, <2>3 DEF Debit
    <3>4. Fills(q)
      BY <1>6, <3>1, <3>3 DEF Handle, Fills
    <3>5. CASE AllOnes(buffer[q])
      <4>1. EndsLine(q)
        BY <3>2, <3>3, <3>4, <3>5 DEF Handle, EndsLine
      <4> QED
        BY <1>2, <4>1
    <3>6. CASE ~AllOnes(buffer[q])
      <4>1. TakesChar(q)
        BY <3>2, <3>3, <3>4, <3>6 DEF Handle, TakesChar
      <4> QED
        BY <1>2, <4>1
    <3> QED
      BY <3>5, <3>6
  <2> QED
    BY <1>1, <2>2, <2>3
<1> QED
  BY <1>4, <1>5, <1>6

-----------------------------------------------------------------------------
(* Type correctness. *)

TypeInv == TypeOK /\ \A p \in Peer : Local(p)

LEMMA FrontBits ==
  ASSUME NEW b \in Seq(Bit), b # <<>>
  PROVE  /\ Append(Front(b), 0) \in Seq(Bit) /\ Len(Append(Front(b), 0)) = Len(b)
         /\ Append(Front(b), 0)[Len(b)] = 0 /\ Append(Front(b), 0) # <<>>
         /\ \A i \in 1 .. Len(b) - 1 : Append(Front(b), 0)[i] = b[i]
<1>1. Len(b) \in Nat /\ Len(b) >= 1
  OBVIOUS
<1>7. \A i \in 1 .. Len(b) - 1 : b[i] \in Bit
  BY <1>1
<1>8. /\ SubSeq(b, 1, Len(b) - 1) \in Seq(Bit)
      /\ Len(SubSeq(b, 1, Len(b) - 1)) = IF 1 <= Len(b) - 1 THEN (Len(b) - 1) - 1 + 1 ELSE 0
      /\ \A i \in 1 .. (Len(b) - 1) - 1 + 1 : SubSeq(b, 1, Len(b) - 1)[i] = b[1 + i - 1]
  BY <1>1, <1>7, SubSeqProperties
<1>2. PICK f \in Seq(Bit) : f = SubSeq(b, 1, Len(b) - 1)
  BY <1>8
<1>3. Len(f) = Len(b) - 1 /\ \A i \in 1 .. Len(b) - 1 : f[i] = b[i]
  <2>1. Len(f) = Len(b) - 1
    <3>1. Len(f) = IF 1 <= Len(b) - 1 THEN (Len(b) - 1) - 1 + 1 ELSE 0
      BY <1>2, <1>8
    <3>2. PICK n \in Nat : n = Len(b) /\ n >= 1
      BY <1>1
    <3>3. (IF 1 <= n - 1 THEN (n - 1) - 1 + 1 ELSE 0) = n - 1
      BY <3>2
    <3> QED
      BY <3>1, <3>2, <3>3
  <2>2. ASSUME NEW i \in 1 .. Len(b) - 1
        PROVE  f[i] = b[i]
    <3>1. i \in 1 .. (Len(b) - 1) - 1 + 1 /\ 1 + i - 1 = i
      BY <1>1
    <3> QED
      BY <1>2, <1>8, <3>1
  <2> QED
    BY <2>1, <2>2
<1>4. 0 \in Bit
  BY DEF Bit
<1>5. /\ Append(f, 0) \in Seq(Bit) /\ Len(Append(f, 0)) = Len(f) + 1
      /\ Append(f, 0)[Len(f) + 1] = 0 /\ Append(f, 0) # <<>>
      /\ \A i \in 1 .. Len(f) : Append(f, 0)[i] = f[i]
  BY <1>4, AddBit
<1>6. Front(b) = f
  BY <1>2 DEF Front
<1> QED
  BY <1>1, <1>3, <1>5, <1>6

LEMMA MainTypes ==
  ASSUME TypeInv, NEW p \in Peer, Main(p) \/ Type(p)
  PROVE  TypeInv'
<1> USE Durations DEF recv, Clear
<1>1. Other(p) \in Peer
  BY Others
<1>2. BitsOf(input[p]) \in Seq(Bit)
  BY LineType, BitsAre DEF TypeInv
<1>3. CASE Top(p) \/ Again(p) \/ Hold(p) \/ SendOver(p)
  <2>1. TypeOK'
    <3>1. CASE Top(p)
      BY <3>1 DEF TypeInv, TypeOK, Top
    <3>2. CASE Again(p)
      BY <3>2 DEF TypeInv, TypeOK, Again
    <3>3. CASE Hold(p)
      BY <3>3 DEF TypeInv, TypeOK, Hold, Sleep
    <3>4. CASE SendOver(p)
      BY <3>4 DEF TypeInv, TypeOK, SendOver, Sleep
    <3> QED
      BY <1>3, <3>1, <3>2, <3>3, <3>4
  <2>2. \A q \in Peer : Local(q)'
    BY <1>3 DEF TypeInv, Local, Top, Again, Hold, SendOver
  <2> QED
    BY <2>1, <2>2 DEF TypeInv
<1>4. CASE Type(p)
  <2>1. TypeOK'
    BY <1>4 DEF TypeInv, TypeOK, Type
  <2>2. \A q \in Peer : Local(q)'
    BY <1>4 DEF TypeInv, Local, Type
  <2> QED
    BY <2>1, <2>2 DEF TypeInv
<1>5. CASE StartSend(p)
  <2>1. TypeOK'
    BY <1>2, <1>5 DEF TypeInv, TypeOK, StartSend
  <2>2. \A q \in Peer : Local(q)'
    BY <1>5 DEF TypeInv, TypeOK, Local, StartSend, Idle
  <2> QED
    BY <2>1, <2>2 DEF TypeInv
<1>6. CASE SendBit(p)
  <2>1. todo[p] \in Seq(Bit) /\ Tail(todo[p]) \in Seq(Bit)
    BY <1>6 DEF TypeInv, TypeOK, SendBit
  <2>2. pend' \in [Peer -> {Clear} \cup 0 .. Delay]
    BY <1>1, <1>6 DEF TypeInv, TypeOK, SendBit, Kill
  <2>3. rem' \in [Peer -> -Over .. Pause]
    <3>1. \E t \in {Pair, Rest, Slot} : rem' = [rem EXCEPT ![p] = t]
      BY <1>6 DEF SendBit, Sleep
    <3>2. {Pair, Rest, Slot} \subseteq -Over .. Pause
      OBVIOUS
    <3> QED
      BY <3>1, <3>2 DEF TypeInv, TypeOK
  <2>4. TypeOK'
    BY <1>6, <2>1, <2>2, <2>3 DEF TypeInv, TypeOK, SendBit
  <2>5. \A q \in Peer : Local(q)'
    BY <1>6 DEF TypeInv, Local, SendBit
  <2> QED
    BY <2>4, <2>5 DEF TypeInv
<1> QED
  BY <1>3, <1>4, <1>5, <1>6 DEF Main

LEMMA HandleTypes ==
  ASSUME TypeInv, NEW q \in Peer, Handle(q)
  PROVE  TypeInv'
<1> USE Durations DEF Clear
<1>1. Taken(q) /\ (MakesZero(q) \/ AddsOne(q) \/ TakesChar(q) \/ EndsLine(q))
  BY HandleIs DEF TypeInv
<1>2. /\ pend' \in [Peer -> {Clear} \cup 0 .. Delay] /\ rem' \in [Peer -> -Over .. Pause]
      /\ UNCHANGED <<pc, input, todo, half, typed>>
  BY <1>1 DEF TypeInv, TypeOK, Taken
<1>3. buffer[q] \in Seq(Bit) /\ message[q] \in Seq(0 .. 255) /\ counter[q] \in 0 .. 7
  BY DEF TypeInv, TypeOK
<1>4. PICK b \in Seq(Bit) : buffer' = [buffer EXCEPT ![q] = b]
  <2>1. <<1>> \in Seq(Bit) /\ <<>> \in Seq(Bit) /\ 1 \in Bit
    BY DEF Bit
  <2>2. CASE MakesZero(q)
    BY <1>3, <2>2, FrontBits DEF MakesZero, Early, TypeInv, Local
  <2>3. CASE AddsOne(q)
    BY <1>3, <2>1, <2>3, AddBit DEF AddsOne
  <2> QED
    BY <1>1, <2>1, <2>2, <2>3 DEF TakesChar, EndsLine
<1>5. PICK m \in Seq(0 .. 255) : message' = [message EXCEPT ![q] = m]
  <2>1. <<>> \in Seq(0 .. 255)
    OBVIOUS
  <2>2. CASE TakesChar(q)
    <3>1. convertBack(buffer[q]) \in 0 .. 255
      BY <1>3, <2>2, SumType DEF TakesChar, Fills
    <3>2. Append(message[q], convertBack(buffer[q])) \in Seq(0 .. 255)
      BY <1>3, <3>1
    <3> QED
      BY <2>2, <3>2 DEF TakesChar
  <2>3. UNCHANGED message => message' = [message EXCEPT ![q] = message[q]]
    BY DEF TypeInv, TypeOK
  <2> QED
    BY <1>1, <1>3, <2>1, <2>2, <2>3 DEF MakesZero, AddsOne, EndsLine
<1>6. PICK n \in 0 .. 7 : counter' = [counter EXCEPT ![q] = n]
  <2>1. UNCHANGED counter => counter' = [counter EXCEPT ![q] = counter[q]]
    BY DEF TypeInv, TypeOK
  <2>2. CASE AddsOne(q)
    <3>1. CASE age[q] = Unseen
      BY <1>3, <2>2, <3>1 DEF AddsOne
    <3>2. CASE age[q] # Unseen
      <4>1. counter[q] < 7
        BY <2>2, <3>2 DEF AddsOne
      <4>2. counter[q] + 1 \in 0 .. 7
        BY <1>3, <4>1
      <4> QED
        BY <2>2, <3>2, <4>2 DEF AddsOne
    <3> QED
      BY <3>1, <3>2
  <2> QED
    BY <1>1, <1>3, <2>1, <2>2 DEF MakesZero, TakesChar, EndsLine, Fills
<1>7. PICK c \in {Unseen} \cup 0 .. Short : age' = [age EXCEPT ![q] = c]
  <2>1. 0 \in 0 .. Short
    OBVIOUS
  <2> QED
    BY <1>1, <2>1 DEF MakesZero, AddsOne, TakesChar, EndsLine
<1>8. printed' \in [Peer -> Seq(Seq(0 .. 255))]
  <2>1. CASE EndsLine(q)
    <3>1. Append(printed[q], message[q]) \in Seq(Seq(0 .. 255))
      BY <1>3 DEF TypeInv, TypeOK
    <3> QED
      BY <2>1, <3>1 DEF EndsLine, TypeInv, TypeOK
  <2> QED
    BY <1>1, <2>1 DEF MakesZero, AddsOne, TakesChar, TypeInv, TypeOK
<1>9. TypeOK'
  BY <1>2, <1>4, <1>5, <1>6, <1>7, <1>8 DEF TypeInv, TypeOK
<1>10. ASSUME NEW p \in Peer, p # q
       PROVE  Local(p)'
  <2>1. /\ buffer[p]' = buffer[p] /\ message[p]' = message[p]
        /\ counter[p]' = counter[p] /\ age[p]' = age[p]
    BY <1>4, <1>5, <1>6, <1>7, <1>10 DEF TypeInv, TypeOK
  <2> QED
    BY <2>1 DEF Local, TypeInv
<1>11. Local(q)'
  <2>0. /\ buffer \in [Peer -> Seq(Bit)] /\ message \in [Peer -> Seq(0 .. 255)]
        /\ counter \in [Peer -> 0 .. 7] /\ age \in [Peer -> {Unseen} \cup 0 .. Short] /\ Local(q)
    BY DEF TypeInv, TypeOK
  <2>1. CASE MakesZero(q)
    <3>1. /\ Append(Front(buffer[q]), 0) # <<>>
          /\ Len(Append(Front(buffer[q]), 0)) = Len(buffer[q])
      BY <1>3, <2>0, <2>1, FrontBits DEF MakesZero, Early, Local
    <3>2. buffer'[q] # <<>> /\ Len(buffer'[q]) = Len(buffer[q]) /\ counter'[q] = counter[q] /\ age'[q] = 0
      BY <2>0, <2>1, <3>1 DEF MakesZero
    <3> QED
      BY <2>0, <2>1, <3>2 DEF Local, MakesZero, Early, Unseen
  <2>2. CASE AddsOne(q)
    <3>1. /\ Append(buffer[q], 1) # <<>> /\ Len(Append(buffer[q], 1)) = Len(buffer[q]) + 1
          /\ Len(buffer[q]) \in Nat /\ (buffer[q] = <<>> => Len(buffer[q]) = 0)
      BY <1>3, AddBit DEF Bit
    <3>2. buffer'[q] # <<>> /\ Len(buffer'[q]) = Len(buffer[q]) + 1 /\ age'[q] = 0
          /\ counter'[q] = IF age[q] = Unseen THEN counter[q] ELSE counter[q] + 1
      BY <2>0, <2>2, <3>1 DEF AddsOne
    <3> QED
      BY <1>3, <2>0, <3>1, <3>2 DEF Local, Unseen
  <2>3. CASE TakesChar(q)
    <3>1. buffer'[q] = <<1>> /\ counter'[q] = 0 /\ age'[q] = 0 /\ Len(<<1>>) = 1 /\ <<1>> # <<>>
      BY <2>0, <2>3 DEF TakesChar, Fills
    <3> QED
      BY <3>1 DEF Local, Unseen
  <2>4. CASE EndsLine(q)
    <3>1. buffer'[q] = <<>> /\ counter'[q] = 0 /\ age'[q] = Unseen /\ message'[q] = <<>>
      BY <2>0, <2>4 DEF EndsLine, Fills
    <3> QED
      BY <3>1 DEF Local
  <2> QED
    BY <1>1, <2>1, <2>2, <2>3, <2>4
<1> QED
  BY <1>9, <1>10, <1>11 DEF TypeInv

LEMMA TickTypes ==
  ASSUME TypeInv, Tick
  PROVE  TypeInv'
<1> USE Durations DEF Clear, Unseen
<1>1. TypeOK'
  <2>1. rem' \in [Peer -> -Over .. Pause]
    BY DEF TypeInv, TypeOK, Tick
  <2>2. pend' \in [Peer -> {Clear} \cup 0 .. Delay]
    BY DEF TypeInv, TypeOK, Tick
  <2>3. age' \in [Peer -> {Unseen} \cup 0 .. Short]
    BY DEF TypeInv, TypeOK, Tick
  <2> QED
    BY <2>1, <2>2, <2>3 DEF TypeInv, TypeOK, Tick, main, recv
<1>2. \A p \in Peer : Local(p)'
  BY DEF TypeInv, TypeOK, Local, Tick, main, recv
<1> QED
  BY <1>1, <1>2 DEF TypeInv

LEMMA TypeStep ==
  ASSUME TypeInv, [Next]_vars
  PROVE  TypeInv'
<1>1. CASE UNCHANGED vars
  BY <1>1 DEF TypeInv, TypeOK, Local, vars, main, recv
<1> QED
  BY <1>1, MainTypes, HandleTypes, TickTypes DEF Next

LEMMA TypeInit == Init => TypeInv
<1> SUFFICES ASSUME Init
             PROVE  TypeInv
  OBVIOUS
<1>1. \A S : <<>> \in Seq(S)
  OBVIOUS
<1>2. TypeOK
  BY <1>1, Durations DEF Init, TypeOK, Clear, Unseen
<1>3. \A p \in Peer : Local(p)
  BY DEF Init, Local
<1> QED
  BY <1>2, <1>3 DEF TypeInv

\* For any durations and any lateness, any lines and whatever the two users do: every
\* variable has its type.  counter never reaches a full character, because it follows
\* the buffer one behind.
THEOREM SingleTyped == Spec => []TypeOK
<1>1. TypeInv => TypeOK
  BY DEF TypeInv
<1> QED
  BY <1>1, TypeInit, TypeStep, PTL DEF Spec

-----------------------------------------------------------------------------
(* What a step leaves alone, and the types at one peer. *)

LEMMA PeerTypes ==
  ASSUME TypeOK, NEW p \in Peer
  PROVE  /\ pc[p] \in {"top", "input", "check", "send", "pause"}
         /\ input[p] \in Seq(Char) /\ todo[p] \in Seq(Bit) /\ half[p] \in BOOLEAN
         /\ rem[p] \in Int /\ rem[p] >= -Over /\ rem[p] <= Pause
         /\ pend[p] \in Int /\ pend[p] >= Clear /\ pend[p] <= Delay
         /\ buffer[p] \in Seq(Bit) /\ message[p] \in Seq(0 .. 255) /\ counter[p] \in 0 .. 7
         /\ age[p] \in Int /\ age[p] >= Unseen /\ age[p] <= Short
         /\ typed[p] \in Seq(Seq(Char)) /\ printed[p] \in Seq(Seq(0 .. 255))
<1>1. input[p] \in Seq(Char)
  BY LineType
<1>2. typed[p] \in Seq(Seq(Char))
  <2>1. typed[p] \in Seq(Lines)
    BY DEF TypeOK
  <2> QED
    BY <2>1, LineType
<1>3. rem[p] \in -Over .. Pause /\ pend[p] \in {Clear} \cup 0 .. Delay
      /\ age[p] \in {Unseen} \cup 0 .. Short
  BY DEF TypeOK
<1>4. /\ rem[p] \in Int /\ rem[p] >= -Over /\ rem[p] <= Pause
      /\ pend[p] \in Int /\ pend[p] >= Clear /\ pend[p] <= Delay
      /\ age[p] \in Int /\ age[p] >= Unseen /\ age[p] <= Short
  BY <1>3, Durations DEF Clear, Unseen
<1> QED
  BY <1>1, <1>2, <1>4 DEF TypeOK

LEMMA MainFrame ==
  ASSUME TypeOK, NEW p \in Peer, NEW q \in Peer, p # q, Main(p) \/ Type(p)
  PROVE  /\ pc'[q] = pc[q] /\ input'[q] = input[q] /\ todo'[q] = todo[q]
         /\ half'[q] = half[q] /\ rem'[q] = rem[q] /\ typed'[q] = typed[q]
         /\ pend'[p] = pend[p]
         /\ buffer' = buffer /\ message' = message /\ printed' = printed /\ age' = age
<1>1. CASE Top(p)
  BY <1>1 DEF TypeOK, Top, recv
<1>2. CASE Type(p)
  BY <1>2 DEF TypeOK, Type, recv
<1>3. CASE StartSend(p)
  BY <1>3 DEF TypeOK, StartSend
<1>4. CASE Hold(p)
  BY <1>4 DEF TypeOK, Hold, Sleep, recv
<1>5. CASE SendBit(p)
  <2>1. Other(p) # p
    BY Others
  <2> QED
    BY <1>5, <2>1 DEF TypeOK, SendBit, Sleep, Kill, recv
<1>6. CASE SendOver(p)
  BY <1>6 DEF TypeOK, SendOver, Sleep, recv
<1>7. CASE Again(p)
  BY <1>7 DEF TypeOK, Again, recv
<1> QED
  BY <1>1, <1>2, <1>3, <1>4, <1>5, <1>6, <1>7 DEF Main

\* What Top, Type, Hold and Again do at their peer.
LEMMA QuietFrame ==
  ASSUME TypeOK, NEW p \in Peer, Top(p) \/ Type(p) \/ Hold(p) \/ Again(p)
  PROVE  /\ pc[p] # "send" /\ pc'[p] # "send" /\ rem[p] <= 0
         /\ todo'[p] = todo[p] /\ half'[p] = half[p] /\ pend' = pend
<1>1. CASE Top(p)
  BY <1>1 DEF TypeOK, Top, At
<1>2. CASE Type(p)
  BY <1>2 DEF TypeOK, Type, At
<1>3. CASE Hold(p)
  BY <1>3 DEF TypeOK, Hold, At
<1>4. CASE Again(p)
  BY <1>4 DEF TypeOK, Again, At
<1> QED
  BY <1>1, <1>2, <1>3, <1>4

LEMMA HandleFrame ==
  ASSUME TypeInv, NEW p \in Peer, NEW q \in Peer, p # q, Handle(q)
  PROVE  /\ pc' = pc /\ input' = input /\ todo' = todo /\ half' = half /\ typed' = typed
         /\ pend[q] # Clear /\ pend'[q] = Clear /\ pend'[p] = pend[p]
         /\ rem'[q] = (IF rem[q] > 0 THEN 0 ELSE rem[q]) /\ rem'[p] = rem[p]
         /\ buffer'[p] = buffer[p] /\ message'[p] = message[p] /\ printed'[p] = printed[p]
         /\ age'[p] = age[p]
<1>1. TypeOK /\ Taken(q) /\ (MakesZero(q) \/ AddsOne(q) \/ TakesChar(q) \/ EndsLine(q))
  BY HandleIs DEF TypeInv
<1>2. /\ pc' = pc /\ input' = input /\ todo' = todo /\ half' = half /\ typed' = typed
      /\ pend[q] # Clear /\ pend'[q] = Clear /\ pend'[p] = pend[p]
      /\ rem'[q] = (IF rem[q] > 0 THEN 0 ELSE rem[q]) /\ rem'[p] = rem[p]
  BY <1>1 DEF TypeOK, Taken
<1>3. /\ buffer'[p] = buffer[p] /\ message'[p] = message[p] /\ printed'[p] = printed[p]
      /\ age'[p] = age[p]
  <2>1. CASE MakesZero(q)
    BY <1>1, <2>1 DEF TypeOK, MakesZero
  <2>2. CASE AddsOne(q)
    BY <1>1, <2>2 DEF TypeOK, AddsOne
  <2>3. CASE TakesChar(q)
    BY <1>1, <2>3 DEF TypeOK, TakesChar
  <2>4. CASE EndsLine(q)
    BY <1>1, <2>4 DEF TypeOK, EndsLine
  <2> QED
    BY <1>1, <2>1, <2>2, <2>3, <2>4
<1> QED
  BY <1>2, <1>3

LEMMA TickFrame ==
  ASSUME TypeOK, NEW p \in Peer, Tick
  PROVE  /\ pc' = pc /\ input' = input /\ todo' = todo /\ half' = half /\ typed' = typed
         /\ buffer' = buffer /\ message' = message /\ printed' = printed
         /\ pend[p] # 0 /\ pend'[p] = (IF pend[p] = Clear THEN Clear ELSE pend[p] - 1)
         /\ pc[p] # "input" => rem[p] > -Over /\ rem'[p] = rem[p] - 1
         /\ pc[p] = "input" => rem'[p] = rem[p]
         /\ age'[p] = (IF age[p] = Unseen \/ age[p] = Short THEN age[p] ELSE age[p] + 1)
BY DEF TypeOK, Tick, main, recv

LEMMA TickClear ==
  ASSUME TypeOK, NEW p \in Peer, Tick
  PROVE  pend'[p] = Clear <=> pend[p] = Clear
<1>1. pend[p] # 0 /\ pend'[p] = (IF pend[p] = Clear THEN Clear ELSE pend[p] - 1)
  BY TickFrame
<1>2. pend[p] \in Int /\ pend[p] >= Clear
  BY PeerTypes
<1> QED
  BY <1>1, <1>2 DEF Clear

-----------------------------------------------------------------------------
(* The main loops. *)

LEMMA ControlStep ==
  ASSUME TypeInv, \A p \in Peer : Control(p), [Next]_vars
  PROVE  \A p \in Peer : Control(p)'
<1> SUFFICES ASSUME NEW p \in Peer
             PROVE  Control(p)'
  OBVIOUS
<1>0. TypeOK /\ Control(p)
  BY DEF TypeInv
<1>1. CASE UNCHANGED vars
  BY <1>0, <1>1 DEF Control, vars, main
<1>2. CASE Tick
  <2>1. /\ pc' = pc /\ input' = input /\ todo' = todo /\ half' = half
        /\ (rem'[p] = rem[p] \/ rem'[p] = rem[p] - 1) /\ rem[p] \in Int
    BY <1>0, <1>2, TickFrame, PeerTypes
  <2> QED
    BY <1>0, <2>1 DEF Control
<1>3. ASSUME NEW q \in Peer, Handle(q)
      PROVE  Control(p)'
  <2>1. pc' = pc /\ input' = input /\ todo' = todo /\ half' = half
    BY <1>3, HandleIs DEF TypeInv, Taken
  <2>2. rem[p] \in Int /\ (rem'[p] = rem[p] \/ rem'[p] = 0)
    <3>1. rem' = [rem EXCEPT ![q] = IF @ > 0 THEN 0 ELSE @]
      BY <1>3 DEF Handle
    <3> QED
      BY <1>0, <3>1, PeerTypes DEF TypeOK
  <2>3. rem'[p] <= 0 \/ rem'[p] = rem[p]
    BY <2>2
  <2> QED
    BY <1>0, <2>1, <2>3 DEF Control
<1>4. ASSUME NEW q \in Peer, Main(q) \/ Type(q), q # p
      PROVE  Control(p)'
  BY <1>0, <1>4, MainFrame DEF Control
<1>5. ASSUME Main(p) \/ Type(p)
      PROVE  Control(p)'
  <2>1. CASE Top(p)
    BY <1>0, <2>1 DEF TypeOK, Control, Top, At
  <2>2. CASE Type(p)
    BY <1>0, <2>2 DEF TypeOK, Control, Type, At
  <2>3. CASE StartSend(p)
    BY <1>0, <2>3 DEF TypeOK, Control, StartSend, At
  <2>4. CASE Hold(p)
    BY <1>0, <2>4 DEF TypeOK, Control, Hold, At
  <2>5. CASE SendBit(p)
    BY <1>0, <2>5 DEF TypeOK, Control, SendBit, At
  <2>6. CASE SendOver(p)
    BY <1>0, <2>6 DEF TypeOK, Control, SendOver, At
  <2>7. CASE Again(p)
    BY <1>0, <2>7 DEF TypeOK, Control, Again, At
  <2> QED
    BY <1>5, <2>1, <2>2, <2>3, <2>4, <2>5, <2>6, <2>7 DEF Main
<1> QED
  BY <1>1, <1>2, <1>3, <1>4, <1>5 DEF Next

-----------------------------------------------------------------------------
(* The link. *)

LEMMA SeqParts ==
  ASSUME NEW u \in Seq(Bit), u # <<>>
  PROVE  /\ Len(u) \in Nat /\ Len(u) >= 1 /\ Head(u) = u[1] /\ u[1] \in Bit
         /\ Tail(u) \in Seq(Bit) /\ Len(Tail(u)) = Len(u) - 1
         /\ \A i \in 1 .. Len(u) - 1 : Tail(u)[i] = u[i + 1]
<1>1. Len(u) \in Nat /\ Len(u) >= 1
  OBVIOUS
<1>2. u[1] \in Bit
  BY <1>1, ElementOfSeq
<1> QED
  BY <1>1, <1>2, HeadTailProperties

LEMMA GotType ==
  ASSUME TypeOK, NEW q \in Peer
  PROVE  /\ Len(message[q]) \in Nat /\ Len(buffer[q]) \in Nat /\ Got(q) \in Nat
         /\ Got(q) = 8 * Len(message[q]) + Len(buffer[q])
<1>1. message[q] \in Seq(0 .. 255) /\ buffer[q] \in Seq(Bit)
  BY PeerTypes
<1>2. Len(message[q]) \in Nat /\ Len(buffer[q]) \in Nat
  BY <1>1
<1>3. 8 * Len(message[q]) + Len(buffer[q]) \in Nat
  <2>1. PICK l \in Nat, m \in Nat : l = Len(message[q]) /\ m = Len(buffer[q])
    BY <1>2
  <2>2. 8 * l + m \in Nat
    OBVIOUS
  <2> QED
    BY <2>1, <2>2
<1> QED
  BY <1>2, <1>3 DEF Got

LEMMA LinkSame ==
  ASSUME NEW q \in Peer, Link(q),
         pc'[Other(q)] = pc[Other(q)], input'[Other(q)] = input[Other(q)],
         todo'[Other(q)] = todo[Other(q)], half'[Other(q)] = half[Other(q)],
         rem'[Other(q)] = rem[Other(q)], pend'[q] = pend[q],
         buffer'[q] = buffer[q], message'[q] = message[q], age'[q] = age[q]
  PROVE  Link(q)'
<1>1. /\ Flying(q)' = Flying(q) /\ Sending(q)' = Sending(q) /\ Early(q)' = Early(q)
      /\ Got(q)' = Got(q)
  BY DEF Flying, Sending, Early, Got
<1>2. Sent(q)' = Sent(q) /\ Open(q)' = Open(q)
  BY <1>1 DEF Sent, Open
<1>3. Rests(q)'
  BY <1>1 DEF Link, Rests
<1>4. Suffix(q)'
  BY <1>1, <1>2 DEF Link, Suffix
<1>5. Count(q)'
  BY <1>1, <1>2 DEF Link, Count
<1>6. Contents(q)'
  BY <1>1, <1>2 DEF Link, Contents
<1>7. Timing(q)'
  BY <1>1, <1>2 DEF Link, Timing
<1> QED
  BY <1>3, <1>4, <1>5, <1>6, <1>7 DEF Link

LEMMA LinkIdle ==
  ASSUME NEW q \in Peer, ~Flying(q)', buffer'[q] = <<>>
  PROVE  Link(q)'
BY DEF Link, Rests, Suffix, Count, Contents, Timing, Flying

\* A line on its way is being sent.
LEMMA FlyingSends ==
  ASSUME NEW q \in Peer, Suffix(q), Flying(q)
  PROVE  pc[Other(q)] = "send"
BY DEF Suffix, Flying

\* Nothing is pending when the sender is ready for its next signal.
LEMMA NothingPending ==
  ASSUME TypeOK, NEW q \in Peer, Link(q), rem[Other(q)] <= 0
  PROVE  pend[q] = Clear
<1>1. Other(q) \in Peer
  BY Others
<1>2. /\ pend[q] \in Int /\ pend[q] >= Clear /\ rem[Other(q)] \in Int
  BY <1>1, PeerTypes
<1>3. pend[q] # Clear => pend[q] < rem[Other(q)]
  BY DEF Link, Timing, Flying
<1> QED
  BY <1>2, <1>3 DEF Clear

\* What a peer has when nothing is on its way to it.
LEMMA RestsMeans ==
  ASSUME NEW q \in Peer, Local(q), Rests(q), ~Flying(q)
  PROVE  buffer[q] = <<>> /\ message[q] = <<>> /\ age[q] = Unseen /\ counter[q] = 0 /\ Idle(q)
BY DEF Local, Rests, Idle

LEMMA StartLink ==
  ASSUME TypeOK, Punctual, NEW p \in Peer, NEW q \in Peer, p = Other(q), Local(q), Control(p),
         Link(q), StartSend(p)
  PROVE  Link(q)'
<1>1. pc[p] = "check" /\ todo[p] = <<>> /\ half[p] = FALSE /\ rem[p] <= 0
  BY PeerTypes DEF StartSend, At, Control
<1>2. ~Flying(q) /\ pend[q] = Clear
  BY <1>1, FlyingSends DEF Link, Flying
<1>3. buffer[q] = <<>> /\ message[q] = <<>> /\ age[q] = Unseen
  BY <1>2, RestsMeans DEF Link
<1>4. /\ pc'[p] = "send" /\ todo'[p] = BitsOf(input[p]) /\ input'[p] = input[p]
      /\ half'[p] = FALSE /\ rem'[p] = rem[p] /\ pend'[q] = Clear
      /\ buffer'[q] = <<>> /\ message'[q] = <<>> /\ age'[q] = Unseen
  BY <1>1, <1>2, <1>3 DEF TypeOK, StartSend
<1>5. PICK b \in Seq(Bit), n \in Nat : /\ b = BitsOf(input[p]) /\ n = Len(input[p])
                                       /\ Len(b) = 8 * n + 9
  <2>1. PICK w \in Seq(Char) : w = input[p]
    BY PeerTypes
  <2>2. BitsOf(w) \in Seq(Bit) /\ Len(BitsOf(w)) = 8 * Len(w) + 9
    BY BitsAre
  <2>3. Len(w) \in Nat
    OBVIOUS
  <2> QED
    BY <2>1, <2>2, <2>3
<1>6. /\ Sending(q)' = b /\ Sent(q)' = 0 /\ Got(q)' = 0 /\ ~Early(q)' /\ ~Open(q)'
      /\ Flying(q)' /\ b # <<>>
  <2>1. b # <<>>
    BY <1>5
  <2>2. Sending(q)' = b /\ todo'[p] = b
    BY <1>4, <1>5 DEF Sending
  <2>3. Sent(q)' = 0
    BY <2>2, <1>5 DEF Sent
  <2>4. Got(q)' = 0
    BY <1>4 DEF Got
  <2>5. ~Early(q)' /\ ~Open(q)'
    BY <1>4 DEF Early, Open
  <2> QED
    BY <2>1, <2>2, <2>3, <2>4, <2>5 DEF Flying
<1>7. Rests(q)'
  BY <1>6 DEF Rests
<1>8. Suffix(q)'
  <2>1. \A i \in 1 .. Len(b) : b[i] = b[0 + i]
    OBVIOUS
  <2>2. Len(b) <= Len(b)
    BY <1>5
  <2> QED
    BY <1>4, <1>5, <1>6, <2>1, <2>2 DEF Suffix
<1>9. Count(q)'
  BY <1>4, <1>6 DEF Count
<1>10. Contents(q)'
  <2>1. Len(message'[q]) = 0 /\ Len(buffer'[q]) = 0 /\ 0 <= n /\ Len(input'[p]) = n
    BY <1>4, <1>5
  <2> QED
    BY <2>1 DEF Contents
<1>11. Timing(q)'
  <2>1. rem[p] + Over + Delay < Pause
    <3>1. rem[p] \in Int
      BY PeerTypes
    <3>2. Over + Delay < Pause
      BY Durations DEF Punctual
    <3> QED
      BY <1>1, <3>1, <3>2, Durations
  <2> QED
    BY <1>4, <1>6, <2>1 DEF Timing
<1> QED
  BY <1>7, <1>8, <1>9, <1>10, <1>11 DEF Link

\* One signal is sent: the first of a 0, its second, or a 1.
LEMMA SendLink ==
  ASSUME TypeOK, Punctual, NEW p \in Peer, NEW q \in Peer, p = Other(q), q = Other(p), Local(q),
         Link(q), SendBit(p)
  PROVE  Link(q)'
<1>1. /\ pc[p] = "send" /\ rem[p] <= 0 /\ todo[p] # <<>> /\ pend[q] = Clear /\ Flying(q)
      /\ pc'[p] = "send" /\ pend'[q] = Delay /\ pend'[q] # Clear /\ input'[p] = input[p]
      /\ buffer'[q] = buffer[q] /\ message'[q] = message[q] /\ age'[q] = age[q]
  <2>1. pc[p] = "send" /\ rem[p] <= 0 /\ todo[p] # <<>>
    BY DEF SendBit, At
  <2>2. pend[q] = Clear
    BY <2>1, NothingPending
  <2>3. pend'[q] = Delay
    BY <2>2 DEF TypeOK, SendBit, Kill
  <2>4. Delay # Clear
    BY Durations DEF Clear
  <2> QED
    BY <2>1, <2>2, <2>3, <2>4 DEF TypeOK, SendBit, Flying, recv
<1>20. PICK b \in Seq(Bit) : b = Sending(q)
  <2>1. PICK w \in Seq(Char) : w = input[p]
    BY PeerTypes
  <2> QED
    BY <2>1, BitsAre DEF Sending
<1>21. PICK u \in Seq(Bit) : u = todo[p] /\ u # <<>>
  BY <1>1, PeerTypes
<1>22. PICK k \in Nat : k = Len(u) /\ k >= 1
  BY <1>21, SeqParts
<1>23. PICK n \in Nat : n = Len(b)
  OBVIOUS
<1>24. PICK s \in Nat : s = n - k
  <2>1. k <= n
    BY <1>1, <1>20, <1>21, <1>22, <1>23 DEF Link, Suffix
  <2> QED
    BY <2>1
<1>25. s = Sent(q)
  BY <1>20, <1>21, <1>22, <1>23, <1>24 DEF Sent
<1>2. /\ b = Sending(q) /\ s = Sent(q) /\ u = todo[p] /\ k = Len(u) /\ k >= 1
      /\ n = Len(b) /\ s + k = n /\ k \in Nat /\ n \in Nat /\ s \in Nat
      /\ \A i \in 1 .. k : u[i] = b[s + i]
  <2>1. \A i \in 1 .. k : u[i] = b[s + i]
    BY <1>1, <1>20, <1>21, <1>22, <1>25 DEF Link, Suffix
  <2>2. s + k = n
    BY <1>24
  <2> QED
    BY <2>1, <2>2, <1>20, <1>21, <1>22, <1>23, <1>24, <1>25
<1>27. s \in Nat /\ k \in Nat /\ n \in Nat /\ s + k = n
  BY <1>2
<1>26. Got(q) \in Nat
  BY GotType
<1>3. rem[p] \in Int /\ rem[p] >= -Over /\ age[q] \in Int /\ age[q] >= Unseen /\ half[p] \in BOOLEAN
  BY PeerTypes
<1>4. Sending(q)' = b /\ Got(q)' = Got(q) /\ Early(q)' = Early(q) /\ Flying(q)'
  BY <1>1, <1>2 DEF Sending, Got, Early, Flying
<1>5. Rests(q)'
  BY <1>4 DEF Rests
<1>6. ~half[p] => ~Early(q)
  BY <1>1, <1>3, Durations DEF Link, Timing, Early
<1>7. /\ rem'[p] \in {Pair, Rest, Slot} /\ Delay < rem'[p] /\ rem'[p] + Over + Delay < Pause
      /\ Short + Delay <= Rest /\ Short + Delay <= Slot
  <2>1. rem'[p] \in {Pair, Rest, Slot}
    BY DEF TypeOK, SendBit, Sleep
  <2> QED
    BY <2>1, Durations DEF Punctual
<1>8. CASE Head(todo[p]) = 0 /\ ~half[p]
  <2>1. half'[p] = TRUE /\ rem'[p] = Pair /\ todo'[p] = todo[p]
    BY <1>8 DEF TypeOK, SendBit, Sleep
  <2>2. Sent(q)' = Sent(q)
    BY <1>2, <1>4, <2>1 DEF Sent
  <2>3. u[1] = 0
    <3>1. Head(u) = u[1]
      BY <1>21, SeqParts
    <3> QED
      BY <1>2, <1>8, <3>1
  <2>4. Suffix(q)'
    <3>1. k <= n
      BY <1>2
    <3> QED
      BY <1>1, <1>2, <1>4, <2>1, <2>2, <2>3, <3>1 DEF Suffix
  <2>5. Count(q)'
    <3>1. Got(q) = s - 0
      BY <1>1, <1>2, <1>8 DEF Link, Count
    <3>2. Got(q) = s + 0
      BY <3>1
    <3> QED
      BY <1>1, <1>2, <1>4, <2>1, <2>2, <3>2 DEF Count
  <2>6. Contents(q)'
    <3>1. Open(q)' = Open(q)
      BY <1>1, <1>8, <2>1 DEF Open
    <3>2. Sending(q)' = Sending(q) /\ Flying(q) /\ Contents(q)
      BY <1>1, <1>2, <1>4 DEF Link
    <3>3. message'[q] = message[q] /\ buffer'[q] = buffer[q] /\ input'[Other(q)] = input[Other(q)]
      BY <1>1
    <3> QED
      BY <3>1, <3>2, <3>3 DEF Contents
  <2>7. Timing(q)'
    BY <1>1, <1>4, <1>6, <1>7, <1>8, <2>1, Durations DEF Timing
  <2> QED
    BY <1>5, <2>4, <2>5, <2>6, <2>7 DEF Link
<1>9. CASE ~(Head(todo[p]) = 0 /\ ~half[p])
  <2>1. half'[p] = FALSE /\ rem'[p] = (IF half[p] THEN Rest ELSE Slot) /\ todo'[p] = Tail(todo[p])
    BY <1>9 DEF TypeOK, SendBit, Sleep
  <2>2. PICK v \in Seq(Bit) : /\ v = Tail(u) /\ Len(v) = k - 1
                              /\ \A i \in 1 .. k - 1 : v[i] = u[i + 1]
    BY <1>2, <1>21, SeqParts
  <2>3. Sent(q)' = s + 1
    <3>1. Sent(q)' = n - (k - 1)
      BY <1>2, <1>4, <2>1, <2>2 DEF Sent
    <3>2. n - (k - 1) = s + 1
      BY <1>27
    <3> QED
      BY <3>1, <3>2
  <2>4. u[1] = IF half[p] THEN 0 ELSE 1
    <3>1. CASE half[p]
      BY <1>1, <1>2, <3>1 DEF Link, Suffix
    <3>2. CASE ~half[p]
      <4>1. u[1] # 0 /\ u[1] \in Bit
        BY <1>2, <1>9, <1>21, <3>2, SeqParts
      <4> QED
        BY <3>2, <4>1 DEF Bit
    <3> QED
      BY <3>1, <3>2
  <2>5. Early(q) <=> half[p]
    <3>1. ASSUME half[p]
          PROVE  Early(q)
      <4>1. age[q] # Unseen /\ age[q] + rem[p] <= Pair
        BY <1>1, <3>1 DEF Link, Timing
      <4>2. Pair + Over < Short
        BY Durations DEF Punctual
      <4>3. age[q] < Short
        BY <1>3, <4>1, <4>2, Durations
      <4> QED
        BY <4>1, <4>3 DEF Early
    <3> QED
      BY <1>6, <3>1
  <2>6. Suffix(q)'
    <3>1. ASSUME NEW i \in 1 .. k - 1
          PROVE  v[i] = b[s + 1 + i]
      <4>1. i + 1 \in 1 .. k /\ s + (i + 1) = s + 1 + i
        BY <1>2
      <4> QED
        BY <1>2, <2>2, <4>1
    <3>2. Len(todo'[p]) = k - 1 /\ k - 1 <= Len(b)
      <4>1. k - 1 <= n
        BY <1>2
      <4> QED
        BY <1>2, <2>1, <2>2, <4>1
    <3>3. s + 1 >= 1 /\ b[s + 1] = IF half[p] THEN 0 ELSE 1
      <4>1. 1 \in 1 .. k
        BY <1>2
      <4> QED
        BY <1>2, <2>4, <4>1
    <3>4. \A i \in 1 .. Len(todo'[p]) : todo'[p][i] = b[s + 1 + i]
      BY <1>2, <2>1, <2>2, <3>1, <3>2
    <3> QED
      BY <1>1, <1>4, <2>1, <2>3, <2>5, <3>2, <3>3, <3>4 DEF Suffix
  <2>7. Count(q)'
    <3>1. Got(q) = (IF half[p] THEN s + 1 ELSE s - 0)
      BY <1>1, <1>2 DEF Link, Count
    <3>2. Got(q) = (s + 1) - (IF half[p] THEN 0 ELSE 1)
      <4>1. s - 0 = (s + 1) - 1 /\ s + 1 = (s + 1) - 0
        BY <1>27
      <4> QED
        BY <3>1, <4>1
    <3> QED
      BY <1>1, <1>4, <2>1, <2>3, <2>5, <3>2 DEF Count
  <2>8. Contents(q)'
    <3>1. Open(q)' <=> Open(q)
      BY <1>1, <1>4, <2>1, <2>5 DEF Open
    <3>2. Sending(q)' = Sending(q) /\ Flying(q) /\ Contents(q)
      BY <1>1, <1>2, <1>4 DEF Link
    <3>3. message'[q] = message[q] /\ buffer'[q] = buffer[q] /\ input'[Other(q)] = input[Other(q)]
      BY <1>1
    <3> QED
      BY <3>1, <3>2, <3>3 DEF Contents
  <2>9. Timing(q)'
    <3>1. half[p] => age[q] # Unseen /\ age[q] + rem[p] <= Pair
      BY <1>1 DEF Link, Timing
    <3>2. half[p] => age[q] + Delay < Short
      <4>1. Pair + Over + Delay < Short /\ Pair \in Nat /\ Over \in Nat /\ Delay \in Nat /\ Short \in Nat
        BY Durations DEF Punctual
      <4>2. ASSUME half[p]
            PROVE  age[q] + rem[p] <= Pair /\ rem[p] >= -Over /\ rem[p] \in Int /\ age[q] \in Int
        BY <1>3, <3>1, <4>2
      <4>3. ASSUME half[p]
            PROVE  age[q] <= Pair + Over
        BY <4>1, <4>2, <4>3
      <4> QED
        BY <1>3, <4>1, <4>3
    <3> QED
      BY <1>1, <1>4, <1>7, <2>1, <2>5, <3>2, Durations DEF Timing
  <2> QED
    BY <1>5, <2>6, <2>7, <2>8, <2>9 DEF Link
<1> QED
  BY <1>8, <1>9

\* The numbers and sequences of a line on its way to q.
LEMMA LineIs ==
  ASSUME TypeOK, NEW p \in Peer, NEW q \in Peer, p = Other(q), Link(q), Flying(q)
  PROVE  \E w \in Seq(Char), b \in Seq(Bit), u \in Seq(Bit) : \E l \in Nat, k \in Nat, s \in Nat :
           /\ w = input[p] /\ b = Sending(q) /\ u = todo[p] /\ b = BitsOf(w)
           /\ l = Len(w) /\ k = Len(u) /\ s = Sent(q)
           /\ Len(b) = 8 * l + 9 /\ s + k = 8 * l + 9
           /\ \A i \in 1 .. k : u[i] = b[s + i]
           /\ \A i \in 1 .. 9 : b[8 * l + i] = 1
<1>1. PICK w \in Seq(Char) : w = input[p]
  BY PeerTypes
<1>2. PICK l \in Nat : l = Len(w)
  OBVIOUS
<1>3. /\ BitsOf(w) \in Seq(Bit) /\ Len(BitsOf(w)) = 8 * l + 9
      /\ \A i \in 1 .. 9 : BitsOf(w)[8 * l + i] = 1
  BY <1>2, BitsAre
<1>4. PICK b \in Seq(Bit) : b = BitsOf(w)
  BY <1>3
<1>5. b = Sending(q)
  BY <1>1, <1>4 DEF Sending
<1>6. PICK u \in Seq(Bit) : u = todo[p]
  BY PeerTypes
<1>7. PICK k \in Nat : k = Len(u)
  OBVIOUS
<1>8. Len(todo[p]) <= Len(b) /\ \A i \in 1 .. Len(todo[p]) : todo[p][i] = b[Sent(q) + i]
  BY <1>5 DEF Link, Suffix, Flying
<1>9. k <= 8 * l + 9
  BY <1>3, <1>4, <1>6, <1>7, <1>8
<1>10. PICK s \in Nat : s = (8 * l + 9) - k /\ s + k = 8 * l + 9
  <2>1. (8 * l + 9) - k \in Nat /\ ((8 * l + 9) - k) + k = 8 * l + 9
    BY <1>2, <1>7, <1>9
  <2> QED
    BY <2>1
<1>11. s = Sent(q)
  BY <1>3, <1>4, <1>5, <1>6, <1>7, <1>10 DEF Sent
<1>12. Len(b) = 8 * l + 9 /\ \A i \in 1 .. 9 : b[8 * l + i] = 1
  BY <1>3, <1>4
<1>13. \A i \in 1 .. k : u[i] = b[s + i]
  BY <1>6, <1>7, <1>8, <1>11
<1> WITNESS w \in Seq(Char), b \in Seq(Bit), u \in Seq(Bit)
<1> WITNESS l \in Nat, k \in Nat, s \in Nat
<1> QED
  BY <1>1, <1>2, <1>4, <1>5, <1>6, <1>7, <1>10, <1>11, <1>12, <1>13

LEMMA TickLink ==
  ASSUME TypeOK, Punctual, NEW p \in Peer, NEW q \in Peer, p = Other(q), Link(q), Tick
  PROVE  Link(q)'
<1>1. /\ pc' = pc /\ input' = input /\ todo' = todo /\ half' = half
      /\ buffer' = buffer /\ message' = message
      /\ pend[q] # 0 /\ pend'[q] = (IF pend[q] = Clear THEN Clear ELSE pend[q] - 1)
      /\ (pend'[q] = Clear <=> pend[q] = Clear)
      /\ age'[q] = (IF age[q] = Unseen \/ age[q] = Short THEN age[q] ELSE age[q] + 1)
  BY TickFrame, TickClear
<1>2. /\ Flying(q)' = Flying(q) /\ Sending(q)' = Sending(q) /\ Sent(q)' = Sent(q)
      /\ Got(q)' = Got(q)
  BY <1>1 DEF Flying, Sending, Sent, Got
<1>3. CASE ~Flying(q)
  <2>1. buffer'[q] = <<>>
    BY <1>1, <1>3 DEF Link, Rests
  <2> QED
    BY <1>2, <1>3, <2>1, LinkIdle
<1>4. CASE Flying(q)
  <2>1. pc[p] = "send" /\ rem'[p] = rem[p] - 1 /\ rem[p] \in Int
    <3>1. pc[p] = "send"
      BY <1>4, FlyingSends DEF Link
    <3> QED
      BY <3>1, TickFrame, PeerTypes
  <2>2. /\ pend[q] \in Int /\ pend[q] >= Clear /\ age[q] \in Int /\ age[q] >= Unseen
        /\ age[q] <= Short /\ half[p] \in BOOLEAN
    BY PeerTypes
  <2>3. pend[q] # Clear => pend'[q] = pend[q] - 1 /\ pend[q] >= 1
    BY <1>1, <2>2 DEF Clear
  <2>4. Early(q)' => Early(q) /\ age'[q] = age[q] + 1
    BY <1>1, <2>2, Durations DEF Early, Unseen
  <2>5. pend[q] # Clear /\ ~half[p] /\ Early(q) => Early(q)' /\ age'[q] + pend'[q] < Short
    <3>1. pend[q] # Clear /\ ~half[p] /\ Early(q) => age[q] + pend[q] < Short
      BY <1>4 DEF Link, Timing
    <3>2. Early(q) => age[q] # Unseen /\ age[q] < Short /\ age'[q] = age[q] + 1
      BY <1>1, <2>2, Durations DEF Early
    <3>3. ASSUME pend[q] # Clear, ~half[p], Early(q)
          PROVE  age'[q] + pend'[q] < Short /\ age'[q] < Short /\ age'[q] # Unseen
      BY <2>2, <2>3, <3>1, <3>2, <3>3, Durations DEF Unseen
    <3> QED
      BY <3>3 DEF Early
  <2>6. pend[q] # Clear /\ ~half[p] => (Early(q)' <=> Early(q))
    BY <2>4, <2>5
  <2>7. Rests(q)'
    BY <1>1, <1>2 DEF Link, Rests
  <2>8. Suffix(q)'
    BY <1>1, <1>2, <1>4, <2>6 DEF Link, Suffix
  <2>9. Count(q)'
    BY <1>1, <1>2, <1>4, <2>6 DEF Link, Count
  <2>10. Contents(q)'
    <3>1. Open(q)' <=> Open(q)
      BY <1>1, <2>6 DEF Open
    <3> QED
      BY <1>1, <1>2, <1>4, <3>1 DEF Link, Contents
  <2>11. Timing(q)'
    <3>0. /\ rem[p] + Over + Delay < Pause
          /\ half[p] => rem[p] <= Pair
          /\ pend[q] # Clear => pend[q] < rem[p]
          /\ pend[q] # Clear /\ ~half[p] => pend[q] + Short <= rem[p]
          /\ pend[q] # Clear /\ half[p] => ~Early(q)
          /\ pend[q] = Clear /\ half[p] => age[q] # Unseen /\ age[q] + rem[p] <= Pair
          /\ pend[q] = Clear /\ ~half[p] /\ Early(q) => Short <= age[q] + rem[p]
      BY <1>4 DEF Link, Timing
    <3>1. rem'[p] + Over + Delay < Pause
      BY <2>1, <3>0, Durations
    <3>2. half[p] => rem'[p] <= Pair
      BY <2>1, <3>0, Durations
    <3>3. pend[q] # Clear => pend'[q] < rem'[p] /\ (~half[p] => pend'[q] + Short <= rem'[p])
      BY <2>1, <2>2, <2>3, <3>0, Durations
    <3>4. pend[q] # Clear /\ half[p] => ~Early(q)'
      BY <2>4, <3>0
    <3>5. pend[q] = Clear /\ half[p] => age'[q] # Unseen /\ age'[q] + rem'[p] <= Pair
      <4>1. age[q] # Unseen => age'[q] # Unseen /\ age'[q] <= age[q] + 1 /\ age'[q] \in Int
        BY <1>1, <2>2 DEF Unseen
      <4> QED
        BY <2>1, <2>2, <3>0, <4>1, Durations
    <3>6. pend[q] = Clear /\ ~half[p] /\ Early(q)' => Short <= age'[q] + rem'[p]
      BY <2>1, <2>2, <2>4, <3>0, Durations
    <3> QED
      BY <1>1, <1>2, <2>4, <2>5, <3>1, <3>2, <3>3, <3>4, <3>5, <3>6 DEF Timing
  <2> QED
    BY <2>7, <2>8, <2>9, <2>10, <2>11 DEF Link
<1> QED
  BY <1>3, <1>4

\* A signal is handled.  Its bit completes what is received of the line, whichever of
\* the handler's four outcomes it has.
LEMMA HandleLink ==
  ASSUME TypeInv, Punctual, NEW p \in Peer, NEW q \in Peer, p = Other(q), p # q, Link(q),
         Control(p), Handle(q)
  PROVE  /\ Link(q)'
         /\ EndsLine(q) => todo[p] = <<>> /\ message[q] = input[p]
         /\ ~EndsLine(q) => todo[p] # <<>>
<1>0. TypeOK /\ Local(q)
  BY DEF TypeInv
<1>1. /\ pc' = pc /\ input' = input /\ todo' = todo /\ half' = half
      /\ pend[q] # Clear /\ pend'[q] = Clear /\ rem'[p] = rem[p] /\ Flying(q)
      /\ (MakesZero(q) \/ AddsOne(q) \/ TakesChar(q) \/ EndsLine(q))
  BY <1>0, HandleFrame, HandleIs DEF Flying
<1>2. PICK w \in Seq(Char), b \in Seq(Bit), u \in Seq(Bit) : \E l \in Nat, k \in Nat, s \in Nat :
           /\ w = input[p] /\ b = Sending(q) /\ u = todo[p] /\ b = BitsOf(w)
           /\ l = Len(w) /\ k = Len(u) /\ s = Sent(q)
           /\ Len(b) = 8 * l + 9 /\ s + k = 8 * l + 9
           /\ \A i \in 1 .. k : u[i] = b[s + i]
           /\ \A i \in 1 .. 9 : b[8 * l + i] = 1
  BY <1>0, <1>1, LineIs
<1>3. PICK l \in Nat, k \in Nat, s \in Nat :
           /\ w = input[p] /\ b = Sending(q) /\ u = todo[p] /\ b = BitsOf(w)
           /\ l = Len(w) /\ k = Len(u) /\ s = Sent(q)
           /\ Len(b) = 8 * l + 9 /\ s + k = 8 * l + 9
           /\ \A i \in 1 .. k : u[i] = b[s + i]
           /\ \A i \in 1 .. 9 : b[8 * l + i] = 1
  BY <1>2
<1>4. PICK m \in Nat, n \in Nat : m = Len(message[q]) /\ n = Len(buffer[q]) /\ Got(q) = 8 * m + n
  BY <1>0, GotType
<1>5. l \in Nat /\ k \in Nat /\ s \in Nat /\ m \in Nat /\ n \in Nat /\ s + k = 8 * l + 9 /\ m <= l
  BY <1>1, <1>3, <1>4 DEF Link, Contents
<1>6. half[p] \in BOOLEAN /\ buffer[q] \in Seq(Bit) /\ message[q] \in Seq(0 .. 255)
  BY <1>0, PeerTypes
<1>7. /\ half[p] => ~Early(q) /\ k >= 1 /\ b[s + 1] = 0
      /\ ~half[p] => s >= 1 /\ b[s] = IF Early(q) THEN 0 ELSE 1
  <2>1. ASSUME half[p]
        PROVE  ~Early(q) /\ k >= 1 /\ b[s + 1] = 0
    <3>1. ~Early(q)
      BY <1>1, <2>1 DEF Link, Timing
    <3>2. u # <<>> /\ u[1] = 0
      BY <1>1, <1>3, <2>1 DEF Link, Suffix, Control
    <3>3. k >= 1
      BY <1>3, <3>2, SeqParts
    <3>4. 1 \in 1 .. k
      BY <1>5, <3>3
    <3> QED
      BY <1>3, <3>1, <3>2, <3>3, <3>4
  <2>2. ASSUME ~half[p]
        PROVE  s >= 1 /\ b[s] = IF Early(q) THEN 0 ELSE 1
    BY <1>1, <1>3, <2>2 DEF Link, Suffix
  <2> QED
    BY <2>1, <2>2
<1>8. /\ half[p] => 8 * m + n = s
      /\ ~half[p] /\ Early(q) => 8 * m + n = s
      /\ ~half[p] /\ ~Early(q) => 8 * m + n = s - 1
  <2>1. Got(q) = IF half[p] THEN s + 0 ELSE s - (IF Early(q) THEN 0 ELSE 1)
    BY <1>1, <1>3 DEF Link, Count
  <2>2. s + 0 = s /\ s - 0 = s
    BY <1>5
  <2> QED
    BY <1>4, <1>6, <2>1, <2>2
<1>9. /\ \A i \in 1 .. m : message[q][i] = w[i]
      /\ \A i \in 1 .. n : buffer[q][i] = IF i = n /\ Early(q) THEN 1 ELSE b[8 * m + i]
  <2>1. Open(q) <=> Early(q)
    BY <1>1, <1>6, <1>7 DEF Open
  <2> QED
    BY <1>1, <1>3, <1>4, <2>1 DEF Link, Contents
<1>10. Sending(q)' = b /\ Sent(q)' = s /\ (Open(q)' <=> half[p]) /\ (Flying(q)' <=> u # <<>>)
  BY <1>1, <1>3, <1>6 DEF Sending, Sent, Open, Flying
<1>11. Suffix(q)'
  BY <1>1, <1>3, <1>10 DEF Link, Suffix
<1>12. ASSUME age'[q] = 0
       PROVE  Timing(q)'
  <2>1. Early(q)' /\ 0 # Unseen
    BY <1>12, Durations DEF Early, Unseen
  <2>2. /\ rem[p] + Over + Delay < Pause /\ (half[p] => rem[p] <= Pair)
        /\ ~half[p] => pend[q] + Short <= rem[p]
    BY <1>1 DEF Link, Timing
  <2>3. ~half[p] => Short <= 0 + rem[p]
    <3>1. pend[q] \in Int /\ pend[q] >= Clear /\ rem[p] \in Int
      BY <1>0, PeerTypes
    <3>2. pend[q] >= 0
      BY <1>1, <3>1 DEF Clear
    <3> QED
      BY <2>2, <3>1, <3>2, Durations
  <2>4. 0 + rem[p] = rem[p]
    BY <1>0, PeerTypes
  <2> QED
    BY <1>1, <1>12, <2>1, <2>2, <2>3, <2>4 DEF Timing
<1>13. k >= 1 <=> u # <<>>
  <2>1. u = <<>> => Len(u) = 0
    OBVIOUS
  <2>2. u # <<>> => Len(u) >= 1
    BY SeqParts
  <2>3. k = Len(u)
    BY <1>3
  <2>4. ~(0 >= 1)
    OBVIOUS
  <2> QED
    BY <2>1, <2>2, <2>3, <2>4
<1>14. ASSUME age'[q] = 0, k >= 1,
              8 * Len(message'[q]) + Len(buffer'[q]) = (IF half[p] THEN s + 1 ELSE s),
              Len(message'[q]) <= l,
              \A i \in 1 .. Len(message'[q]) : message'[q][i] = w[i],
              \A i \in 1 .. Len(buffer'[q]) :
                buffer'[q][i] = IF i = Len(buffer'[q]) /\ half[p] THEN 1
                                ELSE b[8 * Len(message'[q]) + i]
       PROVE  Link(q)' /\ todo[p] # <<>>
  <2>1. u # <<>> /\ Flying(q)'
    BY <1>10, <1>13, <1>14
  <2>2. Rests(q)'
    BY <2>1 DEF Rests
  <2>3. Count(q)'
    <3>1. Got(q)' = IF half[p] THEN s + 1 ELSE s
      BY <1>14 DEF Got
    <3>2. s - 0 = s
      BY <1>5
    <3> QED
      BY <1>1, <1>3, <1>10, <3>1, <3>2 DEF Count
  <2>4. Contents(q)'
    <3>1. Len(input'[p]) = l /\ input'[p] = w
      BY <1>1, <1>3
    <3>2. \A i \in 1 .. Len(buffer'[q]) :
            buffer'[q][i] = IF i = Len(buffer'[q]) /\ Open(q)' THEN 1
                            ELSE Sending(q)'[8 * Len(message'[q]) + i]
      BY <1>10, <1>14
    <3> QED
      BY <1>14, <3>1, <3>2 DEF Contents
  <2> QED
    BY <1>3, <1>11, <1>12, <1>14, <2>1, <2>2, <2>3, <2>4 DEF Link
<1>15. CASE MakesZero(q)
  <2>1. buffer[q] # <<>> /\ Early(q) /\ ~half[p]
    BY <1>0, <1>7, <1>15 DEF MakesZero, Early, Local
  <2>2. PICK d \in Seq(Bit) : /\ d = Append(Front(buffer[q]), 0) /\ Len(d) = n /\ d[n] = 0
                              /\ \A i \in 1 .. n - 1 : d[i] = buffer[q][i]
    BY <1>4, <1>6, <2>1, FrontBits
  <2>3. buffer'[q] = d /\ message'[q] = message[q] /\ age'[q] = 0
    BY <1>0, <1>15, <2>2 DEF TypeOK, MakesZero
  <2>4. 8 * m + n = s /\ b[s] = 0 /\ s >= 1
    BY <1>7, <1>8, <2>1
  <2>5. k >= 1
    <3>1. ASSUME k = 0
          PROVE  FALSE
      <4>1. s = 8 * l + 9 /\ 9 \in 1 .. 9
        BY <1>5, <3>1
      <4> QED
        BY <1>3, <2>4, <4>1
    <3> QED
      BY <1>5, <3>1
  <2>6. ASSUME NEW i \in 1 .. n
        PROVE  d[i] = b[8 * m + i]
    <3>1. CASE i = n
      BY <2>2, <2>4, <3>1
    <3>2. CASE i # n
      <4>1. i \in 1 .. n - 1
        BY <1>5, <3>2
      <4> QED
        BY <1>9, <2>2, <3>2, <4>1
    <3> QED
      BY <3>1, <3>2
  <2>7. Link(q)' /\ todo[p] # <<>>
    <3>1. Len(message'[q]) = m /\ Len(buffer'[q]) = n
      BY <1>4, <2>2, <2>3
    <3>2. /\ 8 * Len(message'[q]) + Len(buffer'[q]) = (IF half[p] THEN s + 1 ELSE s)
          /\ Len(message'[q]) <= l
      BY <1>5, <2>1, <2>4, <3>1
    <3>3. \A i \in 1 .. Len(message'[q]) : message'[q][i] = w[i]
      BY <1>9, <2>3, <3>1
    <3>4. \A i \in 1 .. Len(buffer'[q]) :
            buffer'[q][i] = IF i = Len(buffer'[q]) /\ half[p] THEN 1
                            ELSE b[8 * Len(message'[q]) + i]
      BY <2>1, <2>3, <2>6, <3>1
    <3> QED
      BY <1>14, <2>3, <2>5, <3>2, <3>3, <3>4
  <2>8. ~EndsLine(q)
    BY <2>1 DEF EndsLine, Fills
  <2> QED
    BY <2>7, <2>8
<1>16. ASSUME ~Early(q)
       PROVE  /\ 8 * m + (n + 1) = (IF half[p] THEN s + 1 ELSE s)
              /\ ~half[p] => b[8 * m + (n + 1)] = 1
              /\ \A i \in 1 .. n : buffer[q][i] = b[8 * m + i]
  <2>1. 8 * m + (n + 1) = (IF half[p] THEN s + 1 ELSE s)
    <3>1. CASE half[p]
      <4>1. 8 * m + n = s
        BY <1>8, <3>1
      <4>2. 8 * m + (n + 1) = s + 1
        BY <1>5, <4>1
      <4> QED
        BY <3>1, <4>2
    <3>2. CASE ~half[p]
      <4>1. 8 * m + n = s - 1
        BY <1>8, <1>16, <3>2
      <4>2. 8 * m + (n + 1) = s
        BY <1>5, <4>1
      <4> QED
        BY <3>2, <4>2
    <3> QED
      BY <3>1, <3>2
  <2> QED
    BY <1>7, <1>9, <1>16, <2>1
<1>17. CASE AddsOne(q)
  <2>1. ~Early(q) /\ n <= 7
    <3>1. age[q] = Unseen => n = 0
      BY <1>0, <1>4 DEF Local
    <3>2. age[q] # Unseen => n = 0 \/ (counter[q] = n - 1 /\ counter[q] < 7)
      BY <1>0, <1>4, <1>17 DEF Local, AddsOne
    <3> QED
      BY <1>5, <1>17, <3>1, <3>2 DEF AddsOne
  <2>2. PICK d \in Seq(Bit) : /\ d = Append(buffer[q], 1) /\ Len(d) = n + 1 /\ d[n + 1] = 1
                              /\ \A i \in 1 .. n : d[i] = buffer[q][i]
    <3>1. 1 \in Bit
      BY DEF Bit
    <3> QED
      <4>1. PICK x \in Seq(Bit) : x = buffer[q]
        BY <1>6
      <4>2. Len(x) = n
        BY <1>4, <4>1
      <4>3. /\ Append(x, 1) \in Seq(Bit) /\ Len(Append(x, 1)) = Len(x) + 1
            /\ Append(x, 1)[Len(x) + 1] = 1
            /\ \A i \in 1 .. Len(x) : Append(x, 1)[i] = x[i]
        BY <3>1, AddBit
      <4> QED
        BY <4>1, <4>2, <4>3
  <2>3. buffer'[q] = d /\ message'[q] = message[q] /\ age'[q] = 0
    BY <1>0, <1>17, <2>2 DEF TypeOK, AddsOne
  <2>4. k >= 1
    <3>1. CASE half[p]
      BY <1>7, <3>1
    <3>2. CASE ~half[p]
      <4>1. 8 * m + (n + 1) = s
        BY <1>16, <2>1, <3>2
      <4> QED
        BY <1>5, <2>1, <4>1
    <3> QED
      BY <3>1, <3>2
  <2>5. ASSUME NEW i \in 1 .. n + 1
        PROVE  d[i] = IF i = n + 1 /\ half[p] THEN 1 ELSE b[8 * m + i]
    <3>1. CASE i = n + 1
      BY <1>16, <2>1, <2>2, <3>1
    <3>2. CASE i # n + 1
      <4>1. i \in 1 .. n
        BY <1>5, <3>2
      <4> QED
        BY <1>16, <2>1, <2>2, <3>2, <4>1
    <3> QED
      BY <3>1, <3>2
  <2>6. Link(q)' /\ todo[p] # <<>>
    BY <1>4, <1>5, <1>9, <1>14, <1>16, <2>1, <2>2, <2>3, <2>4, <2>5
  <2>7. ~EndsLine(q)
    <3>1. ~(n = 8)
      BY <2>1, <1>5
    <3> QED
      BY <1>4, <3>1 DEF EndsLine, Fills
  <2> QED
    BY <2>6, <2>7
<1>18. ASSUME Fills(q)
       PROVE  /\ ~Early(q) /\ n = 8
              /\ IF m = l THEN AllOnes(buffer[q])
                          ELSE ~AllOnes(buffer[q]) /\ convertBack(buffer[q]) = w[m + 1]
  <2>1. ~Early(q) /\ n = 8
    BY <1>4, <1>18 DEF Fills
  <2>2. \A i \in 1 .. 8 : buffer[q][i] = BitsOf(w)[8 * m + i]
    BY <1>3, <1>16, <2>1
  <2>3. m \in 0 .. Len(w) /\ Len(buffer[q]) >= 8
    <3>1. m \in 0 .. l /\ n >= 8
      BY <1>5, <2>1
    <3> QED
      BY <1>3, <1>4, <3>1
  <2> QED
    BY <1>3, <1>6, <2>1, <2>2, <2>3, FullCharacter
<1>19. CASE TakesChar(q)
  <2>1. ~Early(q) /\ n = 8 /\ m # l /\ convertBack(buffer[q]) = w[m + 1]
    BY <1>18, <1>19 DEF TakesChar
  <2>2. m + 1 <= l
    BY <1>5, <2>1
  <2>3. convertBack(buffer[q]) \in 0 .. 255
    BY <1>4, <1>6, <2>1, SumType
  <2>4. PICK t \in Seq(0 .. 255) : /\ t = Append(message[q], convertBack(buffer[q]))
                                   /\ Len(t) = m + 1 /\ t[m + 1] = w[m + 1]
                                   /\ \A i \in 1 .. m : t[i] = message[q][i]
    <3>1. PICK c \in 0 .. 255 : c = convertBack(buffer[q])
      BY <2>3
    <3>2. PICK x \in Seq(0 .. 255) : x = message[q]
      BY <1>6
    <3>3. /\ Append(x, c) \in Seq(0 .. 255) /\ Len(Append(x, c)) = Len(x) + 1
          /\ Append(x, c)[Len(x) + 1] = c /\ \A i \in 1 .. Len(x) : Append(x, c)[i] = x[i]
      OBVIOUS
    <3> QED
      BY <1>4, <2>1, <3>1, <3>2, <3>3
  <2>5. buffer'[q] = <<1>> /\ message'[q] = t /\ age'[q] = 0
    BY <1>0, <1>19, <2>4 DEF TypeOK, TakesChar
  <2>6. 8 * m + 9 = (IF half[p] THEN s + 1 ELSE s) /\ (~half[p] => b[8 * m + 9] = 1)
    <3>1. n + 1 = 9
      BY <2>1
    <3> QED
      BY <1>16, <2>1, <3>1
  <2>7. 8 * (m + 1) + 1 = 8 * m + 9
    BY <1>5
  <2>8. k >= 1
    <3>1. CASE half[p]
      BY <1>7, <3>1
    <3>2. CASE ~half[p]
      <4>1. 8 * m + 9 = s
        BY <2>6, <3>2
      <4> QED
        BY <1>5, <2>2, <4>1
    <3> QED
      BY <3>1, <3>2
  <2>9. Len(<<1>>) = 1 /\ <<1>>[1] = 1 /\ \A i \in 1 .. 1 : i = 1
    OBVIOUS
  <2>10. \A i \in 1 .. m + 1 : t[i] = w[i]
    <3>1. ASSUME NEW i \in 1 .. m + 1, i # m + 1
          PROVE  t[i] = w[i]
      <4>1. i \in 1 .. m
        BY <1>5, <3>1
      <4> QED
        BY <1>9, <2>4, <4>1
    <3> QED
      BY <2>4, <3>1
  <2>11. Link(q)' /\ todo[p] # <<>>
    <3>1. 8 * Len(message'[q]) + Len(buffer'[q]) = (IF half[p] THEN s + 1 ELSE s)
      BY <2>4, <2>5, <2>6, <2>7, <2>9
    <3>2. \A i \in 1 .. Len(buffer'[q]) :
            buffer'[q][i] = IF i = Len(buffer'[q]) /\ half[p] THEN 1
                            ELSE b[8 * Len(message'[q]) + i]
      <4>1. Len(buffer'[q]) = 1 /\ buffer'[q][1] = 1
            /\ 8 * Len(message'[q]) + 1 = 8 * m + 9
        BY <2>4, <2>5, <2>7, <2>9
      <4> QED
        BY <2>6, <2>9, <4>1
    <3> QED
      BY <1>14, <2>2, <2>4, <2>5, <2>8, <2>10, <3>1, <3>2
  <2>12. ~EndsLine(q)
    BY <1>19 DEF EndsLine, TakesChar
  <2> QED
    BY <2>11, <2>12
<1>20. CASE EndsLine(q)
  <2>1. ~Early(q) /\ n = 8 /\ m = l
    BY <1>18, <1>20 DEF EndsLine
  <2>2. ~half[p]
    <3>1. ASSUME half[p]
          PROVE  FALSE
      <4>1. 8 * m + n = s /\ b[s + 1] = 0
        BY <1>7, <1>8, <3>1
      <4>2. s + 1 = 8 * l + 9 /\ 9 \in 1 .. 9
        BY <1>5, <2>1, <4>1
      <4>3. b[8 * l + 9] = 1
        BY <1>3, <4>2
      <4> QED
        BY <4>1, <4>2, <4>3
    <3> QED
      BY <3>1
  <2>3. k = 0
    <3>1. 8 * m + (n + 1) = s
      BY <1>16, <2>1, <2>2
    <3> QED
      BY <1>5, <2>1, <3>1
  <2>4. u = <<>> /\ ~Flying(q)'
    BY <1>10, <1>13, <2>3
  <2>5. buffer'[q] = <<>>
    BY <1>0, <1>20 DEF TypeOK, EndsLine
  <2>6. Link(q)'
    BY <2>4, <2>5, LinkIdle
  <2>7. message[q] = input[p]
    <3>1. PICK x \in Seq(0 .. 255) : x = message[q]
      BY <1>6
    <3>2. Len(x) = Len(w) /\ \A i \in 1 .. Len(w) : x[i] = w[i]
      BY <1>3, <1>4, <1>9, <2>1, <3>1
    <3>3. x = w
      BY <3>2
    <3> QED
      BY <1>3, <3>1, <3>3
  <2> QED
    BY <1>3, <1>20, <2>4, <2>6, <2>7
<1> QED
  BY <1>1, <1>15, <1>17, <1>19, <1>20

\* While a signal is pending at p, nothing is on its way to the other peer.
LEMMA OneWay ==
  ASSUME NEW p \in Peer, NEW q \in Peer, p = Other(q), q = Other(p), Arbitration(p), pend[p] # Clear
  PROVE  ~Flying(q)
BY DEF Arbitration, Flying

LEMMA LinkStep ==
  ASSUME TypeInv, SingleInv, Punctual, [Next]_vars, NEW q \in Peer
  PROVE  Link(q)'
<1>1. PICK p \in Peer : p = Other(q) /\ q = Other(p) /\ p # q /\ \A r \in Peer : r = p \/ r = q
  BY Others
<1>2. TypeOK /\ Local(q) /\ Control(p) /\ Link(q) /\ Arbitration(p)
  BY DEF TypeInv, SingleInv
<1>3. CASE UNCHANGED vars
  BY <1>2, <1>3, LinkSame DEF vars, main, recv
<1>4. CASE Tick
  BY <1>1, <1>2, <1>4, TickLink
<1>5. CASE Handle(q)
  BY <1>1, <1>2, <1>5, HandleLink
<1>6. CASE Handle(p)
  <2>1. /\ todo' = todo /\ pend[p] # Clear /\ pend'[q] = pend[q] /\ buffer'[q] = buffer[q]
    BY <1>1, <1>6, HandleFrame
  <2>2. ~Flying(q)
    BY <1>1, <1>2, <2>1, OneWay
  <2>3. ~Flying(q)' /\ buffer'[q] = <<>>
    BY <1>2, <2>1, <2>2 DEF Flying, Link, Rests
  <2> QED
    BY <2>3, LinkIdle
<1>7. CASE Main(q) \/ Type(q)
  <2>1. /\ pc'[p] = pc[p] /\ input'[p] = input[p] /\ todo'[p] = todo[p] /\ half'[p] = half[p]
        /\ rem'[p] = rem[p] /\ pend'[q] = pend[q]
        /\ buffer' = buffer /\ message' = message /\ age' = age
    BY <1>1, <1>2, <1>7, MainFrame
  <2> QED
    BY <1>1, <1>2, <2>1, LinkSame
<1>8. CASE Top(p) \/ Type(p) \/ Hold(p) \/ Again(p)
  <2>1. pc[p] # "send" /\ todo'[p] = todo[p] /\ pend' = pend
    BY <1>2, <1>8, QuietFrame
  <2>2. buffer' = buffer
    BY <1>1, <1>2, <1>8, MainFrame DEF Main
  <2>3. ~Flying(q)
    BY <1>1, <1>2, <2>1, FlyingSends DEF Link
  <2>4. ~Flying(q)' /\ buffer'[q] = <<>>
    BY <1>1, <1>2, <2>1, <2>2, <2>3 DEF Flying, Link, Rests
  <2> QED
    BY <2>4, LinkIdle
<1>9. CASE StartSend(p)
  BY <1>1, <1>2, <1>9, StartLink
<1>10. CASE SendBit(p)
  BY <1>1, <1>2, <1>10, SendLink
<1>11. CASE SendOver(p)
  <2>1. todo[p] = <<>> /\ rem[p] <= 0 /\ todo' = todo /\ pend' = pend /\ buffer' = buffer
    BY <1>11 DEF SendOver, At, recv
  <2>2. pend[q] = Clear
    BY <1>1, <1>2, <2>1, NothingPending
  <2>3. ~Flying(q)' /\ buffer'[q] = <<>>
    BY <1>1, <1>2, <2>1, <2>2 DEF Flying, Link, Rests
  <2> QED
    BY <2>3, LinkIdle
<1>12. \A r \in Peer : Main(r) \/ Type(r) \/ Handle(r) => r = p \/ r = q
  BY <1>1
<1> QED
  BY <1>3, <1>4, <1>5, <1>6, <1>7, <1>8, <1>9, <1>10, <1>11, <1>12 DEF Next, Main

-----------------------------------------------------------------------------
(* The arbitration. *)

LEMMA BothWays ==
  ASSUME NEW a \in Peer, NEW o \in Peer, o = Other(a), a = Other(o),
         \A r \in Peer : r = a \/ r = o,
         Active(a)' => ~Active(o)',
         todo'[a] # <<>> => pend'[a] = Clear, todo'[o] # <<>> => pend'[o] = Clear,
         pend'[a] # Clear => pend'[o] = Clear
  PROVE  \A r \in Peer : Arbitration(r)'
<1>1. Arbitration(a)'
  BY DEF Arbitration
<1>2. Arbitration(o)'
  BY DEF Arbitration
<1> QED
  BY <1>1, <1>2

LEMMA ActiveSame ==
  ASSUME NEW r \in Peer, pc'[r] = pc[r], input'[r] = input[r], todo'[r] = todo[r],
         buffer'[r] = buffer[r], message'[r] = message[r]
  PROVE  Active(r)' = Active(r)
BY DEF Active, Wants, Idle

LEMMA ArbitrationMain ==
  ASSUME TypeInv, SingleInv, Turns, Punctual, NEW a \in Peer, Main(a) \/ Type(a)
  PROVE  \A r \in Peer : Arbitration(r)'
<1>1. PICK o \in Peer : o = Other(a) /\ a = Other(o) /\ o # a /\ \A r \in Peer : r = a \/ r = o
  BY Others
<1>2. /\ TypeOK /\ Local(a) /\ Control(a) /\ Control(o) /\ Link(a) /\ Link(o)
      /\ Active(a) => ~Active(o)
      /\ todo[a] # <<>> => pend[a] = Clear
      /\ todo[o] # <<>> => pend[o] = Clear
      /\ pend[a] # Clear => pend[o] = Clear
  BY <1>1 DEF TypeInv, SingleInv, Arbitration
<1>3. /\ pc'[o] = pc[o] /\ input'[o] = input[o] /\ todo'[o] = todo[o]
      /\ pend'[a] = pend[a] /\ buffer' = buffer /\ message' = message
  BY <1>1, <1>2, MainFrame
<1>4. Active(o)' = Active(o)
  BY <1>3, ActiveSame
<1>5. ASSUME Active(a)' => Active(a), todo'[a] # <<>> => todo[a] # <<>>, pend'[o] = pend[o]
      PROVE  \A r \in Peer : Arbitration(r)'
  BY <1>1, <1>2, <1>3, <1>4, <1>5, BothWays
<1>6. CASE Top(a)
  <2>1. /\ pc[a] = "top" /\ todo' = todo /\ pend' = pend /\ input' = input
        /\ pc'[a] = IF input[a] = <<>> /\ Idle(a) THEN "input" ELSE "check"
    BY <1>2, <1>6 DEF TypeOK, Top, At
  <2>2. Active(a)' => Active(a)
    BY <1>3, <2>1 DEF Active, Wants, Idle
  <2> QED
    BY <1>5, <2>1, <2>2
<1>7. CASE Type(a)
  <2>1. /\ pc[a] = "input" /\ todo' = todo /\ pend' = pend /\ todo[a] = <<>>
        /\ \/ pc[o] \in {"input", "pause"} /\ input[o] = <<>>
           \/ buffer[a] # <<>>
    BY <1>1, <1>2, <1>7 DEF Type, At, Control
  <2>2. Active(a)' => ~Active(o)'
    <3>1. CASE buffer[a] # <<>>
      BY <1>3, <2>1, <3>1 DEF Active, Idle
    <3>2. CASE pc[o] \in {"input", "pause"} /\ input[o] = <<>>
      BY <1>2, <1>4, <3>2 DEF Active, Wants, Control
    <3> QED
      BY <2>1, <3>1, <3>2
  <2> QED
    BY <1>1, <1>2, <2>1, <2>2, BothWays
<1>8. CASE StartSend(a)
  <2>1. pc[a] = "check" /\ Idle(a) /\ pend' = pend
    BY <1>8 DEF StartSend, At
  <2>2. Active(a) /\ ~Active(o) /\ todo[o] = <<>> /\ half[o] = FALSE
    <3>1. Active(a)
      BY <2>1 DEF Active, Wants
    <3>2. half[o] \in BOOLEAN
      BY <1>2, PeerTypes
    <3> QED
      BY <1>2, <3>1, <3>2 DEF Active, Control
  <2>3. pend[a] = Clear
    <3>1. ASSUME Flying(a)
          PROVE  FALSE
      <4>1. PICK w \in Seq(Char), b \in Seq(Bit), u \in Seq(Bit) : \E l \in Nat, k \in Nat, s \in Nat :
                   /\ w = input[o] /\ b = Sending(a) /\ u = todo[o] /\ b = BitsOf(w)
                   /\ l = Len(w) /\ k = Len(u) /\ s = Sent(a)
                   /\ Len(b) = 8 * l + 9 /\ s + k = 8 * l + 9
                   /\ \A i \in 1 .. k : u[i] = b[s + i]
                   /\ \A i \in 1 .. 9 : b[8 * l + i] = 1
        BY <1>1, <1>2, <3>1, LineIs
      <4>2. PICK l \in Nat, k \in Nat, s \in Nat : k = Len(todo[o]) /\ s = Sent(a) /\ s + k = 8 * l + 9
        BY <4>1
      <4>3. k = 0
        <5>1. Len(<<>>) = 0
          OBVIOUS
        <5> QED
          BY <2>2, <4>2, <5>1
      <4>4. s >= 9
        BY <4>2, <4>3
      <4>5. Got(a) = 0
        BY <2>1 DEF Idle, Got
      <4>6. Got(a) = s - 1 \/ Got(a) = s - 0
        BY <1>1, <1>2, <2>2, <3>1, <4>2 DEF Link, Count
      <4> QED
        BY <4>4, <4>5, <4>6, <4>2
    <3> QED
      BY <3>1 DEF Flying
  <2> QED
    BY <1>1, <1>2, <1>3, <1>4, <2>1, <2>2, <2>3, BothWays
<1>9. CASE Hold(a)
  <2>1. /\ pc[a] = "check" /\ ~Idle(a) /\ pend' = pend /\ todo' = todo /\ input' = input
        /\ pc'[a] = "pause"
    BY <1>2, <1>9 DEF TypeOK, Hold, At
  <2>2. Active(a)' => Active(a)
    BY <1>3, <2>1 DEF Active, Wants, Idle
  <2> QED
    BY <1>5, <2>1, <2>2
<1>10. CASE SendBit(a)
  <2>1. /\ todo[a] # <<>> /\ pc[a] = "send" /\ pc' = pc
    BY <1>10 DEF SendBit, At
  <2>2. Active(a) /\ ~Active(o) /\ todo[o] = <<>> /\ pend[a] = Clear
    BY <1>2, <2>1 DEF Active
  <2> QED
    BY <1>1, <1>2, <1>3, <1>4, <2>1, <2>2, BothWays
<1>11. CASE SendOver(a)
  <2>1. /\ todo[a] = <<>> /\ pend' = pend /\ todo' = todo /\ input'[a] = <<>> /\ pc'[a] = "pause"
    BY <1>2, <1>11 DEF TypeOK, SendOver
  <2>2. ~Active(a)'
    BY <2>1 DEF Active, Wants
  <2> QED
    BY <1>5, <2>1, <2>2
<1>12. CASE Again(a)
  <2>1. /\ pc[a] = "pause" /\ pc'[a] = "top" /\ pend' = pend /\ todo' = todo /\ input' = input
    BY <1>2, <1>12 DEF TypeOK, Again, At
  <2>2. Active(a)' => Active(a)
    BY <1>3, <2>1 DEF Active, Wants, Idle
  <2> QED
    BY <1>5, <2>1, <2>2
<1> QED
  BY <1>6, <1>7, <1>8, <1>9, <1>10, <1>11, <1>12 DEF Main

LEMMA ArbitrationStep ==
  ASSUME TypeInv, SingleInv, Turns, Punctual, [Next]_vars
  PROVE  \A r \in Peer : Arbitration(r)'
<1>0. TypeOK /\ \A r \in Peer : Arbitration(r)
  BY DEF TypeInv, SingleInv
<1>1. CASE UNCHANGED vars
  BY <1>0, <1>1 DEF Arbitration, Active, Wants, Idle, vars, main, recv
<1>2. CASE Tick
  <2>1. /\ pc' = pc /\ input' = input /\ todo' = todo /\ buffer' = buffer /\ message' = message
        /\ \A r \in Peer : pend'[r] = Clear <=> pend[r] = Clear
    BY <1>0, <1>2, TickClear DEF Tick, main, recv
  <2>2. ASSUME NEW r \in Peer
        PROVE  Arbitration(r)'
    <3>1. Other(r) \in Peer /\ Arbitration(r)
      BY <1>0, Others
    <3>2. Active(r)' = Active(r) /\ Active(Other(r))' = Active(Other(r))
      BY <2>1, <3>1, ActiveSame
    <3>3. /\ pend'[r] = Clear <=> pend[r] = Clear
          /\ pend'[Other(r)] = Clear <=> pend[Other(r)] = Clear
      BY <2>1, <3>1
    <3> QED
      BY <2>1, <3>1, <3>2, <3>3 DEF Arbitration
  <2> QED
    BY <2>2
<1>3. ASSUME NEW a \in Peer, Handle(a)
      PROVE  \A r \in Peer : Arbitration(r)'
  <2>1. PICK o \in Peer : o = Other(a) /\ a = Other(o) /\ o # a /\ \A r \in Peer : r = a \/ r = o
    BY Others
  <2>2. /\ Control(o) /\ Link(a) /\ Local(a)
        /\ Active(a) => ~Active(o)
        /\ todo[o] # <<>> => pend[o] = Clear
    BY <2>1 DEF SingleInv, Arbitration
  <2>3. /\ pc' = pc /\ input' = input /\ todo' = todo /\ pend[a] # Clear /\ pend'[a] = Clear
        /\ pend'[o] = pend[o] /\ buffer'[o] = buffer[o] /\ message'[o] = message[o]
    BY <2>1, <1>3, HandleFrame
  <2>4. Active(o)' = Active(o)
    BY <2>3, ActiveSame
  <2>5. Active(a)' => ~Active(o)'
    <3>1. CASE EndsLine(a)
      <4>1. todo[o] = <<>>
        BY <1>3, <2>1, <2>2, <3>1, HandleLink
      <4>2. pc[o] = "send"
        BY <2>1, <2>2, <2>3, FlyingSends DEF Link, Flying
      <4> QED
        BY <2>4, <4>1, <4>2 DEF Active, Wants
    <3>2. CASE ~EndsLine(a)
      <4>1. Local(a)' /\ (MakesZero(a) \/ AddsOne(a) \/ TakesChar(a))
        BY <1>0, <1>3, <2>2, <3>2, HandleIs, HandleTypes DEF TypeInv
      <4>2. age'[a] = 0
        BY <1>0, <4>1 DEF TypeOK, MakesZero, AddsOne, TakesChar
      <4>3. buffer'[a] # <<>>
        BY <4>1, <4>2 DEF Local, Unseen
      <4>4. ~Idle(a)'
        BY <4>3 DEF Idle
      <4>5. Active(a)' => Active(a)
        BY <2>3, <4>4 DEF Active
      <4> QED
        BY <2>2, <2>4, <4>5
    <3> QED
      BY <3>1, <3>2
  <2>6. todo'[a] # <<>> => pend'[a] = Clear
    BY <2>3
  <2>7. todo'[o] # <<>> => pend'[o] = Clear
    BY <2>2, <2>3
  <2>8. pend'[a] # Clear => pend'[o] = Clear
    BY <2>3
  <2> QED
    BY <2>1, <2>5, <2>6, <2>7, <2>8, BothWays
<1> QED
  BY <1>1, <1>2, <1>3, ArbitrationMain DEF Next

-----------------------------------------------------------------------------
(* Who wakes when. *)

\* A peer that has received something of a line is not sending one, and the other is.
LEMMA ReceivesOnly ==
  ASSUME NEW p \in Peer, NEW q \in Peer, p = Other(q), q = Other(p), Local(q), Link(q),
         Arbitration(p), Arbitration(q), age[q] # Unseen
  PROVE  /\ Flying(q) /\ pc[p] = "send" /\ ~Idle(q) /\ buffer[q] # <<>>
         /\ todo[q] = <<>> /\ pend[p] = Clear
<1>1. buffer[q] # <<>> /\ ~Idle(q)
  BY DEF Local, Idle
<1>2. Flying(q)
  BY <1>1 DEF Link, Rests
<1>3. pc[p] = "send"
  BY <1>2, FlyingSends DEF Link
<1>4. pend[p] = Clear
  BY <1>2, OneWay
<1>5. todo[q] = <<>>
  BY <1>2 DEF Flying, Arbitration, Active
<1> QED
  BY <1>1, <1>2, <1>3, <1>4, <1>5

LEMMA WakesMain ==
  ASSUME TypeInv, SingleInv, Punctual, NEW q \in Peer, Main(q) \/ Type(q)
  PROVE  Wakes(q)'
<1>1. PICK p \in Peer : p = Other(q) /\ q = Other(p) /\ p # q
  BY Others
<1>2. /\ TypeOK /\ Local(q) /\ Control(q) /\ Link(q) /\ Arbitration(p) /\ Arbitration(q)
      /\ Wakes(q) /\ Printing(q)
  BY <1>1 DEF TypeInv, SingleInv
<1>3. /\ rem'[p] = rem[p] /\ pend'[q] = pend[q]
      /\ buffer' = buffer /\ message' = message /\ age' = age /\ printed' = printed
  BY <1>1, <1>2, MainFrame
<1> SUFFICES ASSUME age[q] # Unseen
             PROVE  Wakes(q)'
  BY <1>3 DEF Wakes
<1>4. Flying(q) /\ pc[p] = "send" /\ ~Idle(q) /\ todo[q] = <<>>
  BY <1>1, <1>2, ReceivesOnly
<1>5. /\ pend[q] \in Int /\ rem[p] \in Int /\ age[q] \in Int
      /\ rem[p] + Over + Delay < Pause /\ (pend[q] # Clear => pend[q] < rem[p])
  BY <1>1, <1>2, <1>4, PeerTypes DEF Link, Timing
<1>6. CASE Top(q)
  <2>1. /\ pc[q] = "top" /\ pc'[q] = "check" /\ rem'[q] = rem[q] /\ typed' = typed /\ rem[q] <= 0
    BY <1>2, <1>4, <1>6 DEF TypeOK, Top, At
  <2>2. rem[q] \in Int
    BY <1>2, PeerTypes
  <2> QED
    BY <1>2, <1>3, <2>1, <2>2 DEF Wakes
<1>7. CASE Type(q)
  <2>1. /\ pc'[q] = "check" /\ rem'[q] = rem[q] /\ rem[q] <= 0
        /\ \E line \in Lines : typed'[q] = Append(typed[q], line)
    BY <1>2, <1>7 DEF TypeOK, Type, At
  <2>2. Behind(q)'
    <3>1. PICK line \in Lines : typed'[q] = Append(typed[q], line)
      BY <2>1
    <3>2. typed[q] \in Seq(Lines) /\ printed[p] \in Seq(Seq(0 .. 255))
      BY <1>2 DEF TypeOK
    <3>3. Len(Append(typed[q], line)) = Len(typed[q]) + 1
      BY <3>2
    <3>4. PICK x \in Nat, y \in Nat : x = Len(printed[p]) /\ y = Len(typed[q])
      BY <3>2
    <3>5. x <= y
      BY <1>1, <1>2, <3>4 DEF Printing
    <3>6. x < y + 1
      BY <3>4, <3>5
    <3> QED
      BY <1>1, <1>3, <3>1, <3>3, <3>4, <3>6 DEF Behind
  <2>3. rem[q] \in Int /\ ~(rem[q] > 0)
    BY <1>2, <2>1, PeerTypes
  <2> QED
    BY <2>1, <2>2, <2>3 DEF Wakes
<1>8. CASE StartSend(q)
  BY <1>4, <1>8 DEF StartSend
<1>9. CASE Hold(q) \/ SendOver(q)
  <2>1. pc'[q] = "pause" /\ rem'[q] = Pause
    BY <1>2, <1>9 DEF TypeOK, Hold, SendOver, Sleep
  <2>2. /\ rem[p] + Over + Delay < Pause /\ (pend[q] # Clear => pend[q] < Pause)
        /\ ~(Pause <= 0)
    BY <1>5, Durations
  <2> QED
    BY <1>1, <1>3, <2>1, <2>2 DEF Wakes
<1>10. CASE SendBit(q)
  BY <1>4, <1>10 DEF SendBit
<1>11. CASE Again(q)
  <2>1. /\ pc[q] = "pause" /\ pc'[q] = "top" /\ rem'[q] = rem[q] /\ rem[q] <= 0
    BY <1>2, <1>11 DEF TypeOK, Again, At
  <2>2. rem[q] \in Int
    BY <1>2, PeerTypes
  <2> QED
    BY <1>2, <1>3, <2>1, <2>2 DEF Wakes
<1> QED
  BY <1>6, <1>7, <1>8, <1>9, <1>10, <1>11 DEF Main

LEMMA WakesOther ==
  ASSUME TypeInv, SingleInv, Punctual, NEW p \in Peer, NEW q \in Peer, p = Other(q), q = Other(p),
         p # q, Main(p) \/ Type(p)
  PROVE  Wakes(q)'
<1>2. /\ TypeOK /\ Local(q) /\ Control(q) /\ Link(q) /\ Arbitration(p) /\ Arbitration(q)
      /\ Wakes(q)
  BY DEF TypeInv, SingleInv
<1>3. /\ pc'[q] = pc[q] /\ rem'[q] = rem[q] /\ typed'[q] = typed[q]
      /\ age' = age /\ printed' = printed
  BY <1>2, MainFrame
<1> SUFFICES ASSUME age[q] # Unseen
             PROVE  Wakes(q)'
  BY <1>3 DEF Wakes
<1>4. Flying(q) /\ pc[p] = "send"
  BY <1>2, ReceivesOnly
<1>5. Behind(q)' = Behind(q)
  BY <1>3 DEF Behind
<1>6. SendBit(p) \/ SendOver(p)
  BY <1>4 DEF Main, Top, Type, StartSend, Hold, Again, At
<1>7. rem[p] <= 0 /\ pend[q] = Clear
  BY <1>2, <1>6, NothingPending DEF SendBit, SendOver, At
<1>8. SendBit(p)
  BY <1>4, <1>6, <1>7 DEF SendOver, Flying
<1>9. pend'[q] = Delay
  BY <1>2, <1>7, <1>8 DEF TypeOK, SendBit, Kill
<1>10. pc[q] = "pause" /\ rem[q] > 0 => Delay < rem[q]
  <2>1. rem[p] \in Int /\ rem[p] >= -Over /\ rem[q] \in Int
    BY <1>2, PeerTypes
  <2>2. pc[q] = "pause" /\ rem[q] > 0 => rem[p] + Over + Delay < rem[q]
    BY <1>2, <1>7 DEF Wakes
  <2> QED
    BY <2>1, <2>2, Durations
<1>11. Delay # Clear
  BY Durations DEF Clear
<1> QED
  BY <1>2, <1>3, <1>5, <1>9, <1>10, <1>11 DEF Wakes

LEMMA WakesTick ==
  ASSUME TypeInv, SingleInv, Punctual, NEW q \in Peer, Tick
  PROVE  Wakes(q)'
<1>1. PICK p \in Peer : p = Other(q) /\ q = Other(p) /\ p # q
  BY Others
<1>2. /\ TypeOK /\ Local(q) /\ Control(q) /\ Link(q) /\ Arbitration(p) /\ Arbitration(q)
      /\ Wakes(q)
  BY <1>1 DEF TypeInv, SingleInv
<1>3. /\ pc' = pc /\ typed' = typed /\ printed' = printed
      /\ pend[q] # 0 /\ pend'[q] = (IF pend[q] = Clear THEN Clear ELSE pend[q] - 1)
      /\ (pend'[q] = Clear <=> pend[q] = Clear)
      /\ pc[q] # "input" => rem'[q] = rem[q] - 1
      /\ pc[q] = "input" => rem'[q] = rem[q]
      /\ age'[q] = (IF age[q] = Unseen \/ age[q] = Short THEN age[q] ELSE age[q] + 1)
  BY <1>2, TickFrame, TickClear
<1>4. /\ rem[q] \in Int /\ rem[p] \in Int /\ age[q] \in Int /\ age[q] >= Unseen
      /\ pend[q] \in Int /\ pend[q] >= Clear
      /\ pc[q] \in {"top", "input", "check", "send", "pause"}
  BY <1>1, <1>2, PeerTypes
<1>5. age'[q] # Unseen => age[q] # Unseen /\ age'[q] <= age[q] + 1 /\ age'[q] \in Int
  BY <1>3, <1>4 DEF Unseen
<1> SUFFICES ASSUME age[q] # Unseen, age'[q] \in Int, age'[q] <= age[q] + 1
             PROVE  Wakes(q)'
  BY <1>5 DEF Wakes
<1>6. pc[p] = "send"
  BY <1>1, <1>2, ReceivesOnly
<1>7. rem[p] > -Over /\ rem'[p] = rem[p] - 1
  BY <1>1, <1>2, <1>6, TickFrame
<1>8. Behind(q)' = Behind(q)
  BY <1>3 DEF Behind
<1>9. pc[q] = "pause" /\ rem[q] > 0 =>
        IF pend[q] # Clear THEN pend[q] < rem[q] ELSE rem[p] + Over + Delay < rem[q]
  BY <1>1, <1>2 DEF Wakes
<1>10. pend[q] # Clear => pend[q] >= 1 /\ pend'[q] = pend[q] - 1
  BY <1>3, <1>4 DEF Clear
<1>11. pc[q] = "pause" /\ rem[q] > 0 => rem[q] > 1
  <2>1. CASE pend[q] # Clear
    BY <1>4, <1>9, <1>10, <2>1
  <2>2. CASE pend[q] = Clear
    <3>1. pc[q] = "pause" /\ rem[q] > 0 => rem[p] + Over + Delay < rem[q]
      BY <1>9, <2>2
    <3> QED
      BY <1>4, <1>7, <3>1, Durations
  <2> QED
    BY <2>1, <2>2
<1>12. pc[q] # "pause" /\ pc[q] # "input" => rem[q] <= 0
  BY <1>2, <1>4 DEF Control, Wakes
<1>13. pc'[q] = "send" => rem'[q] <= 0
  BY <1>3, <1>4, <1>12
<1>14. rem'[q] <= 0 /\ (pc'[q] \in {"top", "pause", "send"} \/ (pc'[q] = "check" /\ ~Behind(q)'))
         => age'[q] + rem'[q] <= 0
  <2> SUFFICES ASSUME rem'[q] <= 0,
                      pc[q] \in {"top", "pause", "send"} \/ (pc[q] = "check" /\ ~Behind(q))
               PROVE  age'[q] + rem'[q] <= 0
    BY <1>3, <1>8
  <2>1. rem'[q] = rem[q] - 1 /\ rem[q] <= 0
    BY <1>3, <1>4, <1>11, <1>12
  <2>2. age[q] + rem[q] <= 0
    BY <1>2, <2>1 DEF Wakes
  <2> QED
    BY <1>4, <2>1, <2>2
<1>15. pc'[q] = "pause" /\ rem'[q] > 0 =>
         IF pend'[q] # Clear THEN pend'[q] < rem'[q] ELSE rem'[p] + Over + Delay < rem'[q]
  <2> SUFFICES ASSUME pc[q] = "pause", rem'[q] > 0
               PROVE  IF pend'[q] # Clear THEN pend'[q] < rem'[q]
                                          ELSE rem'[p] + Over + Delay < rem'[q]
    BY <1>3
  <2>1. rem'[q] = rem[q] - 1 /\ rem[q] > 0
    BY <1>3, <1>4
  <2>2. CASE pend[q] # Clear
    <3>1. pend'[q] < rem'[q]
      BY <1>4, <1>9, <1>10, <2>1, <2>2
    <3> QED
      BY <1>3, <2>2, <3>1
  <2>3. CASE pend[q] = Clear
    <3>1. rem'[p] + Over + Delay < rem'[q]
      BY <1>4, <1>7, <1>9, <2>1, <2>3, Durations
    <3> QED
      BY <1>3, <2>3, <3>1
  <2> QED
    BY <2>2, <2>3
<1> QED
  BY <1>1, <1>13, <1>14, <1>15 DEF Wakes

LEMMA WakesStep ==
  ASSUME TypeInv, SingleInv, Punctual, [Next]_vars, NEW q \in Peer
  PROVE  Wakes(q)'
<1>1. PICK p \in Peer : p = Other(q) /\ q = Other(p) /\ p # q /\ \A r \in Peer : r = p \/ r = q
  BY Others
<1>2. /\ TypeOK /\ Local(q) /\ Link(q) /\ Arbitration(p) /\ Arbitration(q) /\ Wakes(q)
  BY <1>1 DEF TypeInv, SingleInv
<1>3. CASE UNCHANGED vars
  BY <1>2, <1>3 DEF Wakes, Behind, vars, main, recv
<1>4. CASE Handle(p)
  <2>1. pend[p] # Clear /\ age'[q] = age[q]
    BY <1>1, <1>4, HandleFrame
  <2>2. age[q] = Unseen
    BY <1>1, <1>2, <2>1, ReceivesOnly
  <2> QED
    BY <2>1, <2>2 DEF Wakes
<1>5. CASE Handle(q)
  <2>1. rem'[q] = IF rem[q] > 0 THEN 0 ELSE rem[q]
    BY <1>1, <1>5, HandleFrame
  <2>2. age'[q] = 0 \/ age'[q] = Unseen
    BY <1>2, <1>5, HandleIs DEF TypeOK, MakesZero, AddsOne, TakesChar, EndsLine
  <2>3. rem'[q] <= 0 /\ ~(rem'[q] > 0) /\ (0 + rem'[q] <= 0)
    <3>1. rem[q] \in Int
      BY <1>2, PeerTypes
    <3> QED
      BY <2>1, <3>1
  <2> QED
    BY <2>2, <2>3 DEF Wakes
<1>6. \A r \in Peer : Main(r) \/ Type(r) \/ Handle(r) => r = p \/ r = q
  BY <1>1
<1> QED
  BY <1>1, <1>3, <1>4, <1>5, <1>6, WakesTick, WakesMain, WakesOther DEF Next

-----------------------------------------------------------------------------
(* The lines that are not empty. *)

Text == Seq(0 .. 255)

Grows(f, lines) ==
  /\ f[0] = <<>>
  /\ \A i \in 1 .. Len(lines) :
       f[i] = IF lines[i] = <<>> THEN f[i - 1] ELSE Append(f[i - 1], lines[i])

LEMMA GrowsExists ==
  ASSUME NEW lines \in Seq(Text)
  PROVE  \E f \in [0 .. Len(lines) -> Seq(Text)] : Grows(f, lines)
<1> DEFINE n == Len(lines)
           next(i, a) == IF lines[i] = <<>> THEN a ELSE Append(a, lines[i])
           g == [x \in (1 .. n) \X Seq(Text) |-> next(x[1], x[2])]
<1>1. n \in Nat /\ \A i \in 1 .. n : lines[i] \in Text
  BY ElementOfSeq
<1>2. \A i \in 1 .. n : \A a \in Seq(Text) : g[<<i, a>>] = next(i, a)
  OBVIOUS
<1>3. g \in [(1 .. n) \X Seq(Text) -> Seq(Text)]
  <2>1. \A x \in (1 .. n) \X Seq(Text) : x[1] \in 1 .. n /\ x[2] \in Seq(Text)
    OBVIOUS
  <2>2. \A i \in 1 .. n : \A a \in Seq(Text) : next(i, a) \in Seq(Text)
    BY <1>1
  <2> QED
    BY <2>1, <2>2
<1>4. <<>> \in Seq(Text)
  OBVIOUS
<1> HIDE DEF g, n, next
<1>5. PICK f \in [0 .. n -> Seq(Text)] : Computes(f, n, <<>>, g)
  BY <1>1, <1>3, <1>4, LoopExists
<1>6. \A i \in 1 .. n : i - 1 \in 0 .. n
  BY <1>1
<1>7. \A i \in 1 .. n : f[i] = next(i, f[i - 1])
  BY <1>2, <1>5, <1>6, ZenonT(60) DEF Computes
<1>8. f[0] = <<>>
  BY <1>5 DEF Computes
<1> QED
  BY <1>5, <1>7, <1>8 DEF Grows, n, next

LEMMA GrowsUnique ==
  ASSUME NEW lines \in Seq(Text), NEW e, NEW f, Grows(e, lines), Grows(f, lines)
  PROVE  e[Len(lines)] = f[Len(lines)]
<1> DEFINE S == {k \in Nat : k <= Len(lines) => e[k] = f[k]}
<1>1. 0 \in S
  BY DEF Grows
<1>2. ASSUME NEW k \in Nat, k \in S
      PROVE  k + 1 \in S
  <2> SUFFICES ASSUME k + 1 <= Len(lines)
               PROVE  e[k + 1] = f[k + 1]
    OBVIOUS
  <2>1. k <= Len(lines) /\ k + 1 \in 1 .. Len(lines) /\ (k + 1) - 1 = k
    OBVIOUS
  <2> QED
    BY <1>2, <2>1 DEF Grows
<1>3. \A k \in Nat : k \in S
  <2> HIDE DEF S
  <2> QED
    BY <1>1, <1>2, InductionSet
<1> QED
  BY <1>3

LEMMA SaidIs ==
  ASSUME NEW lines \in Seq(Text), NEW f, Grows(f, lines)
  PROVE  Said(lines) = f[Len(lines)]
<1> DEFINE n == Len(lines)
           go(a) == [i \in 0 .. n |->
                       IF i = 0 THEN <<>>
                       ELSE IF lines[i] = <<>> THEN a[i - 1] ELSE Append(a[i - 1], lines[i])]
           said == CHOOSE a : a = go(a)
<1>1. n \in Nat
  OBVIOUS
<1>2. Said(lines) = said[n]
  BY DEF Said
<1>3. said = go(said)
  <2>1. PICK e \in [0 .. n -> Seq(Text)] : Grows(e, lines)
    BY GrowsExists
  <2>2. \A i \in 0 .. n :
          e[i] = IF i = 0 THEN <<>>
                 ELSE IF lines[i] = <<>> THEN e[i - 1] ELSE Append(e[i - 1], lines[i])
    <3>1. \A i \in 0 .. n : i # 0 => i \in 1 .. n
      BY <1>1
    <3> QED
      BY <2>1, <3>1 DEF Grows
  <2>3. e = go(e)
    BY <2>2
  <2> HIDE DEF go
  <2> QED
    BY <2>3
<1> HIDE DEF said
<1>4. Grows(said, lines)
  <2>1. \A i \in 0 .. n :
          said[i] = IF i = 0 THEN <<>>
                    ELSE IF lines[i] = <<>> THEN said[i - 1] ELSE Append(said[i - 1], lines[i])
    BY <1>3
  <2>2. \A i \in 1 .. n : i \in 0 .. n /\ i # 0
    BY <1>1
  <2>3. 0 \in 0 .. n
    BY <1>1
  <2> QED
    BY <2>1, <2>2, <2>3 DEF Grows
<1> QED
  BY <1>2, <1>4, GrowsUnique

LEMMA SaidType ==
  ASSUME NEW lines \in Seq(Text)
  PROVE  Said(lines) \in Seq(Text)
<1>1. PICK f \in [0 .. Len(lines) -> Seq(Text)] : Grows(f, lines)
  BY GrowsExists
<1>2. Len(lines) \in 0 .. Len(lines)
  OBVIOUS
<1> QED
  BY <1>1, <1>2, SaidIs

LEMMA SaidNothing == Said(<<>>) = <<>>
<1> DEFINE f == [i \in 0 .. 0 |-> <<>>]
<1>1. <<>> \in Seq(Text) /\ Len(<<>>) = 0 /\ f[0] = <<>> /\ \A i \in 1 .. 0 : FALSE
  OBVIOUS
<1> HIDE DEF f
<1>2. Grows(f, <<>>)
  BY <1>1 DEF Grows
<1> QED
  BY <1>1, <1>2, SaidIs

LEMMA SaidMore ==
  ASSUME NEW lines \in Seq(Text), NEW w \in Text
  PROVE  Said(Append(lines, w)) = IF w = <<>> THEN Said(lines) ELSE Append(Said(lines), w)
<1>1. PICK n \in Nat, all \in Seq(Text) :
        /\ n = Len(lines) /\ all = Append(lines, w) /\ Len(all) = n + 1
        /\ \A i \in 1 .. n : all[i] = lines[i]
        /\ all[n + 1] = w
  <2>1. /\ Append(lines, w) \in Seq(Text) /\ Len(lines) \in Nat
        /\ Len(Append(lines, w)) = Len(lines) + 1
        /\ \A i \in 1 .. Len(lines) : Append(lines, w)[i] = lines[i]
        /\ Append(lines, w)[Len(lines) + 1] = w
    OBVIOUS
  <2> WITNESS Len(lines) \in Nat, Append(lines, w) \in Seq(Text)
  <2> QED
    BY <2>1
<1>2. PICK f \in [0 .. n -> Seq(Text)] : Grows(f, lines)
  BY <1>1, GrowsExists
<1>3. Said(lines) = f[n]
  BY <1>1, <1>2, SaidIs
<1> DEFINE last == IF w = <<>> THEN f[n] ELSE Append(f[n], w)
           h == [i \in 0 .. n + 1 |-> IF i = n + 1 THEN last ELSE f[i]]
<1>4. /\ \A i \in 0 .. n : h[i] = f[i]
      /\ h[n + 1] = last
  OBVIOUS
<1> HIDE DEF h
<1>5. \A i \in 1 .. n + 1 : h[i] = IF all[i] = <<>> THEN h[i - 1] ELSE Append(h[i - 1], all[i])
  <2> SUFFICES ASSUME NEW i \in 1 .. n + 1
               PROVE  h[i] = IF all[i] = <<>> THEN h[i - 1] ELSE Append(h[i - 1], all[i])
    OBVIOUS
  <2>1. CASE i = n + 1
    <3>1. i - 1 = n /\ n \in 0 .. n
      BY <2>1
    <3> QED
      BY <1>1, <1>4, <2>1, <3>1
  <2>2. CASE i # n + 1
    <3>1. i \in 1 .. n /\ i \in 0 .. n /\ i - 1 \in 0 .. n
      BY <2>2
    <3> QED
      BY <1>1, <1>2, <1>4, <3>1 DEF Grows
  <2> QED
    BY <2>1, <2>2
<1>6. Grows(h, all)
  <2>1. h[0] = <<>>
    BY <1>2, <1>4 DEF Grows
  <2> QED
    BY <1>1, <1>5, <2>1 DEF Grows
<1>7. Said(all) = h[n + 1]
  <2>1. Said(all) = h[Len(all)]
    BY <1>6, SaidIs
  <2> QED
    BY <1>1, <2>1
<1> QED
  BY <1>1, <1>3, <1>4, <1>7

-----------------------------------------------------------------------------
(* What is printed. *)

LEMMA TextTypes ==
  ASSUME TypeOK, NEW p \in Peer
  PROVE  /\ typed[p] \in Seq(Text) /\ printed[p] \in Seq(Text) /\ input[p] \in Text
         /\ Len(typed[p]) \in Nat /\ Len(printed[p]) \in Nat
<1>1. Seq(Char) \subseteq Text
  BY DEF Text, Char
<1>2. typed[p] \in Seq(Seq(Char)) /\ printed[p] \in Seq(Text) /\ input[p] \in Seq(Char)
  BY PeerTypes DEF Text
<1>3. typed[p] \in Seq(Text)
  BY <1>1, <1>2
<1> QED
  BY <1>1, <1>2, <1>3

LEMMA PrintingSame ==
  ASSUME NEW p \in Peer, NEW o \in Peer, o = Other(p), p = Other(o), Printing(p),
         typed'[p] = typed[p], printed'[o] = printed[o],
         Flying(o)' => Flying(o), Pending(p)' <=> Pending(p),
         Pending(p)' => input'[p] = input[p],
         input'[p] # <<>> /\ pc'[p] # "send" => input[p] # <<>> /\ pc[p] # "send",
         pc'[p] = "check" /\ ~Behind(p) => ~Idle(p)'
  PROVE  Printing(p)'
<1>1. Behind(p)' = Behind(p)
  BY DEF Behind
<1>2. Said(typed'[p]) = IF Pending(p)' THEN Append(Said(printed'[o]), input'[p])
                                        ELSE Said(printed'[o])
  BY DEF Printing
<1>3. Len(printed'[o]) <= Len(typed'[p])
  BY DEF Printing
<1>4. input'[p] # <<>> /\ pc'[p] # "send" => Behind(p)
  BY DEF Printing
<1>5. Flying(o)' => Behind(p)
  BY DEF Printing
<1> QED
  BY <1>1, <1>2, <1>3, <1>4, <1>5 DEF Printing

LEMMA PrintingMain ==
  ASSUME TypeInv, SingleInv, Punctual, NEW p \in Peer, Main(p) \/ Type(p)
  PROVE  Printing(p)'
<1>1. PICK o \in Peer : o = Other(p) /\ p = Other(o) /\ o # p
  BY Others
<1>2. TypeOK /\ Control(p) /\ Link(o) /\ Printing(p)
  BY <1>1 DEF TypeInv, SingleInv
<1>3. buffer' = buffer /\ message' = message /\ printed' = printed
  BY <1>1, <1>2, MainFrame
<1>4. Idle(p)' = Idle(p)
  BY <1>3 DEF Idle
<1>5. pc[p] # "send" => todo[p] = <<>> /\ pend[o] = Clear /\ ~Flying(o)
  BY <1>1, <1>2, FlyingSends DEF Link, Flying
<1>6. CASE Top(p)
  <2>1. /\ pc[p] = "top" /\ input' = input /\ todo' = todo /\ pend' = pend /\ typed' = typed
        /\ pc'[p] = IF input[p] = <<>> /\ Idle(p) THEN "input" ELSE "check"
    BY <1>2, <1>6 DEF TypeOK, Top, At
  <2>2. Flying(o)' = Flying(o) /\ (Pending(p)' <=> Pending(p))
    BY <1>1, <2>1 DEF Flying, Pending
  <2>3. pc'[p] = "check" /\ ~Behind(p) => ~Idle(p)'
    BY <1>2, <1>4, <2>1 DEF Printing
  <2> QED
    BY <1>1, <1>2, <1>3, <2>1, <2>2, <2>3, PrintingSame
<1>7. CASE Type(p)
  <2>1. /\ pc[p] = "input" /\ pc'[p] = "check" /\ todo' = todo /\ pend' = pend /\ input[p] = <<>>
        /\ \E line \in Lines : input'[p] = line /\ typed'[p] = Append(typed[p], line)
    BY <1>2, <1>7 DEF TypeOK, Type, At, Control
  <2>2. PICK w \in Seq(Char) : input'[p] = w /\ typed'[p] = Append(typed[p], w)
    BY <1>2, <2>1, LineType
  <2>3. w \in Text
    BY DEF Text, Char
  <2>4. typed[p] \in Seq(Text) /\ Len(typed[p]) \in Nat /\ Len(printed[o]) \in Nat
    BY <1>2, TextTypes
  <2>5. Said(typed'[p]) = IF w = <<>> THEN Said(typed[p]) ELSE Append(Said(typed[p]), w)
    BY <2>2, <2>3, <2>4, SaidMore
  <2>6. Said(typed[p]) = Said(printed[o])
    BY <1>1, <1>2, <2>1 DEF Printing, Pending
  <2>7. Len(printed'[o]) <= Len(typed'[p]) /\ Behind(p)'
    <3>1. Len(typed'[p]) = Len(typed[p]) + 1
      BY <2>2, <2>3, <2>4
    <3>2. PICK x \in Nat, y \in Nat : x = Len(printed[o]) /\ y = Len(typed[p]) /\ x <= y
      BY <1>1, <1>2, <2>4 DEF Printing
    <3>3. x <= y + 1 /\ x < y + 1
      BY <3>2
    <3> QED
      BY <1>1, <1>3, <3>1, <3>2, <3>3 DEF Behind
  <2>8. Pending(p)' <=> w # <<>>
    BY <2>1, <2>2 DEF Pending
  <2> QED
    BY <1>1, <1>3, <2>2, <2>5, <2>6, <2>7, <2>8 DEF Printing
<1>8. CASE StartSend(p)
  <2>1. /\ pc[p] = "check" /\ pc'[p] = "send" /\ Idle(p) /\ input' = input /\ pend' = pend
        /\ typed' = typed /\ todo'[p] = BitsOf(input[p])
    BY <1>2, <1>8 DEF TypeOK, StartSend, At
  <2>2. Behind(p) /\ Behind(p)'
    BY <1>2, <1>3, <2>1 DEF Printing, Behind
  <2>3. todo'[p] # <<>>
    <3>1. PICK w \in Seq(Char) : w = input[p]
      BY <1>2, PeerTypes
    <3>2. Len(BitsOf(w)) = 8 * Len(w) + 9 /\ Len(w) \in Nat
      BY BitsAre
    <3>3. PICK n \in Nat : n = Len(w)
      BY <3>2
    <3>4. 8 * n + 9 # 0 /\ Len(<<>>) = 0
      BY <3>3
    <3> QED
      BY <2>1, <3>1, <3>2, <3>3, <3>4
  <2>4. Pending(p)' <=> Pending(p)
    BY <2>1, <2>3 DEF Pending
  <2> QED
    BY <1>1, <1>2, <1>3, <2>1, <2>2, <2>4 DEF Printing
<1>9. CASE Hold(p)
  <2>1. /\ pc[p] = "check" /\ input' = input /\ todo' = todo /\ pend' = pend /\ typed' = typed
        /\ pc'[p] = "pause"
    BY <1>2, <1>9 DEF TypeOK, Hold, At
  <2>2. Flying(o)' = Flying(o) /\ (Pending(p)' <=> Pending(p))
    BY <1>1, <2>1 DEF Flying, Pending
  <2> QED
    BY <1>1, <1>2, <1>3, <2>1, <2>2, PrintingSame
<1>10. CASE SendBit(p)
  <2>1. /\ pc[p] = "send" /\ pc' = pc /\ todo[p] # <<>> /\ input' = input /\ typed' = typed
        /\ rem[p] <= 0
    BY <1>10 DEF SendBit, At
  <2>2. pend[o] = Clear
    BY <1>1, <1>2, <2>1, NothingPending
  <2>3. pend'[o] = Delay /\ Delay # Clear
    BY <1>1, <1>2, <1>10, <2>2, Durations DEF TypeOK, SendBit, Kill, Clear
  <2>4. Flying(o) /\ (Pending(p)' <=> Pending(p))
    BY <1>1, <2>1, <2>3 DEF Flying, Pending
  <2> QED
    BY <1>1, <1>2, <1>3, <2>1, <2>4, PrintingSame
<1>11. CASE SendOver(p)
  <2>1. /\ pc[p] = "send" /\ pc'[p] = "pause" /\ todo[p] = <<>> /\ input'[p] = <<>>
        /\ todo' = todo /\ pend' = pend /\ typed' = typed /\ rem[p] <= 0
    BY <1>2, <1>11 DEF TypeOK, SendOver, At
  <2>2. pend[o] = Clear
    BY <1>1, <1>2, <2>1, NothingPending
  <2>3. ~Flying(o)' /\ ~Pending(p) /\ ~Pending(p)'
    BY <1>1, <2>1, <2>2 DEF Flying, Pending
  <2> QED
    BY <1>1, <1>2, <1>3, <2>1, <2>3, PrintingSame
<1>12. CASE Again(p)
  <2>1. /\ pc[p] = "pause" /\ pc'[p] = "top" /\ input' = input /\ todo' = todo /\ pend' = pend
        /\ typed' = typed
    BY <1>2, <1>12 DEF TypeOK, Again, At
  <2>2. Flying(o)' = Flying(o) /\ (Pending(p)' <=> Pending(p))
    BY <1>1, <2>1 DEF Flying, Pending
  <2> QED
    BY <1>1, <1>2, <1>3, <2>1, <2>2, PrintingSame
<1> QED
  BY <1>6, <1>7, <1>8, <1>9, <1>10, <1>11, <1>12 DEF Main

LEMMA PrintingHandle ==
  ASSUME TypeInv, SingleInv, Punctual, NEW p \in Peer, NEW o \in Peer, o = Other(p), p = Other(o),
         p # o, Handle(o)
  PROVE  Printing(p)'
<1>1. /\ TypeOK /\ Local(o) /\ Control(p) /\ Link(o) /\ Printing(p)
  BY DEF TypeInv, SingleInv
<1>2. /\ pc' = pc /\ input' = input /\ todo' = todo /\ typed' = typed
      /\ pend[o] # Clear /\ pend'[o] = Clear
  BY HandleFrame
<1>3. Flying(o) /\ pc[p] = "send" /\ Behind(p)
  <2>1. Flying(o)
    BY <1>2 DEF Flying
  <2> QED
    BY <1>1, <2>1, FlyingSends DEF Link, Printing
<1>4. CASE EndsLine(o)
  <2>1. todo[p] = <<>> /\ message[o] = input[p]
    BY <1>1, <1>4, HandleLink
  <2>2. printed'[o] = Append(printed[o], input[p])
    BY <1>1, <1>4, <2>1 DEF TypeOK, EndsLine
  <2>3. /\ printed[o] \in Seq(Text) /\ input[p] \in Text /\ Len(printed[o]) \in Nat
        /\ Len(typed[p]) \in Nat
    BY <1>1, TextTypes
  <2>4. Said(printed'[o]) = IF input[p] = <<>> THEN Said(printed[o])
                                               ELSE Append(Said(printed[o]), input[p])
    BY <2>2, <2>3, SaidMore
  <2>5. ~Flying(o)' /\ ~Pending(p)' /\ (Pending(p) <=> input[p] # <<>>)
    BY <1>2, <1>3, <2>1 DEF Flying, Pending
  <2>6. Len(printed'[o]) <= Len(typed'[p])
    <3>1. Len(printed'[o]) = Len(printed[o]) + 1
      BY <2>2, <2>3
    <3>2. PICK x \in Nat, y \in Nat : x = Len(printed[o]) /\ y = Len(typed[p]) /\ x < y
      BY <1>3, <2>3 DEF Behind
    <3>3. x + 1 <= y
      BY <3>2
    <3> QED
      BY <1>2, <3>1, <3>2, <3>3
  <2>7. Said(typed'[p]) = Said(printed'[o])
    BY <1>1, <1>2, <2>4, <2>5 DEF Printing
  <2> QED
    BY <1>2, <1>3, <2>5, <2>6, <2>7 DEF Printing
<1>5. CASE ~EndsLine(o)
  <2>1. todo[p] # <<>> /\ (MakesZero(o) \/ AddsOne(o) \/ TakesChar(o))
    BY <1>1, <1>5, HandleLink, HandleIs
  <2>2. printed' = printed
    BY <2>1 DEF MakesZero, AddsOne, TakesChar
  <2>3. Flying(o) /\ (Pending(p)' <=> Pending(p))
    BY <1>2, <1>3, <2>1 DEF Pending
  <2> QED
    BY <1>1, <1>2, <1>3, <2>2, <2>3, PrintingSame
<1> QED
  BY <1>4, <1>5

\* A line is never emptied between the sender's two tests: the last signal of a line
\* comes long after the loop has been woken by the one before.
LEMMA PrintingOwn ==
  ASSUME TypeInv, SingleInv, Punctual, NEW p \in Peer, Handle(p)
  PROVE  Printing(p)'
<1>1. PICK o \in Peer : o = Other(p) /\ p = Other(o) /\ p # o
  BY Others
<1>2. TypeOK /\ Local(p) /\ Control(p) /\ Wakes(p) /\ Printing(p)
  BY DEF TypeInv, SingleInv
<1>3. /\ pc' = pc /\ input' = input /\ todo' = todo /\ typed' = typed
      /\ pend'[o] = pend[o] /\ printed'[o] = printed[o]
  BY <1>1, HandleFrame
<1>4. Flying(o)' = Flying(o) /\ (Pending(p)' <=> Pending(p))
  BY <1>1, <1>3 DEF Flying, Pending
<1>5. ASSUME pc[p] = "check", ~Behind(p)
      PROVE  ~Idle(p)'
  <2>1. ~EndsLine(p)
    <3> SUFFICES ASSUME EndsLine(p)
                 PROVE  FALSE
      OBVIOUS
    <3>1. age[p] # Unseen /\ ~Early(p)
      BY DEF EndsLine, Fills
    <3>2. /\ age[p] \in Int /\ rem[p] \in Int /\ rem[p] >= -Over
      BY <1>2, PeerTypes
    <3>3. age[p] >= Short
      BY <3>1, <3>2, Durations DEF Early
    <3>4. rem[p] <= 0
      BY <1>2, <1>5 DEF Control
    <3>5. age[p] + rem[p] <= 0
      BY <1>2, <1>5, <3>1, <3>4 DEF Wakes
    <3>6. Over < Short
      BY Durations DEF Punctual
    <3> QED
      BY <3>2, <3>3, <3>5, <3>6, Durations
  <2>2. MakesZero(p) \/ AddsOne(p) \/ TakesChar(p)
    BY <1>2, <2>1, HandleIs
  <2>3. age'[p] = 0 /\ Local(p)'
    BY <1>2, <2>2, HandleTypes DEF TypeInv, TypeOK, MakesZero, AddsOne, TakesChar
  <2> QED
    BY <2>3 DEF Local, Unseen, Idle
<1> QED
  BY <1>1, <1>2, <1>3, <1>4, <1>5, PrintingSame

LEMMA PrintingStep ==
  ASSUME TypeInv, SingleInv, Punctual, [Next]_vars, NEW p \in Peer
  PROVE  Printing(p)'
<1>1. PICK o \in Peer : o = Other(p) /\ p = Other(o) /\ p # o /\ \A r \in Peer : r = p \/ r = o
  BY Others
<1>2. TypeOK /\ Link(o) /\ Printing(p)
  BY <1>1 DEF TypeInv, SingleInv
<1>3. CASE UNCHANGED vars \/ Tick
  <2>1. /\ pc' = pc /\ input' = input /\ todo' = todo /\ typed' = typed
        /\ buffer' = buffer /\ message' = message /\ printed' = printed
    BY <1>3 DEF Tick, vars, main, recv
  <2>2. pend'[o] = Clear <=> pend[o] = Clear
    BY <1>2, <1>3, TickClear DEF vars
  <2>3. Flying(o)' = Flying(o) /\ (Pending(p)' <=> Pending(p)) /\ Idle(p)' = Idle(p)
    BY <1>1, <2>1, <2>2 DEF Flying, Pending, Idle
  <2>4. pc[p] = "check" /\ ~Behind(p) => ~Idle(p)
    BY <1>2 DEF Printing
  <2> QED
    BY <1>1, <1>2, <2>1, <2>3, <2>4, PrintingSame
<1>4. CASE Main(o) \/ Type(o)
  <2>1. /\ pc'[p] = pc[p] /\ input'[p] = input[p] /\ todo'[p] = todo[p] /\ typed'[p] = typed[p]
        /\ pend'[o] = pend[o] /\ buffer' = buffer /\ message' = message /\ printed' = printed
    BY <1>1, <1>2, <1>4, MainFrame
  <2>2. Flying(o)' = Flying(o) /\ (Pending(p)' <=> Pending(p)) /\ Idle(p)' = Idle(p)
    BY <1>1, <2>1 DEF Flying, Pending, Idle
  <2>3. pc[p] = "check" /\ ~Behind(p) => ~Idle(p)
    BY <1>2 DEF Printing
  <2> QED
    BY <1>1, <1>2, <2>1, <2>2, <2>3, PrintingSame
<1>5. \A r \in Peer : Main(r) \/ Type(r) \/ Handle(r) => r = p \/ r = o
  BY <1>1
<1> QED
  BY <1>1, <1>3, <1>4, <1>5, PrintingMain, PrintingHandle, PrintingOwn DEF Next

-----------------------------------------------------------------------------
(* The invariant, and what it says. *)

LEMMA SingleStep ==
  ASSUME Turns, Punctual, TypeInv, SingleInv, [Next]_vars
  PROVE  SingleInv'
<1>1. \A p \in Peer : Local(p)'
  BY TypeStep DEF TypeInv
<1>2. \A p \in Peer : Control(p)'
  BY ControlStep DEF SingleInv
<1>3. \A p \in Peer : Link(p)' /\ Wakes(p)' /\ Printing(p)'
  BY LinkStep, WakesStep, PrintingStep
<1>4. \A p \in Peer : Arbitration(p)'
  BY ArbitrationStep
<1> QED
  BY <1>1, <1>2, <1>3, <1>4 DEF SingleInv

LEMMA SingleInit == Init => SingleInv
<1> SUFFICES ASSUME Init, NEW p \in Peer
             PROVE  Local(p) /\ Control(p) /\ Link(p) /\ Arbitration(p) /\ Wakes(p) /\ Printing(p)
  BY DEF SingleInv
<1>1. Other(p) \in Peer /\ Other(Other(p)) = p
  BY Others
<1>2. \A r \in Peer :
        /\ pc[r] = "top" /\ input[r] = <<>> /\ todo[r] = <<>> /\ half[r] = FALSE /\ rem[r] = 0
        /\ pend[r] = Clear /\ buffer[r] = <<>> /\ message[r] = <<>> /\ counter[r] = 0
        /\ age[r] = Unseen /\ typed[r] = <<>> /\ printed[r] = <<>> /\ ~Flying(r)
  BY Others DEF Init, Flying
<1>3. Local(p) /\ Control(p)
  BY <1>2 DEF Local, Control
<1>4. Link(p)
  BY <1>1, <1>2 DEF Link, Rests, Suffix, Count, Contents, Timing, Flying
<1>5. Arbitration(p) /\ Wakes(p)
  BY <1>1, <1>2 DEF Arbitration, Active, Wants, Wakes
<1>6. Printing(p)
  <2>1. Len(<<>>) = 0 /\ 0 <= 0
    OBVIOUS
  <2> QED
    BY <1>1, <1>2, <2>1 DEF Printing, Pending
<1> QED
  BY <1>3, <1>4, <1>5, <1>6

LEMMA SingleAlways ==
  ASSUME Turns, Punctual
  PROVE  Spec => [](TypeInv /\ SingleInv)
<1>1. Init => TypeInv /\ SingleInv
  BY TypeInit, SingleInit
<1>2. TypeInv /\ SingleInv /\ [Next]_vars => (TypeInv /\ SingleInv)'
  BY TypeStep, SingleStep
<1> QED
  BY <1>1, <1>2, PTL DEF Spec

\* When users type in turns and sleeps and signals are late within the bounds, the two
\* peers never send at the same time.
THEOREM OneTalksAtATime ==
  ASSUME Turns, Punctual
  PROVE  Spec => []OneTalks
<1>1. TypeInv /\ SingleInv => OneTalks
  <2> SUFFICES ASSUME SingleInv, \A p \in Peer : Talking(p)
               PROVE  FALSE
    BY DEF OneTalks
  <2>1. PICK p \in Peer : Other(p) \in Peer
    BY PeerAssumption, Others
  <2>2. todo[p] # <<>> /\ todo[Other(p)] # <<>>
    BY <2>1 DEF Talking
  <2> QED
    BY <2>1, <2>2 DEF SingleInv, Arbitration, Active
<1> QED
  BY <1>1, SingleAlways, PTL

\* Under the same conditions nothing of a line is left at the receiver after its last
\* signal: its queues are empty, its counter and its clock reset.
THEOREM NothingLeft ==
  ASSUME Turns, Punctual
  PROVE  Spec => []Settled
<1>1. TypeInv /\ SingleInv => Settled
  <2> SUFFICES ASSUME SingleInv, NEW q \in Peer, ~Talking(Other(q)), pend[q] = Clear
               PROVE  Idle(q) /\ age[q] = Unseen /\ counter[q] = 0
    BY DEF Settled
  <2>1. Other(q) \in Peer
    BY Others
  <2>2. todo[Other(q)] = <<>>
    BY <2>1 DEF SingleInv, Control, Talking
  <2>3. ~Flying(q)
    BY <2>2 DEF Flying
  <2> QED
    BY <2>3, RestsMeans DEF SingleInv, Link
<1> QED
  BY <1>1, SingleAlways, PTL

\* Under the same conditions each peer prints what the other user typed, line for line
\* and character for character, whatever the lines and however the late sleeps and
\* signals fall together.
THEOREM LinesPrintedAsTyped ==
  ASSUME Turns, Punctual
  PROVE  Spec => []Faithful
<1>1. TypeInv /\ SingleInv => Faithful
  <2> SUFFICES ASSUME TypeInv, SingleInv, NEW o \in Peer
               PROVE  /\ IsPrefix(Said(printed[o]), Said(typed[Other(o)]))
                      /\ Len(printed[o]) <= Len(typed[Other(o)])
    BY DEF Faithful
  <2>1. PICK p \in Peer : p = Other(o) /\ o = Other(p)
    BY Others
  <2>2. Printing(p) /\ TypeOK
    BY DEF SingleInv, TypeInv
  <2>3. printed[o] \in Seq(Text) /\ input[p] \in Text
    BY <2>2, TextTypes
  <2>4. PICK s \in Seq(Text) : s = Said(printed[o])
    BY <2>3, SaidType
  <2>5. IsPrefix(s, s) /\ IsPrefix(s, Append(s, input[p]))
    <3>1. IsPrefix(s, s)
      BY PrefixSelf
    <3> QED
      BY <2>3, <3>1, PrefixAppend
  <2>6. IsPrefix(Said(printed[o]), Said(typed[p]))
    BY <2>1, <2>2, <2>4, <2>5 DEF Printing
  <2>7. Len(printed[o]) <= Len(typed[p])
    BY <2>1, <2>2 DEF Printing
  <2> QED
    BY <2>1, <2>6, <2>7
<1> QED
  BY <1>1, SingleAlways, PTL

=============================================================================
