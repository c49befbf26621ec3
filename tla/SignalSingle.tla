---------------------------- MODULE SignalSingle ----------------------------
(***************************************************************************)
(* The one-signal messenger of 379-a1/convertsigs.c (its SINGLE build).    *)
(* Two processes talk by SIGUSR1 alone: a 1 is one signal, a 0 is two      *)
(* signals close together, and nine 1s end a line.  The handler tells them *)
(* apart by the clock.  Each peer has one thread: its main loop, which the *)
(* handler interrupts.                                                     *)
(*                                                                         *)
(* Time passes in Tick; every duration is a number of ticks.  A usleep     *)
(* returns at most Over ticks late, a signal is handled at most Delay      *)
(* ticks after it was sent; a signal sent while one is pending is lost,    *)
(* and a handled signal cuts short the usleep it interrupts.               *)
(***************************************************************************)
EXTENDS Integers, SequencesExt, Characters

CONSTANTS
  Peer,     \* the two processes
  Lines,    \* what a user may type: sequences of characters, none is 255
  Pair,     \* usleep(5000), between the two signals of a 0
  Rest,     \* usleep(45000), after them
  Slot,     \* usleep(50000), after a 1
  Short,    \* 10000 microseconds: two signals closer than this make a 0
  Pause,    \* usleep(100000), between two rounds of the main loop
  Over,     \* bound on how late a usleep returns
  Delay,    \* bound on how long a signal is pending
  MaxLines, \* bound on the lines each user types
  Turns     \* TRUE: a user types only when the other's line is under way or out

ASSUME PeerAssumption == \E p, q \in Peer : p # q /\ Peer = {p, q}
ASSUME TimeAssumption ==
  /\ {Pair, Rest, Slot, Short, Pause} \subseteq Nat \ {0}
  /\ {Over, Delay} \subseteq Nat /\ MaxLines \in [Peer -> Nat]
  /\ Pair <= Pause /\ Rest <= Pause /\ Slot <= Pause
ASSUME LineAssumption == Lines \subseteq Seq(0 .. 127)

VARIABLES
  pc,       \* where the main loop is: "top", "input", "check", "send", "pause"
  input,    \* input[]: the line typed and not yet sent
  todo,     \* the bits send() has still to signal
  half,     \* TRUE between the two signals of a 0
  rem,      \* ticks left of the usleep; negative when it returns late
  pend,     \* ticks left to the pending SIGUSR1 at most, or Clear
  buffer,   \* the bits received and not yet made into a character
  message,  \* the characters received of the line
  counter,  \* counter
  age,      \* ticks since lastTime, up to Short; Unseen when lastTime is 0
  typed,    \* history: the lines the user typed
  printed   \* the lines the handler printed

main == <<pc, input, todo, half>>
recv == <<buffer, message, counter, printed>>
vars == <<main, rem, pend, recv, age, typed>>

Clear  == -1
Unseen == -1
Other(p) == CHOOSE q \in Peer : q # p

EndMark_Eight == [i \in 1 .. 8 |-> 1]   \* mutant: one 1 too few
EndMark_None == <<>>   \* mutant: nothing ends a line
EndMark == [i \in 1 .. 9 |-> 1]

BitsOf(line) == Bits(line) \o EndMark

Init ==
  /\ pc = [p \in Peer |-> "top"]
  /\ input = [p \in Peer |-> <<>>]
  /\ todo = [p \in Peer |-> <<>>]
  /\ half = [p \in Peer |-> FALSE]
  /\ rem = [p \in Peer |-> 0]
  /\ pend = [p \in Peer |-> Clear]
  /\ buffer = [p \in Peer |-> <<>>]
  /\ message = [p \in Peer |-> <<>>]
  /\ counter = [p \in Peer |-> 0]
  /\ age = [p \in Peer |-> Unseen]
  /\ typed = [p \in Peer |-> <<>>]
  /\ printed = [p \in Peer |-> <<>>]

(***************************************************************************)
(* The main loop.  It reads a line only when none is left to send and      *)
(* nothing is being received, then tests again that nothing is.            *)
(***************************************************************************)
Idle_Message(p) == message[p] = <<>>   \* mutant: one queue only
Idle(p) == buffer[p] = <<>> /\ message[p] = <<>>

At(p, place) == pc[p] = place /\ rem[p] <= 0

Top(p) ==
  /\ At(p, "top")
  /\ pc' = [pc EXCEPT ![p] = IF input[p] = <<>> /\ Idle(p) THEN "input" ELSE "check"]
  /\ UNCHANGED <<input, todo, half, rem, pend, recv, age, typed>>

\* A line of the user, who types 4095 characters at most and does not end the input.
Type(p) ==
  /\ At(p, "input")
  /\ Len(typed[p]) < MaxLines[p]
  /\ Turns => \/ pc[Other(p)] \in {"input", "pause"} /\ input[Other(p)] = <<>>
              \/ buffer[p] # <<>>
  /\ \E line \in Lines :
       /\ input' = [input EXCEPT ![p] = line]
       /\ typed' = [typed EXCEPT ![p] = Append(@, line)]
  /\ pc' = [pc EXCEPT ![p] = "check"]
  /\ UNCHANGED <<todo, half, rem, pend, recv, age>>

\* The second test, and counter = 0 with it: a first signal between the two
\* counts nothing, so their order cannot be seen.
StartSend(p) ==
  /\ At(p, "check")
  /\ Idle(p)
  /\ pc' = [pc EXCEPT ![p] = "send"]
  /\ todo' = [todo EXCEPT ![p] = BitsOf(input[p])]
  /\ counter' = [counter EXCEPT ![p] = 0]
  /\ UNCHANGED <<input, half, rem, pend, buffer, message, printed, age, typed>>

Sleep(p, ticks) == rem' = [rem EXCEPT ![p] = ticks]

Hold(p) ==
  /\ At(p, "check")
  /\ ~Idle(p)
  /\ pc' = [pc EXCEPT ![p] = "pause"]
  /\ Sleep(p, Pause)
  /\ UNCHANGED <<input, todo, half, pend, recv, age, typed>>

\* A standard signal is a flag: a second one before the first is handled is lost.
Kill(q) == pend' = [pend EXCEPT ![q] = IF @ = Clear THEN Delay ELSE @]

SendBit(p) ==
  /\ At(p, "send")
  /\ todo[p] # <<>>
  /\ Kill(Other(p))
  /\ IF Head(todo[p]) = 0 /\ ~half[p]
       THEN /\ half' = [half EXCEPT ![p] = TRUE]
            /\ Sleep(p, Pair)
            /\ UNCHANGED todo
       ELSE /\ half' = [half EXCEPT ![p] = FALSE]
            /\ Sleep(p, IF half[p] THEN Rest ELSE Slot)
            /\ todo' = [todo EXCEPT ![p] = Tail(@)]
  /\ UNCHANGED <<pc, input, recv, age, typed>>

SendOver(p) ==
  /\ At(p, "send")
  /\ todo[p] = <<>>
  /\ pc' = [pc EXCEPT ![p] = "pause"]
  /\ input' = [input EXCEPT ![p] = <<>>]
  /\ Sleep(p, Pause)
  /\ UNCHANGED <<todo, half, pend, recv, age, typed>>

Again(p) ==
  /\ At(p, "pause")
  /\ pc' = [pc EXCEPT ![p] = "top"]
  /\ UNCHANGED <<input, todo, half, rem, pend, recv, age, typed>>

(***************************************************************************)
(* The handler.  The first signal of a line starts the clock and is a 1    *)
(* not counted, so that counter runs one behind the buffer: a character is *)
(* taken out when the bit after it begins, its own last bit being settled. *)
(***************************************************************************)
Close_Never(p) == FALSE   \* mutant: no 0 is made
Close(p) == age[p] < Short

Marked(p) ==
  IF age[p] # Unseen /\ Close(p) THEN Append(Front(buffer[p]), 0)
                                 ELSE Append(buffer[p], 1)
Counted(p) ==
  IF age[p] = Unseen \/ Close(p) THEN counter[p] ELSE counter[p] + 1

\* A full character leaves eight in the counter's debt.
Debit_Kept(n) == n   \* mutant: counter is not reduced
Debit(n) == n - 8

Handle(p) ==
  LET bits == Marked(p)
      n    == Counted(p)
      byte == SubSeq(bits, 1, 8)
  IN /\ pend[p] # Clear
     /\ pend' = [pend EXCEPT ![p] = Clear]
     /\ rem' = [rem EXCEPT ![p] = IF @ > 0 THEN 0 ELSE @]
     /\ IF n <= 7
          THEN /\ buffer' = [buffer EXCEPT ![p] = bits]
               /\ counter' = [counter EXCEPT ![p] = n]
               /\ age' = [age EXCEPT ![p] = 0]
               /\ UNCHANGED <<message, printed>>
          ELSE /\ counter' = [counter EXCEPT ![p] = Debit(n)]
               /\ IF AllOnes(byte)
                    THEN /\ printed' = [printed EXCEPT ![p] = Append(@, message[p])]
                         /\ buffer' = [buffer EXCEPT ![p] = <<>>]
                         /\ message' = [message EXCEPT ![p] = <<>>]
                         /\ age' = [age EXCEPT ![p] = Unseen]
                    ELSE /\ message' = [message EXCEPT ![p] = Append(@, convertBack(byte))]
                         /\ buffer' = [buffer EXCEPT ![p] = SubSeq(bits, 9, Len(bits))]
                         /\ age' = [age EXCEPT ![p] = 0]
                         /\ UNCHANGED printed
     /\ UNCHANGED <<main, typed>>

(***************************************************************************)
(* A tick of the clock, as long as nothing is overdue.                     *)
(***************************************************************************)
Tick ==
  /\ \A p \in Peer : pend[p] # 0 /\ (pc[p] # "input" => rem[p] > -Over)
  /\ rem' = [p \in Peer |-> IF pc[p] = "input" THEN rem[p] ELSE rem[p] - 1]
  /\ pend' = [p \in Peer |-> IF pend[p] = Clear THEN Clear ELSE pend[p] - 1]
  /\ age' = [p \in Peer |-> IF age[p] \in {Unseen, Short} THEN age[p] ELSE age[p] + 1]
  /\ UNCHANGED <<main, recv, typed>>

Main(p) ==
  \/ Top(p) \/ StartSend(p) \/ Hold(p) \/ SendBit(p) \/ SendOver(p) \/ Again(p)

Next ==
  \/ Tick
  \/ \E p \in Peer : Main(p) \/ Type(p) \/ Handle(p)

Spec == Init /\ [][Next]_vars

\* The clock runs, the scheduler lets both loops go on, a pending signal is
\* handled.  Nobody has to type.
FairSpec ==
  /\ Spec
  /\ WF_vars(Tick)
  /\ \A p \in Peer : WF_vars(Main(p)) /\ WF_vars(Handle(p))

-----------------------------------------------------------------------------
\* The types, and what they say of the counters: counter stays below a full
\* character, and a usleep is late by at most Over.
TypeOK ==
  /\ pc \in [Peer -> {"top", "input", "check", "send", "pause"}]
  /\ input \in [Peer -> Lines \cup {<<>>}]
  /\ todo \in [Peer -> Seq(Bit)]
  /\ half \in [Peer -> BOOLEAN]
  /\ rem \in [Peer -> -Over .. Pause]
  /\ pend \in [Peer -> {Clear} \cup 0 .. Delay]
  /\ buffer \in [Peer -> Seq(Bit)]
  /\ message \in [Peer -> Seq(0 .. 255)]
  /\ counter \in [Peer -> 0 .. 7]
  /\ age \in [Peer -> {Unseen} \cup 0 .. Short]
  /\ typed \in [Peer -> Seq(Lines)]
  /\ printed \in [Peer -> Seq(Seq(0 .. 255))]

\* The lines that are not empty.
Said(lines) ==
  LET said[i \in 0 .. Len(lines)] ==
        IF i = 0 THEN <<>>
        ELSE IF lines[i] = <<>> THEN said[i - 1] ELSE Append(said[i - 1], lines[i])
  IN said[Len(lines)]

\* What a peer has printed is what the other user typed, line for line and
\* character for character, so far, for lines typed in turn: no jitter within the bounds, no sleep
\* cut short and no line typed while another arrives garbles a bit, and the
\* loop's two tests, between which a signal may land, send no line nobody
\* typed.  (An empty line typed while a line arrives is dropped.)
Faithful ==
  \A p \in Peer :
    /\ IsPrefix(Said(printed[p]), Said(typed[Other(p)]))
    /\ Len(printed[p]) <= Len(typed[Other(p)])

Talking(p) == pc[p] = "send" /\ todo[p] # <<>>

\* The two peers never send at the same time, if their users do not press return
\* in the same moment (Turns): the test of the two queues is
\* the program's only arbitration of the link, and a signal received in the
\* middle of send() would cut its usleep short.
OneTalks == ~\A p \in Peer : Talking(p)

\* After the last signal of a line typed in turn nothing of it is left at the
\* receiver: its queues are empty and its counter and clock are reset, or it
\* could never read or send again, and the next line would start out of step.
Settled ==
  \A p \in Peer :
    ~Talking(Other(p)) /\ pend[p] = Clear
      => Idle(p) /\ age[p] = Unseen /\ (pc[p] = "send" \/ counter[p] = 0)

Owed == \E p \in Peer : Len(Said(printed[Other(p)])) < Len(Said(typed[p]))

\* Every line typed in turn is in the end printed by the other peer, even one that
\* had to wait for a line coming in: in the end nothing is owed.
LineArrives == Owed ~> ~Owed
=============================================================================
