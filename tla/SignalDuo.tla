------------------------------ MODULE SignalDuo ------------------------------
(***************************************************************************)
(* The two-signal messenger of 379-a1/convertsigs.c (built without SINGLE). *)
(* A 1 is SIGUSR1, a 0 is SIGUSR2, eight 1s end a line.  Nothing depends   *)
(* on the clock but this: a handler is done within the 5 ms of usleep that *)
(* follow its signal, unless a signal that its sender receives cuts the    *)
(* usleep short.                                                           *)
(*                                                                         *)
(* Each peer is one thread.  Its handler interrupts the main loop, and is  *)
(* interrupted by the other signal: the mask holds back only the signal    *)
(* that is being handled.  `frame' is the stack of handler calls.          *)
(*                                                                         *)
(* An operation of a queue is one step.  That is what the code does where  *)
(* no handler is interrupted by another.  With Turns none is, see InStep;  *)
(* without, the module shows that the two get out of step, and what it     *)
(* does from there on is not all the code may do.                          *)
(***************************************************************************)
EXTENDS Squeue, Characters, SequencesExt

CONSTANTS
  Peer,     \* the two processes
  Lines,    \* what a user may type: sequences of characters, none is 0
  Turns,    \* TRUE: the two users do not press return in the same moment
  MaxLines  \* bound on the lines each user types

ASSUME DuoAssumption ==
  /\ \E p, q \in Peer : p # q /\ Peer = {p, q}
  /\ Lines \subseteq Seq(1 .. 255)
  /\ Turns \in BOOLEAN
  /\ MaxLines \in [Peer -> Nat]

VARIABLES
  pc,       \* where the main loop is: "top", "input", "check", "reset", "send"
  input,    \* input[]: the line typed and not yet sent
  todo,     \* the bits send() has still to signal
  pend,     \* the signals that are pending
  woken,    \* a signal was delivered since the last kill(): usleep is cut short
  frame,    \* the calls of handler() that have not returned, the last on top
  buffer,   \* the bits received and not yet made into a character
  message,  \* the characters received of the line
  counter,  \* counter
  typed,    \* history: the lines the user typed
  printed   \* history: the lines the handler printed, without empty ones

main == <<pc, input, todo>>
recv == <<buffer, message, counter, printed>>
vars == <<main, pend, woken, frame, recv, typed>>

Other(p) == CHOOSE q \in Peer : q # p

Signal == {"SIGUSR1", "SIGUSR2"}
SignalOf(bit) == IF bit = 0 THEN "SIGUSR2" ELSE "SIGUSR1"
BitOf(sig) == IF sig = "SIGUSR1" THEN 1 ELSE 0

EndMark_None == <<>>   \* mutant: nothing ends a line
EndMark == [i \in 1 .. 8 |-> 1]

BitsOf(line) == Bits(line) \o EndMark

Init ==
  /\ pc = [p \in Peer |-> "top"]
  /\ input = [p \in Peer |-> <<>>]
  /\ todo = [p \in Peer |-> <<>>]
  /\ pend = [p \in Peer |-> {}]
  /\ woken = [p \in Peer |-> FALSE]
  /\ frame = [p \in Peer |-> <<>>]
  /\ buffer = [p \in Peer |-> initSqueue]
  /\ message = [p \in Peer |-> initSqueue]
  /\ counter = [p \in Peer |-> 0]
  /\ typed = [p \in Peer |-> <<>>]
  /\ printed = [p \in Peer |-> <<>>]

(***************************************************************************)
(* The main loop, which runs while no handler does.  Its pause of 100 ms   *)
(* changes nothing here.                                                   *)
(***************************************************************************)
Idle_Buffer(p) == isEmpty(buffer[p])   \* mutant: message is not tested
Idle(p) == isEmpty(buffer[p]) /\ isEmpty(message[p])

At(p, place) == pc[p] = place /\ frame[p] = <<>>

Top(p) ==
  /\ At(p, "top")
  /\ pc' = [pc EXCEPT ![p] = IF input[p] = <<>> /\ Idle(p) THEN "input" ELSE "check"]
  /\ UNCHANGED <<input, todo, pend, woken, frame, recv, typed>>

Marked(line) == \E i \in DOMAIN line : line[i] = 255

\* Nothing is on its way, and the other peer is not about to send.
Silent(p) ==
  LET q == Other(p)
  IN /\ pc[q] \in {"top", "input"} /\ input[q] = <<>>
     /\ \A r \in Peer : pend[r] = {} /\ frame[r] = <<>> /\ Idle(r)

\* A line of the other user is coming in, and has no end mark inside.
Receiving(p) == pc[Other(p)] = "send" /\ ~Idle(p) /\ ~Marked(input[Other(p)])

\* When a user presses return on a line, with Turns.  With an end mark inside it
\* needs the other program waiting for its own user: between two end marks the
\* queues are empty, and a peer that is not in getchar() would send.
InTurn(p, line) ==
  IF Marked(line) THEN Silent(p) /\ pc[Other(p)] = "input"
                  ELSE Silent(p) \/ Receiving(p)

\* A line of the user, who types 4095 characters at most and does not end the input.
Type(p) ==
  /\ At(p, "input")
  /\ Len(typed[p]) < MaxLines[p]
  /\ \E line \in Lines :
       /\ Turns => InTurn(p, line)
       /\ input' = [input EXCEPT ![p] = line]
       /\ typed' = [typed EXCEPT ![p] = Append(@, line)]
  /\ pc' = [pc EXCEPT ![p] = "check"]
  /\ UNCHANGED <<todo, pend, woken, frame, recv>>

Check(p) ==
  /\ At(p, "check")
  /\ pc' = [pc EXCEPT ![p] = IF Idle(p) THEN "reset" ELSE "top"]
  /\ UNCHANGED <<input, todo, pend, woken, frame, recv, typed>>

Reset(p) ==
  /\ At(p, "reset")
  /\ counter' = [counter EXCEPT ![p] = 0]
  /\ todo' = [todo EXCEPT ![p] = BitsOf(input[p])]
  /\ pc' = [pc EXCEPT ![p] = "send"]
  /\ UNCHANGED <<input, pend, woken, frame, buffer, message, printed, typed>>

\* At the peer nothing is pending, and at most the same signal is being handled:
\* what a usleep that is not cut short waits for.
InTime(q, sig) ==
  pend[q] = {} /\ \A i \in DOMAIN frame[q] : frame[q][i].sig = sig

SendBit(p) ==
  /\ At(p, "send") /\ todo[p] # <<>>
  /\ LET q == Other(p)
         sig == SignalOf(Head(todo[p]))
     IN /\ woken[p] \/ InTime(q, sig)
        /\ pend' = [pend EXCEPT ![q] = @ \cup {sig}]
  /\ todo' = [todo EXCEPT ![p] = Tail(@)]
  /\ woken' = [woken EXCEPT ![p] = FALSE]
  /\ UNCHANGED <<pc, input, frame, recv, typed>>

SendOver(p) ==
  /\ At(p, "send") /\ todo[p] = <<>>
  /\ pc' = [pc EXCEPT ![p] = "top"]
  /\ input' = [input EXCEPT ![p] = <<>>]
  /\ UNCHANGED <<todo, pend, woken, frame, recv, typed>>

(***************************************************************************)
(* The handler.                                                            *)
(***************************************************************************)
Blocked(p, sig) == \E i \in DOMAIN frame[p] : frame[p][i].sig = sig

Running(p, place) == frame[p] # <<>> /\ Last(frame[p]).at = place

\* peekFront and leaveFront assert that the queue is not empty: the process ends.
Aborted(p) ==
  Running(p, "take") /\ Len(Last(frame[p]).temp) < 8 /\ isEmpty(buffer[p])

Deliver(p) ==
  /\ ~Aborted(p)
  /\ \E sig \in pend[p] :
       /\ ~Blocked(p, sig)
       /\ pend' = [pend EXCEPT ![p] = @ \ {sig}]
       /\ frame' = [frame EXCEPT ![p] =
                      Append(@, [sig |-> sig, at |-> "add", temp |-> <<>>])]
  /\ woken' = [woken EXCEPT ![p] = TRUE]
  /\ UNCHANGED <<main, recv, typed>>

GoOn(p, place) == frame' = [frame EXCEPT ![p][Len(frame[p])].at = place]
Return(p) == frame' = [frame EXCEPT ![p] = Front(@)]

Add(p) ==
  /\ Running(p, "add")
  /\ buffer' = [buffer EXCEPT ![p] = addBack(@, BitOf(Last(frame[p]).sig))]
  /\ GoOn(p, "count")
  /\ UNCHANGED <<main, pend, woken, message, counter, printed, typed>>

Full(n) == n % 8 = 0 /\ n # 0

Debit_Kept(n) == n   \* mutant: counter is not reduced
Debit(n) == n - 8

\* counter++ and the test that follows it.
Count(p) ==
  /\ Running(p, "count")
  /\ LET n == counter[p] + 1
     IN IF Full(n)
          THEN GoOn(p, "take") /\ counter' = [counter EXCEPT ![p] = Debit(n)]
          ELSE Return(p) /\ counter' = [counter EXCEPT ![p] = n]
  /\ UNCHANGED <<main, pend, woken, buffer, message, printed, typed>>

\* One round of the loop.
Take(p) ==
  /\ Running(p, "take") /\ Len(Last(frame[p]).temp) < 8
  /\ ~Aborted(p)
  /\ frame' = [frame EXCEPT ![p][Len(frame[p])].temp =
                 Append(@, peekFront(buffer[p]))]
  /\ buffer' = [buffer EXCEPT ![p] = leaveFront(@)]
  /\ UNCHANGED <<main, pend, woken, message, counter, printed, typed>>

Finish(p) ==
  LET temp == Last(frame[p]).temp
      line == print(message[p])
  IN /\ Running(p, "take") /\ Len(temp) = 8
     /\ IF AllOnes(temp)
          THEN /\ printed' = [printed EXCEPT ![p] =
                                IF line = <<>> THEN @ ELSE Append(@, line)]
               /\ buffer' = [buffer EXCEPT ![p] = nuke(@)]
               /\ message' = [message EXCEPT ![p] = nuke(@)]
          ELSE /\ message' = [message EXCEPT ![p] = addBack(@, convertBack(temp))]
               /\ UNCHANGED <<buffer, printed>>
     /\ Return(p)
     /\ UNCHANGED <<main, pend, woken, counter, typed>>

-----------------------------------------------------------------------------
Main(p) ==
  Top(p) \/ Check(p) \/ Reset(p) \/ SendBit(p) \/ SendOver(p)

Handler(p) == Add(p) \/ Count(p) \/ Take(p) \/ Finish(p)

Next == \E p \in Peer : Main(p) \/ Type(p) \/ Deliver(p) \/ Handler(p)

Spec == Init /\ [][Next]_vars

\* Both loops and both handlers are given the processor, and a pending signal
\* is delivered.  Nobody has to type.
FairSpec ==
  /\ Spec
  /\ \A p \in Peer : WF_vars(Main(p)) /\ WF_vars(Deliver(p)) /\ WF_vars(Handler(p))

-----------------------------------------------------------------------------
(* Properties *)

Frame == [sig : Signal, at : {"add", "count", "take"}, temp : Seq(Bit)]

\* The types; counter is below 8.
TypeOK ==
  /\ pc \in [Peer -> {"top", "input", "check", "reset", "send"}]
  /\ input \in [Peer -> Lines \cup {<<>>}]
  /\ todo \in [Peer -> Seq(Bit)]
  /\ pend \in [Peer -> SUBSET Signal]
  /\ woken \in [Peer -> BOOLEAN]
  /\ frame \in [Peer -> Seq(Frame)]
  /\ counter \in [Peer -> 0 .. 7]
  /\ typed \in [Peer -> Seq(Lines)]
  /\ printed \in [Peer -> Seq(Seq(0 .. 255))]
  /\ \A p \in Peer : IsQueue(buffer[p], Bit) /\ IsQueue(message[p], 0 .. 255)

\* Both queues are well linked after every operation of a handler.
QueuesLinked == \A p \in Peer : Linked(buffer[p]) /\ Linked(message[p])

\* What a reader makes of the characters of a line and of its end: 255 is eight 1s,
\* the end mark, so that a line with this character is read as several.  Of two end
\* marks in a row the second says nothing.
Blank == [said |-> <<>>, open |-> <<>>]

Heard(r, c) ==
  IF c = 255
    THEN [said |-> IF r.open = <<>> THEN r.said ELSE Append(r.said, r.open),
          open |-> <<>>]
    ELSE [said |-> r.said, open |-> Append(r.open, c)]

Hearing(r, line) ==
  LET at[i \in 0 .. Len(line)] == IF i = 0 THEN r ELSE Heard(at[i - 1], line[i])
  IN at[Len(line)]

Log(lines) ==
  LET at[i \in 0 .. Len(lines)] ==
        IF i = 0 THEN Blank ELSE Heard(Hearing(at[i - 1], lines[i]), 255)
  IN at[Len(lines)]

Said(lines) == Log(lines).said

\* A peer prints what the other user typed, piece for piece and character for
\* character, for lines typed in turn, also one that waits while another comes in.
\* (The program also sends empty lines nobody typed; they print nothing.)
Faithful == \A p \in Peer : IsPrefix(printed[p], Said(typed[Other(p)]))

\* The test of the two queues keeps the peers from sending at once, for lines typed
\* in turn: no pause is cut short, no handler is interrupted by another, so that
\* nothing comes between the pointer assignments of squeue.c, no bit lands before
\* counter = 0, and counter says how many bits wait in the buffer whenever no handler
\* runs.  The loop that takes eight finds eight, and no assert of squeue.c fails.
InStep ==
  \A p \in Peer :
    /\ Len(frame[p]) <= 1
    /\ frame[p] = <<>> => counter[p] = Len(Values(buffer[p])) /\ counter[p] < 8
    /\ Running(p, "take") =>
         Len(Last(frame[p]).temp) + Len(Values(buffer[p])) = 8

\* When nothing is being sent to a peer and its handler is done, nothing of a
\* line is left in its queues, for lines typed in turn: leftovers would silence it
\* for good.
Settled ==
  \A p \in Peer :
    todo[Other(p)] = <<>> /\ pend[p] = {} /\ frame[p] = <<>> => Idle(p)

Owed == \E p \in Peer : Len(printed[Other(p)]) < Len(Said(typed[p]))

\* Every line typed in turn is in the end printed by the other peer, also one that
\* had to wait for a line coming in.
LineArrives == Owed ~> ~Owed
=============================================================================
