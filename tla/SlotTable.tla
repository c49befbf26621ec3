------------------------------ MODULE SlotTable ------------------------------
(***************************************************************************)
(* The accept loop of assignmen2/server.c, its slots and descriptors.      *)
(*                                                                         *)
(* Each accept() stores the new descriptor in arrayInteger[i] and starts a *)
(* net_thread with the address of that slot.  The thread copies the        *)
(* descriptor once, but every handler reads the slot again, to answer and, *)
(* in update(), to receive the content.                                    *)
(* After the last slot the loop joins the thread of slot 0, clears the     *)
(* slot and starts over, whether or not the old threads have ended.        *)
(*                                                                         *)
(* The k-th accept(), its thread and its client are all called k.  The     *)
(* commands themselves are the subject of DedupServer.  pthread_create()   *)
(* always succeeds here.                                                   *)
(***************************************************************************)
EXTENDS Integers, FiniteSets, FiniteSetsExt

CONSTANTS
  Slots,      \* the length of tid[] and arrayInteger[]: 50
  Fd,         \* the descriptors accept() may return
  MaxAccepts, \* bound on the accept() calls
  Prompt      \* TRUE: a thread has started by the time Slots - 1 more are made

ASSUME SlotAssumption ==
  /\ Slots \in Nat \ {0, 1} /\ MaxAccepts \in Nat
  /\ Fd \subseteq Nat \ {0, 1, 2} /\ IsFiniteSet(Fd)
  /\ Prompt \in BOOLEAN

Call == 1 .. MaxAccepts
Slot == 0 .. Slots - 1
NoFd == -1      \* what accept() returns when it fails
Nobody == 0

VARIABLES
  main,         \* "accept" | "join" | "dead": the process has ended
  i,            \* the slot counter of main()
  made,         \* number of accept() calls so far
  tid,          \* tid[s]: the thread created last in slot s, or Nobody
  arrayInteger,
  open,         \* open[d]: the client descriptor d is connected to, or Nobody
  thread,       \* "none" | "born" | "started" | "read" | "handler" | "spin" | "ended"
  detached,     \* pthread_detach had its effect
  fd,           \* fd[k]: the slot thread k was given the address of
  newSocket,    \* the descriptor thread k copied from it
  reply         \* the descriptor its handler uses: what it read from the slot

loopVars == <<main, i, made, tid>>
threadVars == <<thread, detached, fd, newSocket, reply>>
vars == <<loopVars, arrayInteger, open, threadVars>>

Init ==
  /\ main = "accept" /\ i = 0 /\ made = 0
  /\ tid = [s \in Slot |-> Nobody]
  /\ arrayInteger = [s \in Slot |-> 0]
  /\ open = [d \in Fd |-> Nobody]
  /\ thread = [k \in Call |-> "none"]
  /\ detached = [k \in Call |-> FALSE]
  /\ fd = [k \in Call |-> 0]
  /\ newSocket = [k \in Call |-> NoFd]
  /\ reply = [k \in Call |-> NoFd]

Alive == main # "dead"

\* exit(1), or a signal nobody handles.
Die == main' = "dead" /\ UNCHANGED <<i, made, tid, arrayInteger, open, threadVars>>

(***************************************************************************)
(* main()                                                                  *)
(***************************************************************************)
Unused == {d \in Fd : open[d] = Nobody}

\* The kernel gives out the lowest unused descriptor; accept() fails when there
\* is none.
NewFd == IF Unused = {} THEN NoFd ELSE Min(Unused)

Wraps_Late(n) == n > Slots     \* mutant: if(i>50)
Wraps(n) == n >= Slots

Started(k) == thread[k] \notin {"none", "born", "started"}

\* A failed accept() is not noticed: the test that follows reads newSocket, which
\* is never assigned.  Its thread is given -1.
Accept ==
  LET k == made + 1
  IN /\ main = "accept" /\ made < MaxAccepts
     /\ Prompt => \A l \in 1 .. k - (Slots - 1) : Started(l)
     /\ made' = k
     /\ arrayInteger' = [arrayInteger EXCEPT ![i] = NewFd]
     /\ open' = [d \in Fd |-> IF d = NewFd THEN k ELSE open[d]]
     /\ tid' = [tid EXCEPT ![i] = k]
     /\ thread' = [thread EXCEPT ![k] = "born"]
     /\ fd' = [fd EXCEPT ![k] = i]
     /\ IF Wraps(i + 1) THEN i' = 0 /\ main' = "join"
                        ELSE i' = i + 1 /\ UNCHANGED main
     /\ UNCHANGED <<detached, newSocket, reply>>

\* The uninitialised newSocket may hold -1.
AcceptExits == main = "accept" /\ made < MaxAccepts /\ Die

\* How many slots the loop joins and clears.
Joins_All == Slots     \* mutant: while(i<50)
Joins == 1

\* pthread_join returns at once for a detached thread, and otherwise when the
\* thread has ended.
Join ==
  /\ main = "join" /\ i < Joins
  /\ detached[tid[i]] \/ thread[tid[i]] = "ended"
  /\ arrayInteger' = [arrayInteger EXCEPT ![i] = 0]
  /\ i' = i + 1
  /\ UNCHANGED <<main, made, tid, open, threadVars>>

\* A detached thread that has ended is not there any more to be joined: its stack,
\* where pthread_join looks, may have been given back.
JoinCrash ==
  /\ main = "join" /\ i < Joins
  /\ detached[tid[i]] /\ thread[tid[i]] = "ended"
  /\ Die

JoinEnd ==
  /\ main = "join" /\ i >= Joins
  /\ i' = 0 /\ main' = "accept"
  /\ UNCHANGED <<made, tid, arrayInteger, open, threadVars>>

(***************************************************************************)
(* net_thread                                                              *)
(***************************************************************************)

\* pthread_detach: no effect on a thread that main() is waiting for.
Detach_Never(k) == FALSE     \* mutant: the call is missing
Detach(k) == ~(main = "join" /\ i < Joins /\ tid[i] = k)

Start(k) ==
  /\ Alive /\ thread[k] = "born"
  /\ thread' = [thread EXCEPT ![k] = "started"]
  /\ detached' = [detached EXCEPT ![k] = Detach(k)]
  /\ UNCHANGED <<loopVars, arrayInteger, open, fd, newSocket, reply>>

CopySocket(k) ==
  /\ Alive /\ thread[k] = "started"
  /\ newSocket' = [newSocket EXCEPT ![k] = arrayInteger[fd[k]]]
  /\ thread' = [thread EXCEPT ![k] = "read"]
  /\ UNCHANGED <<loopVars, arrayInteger, open, detached, fd, reply>>

\* A command has come; its handler reads the slot, for all it sends and, in
\* update(), receives.
Command(k) ==
  /\ Alive /\ thread[k] = "read" /\ newSocket[k] # NoFd
  /\ thread' = [thread EXCEPT ![k] = "handler"]
  /\ reply' = [reply EXCEPT ![k] = arrayInteger[fd[k]]]
  /\ UNCHANGED <<loopVars, arrayInteger, open, detached, fd, newSocket>>

Answer(k) ==
  /\ Alive /\ thread[k] = "handler"
  /\ thread' = [thread EXCEPT ![k] = "read"]
  /\ UNCHANGED <<loopVars, arrayInteger, open, detached, fd, newSocket, reply>>

\* A descriptor that is no connection: send() fails, and list() and download()
\* take the server with them.
AnswerExits(k) ==
  /\ Alive /\ thread[k] = "handler"
  /\ ~ \E d \in Fd : d = reply[k] /\ open[d] # Nobody
  /\ Die

\* close(newSocket); closing -1 has no effect.
Close_Never(k) == open     \* mutant: the socket is left open
Close(k) == [d \in Fd |-> IF d = newSocket[k] THEN Nobody ELSE open[d]]

\* Command 0x08, or a read() that failed.
End(k) ==
  /\ Alive /\ thread[k] = "read"
  /\ thread' = [thread EXCEPT ![k] = "ended"]
  /\ open' = Close(k)
  /\ UNCHANGED <<loopVars, arrayInteger, detached, fd, newSocket, reply>>

\* The other outcome of a failed read(): perror() writes to descriptor 2, which
\* main() closed and socket() gave to the listening socket: SIGPIPE.
EndKills(k) == Alive /\ thread[k] = "read" /\ Die

\* The client has closed its end: read() returns 0, which is no error, for ever.
Spin(k) ==
  /\ Alive /\ thread[k] = "read" /\ newSocket[k] # NoFd
  /\ thread' = [thread EXCEPT ![k] = "spin"]
  /\ UNCHANGED <<loopVars, arrayInteger, open, detached, fd, newSocket, reply>>

-----------------------------------------------------------------------------
Loop == Accept \/ AcceptExits \/ Join \/ JoinCrash \/ JoinEnd

NetThread(k) ==
  \/ Start(k) \/ CopySocket(k) \/ Command(k) \/ Answer(k) \/ AnswerExits(k)
  \/ End(k) \/ EndKills(k) \/ Spin(k)

Next == Loop \/ \E k \in Call : NetThread(k)

Spec == Init /\ [][Next]_vars

\* main() goes on when pthread_join lets it; clients need do nothing.
FairSpec == Spec /\ WF_vars(Join \/ JoinEnd)

-----------------------------------------------------------------------------
(* Properties *)

\* The types; i indexes arrays of Slots elements.
TypeOK ==
  /\ main \in {"accept", "join", "dead"}
  /\ i \in Slot /\ made \in 0 .. MaxAccepts
  /\ tid \in [Slot -> 0 .. MaxAccepts]
  /\ arrayInteger \in [Slot -> Fd \cup {0, NoFd}]
  /\ open \in [Fd -> 0 .. MaxAccepts]
  /\ thread \in [Call -> {"none", "born", "started", "read", "handler", "spin", "ended"}]
  /\ detached \in [Call -> BOOLEAN]
  /\ fd \in [Call -> Slot]
  /\ newSocket \in [Call -> Fd \cup {0, NoFd}]
  /\ reply \in [Call -> Fd \cup {0, NoFd}]

Has(k, d) ==
  \/ thread[k] \in {"read", "handler", "spin"} /\ newSocket[k] = d
  \/ thread[k] \in {"born", "started"} /\ arrayInteger[fd[k]] = d

\* Threads and open descriptors belong together one to one, however often slots
\* and descriptors are used again: net_thread's own copy, from which it reads the
\* commands, is its client's or none, no descriptor is closed under it, and none
\* is open without a thread (a client that closes its end without 0x08 keeps both
\* for ever).  What the handlers read from the slot is the subject of AnswersOwn.
OwnSocket ==
  \A d \in Fd, k \in Call : Has(k, d) <=> open[d] = k

\* The loop has come round to the slot of k since.
ComeRound(k) == made >= k + Slots \/ (fd[k] = 0 /\ made >= k + Slots - 1)

\* A handler answers, and update() receives from, its own client as long as the
\* loop has not come round to its slot: Slots connections may be served at a time,
\* but only the last Slots.
AnswersOwn ==
  \A k \in Call :
    thread[k] = "handler" /\ ~ComeRound(k) =>
      reply[k] = newSocket[k] /\ \E d \in Fd : d = reply[k] /\ open[d] = k

\* pthread_join does not keep the loop from accepting: it is asked for a thread
\* that detached itself long before, not for one whose client may stay for ever.
AcceptsAgain == main = "join" ~> main # "join"
=============================================================================
