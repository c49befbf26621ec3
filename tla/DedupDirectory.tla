---------------------------- MODULE DedupDirectory ----------------------------
(***************************************************************************)
(* What the file server of assignmen2/server.c promises its clients: a     *)
(* directory of entries on which every command acts at once, somewhere     *)
(* between the moment it is read and the moment its answer has been sent.  *)
(* No queues, no locks, no files.                                          *)
(*                                                                         *)
(* Two things a reader might not expect are part of the promise, because   *)
(* they are what the program does: a delete takes every name of the same   *)
(* content with it, and a delete of an unknown name may take the entries   *)
(* of the digest that was deleted last on the same stack.                  *)
(***************************************************************************)
EXTENDS FiniteSets

CONSTANTS Thread, Name, Content, Hash, Md5, NoName, NoHash, Request, NoReq

VARIABLES
  dir,     \* the entries: [name, content, hash] records
  call,    \* call[t]: the command connection t has issued, or NoReq
  answer,  \* answer[t]: what it will be told, or NoAnswer
  last     \* last[t]: the digest the stack of t remembers, or NoHash

vars == <<dir, call, answer, last>>

NoAnswer == [tag |-> "none"]
Refused == [tag |-> "0xFF"]
Stored == [tag |-> "0x03"]
Deleted == [tag |-> "0x05"]
Names(n, S) == [tag |-> "0x01", count |-> n, names |-> S]
Found(c) == [tag |-> "0x07", content |-> c]

Known(n) == \E e \in dir : e.name = n

Init ==
  /\ dir = {}
  /\ call = [t \in Thread |-> NoReq]
  /\ answer = [t \in Thread |-> NoAnswer]
  /\ last = [t \in Thread |-> NoHash]

Begin(t) ==
  /\ call[t] = NoReq
  /\ \E r \in Request : call' = [call EXCEPT ![t] = r]
  /\ UNCHANGED <<dir, answer, last>>

Answer(t, op, ans) ==
  /\ call[t].op = op /\ answer[t] = NoAnswer
  /\ answer' = [answer EXCEPT ![t] = ans]
  /\ UNCHANGED call

Insert(t) ==
  /\ ~Known(call[t].name)
  /\ Answer(t, "update", Stored)
  /\ \E c \in Content :
       dir' = dir \cup {[name |-> call[t].name, content |-> c, hash |-> Md5[c]]}
  /\ UNCHANGED last

Reject(t) ==
  /\ Known(call[t].name)
  /\ Answer(t, "update", Refused)
  /\ UNCHANGED <<dir, last>>

\* The client left before its content came.
Abort(t) ==
  /\ call[t].op = "update" /\ answer[t] = NoAnswer
  /\ call' = [call EXCEPT ![t] = NoReq]
  /\ UNCHANGED <<dir, answer, last>>

Fetch(t) ==
  /\ IF Known(call[t].name)
       THEN \E e \in dir : e.name = call[t].name
                             /\ Answer(t, "download", Found(e.content))
       ELSE Answer(t, "download", Refused)
  /\ UNCHANGED <<dir, last>>

List(t) ==
  /\ Answer(t, "list", Names(Cardinality(dir), {e.name : e \in dir}))
  /\ UNCHANGED <<dir, last>>

Remove(t) ==
  /\ Answer(t, "delete", Deleted)
  /\ \E e \in dir :
       /\ e.name = call[t].name
       /\ dir' = {d \in dir : d.hash # e.hash}
       /\ last' = [last EXCEPT ![t] = e.hash]

RemoveMissing(t) ==
  /\ ~Known(call[t].name)
  /\ Answer(t, "delete", Refused)
  /\ \E h \in {last[t], NoHash} :
       /\ dir' = {d \in dir : d.hash # h}
       /\ last' = [last EXCEPT ![t] = h]

\* The answer has been sent, or nobody is there to take it.
Return(t) ==
  /\ answer[t] # NoAnswer
  /\ call' = [call EXCEPT ![t] = NoReq]
  /\ answer' = [answer EXCEPT ![t] = NoAnswer]
  /\ UNCHANGED <<dir, last>>

\* The process dies.  What it had not saved is lost.
Lose == dir' = {} /\ call' = [t \in Thread |-> NoReq]
          /\ answer' = [t \in Thread |-> NoAnswer]
          /\ last' = [t \in Thread |-> NoHash]

Next ==
  \/ \E t \in Thread :
       \/ Begin(t) \/ Insert(t) \/ Reject(t) \/ Abort(t) \/ Fetch(t)
       \/ List(t) \/ Remove(t) \/ RemoveMissing(t) \/ Return(t)
  \/ Lose

Spec == Init /\ [][Next]_vars

=============================================================================
