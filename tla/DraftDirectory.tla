---------------------------- MODULE DraftDirectory ----------------------------
(***************************************************************************)
(* What the earlier server of as2/filesending/server_repos promises: a     *)
(* directory of names and digests on which every command acts at once.     *)
(* Contents do not appear in it, only their digests: a content may come    *)
(* back from a restart several times over.                                 *)
(*                                                                         *)
(* Unlike DedupDirectory, a delete takes exactly the name it was given and *)
(* a delete of an unknown name changes nothing; an upload that does not    *)
(* come to its end is never answered; and what a restart keeps is all or   *)
(* nothing.                                                                *)
(***************************************************************************)
EXTENDS FiniteSets

CONSTANTS Thread, Hash, Request, NoReq

VARIABLES
  dir,     \* the entries: [name, hash] records
  call,    \* call[t]: the command connection t has issued, or NoReq
  answer   \* answer[t]: what it will be told, or NoAnswer

vars == <<dir, call, answer>>

NoAnswer == [tag |-> "none"]
Refused == [tag |-> "0xFF"]
Stored == [tag |-> "0x03"]
Deleted == [tag |-> "0x05"]
Names(n, S) == [tag |-> "0x01", count |-> n, names |-> S]
Found(h) == [tag |-> "0x07", hash |-> h]

Called(n) == {e \in dir : e.name = n}

Idle ==
  /\ call = [t \in Thread |-> NoReq]
  /\ answer = [t \in Thread |-> NoAnswer]

Init == dir = {} /\ Idle

Begin(t) ==
  /\ call[t] = NoReq
  /\ \E r \in Request : call' = [call EXCEPT ![t] = r]
  /\ UNCHANGED <<dir, answer>>

Answer(t, op, ans) ==
  /\ call[t].op = op /\ answer[t] = NoAnswer
  /\ answer' = [answer EXCEPT ![t] = ans]
  /\ UNCHANGED call

Insert(t) ==
  /\ Called(call[t].name) = {}
  /\ Answer(t, "update", Stored)
  /\ \E h \in Hash : dir' = dir \cup {[name |-> call[t].name, hash |-> h]}

Remove(t) ==
  /\ Called(call[t].name) # {}
  /\ Answer(t, "delete", Deleted)
  /\ dir' = dir \ Called(call[t].name)

Fetch(t) ==
  /\ \E e \in Called(call[t].name) : Answer(t, "download", Found(e.hash))
  /\ UNCHANGED dir

List(t) ==
  /\ Answer(t, "list", Names(Cardinality(dir), {e.name : e \in dir}))
  /\ UNCHANGED dir

\* An upload of a known name; a delete or a download of an unknown one.
Refuse(t) ==
  /\ \/ Called(call[t].name) # {} /\ Answer(t, "update", Refused)
     \/ /\ Called(call[t].name) = {}
        /\ Answer(t, "delete", Refused) \/ Answer(t, "download", Refused)
  /\ UNCHANGED dir

\* The answer has been sent, or nobody is there to take it.
Return(t) ==
  /\ answer[t] # NoAnswer
  /\ call' = [call EXCEPT ![t] = NoReq]
  /\ answer' = [answer EXCEPT ![t] = NoAnswer]
  /\ UNCHANGED dir

\* The process ends, and the next one finds everything or nothing.
Restart == Idle' /\ dir' \in {dir, {}}

Next ==
  \/ \E t \in Thread : \/ Begin(t) \/ Insert(t) \/ Remove(t) \/ Fetch(t)
                       \/ List(t) \/ Refuse(t) \/ Return(t)
  \/ Restart

Spec == Init /\ [][Next]_vars
=============================================================================
