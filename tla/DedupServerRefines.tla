-------------------------- MODULE DedupServerRefines --------------------------
(***************************************************************************)
(* The file server implements DedupDirectory, as long as it is not told to *)
(* shut down: each handler, with its two loops over the queue, its file    *)
(* operations and its sends, is one atomic step of the directory.          *)
(***************************************************************************)
EXTENDS DedupServer

\* A delete has taken effect when its first loop meets the node, or when that
\* loop ends without meeting it; what its second loop has still to drop is gone.
DeleteDone(t) ==
  /\ req[t].op = "delete"
  /\ pc[t] \in {"back", "send", "unlock"} \/ (pc[t] = "scan" /\ flag[t])

\* An update takes effect when it appends its node or is refused, the other
\* commands after their second loop.
Done(t) ==
  \/ DeleteDone(t)
  \/ req[t].op # "delete" /\ pc[t] \in {"unlink", "create", "write",
                                         "send", "unlock"}

dirBar ==
  {e \in Entries : ~\E t \in Thread : DeleteDone(t) /\ e.hash = md5[t]}

callBar == [t \in Thread |-> IF pc[t] = "bail" THEN NoReq ELSE req[t]]

Reply(t) ==
  IF ~Done(t) THEN [tag |-> "none"] ELSE
  CASE req[t].op = "list" -> [tag |-> "0x01", count |-> Len(listed[t]),
                              names |-> ToSet(listed[t])]
    [] req[t].op = "update" -> [tag |-> IF flag[t] THEN "0xFF" ELSE "0x03"]
    [] req[t].op = "delete" -> [tag |-> IF flag[t] THEN "0x05" ELSE "0xFF"]
    [] req[t].op = "download" -> IF flag[t]
                                   THEN [tag |-> "0x07", content |-> data[t]]
                                   ELSE [tag |-> "0xFF"]

answerBar == [t \in Thread |-> Reply(t)]

Directory == INSTANCE DedupDirectory
  WITH dir <- dirBar, call <- callBar, answer <- answerBar, last <- md5

\* Every step of the server is a step of the directory or changes nothing of it:
\* commands are atomic, whichever handlers are interleaved and wherever a
\* client hangs up or the process dies.
DirectorySpec == Directory!Spec
=============================================================================
