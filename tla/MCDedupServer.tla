---------------------------- MODULE MCDedupServer ----------------------------
(***************************************************************************)
(* Small instances of DedupServer for TLC.                                 *)
(***************************************************************************)
EXTENDS DedupServerRefines, TLC

CONSTANTS t1, t2, f, g, k, a, b, ha, hb

MCMd5 == (a :> ha) @@ (b :> hb)

\* Threads are interchangeable, and so are names.
Symmetry == Permutations(Thread) \cup Permutations(Name)

\* Bound of the restart run: the last process loads the backup and serves, but
\* gets no command; the processes before it do everything.
LastStartIdle == boots = MaxBoots => \A t \in Thread : pc[t] \in {"free", "read"}

\* While term() drains the queue a client may go on uploading, and the document
\* may grow without end: bound it by the number of names.
ShortDoc ==
  Len(FlattenSeq([i \in DOMAIN doc |-> doc[i].names])) <= Cardinality(Name)

\* The constraint of the backup run: SIGTERM only ever comes, and is only ever
\* served, while no handler runs.
QuietTerm == term # "off" => lock = NoThread

\* Only commands that change the repository: list and download move the nodes as
\* the first two loops of update do.
Writers == \A t \in Thread : req[t].op \in {"none", "update", "delete"}

RestartBounds == LastStartIdle /\ ShortDoc /\ Writers
=============================================================================
