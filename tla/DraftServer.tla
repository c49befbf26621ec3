----------------------------- MODULE DraftServer -----------------------------
(***************************************************************************)
(* The earlier server, as2/filesending/server_repos/server.c.              *)
(*                                                                         *)
(* term(), main() and readxml() are those of the final server, and so are  *)
(* the shared queue and the way a handler moves it to a private queue and  *)
(* back.  The handlers differ: there is no map_inuse (here always 0);      *)
(* delete() drops the named node only; update() refuses a known name       *)
(* without reading the content, does not notice that the content will not  *)
(* come, and appends to the content file instead of replacing it.          *)
(*                                                                         *)
(* A file, and a content read from one, is therefore a sequence of         *)
(* pieces, one for each upload: blob[h] and an entry's `content' are       *)
(* sequences, data[t] an uploaded content or the one download() found.     *)
(***************************************************************************)
EXTENDS DedupServer

CONSTANTS
  Quiet,    \* TRUE: SIGTERM comes when neither a handler nor readxml() runs, and
            \* no handler starts before exit
  MaxBusy   \* bound: the processes after that many get no command

\* A content file that is not there is not an empty one.
ASSUME DraftAssumption ==
  Quiet \in BOOLEAN /\ MaxBusy \in Nat /\ NoFile \notin Seq(Content \cup {Torn})

DraftCritical == {"scan", "back", "body", "spin", "add", "create", "write",
                  "send", "unlock"}
DraftPC == DraftCritical \cup {"free", "read", "lock"}

\* A content as it is when it has just been received.
Whole(c) == <<c>>

\* remove(md5) of delete().
Removed_Not(h) == blob                    \* mutant: the file stays
Removed(h) == [blob EXCEPT ![h] = NoFile]

\* update() looks at `flag' as soon as the queue is back in its place.
Refuses(t) == req[t].op = "update" /\ flag[t]

AfterBack_Stores(t) ==      \* mutant: the duplicate check is lost
  IF req[t].op = "update" THEN "body" ELSE "send"

AfterBack_Returns(t) ==     \* mutant: net_thread goes round without the unlock
  IF req[t].op = "update" /\ ~Refuses(t) THEN "body" ELSE "read"

AfterBack(t) == IF req[t].op = "update" /\ ~Refuses(t) THEN "body" ELSE "send"

-----------------------------------------------------------------------------
(* main(), readxml() and net_thread, as in the final server *)

DraftInit == Init

DraftBoot == Boot

DraftOpenIndex == OpenIndex

DraftLoad == LoadEntry \/ LoadCrash \/ LoadDone

DraftAccept(t) == Accept(t)

DraftRead(t) ==
  \/ boots <= MaxBusy /\ Command(t)
  \/ Leave(t) \/ ReadFails(t)

DraftLock(t) ==
  /\ pc[t] = "lock" /\ MutexFree /\ (Quiet => term = "off")
  /\ lock' = t
  /\ pc' = [pc EXCEPT ![t] = "scan"]
  /\ atTerm' = NoSnapshot
  /\ UNCHANGED <<procVars, map, map_inuse, diskVars, term, doc, conn, dataVars>>

DraftUnlock(t) ==
  /\ pc[t] = "unlock"
  /\ lock' = NoThread
  /\ pc' = [pc EXCEPT ![t] = "read"]
  /\ req' = [req EXCEPT ![t] = NoReq]
  /\ flag' = [flag EXCEPT ![t] = FALSE]
  /\ data' = [data EXCEPT ![t] = Torn]
  /\ listed' = [listed EXCEPT ![t] = <<>>]
  /\ UNCHANGED <<procVars, map, map_inuse, diskVars, termVars, conn, new, md5, out>>

-----------------------------------------------------------------------------
(* The two loops over the queue *)

DraftScan(t) ==
  /\ pc[t] = "scan" /\ map # <<>>
  /\ LET e == Head(map)
         hit == e.name = req[t].name
         goes == hit /\ req[t].op = "delete"
     IN /\ flag' = [flag EXCEPT ![t] = @ \/ hit]
        /\ blob' = IF goes THEN Removed(e.hash) ELSE blob
        /\ new' = [new EXCEPT ![t] = IF goes THEN @ ELSE Append(@, e)]
        /\ data' = [data EXCEPT ![t] = IF hit /\ req[t].op = "download"
                                         THEN e.content ELSE @]
  /\ map' = Tail(map)
  /\ UNCHANGED <<procVars, lockVars, index, xml, termVars, pc, conn, req, md5,
                 listed, out>>

DraftScanEnd(t) ==
  /\ pc[t] = "scan" /\ map = <<>>
  /\ pc' = [pc EXCEPT ![t] = "back"]
  /\ out' = [out EXCEPT ![t] = Plan(req[t].op, flag[t], Len(new[t]))]
  /\ UNCHANGED <<procVars, map, lockVars, diskVars, termVars, conn, req, new,
                 flag, md5, data, listed>>

DraftBack(t) ==
  /\ pc[t] = "back" /\ new[t] # <<>>
  /\ map' = Append(map, Head(new[t]))
  /\ listed' = [listed EXCEPT ![t] = IF req[t].op = "list"
                                       THEN Append(@, Head(new[t]).name) ELSE @]
  /\ new' = [new EXCEPT ![t] = Tail(@)]
  /\ UNCHANGED <<procVars, lockVars, diskVars, termVars, pc, conn, req, flag,
                 md5, data, out>>

DraftBackEnd(t) ==
  /\ pc[t] = "back" /\ new[t] = <<>>
  /\ pc' = [pc EXCEPT ![t] = AfterBack(t)]
  /\ UNCHANGED <<procVars, map, lockVars, diskVars, termVars, conn, dataVars>>

\* download() prints its uninitialised pointers when it found no file.
DraftMissCrash(t) ==
  /\ pc[t] = "back" /\ new[t] = <<>>
  /\ req[t].op = "download" /\ ~flag[t]
  /\ Crash

-----------------------------------------------------------------------------
(* update() *)

\* The content, as far as strlen(data) takes it: the buffer has no room for a
\* terminator.  A size that never came may be read as 0, and then it is what
\* malloc(0) points to.
DraftReceive(t) ==
  /\ pc[t] = "body"
  /\ \E c \in Content : data' = [data EXCEPT ![t] = c]
  /\ pc' = [pc EXCEPT ![t] = "add"]
  /\ conn' = [conn EXCEPT ![t] = IF @ = "rst" THEN "reset" ELSE @]
  /\ UNCHANGED <<procVars, map, lockVars, diskVars, termVars, req, new, flag,
                 md5, listed, out>>

\* recv() returns 0 and x stays positive: the loop goes on, with the mutex.
DraftSpin(t) ==
  /\ pc[t] = "body" /\ conn[t] = "gone"
  /\ pc' = [pc EXCEPT ![t] = "spin"]
  /\ UNCHANGED <<procVars, map, lockVars, diskVars, termVars, conn, dataVars>>

\* The uninitialised size is negative, malloc() fails and memset(NULL) is called;
\* or recv() returns -1, and perror() or exit(1) ends the process.
DraftReceiveCrash(t) == pc[t] = "body" /\ conn[t] # "open" /\ Crash

DraftAdd(t) ==
  /\ pc[t] = "add"
  /\ map' = Append(map, [name |-> req[t].name, content |-> Whole(data[t]),
                         hash |-> HashOf(data[t])])
  /\ pc' = [pc EXCEPT ![t] = "create"]
  /\ UNCHANGED <<procVars, lockVars, diskVars, termVars, conn, dataVars>>

\* fopen(md5, "ab") keeps what is in the file.
DraftCreate(t) ==
  /\ pc[t] = "create"
  /\ blob' = [blob EXCEPT ![HashOf(data[t])] =
                Append(IF @ = NoFile THEN <<>> ELSE @, Torn)]
  /\ pc' = [pc EXCEPT ![t] = "write"]
  /\ UNCHANGED <<procVars, map, lockVars, index, xml, termVars, conn, dataVars>>

DraftWrite(t) ==
  /\ pc[t] = "write"
  /\ blob' = [blob EXCEPT ![HashOf(data[t])] = Append(Front(@), data[t])]
  /\ pc' = [pc EXCEPT ![t] = "send"]
  /\ UNCHANGED <<procVars, map, lockVars, index, xml, termVars, conn, dataVars>>

-----------------------------------------------------------------------------
(* The answers, and term(), as in the final server *)

DraftSend(t) == Send(t) \/ SendKills(t) \/ SendEnd(t)

DraftTermStart ==
  /\ Quiet => phase = "serve" /\ lock = NoThread
  /\ TermBegin
  /\ atTerm' = IF phase = "serve" /\ lock = NoThread THEN ToSet(map) ELSE NoSnapshot

DraftTerm ==
  DraftTermStart \/ TermCrash \/ TermRecord \/ TermPop \/ TermRaceCrash \/ TermSave \/ TermExit

\* Bound: one client at a time has closed its connection.
DraftHangup(t) == (\A u \in Thread : conn[u] = "open") /\ Hangup(t)

DraftHandle(t) ==
  \/ DraftScan(t) \/ DraftScanEnd(t) \/ DraftBack(t) \/ DraftBackEnd(t)
  \/ DraftMissCrash(t)
  \/ DraftReceive(t) \/ DraftSpin(t) \/ DraftReceiveCrash(t)
  \/ DraftAdd(t) \/ DraftCreate(t) \/ CreateFails(t) \/ DraftWrite(t)
  \/ DraftSend(t) \/ DraftUnlock(t)

DraftNext ==
  \/ DraftBoot \/ DraftOpenIndex \/ DraftLoad
  \/ DraftTerm
  \/ \E t \in Thread :
       \/ DraftAccept(t) \/ DraftRead(t) \/ DraftLock(t) \/ DraftHandle(t)
       \/ DraftHangup(t)

DraftSpec == DraftInit /\ [][DraftNext]_vars

\* As for the final server: a handler goes on wherever it does not wait for its
\* client, and of the client nothing is assumed.
DraftFairSpec ==
  DraftSpec /\ \A t \in Thread : WF_vars(~Waits(t) /\ DraftHandle(t))

-----------------------------------------------------------------------------
(* The abstract directory *)

DraftDone(t) ==
  \/ pc[t] \in {"create", "write", "send", "unlock"}
  \/ req[t].op = "delete" /\ (pc[t] = "back" \/ (pc[t] = "scan" /\ flag[t]))

Label(e) == [name |-> e.name, hash |-> e.hash]

\* Between SIGTERM and the first command after it the entries are on their way
\* to the file .dedup and back.
Labels == {Label(e) : e \in IF atTerm = NoSnapshot THEN Entries ELSE atTerm}

\* download() returns the pieces of one digest.
DraftReply(t) ==
  IF ~DraftDone(t) THEN [tag |-> "none"] ELSE
  CASE req[t].op = "list" -> [tag |-> "0x01", count |-> Len(listed[t]),
                              names |-> ToSet(listed[t])]
    [] req[t].op = "update" -> [tag |-> IF flag[t] THEN "0xFF" ELSE "0x03"]
    [] req[t].op = "delete" -> [tag |-> IF flag[t] THEN "0x05" ELSE "0xFF"]
    [] req[t].op = "download" ->
         IF flag[t] THEN [tag |-> "0x07", hash |-> HashOf(data[t][1])]
                    ELSE [tag |-> "0xFF"]

Directory == INSTANCE DraftDirectory
  WITH dir <- Labels, call <- req, answer <- [t \in Thread |-> DraftReply(t)]

\* Every step of the earlier server is a step of its directory or changes nothing
\* of it: commands are atomic, a delete of an unknown name is harmless, and a
\* quiet shutdown with its restart keeps all entries or none.
DraftDirectorySpec == Directory!Spec

-----------------------------------------------------------------------------
(* Properties *)

Piece == Content \cup {Torn}
DraftEntry == [name : Name, content : Seq(Piece), hash : Hash]

\* The types, as DedupServer's but for contents and program points.
DraftTypeOK ==
  /\ phase \in {"down", "boot", "load", "serve"} /\ boots \in 0 .. MaxBoots
  /\ pending \in Seq(File) /\ doc \in Seq(File)
  /\ map \in Seq(DraftEntry) /\ new \in [Thread -> Seq(DraftEntry)]
  /\ blob \in [Hash -> Seq(Piece) \cup {NoFile}]
  /\ {index, xml} \subseteq Seq(File) \cup {NoFile}
  /\ atTerm \in (SUBSET DraftEntry) \cup {NoSnapshot}
  /\ pc \in [Thread -> DraftPC]
  /\ req \in [Thread -> Request \cup {NoReq}]
  /\ data \in [Thread -> Piece \cup Seq(Piece)]
  /\ out \in [Thread -> Seq({"ignore", "return", "exit"})]

\* The mutex alone guards the queue here: the thread that holds it is the one
\* inside a handler.
DraftLocked ==
  /\ map_inuse = 0
  /\ \A t \in Thread : pc[t] \in DraftCritical <=> lock = t

\* Appending to the content file does no harm while the process lives: the file of
\* a digest never holds more copies than there are names with that digest.
CopiesNamed ==
  boots = 1 /\ phase = "serve" /\ term = "off" =>
    \A h \in Hash : blob[h] # NoFile =>
      Len(blob[h]) <= Cardinality({e \in Entries : e.hash = h})

\* After a quiet shutdown the names and digests read back, with those still to
\* read, are those there were, whatever the files now hold.
DraftRestores ==
  atTerm # NoSnapshot /\ term = "off" /\ phase \in {"load", "serve"} =>
    Labels = {Label(e) : e \in ToSet(map)} \cup
      UNION {{[name |-> n, hash |-> file.hash] : n \in ToSet(file.names)} :
               file \in ToSet(pending)}

\* A handler gives the mutex back, or waits for ever for a client that neither goes
\* on nor closes, or its client has closed the connection in the middle of an
\* upload; in the last case nobody ever gets the mutex again.
ReleasedOrSpinning ==
  \A t \in Thread :
    lock = t ~> \/ lock # t
                \/ pc[t] = "spin" /\ conn[t] = "gone"
                \/ []Waits(t)
=============================================================================
