----------------------------- MODULE DedupServer -----------------------------
(***************************************************************************)
(* The deduplicating file server of assignmen2/server.c.                   *)
(*                                                                         *)
(* One net_thread per client works on the shared queue `map' of            *)
(* (filename, content, md5) nodes, under the mutex `lock' and the flag     *)
(* `map_inuse'.  Every operation first moves the whole queue into a        *)
(* private queue `new' and then back.  Contents are also kept on disk, one *)
(* file per md5.  SIGTERM runs term(), which drains the queue into         *)
(* ".dedup" without taking the lock; the next start reads it back with     *)
(* readxml().                                                              *)
(*                                                                         *)
(* Granularity: one step per queue node moved, per file-system call, per   *)
(* send() and per blocking call.  A command is read whole: what the byte   *)
(* stream can do to it is the subject of the wire-protocol module.         *)
(***************************************************************************)
EXTENDS Naturals, Sequences, FiniteSets, SequencesExt

CONSTANTS
  Thread,     \* connection slots: the entries of tid[] and arrayInteger[]
  Name,       \* file names a client may ask for
  Content,    \* file contents a client may upload
  Hash,       \* md5 digests, which are also names of files on disk
  Md5,        \* Md5[c] is the digest of content c
  NoThread, NoName, NoHash,
  NoFile,     \* a file that does not exist
  Torn,       \* what a content file holds between fopen and fclose
  NoSnapshot,
  Faults,     \* the faults the environment may commit, see below
  MaxBoots    \* bound: how often the daemon is started

FaultKinds == {"sigterm",   \* pkill: term() runs
               "sigkill",   \* the process dies, nothing runs
               "hangup",    \* a client closes or resets its connection
               "nospace"}   \* fopen(md5, "ab") fails

ASSUME ConstantAssumption ==
  /\ Md5 \in [Content -> Hash]
  /\ NoThread \notin Thread
  /\ NoName \notin Name
  /\ NoHash \notin Hash
  /\ Torn \notin Content
  /\ NoFile \notin Content \cup {Torn}
  /\ Faults \subseteq FaultKinds
  /\ MaxBoots \in Nat

VARIABLES
  \* the process
  phase,      \* "down" | "boot" (map still NULL) | "load" (readxml) | "serve"
  boots,      \* number of starts so far
  pending,    \* readxml: the <file> elements whose names it has not read yet
  \* shared memory
  map,        \* the queue, first node first
  lock,       \* the thread that holds the mutex, or NoThread
  map_inuse,
  \* the repository directory
  index,      \* the file .dedup, or NoFile
  xml,        \* the file repository.xml, or NoFile
  blob,       \* blob[h]: the file named by digest h, or NoFile
  \* the SIGTERM handler
  term,       \* "off" | "record" | "pop" | "save" | "rename"
  doc,        \* the XML document term() builds
  atTerm,     \* history: the queue's nodes when a quiet shutdown began
  \* each thread
  pc,         \* where net_thread stands
  conn,       \* its connection: "open" | "gone" | "rst" | "reset"
  req,        \* the command it serves
  new,        \* its private queue
  flag,       \* the local `flag' of the handlers
  md5,        \* the stack slot of delete()'s local `md5'
  data,       \* the content received by update() or found by download()
  listed,     \* the local filename[] of list()
  out         \* the send() calls still to make

procVars == <<phase, boots, pending>>
lockVars == <<lock, map_inuse>>
diskVars == <<index, xml, blob>>
termVars == <<term, doc, atTerm>>
dataVars == <<req, new, flag, md5, data, listed, out>>
vars == <<procVars, map, lockVars, diskVars, termVars, pc, conn, dataVars>>

-----------------------------------------------------------------------------
(* Data *)

Entry == [name : Name, content : Content \cup {Torn}, hash : Hash]

\* A <file> element of .dedup: a <hashname> and its <knownas> names.
File == [hash : Hash, names : Seq(Name) \ {<<>>}]

\* A file that is not there is not an empty one either.
ASSUME BackupAssumption == NoFile \notin Seq(File)

Request ==
  [op : {"update", "download", "delete"}, name : Name]
    \cup [op : {"list"}, name : {NoName}]

NoReq == [op |-> "none", name |-> NoName]

\* convertMD5
HashOf_Empty(c) == Md5[CHOOSE d \in Content : TRUE]   \* mutant: no MD5_Update
HashOf(c) == Md5[c]

\* term(): the name goes to the <file> elements with the node's digest, or to a
\* new one at the end.
WithName(file, n) == [file EXCEPT !.names = Append(@, n)]
NewFile(e) == [hash |-> e.hash, names |-> <<e.name>>]

AddToDoc_OneName(d, e) ==   \* mutant: nothing is added to a known digest
  IF \E i \in DOMAIN d : d[i].hash = e.hash THEN d ELSE Append(d, NewFile(e))

AddToDoc_Swapped(d, e) ==   \* mutant: <hashname> and <knownas> are swapped
  Append(d, [hash |-> e.name, names |-> <<e.hash>>])

AddToDoc(d, e) ==
  IF \E i \in DOMAIN d : d[i].hash = e.hash
    THEN [i \in DOMAIN d |->
            IF d[i].hash = e.hash THEN WithName(d[i], e.name) ELSE d[i]]
    ELSE Append(d, NewFile(e))

\* readxml() goes to the next name, or to the next <file> element.
AfterName(d) ==
  IF Len(d[1].names) = 1 THEN Tail(d) ELSE [d EXCEPT ![1].names = Tail(@)]

\* What each send() of a handler does when it fails: its result is ignored, it
\* makes the handler return, or it makes the process exit(1).
Plan(op, found, count) ==
  CASE op = "list" -> <<"return", "exit">> \o [i \in 1 .. count |-> "ignore"]
    [] op = "download" /\ found -> <<"ignore", "exit", "exit">>
    [] OTHER -> <<"ignore">>

\* Where a thread stands while it holds the mutex.
Critical == {"scan", "back", "body", "add", "unlink", "create", "write",
             "send", "unlock", "bail"}
PC == Critical \cup {"free", "read", "lock", "wait"}

\* pthread_mutex_lock returns, if G_MUTEX has it called.
MutexFree_Off == TRUE         \* mutant: G_MUTEX = 0
MutexFree == lock = NoThread

\* delete() does not put back the nodes with its digest.
Drops_None(t, e) == FALSE     \* mutant: only the named node goes
Drops(t, e) == req[t].op = "delete" /\ e.hash = md5[t]

\* update() refuses a name it met in the queue.
AfterReceive_Add(t) == "add"  \* mutant: the duplicate check is lost
AfterReceive(t) == IF flag[t] THEN "send" ELSE "add"

\* recv() returned 0, which update() takes for the end.
Ended_Never(t) == FALSE       \* mutant: only negative results end the loop
Ended(t) == conn[t] # "open"

-----------------------------------------------------------------------------
(* Initially: an empty directory, and the daemon not started.              *)

Init ==
  /\ phase = "down" /\ boots = 0 /\ pending = <<>>
  /\ map = <<>> /\ lock = NoThread /\ map_inuse = 0
  /\ index = NoFile /\ xml = NoFile /\ blob = [h \in Hash |-> NoFile]
  /\ term = "off" /\ doc = <<>> /\ atTerm = NoSnapshot
  /\ pc = [t \in Thread |-> "free"]
  /\ conn = [t \in Thread |-> "open"]
  /\ req = [t \in Thread |-> NoReq]
  /\ new = [t \in Thread |-> <<>>]
  /\ flag = [t \in Thread |-> FALSE]
  /\ md5 = [t \in Thread |-> NoHash]
  /\ data = [t \in Thread |-> Torn]
  /\ listed = [t \in Thread |-> <<>>]
  /\ out = [t \in Thread |-> <<>>]

\* The process ends; the directory stays as it is.
Die ==
  /\ phase' = "down" /\ pending' = <<>> /\ UNCHANGED boots
  /\ map' = <<>> /\ lock' = NoThread /\ map_inuse' = 0
  /\ term' = "off" /\ doc' = <<>>
  /\ pc' = [t \in Thread |-> "free"]
  /\ conn' = [t \in Thread |-> "open"]
  /\ req' = [t \in Thread |-> NoReq]
  /\ new' = [t \in Thread |-> <<>>]
  /\ flag' = [t \in Thread |-> FALSE]
  /\ md5' = [t \in Thread |-> NoHash]
  /\ data' = [t \in Thread |-> Torn]
  /\ listed' = [t \in Thread |-> <<>>]
  /\ out' = [t \in Thread |-> <<>>]

Crash == Die /\ atTerm' = NoSnapshot /\ UNCHANGED diskVars

-----------------------------------------------------------------------------
(* main() and readxml() *)

\* main() up to sigaction(SIGTERM): `map' is still NULL.
Boot ==
  /\ phase = "down" /\ boots < MaxBoots
  /\ phase' = "boot" /\ boots' = boots + 1
  /\ UNCHANGED <<pending, map, lockVars, diskVars, termVars, pc, conn, dataVars>>

\* initSqueue, then access(".dedup"): a backup is renamed and parsed.
OpenIndex ==
  /\ phase = "boot" /\ term = "off"
  /\ IF index = NoFile
       THEN phase' = "serve" /\ UNCHANGED <<pending, index, xml>>
       ELSE /\ phase' = "load" /\ pending' = index
            /\ xml' = index /\ index' = NoFile
  /\ UNCHANGED <<boots, map, lockVars, blob, termVars, pc, conn, dataVars>>

\* readxml: open the content file of the next name and append the node.
LoadEntry ==
  /\ phase = "load" /\ term = "off" /\ pending # <<>>
  /\ LET file == Head(pending)
     IN /\ blob[file.hash] # NoFile
        /\ map' = Append(map, [name |-> Head(file.names),
                               content |-> blob[file.hash], hash |-> file.hash])
  /\ pending' = AfterName(pending)
  /\ UNCHANGED <<phase, boots, lockVars, diskVars, termVars, pc, conn, dataVars>>

\* fopen returned NULL, and fseek(NULL) is a segmentation fault.
LoadCrash ==
  /\ phase = "load" /\ term = "off" /\ pending # <<>>
  /\ blob[Head(pending).hash] = NoFile
  /\ Crash

\* The end of readxml: save repository.xml and rename it to .dedup.
LoadDone ==
  /\ phase = "load" /\ term = "off" /\ pending = <<>>
  /\ phase' = "serve" /\ index' = xml /\ xml' = NoFile
  /\ UNCHANGED <<boots, pending, map, lockVars, blob, termVars, pc, conn, dataVars>>

\* The accept loop: a new connection gets a thread.
Accept(t) ==
  /\ phase = "serve" /\ term = "off" /\ pc[t] = "free"
  /\ pc' = [pc EXCEPT ![t] = "read"]
  /\ conn' = [conn EXCEPT ![t] = "open"]
  /\ UNCHANGED <<procVars, map, lockVars, diskVars, termVars, dataVars>>

-----------------------------------------------------------------------------
(* net_thread: the command loop and the lock *)

\* A client that has gone may have sent its command or its content before.
Command(t) ==
  /\ pc[t] = "read" /\ conn[t] \in {"open", "gone"}
  /\ \E r \in Request : req' = [req EXCEPT ![t] = r]
  /\ pc' = [pc EXCEPT ![t] = "lock"]
  /\ UNCHANGED <<procVars, map, lockVars, diskVars, termVars, conn,
                 new, flag, md5, data, listed, out>>

\* The thread ends: on command 0x08, answered by 0x09, or when read() fails.
\* At end of file read() returns 0 and the loop goes round: no step.
Leave(t) ==
  /\ pc[t] = "read" /\ conn[t] \in {"open", "rst"}
  /\ pc' = [pc EXCEPT ![t] = "free"]
  /\ conn' = [conn EXCEPT ![t] = "open"]
  /\ UNCHANGED <<procVars, map, lockVars, diskVars, termVars, dataVars>>

\* The other outcome of a read() that fails: perror() writes to descriptor 2.
\* main() has closed it, and socket() has given it to the listening socket, so
\* that the write raises SIGPIPE.
ReadFails(t) == pc[t] = "read" /\ conn[t] = "rst" /\ Crash

\* pthread_mutex_lock, then the loop on map_inuse.  pthread_cond_wait gives
\* the mutex back; nothing in the program signals lock_cond.
Lock(t) ==
  /\ pc[t] = "lock" /\ MutexFree
  /\ IF map_inuse = 1
       THEN pc' = [pc EXCEPT ![t] = "wait"] /\ UNCHANGED lockVars
       ELSE /\ pc' = [pc EXCEPT ![t] = "scan"]
            /\ lock' = t /\ map_inuse' = 1
  /\ atTerm' = NoSnapshot
  /\ UNCHANGED <<procVars, map, diskVars, term, doc, conn, dataVars>>

\* map_inuse = 0 and pthread_mutex_unlock; the thread whose update() returned
\* 0 leaves the loop and closes its socket.
Unlock(t) ==
  /\ pc[t] \in {"unlock", "bail"}
  /\ lock' = NoThread /\ map_inuse' = 0
  /\ pc' = [pc EXCEPT ![t] = IF @ = "bail" THEN "free" ELSE "read"]
  /\ conn' = [conn EXCEPT ![t] = IF pc[t] = "bail" THEN "open" ELSE @]
  /\ req' = [req EXCEPT ![t] = NoReq]
  /\ flag' = [flag EXCEPT ![t] = FALSE]
  /\ data' = [data EXCEPT ![t] = Torn]
  /\ listed' = [listed EXCEPT ![t] = <<>>]
  /\ UNCHANGED <<procVars, map, diskVars, termVars, new, md5, out>>

-----------------------------------------------------------------------------
(* The two loops every handler runs over the queue *)

\* First loop: take the first node off the queue.  delete() drops the node it
\* looks for, with its content file; everything else goes to `new'.
Scan(t) ==
  /\ pc[t] = "scan" /\ map # <<>>
  /\ LET e == Head(map)
         hit == e.name = req[t].name
     IN /\ flag' = [flag EXCEPT ![t] = @ \/ hit]
        /\ IF hit /\ req[t].op = "delete"
             THEN /\ blob' = [blob EXCEPT ![e.hash] = NoFile]
                  /\ md5' = [md5 EXCEPT ![t] = e.hash]
                  /\ UNCHANGED new
             ELSE /\ new' = [new EXCEPT ![t] = Append(@, e)]
                  /\ UNCHANGED <<blob, md5>>
        /\ data' = [data EXCEPT ![t] = IF hit /\ req[t].op = "download"
                                         THEN e.content ELSE @]
  /\ map' = Tail(map)
  /\ UNCHANGED <<procVars, lockVars, index, xml, termVars, pc, conn, req,
                 listed, out>>

\* A delete() that found nothing goes on with an uninitialised `md5': the slot
\* holds the digest deleted last on this stack (an exited thread's stack is
\* reused as it is), or a string that is no digest.
Uninitialised(t) ==
  IF req[t].op = "delete" /\ ~flag[t] THEN {md5[t], NoHash} ELSE {md5[t]}

ScanEnd(t) ==
  /\ pc[t] = "scan" /\ map = <<>>
  /\ pc' = [pc EXCEPT ![t] = "back"]
  /\ \E h \in Uninitialised(t) : md5' = [md5 EXCEPT ![t] = h]
  /\ out' = [out EXCEPT ![t] = Plan(req[t].op, flag[t], Len(new[t]))]
  /\ UNCHANGED <<procVars, map, lockVars, diskVars, termVars, conn, req, new,
                 flag, data, listed>>

\* Second loop: put the nodes back.  delete() drops those with its `md5'.
Back(t) ==
  /\ pc[t] = "back" /\ new[t] # <<>>
  /\ LET e == Head(new[t])
     IN /\ map' = IF Drops(t, e) THEN map ELSE Append(map, e)
        /\ listed' = [listed EXCEPT ![t] = IF req[t].op = "list"
                                             THEN Append(@, e.name) ELSE @]
  /\ new' = [new EXCEPT ![t] = Tail(@)]
  /\ UNCHANGED <<procVars, lockVars, diskVars, termVars, pc, conn, req, flag,
                 md5, data, out>>

BackEnd(t) ==
  /\ pc[t] = "back" /\ new[t] = <<>>
  /\ pc' = [pc EXCEPT ![t] = IF req[t].op = "update" THEN "body" ELSE "send"]
  /\ UNCHANGED <<procVars, map, lockVars, diskVars, termVars, conn, dataVars>>

\* The other outcome of the uninitialised pointers: strcmp(.., md5) in delete()
\* and printf("%s", filename) in download() of a name that is not there.
MissCrash(t) ==
  /\ pc[t] = "back" /\ ~flag[t]
  /\ \/ req[t].op = "delete" /\ new[t] # <<>>
     \/ req[t].op = "download" /\ new[t] = <<>>
  /\ Crash

-----------------------------------------------------------------------------
(* update(): receive the content, store the node, write the content file *)

Receive(t) ==
  /\ pc[t] = "body" /\ conn[t] \in {"open", "gone"}
  /\ \E c \in Content : data' = [data EXCEPT ![t] = c]
  /\ pc' = [pc EXCEPT ![t] = AfterReceive(t)]
  /\ UNCHANGED <<procVars, map, lockVars, diskVars, termVars, conn, req, new,
                 flag, md5, listed, out>>

\* recv() returned 0: update() returns 0.
ReceiveEnd(t) ==
  /\ pc[t] = "body" /\ Ended(t)
  /\ pc' = [pc EXCEPT ![t] = "bail"]
  /\ out' = [out EXCEPT ![t] = <<>>]
  /\ UNCHANGED <<procVars, map, lockVars, diskVars, termVars, conn, req, new,
                 flag, md5, data, listed>>

Add(t) ==
  /\ pc[t] = "add"
  /\ map' = Append(map, [name |-> req[t].name, content |-> data[t],
                         hash |-> HashOf(data[t])])
  /\ pc' = [pc EXCEPT ![t] = "unlink"]
  /\ UNCHANGED <<procVars, lockVars, diskVars, termVars, conn, dataVars>>

Unlink(t) ==
  /\ pc[t] = "unlink"
  /\ blob' = [blob EXCEPT ![HashOf(data[t])] = NoFile]
  /\ pc' = [pc EXCEPT ![t] = "create"]
  /\ UNCHANGED <<procVars, map, lockVars, index, xml, termVars, conn, dataVars>>

Create(t) ==
  /\ pc[t] = "create"
  /\ blob' = [blob EXCEPT ![HashOf(data[t])] = Torn]
  /\ pc' = [pc EXCEPT ![t] = "write"]
  /\ UNCHANGED <<procVars, map, lockVars, index, xml, termVars, conn, dataVars>>

\* fopen returned NULL: the node stays, the client is told 0x03.
CreateFails(t) ==
  /\ "nospace" \in Faults
  /\ pc[t] = "create"
  /\ pc' = [pc EXCEPT ![t] = "send"]
  /\ UNCHANGED <<procVars, map, lockVars, diskVars, termVars, conn, dataVars>>

Write(t) ==
  /\ pc[t] = "write"
  /\ blob' = [blob EXCEPT ![HashOf(data[t])] = data[t]]
  /\ pc' = [pc EXCEPT ![t] = "send"]
  /\ UNCHANGED <<procVars, map, lockVars, index, xml, termVars, conn, dataVars>>

-----------------------------------------------------------------------------
(* send().  The first send to a client that closed its socket succeeds and  *)
(* brings a reset back; a send after that raises SIGPIPE, which nobody      *)
(* handles.  A reset that is not reported yet makes one send return -1.     *)

Send(t) ==
  /\ pc[t] = "send" /\ out[t] # <<>>
  /\ \/ /\ conn[t] \in {"open", "gone"}
        /\ out' = [out EXCEPT ![t] = Tail(@)]
     \/ /\ conn[t] = "rst" /\ Head(out[t]) # "exit"
        /\ out' = [out EXCEPT ![t] = IF Head(@) = "return" THEN <<>> ELSE Tail(@)]
  /\ conn' = [conn EXCEPT ![t] = IF @ = "open" THEN "open" ELSE "reset"]
  /\ UNCHANGED <<procVars, map, lockVars, diskVars, termVars, pc, req, new, flag,
                 md5, data, listed>>

SendKills(t) ==
  /\ pc[t] = "send" /\ out[t] # <<>>
  /\ \/ conn[t] = "reset"
     \/ conn[t] = "rst" /\ Head(out[t]) = "exit"
  /\ Crash

SendEnd(t) ==
  /\ pc[t] = "send" /\ out[t] = <<>>
  /\ pc' = [pc EXCEPT ![t] = "unlock"]
  /\ UNCHANGED <<procVars, map, lockVars, diskVars, termVars, conn, dataVars>>

-----------------------------------------------------------------------------
(* term(): the SIGTERM handler.  It runs on the main thread and takes no    *)
(* lock, so the other threads go on working on the queue.                   *)

\* Every node's content is in its content file.
OnDisk == \A e \in ToSet(map) : blob[e.hash] = e.content

TermBegin ==
  /\ "sigterm" \in Faults
  /\ phase # "down" /\ term = "off"
  /\ index' = NoFile
  /\ term' = "record" /\ doc' = <<>>
  /\ UNCHANGED <<procVars, map, lockVars, xml, blob, pc, conn, dataVars>>

TermStart ==
  /\ TermBegin
  /\ atTerm' = IF phase = "serve" /\ lock = NoThread /\ OnDisk
                 THEN ToSet(map) ELSE NoSnapshot

\* Before initSqueue, (map)->first dereferences NULL.
TermCrash ==
  /\ "sigterm" \in Faults
  /\ phase = "boot"
  /\ index' = NoFile
  /\ Die /\ atTerm' = NoSnapshot /\ UNCHANGED <<xml, blob>>

TermRecord ==
  /\ term = "record"
  /\ IF map = <<>> THEN term' = "save" /\ UNCHANGED doc
                   ELSE term' = "pop" /\ doc' = AddToDoc(doc, Head(map))
  /\ UNCHANGED <<procVars, map, lockVars, diskVars, atTerm, pc, conn, dataVars>>

TermPop ==
  /\ term = "pop" /\ map # <<>>
  /\ map' = Tail(map) /\ term' = "record"
  /\ UNCHANGED <<procVars, lockVars, diskVars, doc, atTerm, pc, conn, dataVars>>

\* leaveFront() of a queue that a thread has emptied meanwhile, or the data
\* race between the handler's list surgery and a thread's.
TermRaceCrash ==
  /\ \/ term = "pop" /\ map = <<>>
     \/ term \in {"record", "pop"}
          /\ \E t \in Thread : pc[t] \in {"scan", "back", "add"}
  /\ Crash

TermSave ==
  /\ term = "save"
  /\ xml' = doc /\ term' = "rename"
  /\ UNCHANGED <<procVars, map, lockVars, index, blob, doc, atTerm, pc, conn, dataVars>>

\* rename to .dedup, and exit(1).
TermExit ==
  /\ term = "rename"
  /\ index' = xml /\ xml' = NoFile
  /\ Die /\ UNCHANGED <<blob, atTerm>>

-----------------------------------------------------------------------------
(* The environment *)

Hangup(t) ==
  /\ "hangup" \in Faults
  /\ pc[t] # "free" /\ conn[t] = "open"
  /\ \E c \in {"gone", "rst"} : conn' = [conn EXCEPT ![t] = c]
  /\ UNCHANGED <<procVars, map, lockVars, diskVars, termVars, pc, dataVars>>

Kill == "sigkill" \in Faults /\ phase # "down" /\ Crash

-----------------------------------------------------------------------------

\* The steps a thread takes by itself once it has been given a command.
Handle(t) ==
  \/ Scan(t) \/ ScanEnd(t) \/ Back(t) \/ BackEnd(t) \/ MissCrash(t)
  \/ Receive(t) \/ ReceiveEnd(t) \/ Add(t)
  \/ Unlink(t) \/ Create(t) \/ CreateFails(t) \/ Write(t)
  \/ Send(t) \/ SendKills(t) \/ SendEnd(t) \/ Unlock(t)

Main == Boot \/ OpenIndex \/ LoadEntry \/ LoadCrash \/ LoadDone

Term == \/ TermStart \/ TermCrash \/ TermRecord \/ TermPop
        \/ TermRaceCrash \/ TermSave \/ TermExit

Next ==
  \/ Main
  \/ Term
  \/ Kill
  \/ \E t \in Thread :
       \/ Accept(t) \/ Command(t) \/ Leave(t) \/ ReadFails(t)
       \/ Lock(t) \/ Handle(t) \/ Hangup(t)

Spec == Init /\ [][Next]_vars

\* The handler stands in a call that only its client can end: recv() of the
\* content, or a send() that a client who does not read lets block.  No socket
\* has a timeout.
Waits(t) ==
  /\ conn[t] = "open"
  /\ pc[t] = "body" \/ (pc[t] = "send" /\ out[t] # <<>>)

\* A handler that is given the processor goes on wherever it does not wait for
\* its client.  Of the client nothing is assumed: it may neither go on nor close.
FairSpec == Spec /\ \A t \in Thread : WF_vars(~Waits(t) /\ Handle(t))

-----------------------------------------------------------------------------
(* Properties *)

SharedOK ==
  /\ phase \in {"down", "boot", "load", "serve"}
  /\ boots \in 0 .. MaxBoots /\ pending \in Seq(File)
  /\ map \in Seq(Entry)
  /\ lock \in Thread \cup {NoThread} /\ map_inuse \in {0, 1}

DiskOK ==
  /\ index \in Seq(File) \cup {NoFile} /\ xml \in Seq(File) \cup {NoFile}
  /\ blob \in [Hash -> Content \cup {NoFile, Torn}]

TermOK ==
  /\ term \in {"off", "record", "pop", "save", "rename"}
  /\ doc \in Seq(File)
  /\ atTerm \in (SUBSET Entry) \cup {NoSnapshot}

ControlOK ==
  /\ pc \in [Thread -> PC]
  /\ conn \in [Thread -> {"open", "gone", "rst", "reset"}]
  /\ req \in [Thread -> Request \cup {NoReq}]
  /\ flag \in [Thread -> BOOLEAN]

LocalsOK ==
  /\ new \in [Thread -> Seq(Entry)]
  /\ md5 \in [Thread -> Hash \cup {NoHash}]
  /\ data \in [Thread -> Content \cup {Torn}]
  /\ listed \in [Thread -> Seq(Name)]
  /\ out \in [Thread -> Seq({"ignore", "return", "exit"})]

\* The shapes of the state: a queue holds nodes, .dedup holds <file> elements,
\* and a thread stands somewhere in net_thread.
TypeOK == SharedOK /\ DiskOK /\ TermOK /\ ControlOK /\ LocalsOK

\* map_inuse is set exactly while some thread holds the mutex, the thread that
\* holds it is the one inside a handler, and so no thread ever sleeps on
\* lock_cond, which nothing signals: the wait loops of net_thread are safe only
\* because the flag says nothing that the mutex does not.
LockDiscipline ==
  /\ map_inuse = IF lock = NoThread THEN 0 ELSE 1
  /\ \A t \in Thread : pc[t] \in Critical <=> lock = t
  /\ \A t \in Thread : pc[t] # "wait"

\* The queue and the private queues: the main one is named NoThread.
Queue(p) == IF p = NoThread THEN map ELSE new[p]
Place == Thread \cup {NoThread}

\* The entries of the repository, wherever the handlers have moved them: what
\* clients can see once the handlers are done.
Entries == UNION {ToSet(Queue(p)) : p \in Place}

\* A name is in the repository once, wherever the handlers' queues stand.
UniqueNames ==
  \A p, q \in Place : \A i \in DOMAIN Queue(p), j \in DOMAIN Queue(q) :
    Queue(p)[i].name = Queue(q)[j].name => p = q /\ i = j

\* Somebody is replacing the file of digest h.
Rewriting(h) ==
  \E t \in Thread : pc[t] \in {"create", "write"} /\ HashOf(data[t]) = h

\* The file of digest h is about to be cleaned up: a delete removed it and has
\* not finished its second loop.
Deleting(h) ==
  \E t \in Thread :
    pc[t] \in {"scan", "back"} /\ req[t].op = "delete" /\ flag[t] /\ md5[t] = h

\* Deduplication: every entry, under any of the names that share a content, has
\* its content on disk, unless a handler that holds the mutex is in the middle
\* of replacing or deleting that very digest.  This is what makes the backup
\* readable after an orderly shutdown.
Backed ==
  \A e \in Entries :
    \/ blob[e.hash] = e.content
    \/ Rewriting(e.hash) \/ Deleting(e.hash)
    \/ \E t \in Thread : pc[t] = "unlink" /\ HashOf(data[t]) = e.hash

\* A content is only ever kept under its own digest, in memory and on disk,
\* also across restarts: downloads return what was uploaded, and two names
\* share a file only when their contents have the same digest.
ContentAddressed ==
  /\ \A e \in Entries : e.content # Torn => Md5[e.content] = e.hash
  /\ \A h \in Hash : blob[h] \in Content => Md5[blob[h]] = h

\* When delete() answers 0x05, nothing is left of the file: no node with the
\* name, no other name of the same digest, and no content file.
DeleteComplete ==
  \A t \in Thread :
    pc[t] \in {"send", "unlock"} /\ req[t].op = "delete" /\ flag[t] =>
      /\ blob[md5[t]] = NoFile
      /\ \A e \in Entries : e.name # req[t].name /\ e.hash # md5[t]

\* A quiet SIGTERM loses nothing that is on disk.  If every node had its content
\* file, and no handler ran between SIGTERM and exit, then while the next start
\* reads the backup, and until a client's first command, the queue and the names
\* still to read are what was there before, contents included.
RestartRestores ==
  atTerm # NoSnapshot /\ term = "off" /\ phase \in {"load", "serve"} =>
    atTerm = ToSet(map) \cup
      UNION {{[name |-> n, content |-> blob[file.hash], hash |-> file.hash] :
                n \in ToSet(file.names)} : file \in ToSet(pending)}

\* A handler gives the mutex back, or is for ever in a call that its client, who
\* neither goes on nor closes, does not let return.  A client that closes or
\* resets its connection at any point does not keep the mutex with it.
LockReleased ==
  \A t \in Thread : lock = t ~> (lock # t \/ []Waits(t))

\* server.c:419, "if not find the file, send a SERROR": a delete of a name that
\* is not there leaves the repository as it is.
MissIsHarmless ==
  [][\A t \in Thread :
       pc[t] = "back" /\ req[t].op = "delete" /\ ~flag[t]
         => Entries' = Entries]_vars

\* server.c:172, "if it has, read data from the backup file": when a start finds
\* a backup, it can read it.
BackupReadable ==
  phase = "load" => \A file \in ToSet(pending) : blob[file.hash] # NoFile

=============================================================================
